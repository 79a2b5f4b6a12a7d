\* Paging listings with a delimiter: every entry once, in key order.
CONSTANTS
    Trees <- MCTrees
    PrefixParams <- MCPrefixes
    Delims = {"slash", "empty", "other"}
    Limits = {1, 2, 100}
SPECIFICATION Spec
INVARIANT PaginationVisitsEachOnce
