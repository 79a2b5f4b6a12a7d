\* Paging deep listings (no delimiter): every key once, in key order.
CONSTANTS
    Trees <- MCTrees
    PrefixParams <- MCPrefixes
    Delims = {"absent"}
    Limits = {1, 2, 100}
SPECIFICATION Spec
INVARIANT PaginationVisitsEachOnce
