\* Every request shape: dispatch follows the classifier table, and ranges
\* that the spec defines are answered as it says.
CONSTANTS
    UsizeMod = 16
    Requests <- MCRequests
SPECIFICATION Spec
INVARIANT RoutesFollowTable RangeAsSpecified
