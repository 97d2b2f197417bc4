\* Every short path.
CONSTANTS
    Chars <- Letters
    Slash = "/"
    Nul = "nul"
    Basename <- Name
    Paths <- ShortPaths
SPECIFICATION Spec
\* The resolver goes on elsewhere once there is a verdict.
CHECK_DEADLOCK FALSE

INVARIANTS
    ReadsInside
    VerdictExact
    ScanInv
PROPERTIES
    ScanEnds
