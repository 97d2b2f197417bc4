\* Small payloads, up to the limit of a page.
CONSTANTS
    Jobs <- AllJobs
SPECIFICATION Spec
\* A payload is built once.
CHECK_DEADLOCK FALSE

INVARIANTS
    LayoutInv
    WordsApart
    WordsReachable
    TextApart
    RefusalsJustified
