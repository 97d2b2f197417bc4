\* Every small job over every small text.
CONSTANTS
    HalfRange = 8
    Addresses <- Text
    Baselines <- Clean
    Jobs <- Work
    Strays <- Damage
    None = None
SPECIFICATION Spec
\* npa-patch stops at a verdict.
CHECK_DEADLOCK FALSE

INVARIANTS
    OutputExact
    AcceptedExact
    PreflightSuffices
    RejectionsJustified
    RewriteInv
