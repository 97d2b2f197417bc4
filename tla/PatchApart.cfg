\* Two overlapping runs with different outputs.
CONSTANTS
    r1 = r1
    r2 = r2
    ipa = ipa
    other = other
    out = out
    b1 = b1
    b2 = b2
    v1 = v1
    unknown = unknown
    null = null
    Runs <- TwoRuns
    Invocations <- Apart
    Names <- AllNames
    Bridges <- TwoBridges
    Supported <- Known
    Given <- TwoIpas
    MaxFaults = 2
    Null = null
SPECIFICATION Spec

INVARIANTS
    OwnedTemporaries
PROPERTIES
    PublishedWhole
    CheckedThenPublished
    InputsPreserved
