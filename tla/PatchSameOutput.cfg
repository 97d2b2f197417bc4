\* Two overlapping runs with the same output.
CONSTANTS
    r1 = r1
    r2 = r2
    ipa = ipa
    other = other
    out = out
    b1 = b1
    b2 = b2
    v1 = v1
    unknown = unknown
    null = null
    Runs <- TwoRuns
    Invocations <- SameOutput
    Names <- AllNames
    Bridges <- TwoBridges
    Supported <- Known
    Given <- TwoIpas
    MaxFaults = 0
    Null = null
SPECIFICATION Spec

PROPERTIES
    CheckedThenPublished
