\* One run, called again after kills and failures.
CONSTANTS
    r1 = r1
    r2 = r2
    ipa = ipa
    other = other
    out = out
    b1 = b1
    b2 = b2
    v1 = v1
    unknown = unknown
    null = null
    Runs <- OneRun
    Invocations <- Again
    Names <- AllNames
    Bridges <- TwoBridges
    Supported <- Known
    Given <- TwoIpas
    MaxFaults = 3
    Null = null
SPECIFICATION FairSpec

INVARIANTS
    PatchTypeOK
PROPERTIES
    PublishedWhole
    CleanAfterSuccess
    RerunPublishes
