\* Three threads race for one unit of two APIs.
CONSTANTS
    t1 = t1
    t2 = t2
    t3 = t3
    app = app
    bridge = bridge
    twin = twin
    null = null
    Threads <- ThreeThreads
    Units <- OneUnit
    Count <- CountOne
    Images <- AllImages
    App = app
    NamedFor <- NamedOne
    Null = null
SPECIFICATION Spec
SYMMETRY ThreadSymmetry
INVARIANTS
    OneImagePerUnit
    NewIsOneNamedImage
    CallIntegrity
    OneInitializer
    DispatchInv
