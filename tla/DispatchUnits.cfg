\* Two threads, fairly scheduled, and two units.
CONSTANTS
    t1 = t1
    t2 = t2
    t3 = t3
    app = app
    bridge = bridge
    twin = twin
    null = null
    Threads <- TwoThreads
    Units <- TwoUnits
    Count <- CountTwo
    Images <- AllImages
    App = app
    NamedFor <- NamedTwo
    Null = null
SPECIFICATION FairSpec

PROPERTIES
    PublishedIsFinal
    ImplementsArbitration
    EveryCallServed
