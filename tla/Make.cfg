\* make bootstrap deps bridge, over a change of one pin and two faults.
CONSTANTS
    fri = fri
    ass = ass
    f9 = f9
    f4 = f4
    d1 = d1
    LibASS = LibASS
    LibFFmpeg = LibFFmpeg
    LibFFmpegCore = LibFFmpegCore
    BuildOrder <- LibassOrder
    Ffmpeg = f9
    FfmpegCore = f4
    Dav1d = d1
    NamedIn <- Occurring
    MaxVersion = 3
    Commits <- AnyPin
    MaxMoved = 1
    BridgeOrder <- Manifest
    ClosureOf <- Carrier
    Commands <- Targets
    MaxFaults = 2
SPECIFICATION FairSpec

INVARIANTS
    MakeInv
    MadeIsPinned
PROPERTIES
    UnpackedIsPinned
    CoreReportInRelease
    MakeRecovers
