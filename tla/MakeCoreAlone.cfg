\* The core closure is built alone after its pin has changed.
CONSTANTS
    fri = fri
    ass = ass
    f9 = f9
    f4 = f4
    d1 = d1
    LibASS = LibASS
    LibFFmpeg = LibFFmpeg
    LibFFmpegCore = LibFFmpegCore
    BuildOrder <- LibassOrder
    Ffmpeg = f9
    FfmpegCore = f4
    Dav1d = d1
    NamedIn <- Occurring
    MaxVersion = 3
    Commits <- AnyPin
    MaxMoved = 1
    BridgeOrder <- Manifest
    ClosureOf <- Carrier
    Commands <- CoreAlone
    MaxFaults = 0
SPECIFICATION Spec

PROPERTIES
    CoreReportNamesSource
