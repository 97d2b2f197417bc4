\* The closure of the scaler is built alone after a change of its pin.
CONSTANTS
    fri = fri
    ass = ass
    f9 = f9
    f4 = f4
    d1 = d1
    LibASS = LibASS
    LibFFmpeg = LibFFmpeg
    LibFFmpegCore = LibFFmpegCore
    BuildOrder <- LibassOrder
    Ffmpeg = f9
    FfmpegCore = f4
    Dav1d = d1
    NamedIn <- Occurring
    MaxVersion = 3
    Commits <- AnyPin
    MaxMoved = 1
    BridgeOrder <- Manifest
    ClosureOf <- Carrier
    Commands <- ScalerAlone
    MaxFaults = 0
SPECIFICATION Spec

PROPERTIES
    ScalerReportNamesSource
