------------------------------- MODULE MCMake -------------------------------
(***************************************************************************)
(* Two sources for libass, one bridge for each closure.                    *)
(***************************************************************************)
EXTENDS MakeProgress

CONSTANTS fri, ass, f9, f4, d1, LibASS, LibFFmpeg, LibFFmpegCore

\* make, make bridge, make verify, the bootstrap with --force, a core closure
\* that is built alone, and build_deps.py --verify-only.
Targets == {MakeAll, <<<<"bridges", 1>>>>, <<<<"checks", 1>>>>, <<<<"keystone", "force">>>>,
            <<<<"ffmpeg-core", 0>>>>, <<<<"verify", "libass">>>>}
\* The scaler's closure is built alone, or the core closure.
ScalerAlone == {MakeAll, <<<<"ffmpeg", 0>>>>}
CoreAlone == {MakeAll, <<<<"ffmpeg-core", 0>>>>}

\* Every pin may change, that of the core FFmpeg in two ways: the versions are
\* like 4.4.10, 4.5 and 4.4.1.
AnyPin == (Sources \X {1} \X {2}) \cup {<<f4, 1, 3>>}
Occurring == [v \in 0..3 |-> IF v = 0 THEN {} ELSE IF v = 1 THEN {1, 3} ELSE {v}]

LibassOrder == <<fri, ass>>
Manifest == <<LibASS, LibFFmpeg, LibFFmpegCore>>
Carrier == [b \in {LibASS, LibFFmpeg, LibFFmpegCore} |->
    IF b = LibASS THEN "libass" ELSE IF b = LibFFmpeg THEN "ffmpeg" ELSE "ffmpeg-core"]
=============================================================================
