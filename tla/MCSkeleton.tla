----------------------------- MODULE MCSkeleton -----------------------------
(***************************************************************************)
(* The inputs for model-checking the headers and the Skeleton track: audio *)
(* only, video only, both, and both with subtitles.                        *)
(***************************************************************************)
EXTENDS Skeleton

MCInputs == {{Vorbis}, {Theora}, {Theora, Vorbis, 0}, {Theora, 0, 1}}
=============================================================================
