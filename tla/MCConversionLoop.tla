-------------------------- MODULE MCConversionLoop --------------------------
(***************************************************************************)
(* Inputs and options for model-checking the conversion loop.              *)
(***************************************************************************)
EXTENDS ConversionLoop

V(units, step) == [stream |-> "video", units |-> units, step |-> step, early |-> FALSE, bad |-> FALSE]
A(units) == [stream |-> "audio", units |-> units, step |-> 0, early |-> FALSE, bad |-> FALSE]

(* With twenty units in a frame: a frame on time, one that comes too soon, one *)
(* a little late (29, just not corrected after a frame on time), one after a   *)
(* gap, two in a packet (after which 8 is just not dropped); one chunk of      *)
(* audio or two; another stream; packets that cannot be decoded, and packets   *)
(* before the start time.                                                      *)
MCPackets ==
    {V(1, 20), V(1, 8), V(1, 29), V(1, 50), V(2, 20),
     A(1), A(2), [A(1) EXCEPT !.stream = "other"]}
        \cup {[p EXCEPT !.bad = TRUE] : p \in {V(1, 20), A(1)}}
        \cup {[p EXCEPT !.early = TRUE] : p \in {V(1, 20), A(1)}}

J(mode, delay, frames, samples) ==
    [mode |-> mode, delay |-> delay, sync |-> TRUE, start |-> FALSE,
     frames |-> frames, samples |-> samples]

(* With and without a delaying decoder, start time, sync and end time; the end *)
(* falls on a chunk of audio (4) or into one (3).                              *)
MCJobs ==
    {J("av", 0, 0, 0), J("av", 1, 0, 0), J("av", 0, 1, 3), J("av", 1, 1, 4),
     J("video_only", 1, 2, 0), J("audio_only", 0, 0, 0), J("audio_only", 0, 0, 4),
     [J("av", 1, 0, 0) EXCEPT !.start = TRUE],
     [J("av", 0, 1, 4) EXCEPT !.sync = FALSE]}

(* A decoder that delays frames, no end time.                                  *)
DelayJobs == {J("video_only", 2, 0, 0)}

(* An end time after three frames, in default settings.                        *)
EndTimeJobs == {J("video_only", 0, 2, 0)}
=============================================================================
