--------------------------- MODULE ConversionLoop ---------------------------
(***************************************************************************)
(* The conversion loop of ff2theora_output (src/src/ffmpeg2theora.c): one  *)
(* packet of the input per turn goes to the video decoder, the audio       *)
(* decoder or nowhere, and what they return to the encoders through        *)
(* oggmux_add_video and oggmux_add_audio.                                  *)
(*                                                                         *)
(* A video frame is held back for one turn (output_buffered), so that the  *)
(* last one can be marked e_o_s. Frames are dropped and repeated to follow *)
(* the decoding times of the input (--nosync switches that off). An end    *)
(* time counts frames and samples. A turn of either `while` is one step,   *)
(* and so is everything before and after them.                             *)
(*                                                                         *)
(* The decoders are external: the video decoder holds `delay` frames back  *)
(* and returns them for empty packets at the end; given a packet of        *)
(* another stream it fails or swallows it. Times are in a unit that        *)
(* measures both a frame of the output (FrameTime) and the time base of    *)
(* the input; the code computes them as doubles, without such a unit.      *)
(***************************************************************************)
EXTENDS Integers, Sequences

CONSTANTS
    Jobs,          \* options and inputs, see Job
    InputPackets,  \* the packets an input may have, see Arrival
    Passes,        \* first values of passno: 0 one pass, 1 two passes
    FrameTime,     \* time of a frame of the output, 1 / framerate
    ChunkSamples,  \* samples of a decoded audio frame, resampled
    Keyint,        \* this many duplicates are too many for libtheora
    MaxPackets     \* bound: packets of the input

(* delay: frames the video decoder holds back. sync: not --nosync. start: a    *)
(* start time is given. frames and samples: no_frames and no_samples, both 0   *)
(* when there is no end time ("End time has to be bigger than start time").    *)
Job == {j \in [mode : {"av", "video_only", "audio_only"}, delay : Nat, sync : BOOLEAN,
               start : BOOLEAN, frames : Nat, samples : Nat] :
           /\ j.mode = "av" => (j.frames = 0 <=> j.samples = 0)
           /\ j.mode = "video_only" => j.samples = 0
           /\ j.mode = "audio_only" => j.frames = 0}

(* units: frames in the packet. step: from the decoding time of the last video *)
(* packet. early: before the start time. bad: the decoder fails on it.         *)
Arrival == [stream : {"video", "audio", "other"}, units : Nat \ {0}, step : Nat,
            early : BOOLEAN, bad : BOOLEAN]

ASSUME LoopAssumption ==
    /\ Jobs \subseteq Job
    /\ InputPackets \subseteq Arrival
    /\ Passes \subseteq {0, 1}
    /\ FrameTime \in Nat \ {0} /\ ChunkSamples \in Nat \ {0} /\ Keyint \in Nat \ {0}
    /\ MaxPackets \in Nat

VARIABLES
    job,           \* options and input, fixed
    passno,        \* 0, or 1 then 2
    pc,            \* "read", "video", "audio", "flush" or "done"
    input,         \* the packets of the file that the first pass has read
    whole,         \* av_read_frame has failed: input is the whole file
    read,          \* packets read in this pass
    clock,         \* decoding time of the last video packet
    pkt,           \* pkt and avpkt: the units still in it, its decoding time
    synced,        \* the start time is reached
    eos,           \* video_eos and audio_eos
    done,          \* video_done and audio_done
    decoder,       \* frames the video decoder holds
    decoded,       \* frames and chunks decoded so far, which number them
    buffered,      \* output_buffered; frame 0 while `first`
    frame_count, sample_count,
    pts_offset,    \* pts_offset and pts_offset_frame, << >> before they are set
    dst_nb_samples,
    audio_p,       \* the chunk audio_p points to, 0 before there is one
    accepted,      \* history: frames copied to output_buffered
    video,         \* history: calls of oggmux_add_video
    audio,         \* history: calls of oggmux_add_audio
    pass1          \* history: the calls of oggmux_add_video in the first pass

coded == <<buffered, frame_count, pts_offset, accepted, video>>
sounded == <<sample_count, dst_nb_samples, audio_p, audio>>
source == <<input, whole, read, clock>>
fixed == <<job, passno, pass1>>
vars == <<fixed, pc, source, pkt, synced, eos, done, decoder, decoded, coded, sounded>>

-----------------------------------------------------------------------------
(* av_read_frame fails: no data, no time.                                      *)
EndOfFile == [stream |-> "eof", units |-> 0, dts |-> 0, bad |-> FALSE]

HasVideo == job.mode # "audio_only"
HasAudio == job.mode # "video_only"

(* The packets of this input: video and audio only of the streams chosen.      *)
Packets ==
    {a \in InputPackets : /\ a.stream = "video" => HasVideo
                          /\ a.stream = "audio" => HasAudio
                          /\ a.early => job.start}

DoneAtStart(p) == [video |-> ~HasVideo, audio |-> ~HasAudio \/ p = 1]

(* dst_nb_samples has no initial value, unless the audio is converted.         *)
Init ==
    /\ job \in Jobs
    /\ passno \in Passes
    /\ passno = 1 => HasVideo
    /\ input = << >> /\ whole = FALSE
    /\ frame_count = 0 /\ sample_count = 0 /\ pts_offset = << >>
    /\ pass1 = << >>
    /\ pc = "read" /\ read = 0 /\ clock = 0 /\ pkt = EndOfFile
    /\ synced = ~job.start
    /\ eos = [video |-> FALSE, audio |-> FALSE] /\ done = DoneAtStart(passno)
    /\ decoder = << >> /\ decoded = [video |-> 0, audio |-> 0]
    /\ buffered = [frame |-> 0, dts |-> 0]
    /\ dst_nb_samples \in {0, ChunkSamples} /\ audio_p = 0
    /\ accepted = << >> /\ video = << >> /\ audio = << >>

-----------------------------------------------------------------------------
(* av_read_frame: in a second pass the file is the same again.                 *)
Arrivals == IF read < Len(input) THEN {input[read + 1]}
            ELSE IF whole \/ read = MaxPackets THEN {} ELSE Packets

Read(a) ==
    /\ read' = read + 1
    /\ input' = IF passno = 1 THEN Append(input, a) ELSE input
    /\ clock' = IF a.stream = "video" THEN clock + a.step ELSE clock
    /\ UNCHANGED whole

(* The packet as it arrives, with its decoding time.                           *)
Packet(a) == [stream |-> a.stream, units |-> a.units, dts |-> clock + a.step, bad |-> a.bad]

(* Mutant: the input ending does not open the section.                         *)
EnterVideoOnPacket(p, video_eos) == p.stream = "video"

EnterVideo(p, video_eos) == (video_eos /\ ~done.video) \/ p.stream = "video"

EnterAudio(p, audio_eos) ==
    passno # 1 /\ ((audio_eos /\ ~done.audio) \/ p.stream = "audio")

Section(p, e) == CASE EnterVideo(p, e.video)                          -> "video"
                   [] ~EnterVideo(p, e.video) /\ EnterAudio(p, e.audio)  -> "audio"
                   [] ~EnterVideo(p, e.video) /\ ~EnterAudio(p, e.audio) -> "flush"

(* "check for end time": an equality, once per packet.                         *)
EndReached == job.frames > 0 /\ frame_count = job.frames

(* "pipe data to decoder, needed to have first frame decoded in case its not   *)
(* a keyframe": what the decoder returns for it is not used. Then `continue`.  *)
ReadEarly ==
    /\ pc = "read"
    /\ \E a \in Arrivals :
          /\ ~synced /\ a.early
          /\ Read(a)
          /\ IF a.stream = "video" /\ ~a.bad
             THEN /\ decoded' = [decoded EXCEPT !.video = @ + 1]
                  /\ LET q == Append(decoder, decoded.video + 1)
                     IN  decoder' = IF Len(q) > job.delay THEN Tail(q) ELSE q
             ELSE UNCHANGED <<decoded, decoder>>
    /\ UNCHANGED <<fixed, pc, pkt, synced, eos, done, coded, sounded>>

ReadPacket ==
    /\ pc = "read"
    /\ \E a \in Arrivals :
          /\ synced \/ ~a.early
          /\ Read(a)
          /\ pkt' = Packet(a)
          /\ eos' = [eos EXCEPT !.video = @ \/ EndReached]
          /\ pc' = Section(pkt', eos')
    /\ synced' = TRUE
    /\ UNCHANGED <<fixed, done, decoder, decoded, coded, sounded>>

ReadFails ==
    /\ pc = "read"
    /\ read >= Len(input) /\ whole' = TRUE
    /\ pkt' = EndOfFile
    /\ eos' = [video |-> HasVideo, audio |-> HasAudio]
    /\ pc' = Section(pkt', eos')
    /\ UNCHANGED <<fixed, input, read, clock, synced, done, decoder, decoded, coded, sounded>>

-----------------------------------------------------------------------------
(* while (video_eos || avpkt.size > 0) *)

(* What avcodec_decode_video2 may do with avpkt: the frame it returns, or 0,   *)
(* what it then holds, and the units left in the packet. On failure the        *)
(* packet stays.                                                               *)
NoFrame(units) == [frame |-> 0, queue |-> decoder, units |-> units, count |-> decoded.video]

DecodeVideo ==
    CASE pkt.units = 0 ->
           {IF job.delay > 0 /\ decoder # << >>
            THEN [NoFrame(0) EXCEPT !.frame = Head(decoder), !.queue = Tail(decoder)]
            ELSE NoFrame(0)}
      [] pkt.units > 0 /\ pkt.bad -> {NoFrame(pkt.units)}
      [] pkt.units > 0 /\ ~pkt.bad /\ pkt.stream = "video" ->
           LET q == Append(decoder, decoded.video + 1)
               full == Len(q) > job.delay
           IN  {[frame |-> IF full THEN Head(q) ELSE 0, queue |-> IF full THEN Tail(q) ELSE q,
                 units |-> pkt.units - 1, count |-> decoded.video + 1]}
      [] OTHER -> {NoFrame(pkt.units), NoFrame(0)}

(* The sync code runs for a frame of a packet with a time.                     *)
Timed(d) == job.sync /\ d.frame # 0 /\ pkt.stream # "eof"

Offset(d) == IF Timed(d) /\ pts_offset = << >> THEN <<pkt.dts, frame_count>> ELSE pts_offset

(* ivtime - ovtime.                                                            *)
Delta(d) == (pkt.dts - Offset(d)[1]) - FrameTime * (frame_count - Offset(d)[2])

(* delta < -0.6 * fr                                                           *)
Late(d) == Timed(d) /\ 5 * Delta(d) < -3 * FrameTime

(* A time in frames, (int)(0.5 + delta).                                       *)
Rounded(time) == (2 * time + FrameTime) \div (2 * FrameTime)

(* Mutant: rounded down.                                                       *)
DupsRoundedDown(d) ==
    IF Timed(d) /\ 2 * Delta(d) >= 3 * FrameTime THEN Delta(d) \div FrameTime - 1 ELSE 0

(* Mutant: no threshold, every difference is corrected.                        *)
DupsAlways(d) == IF Timed(d) THEN Rounded(Delta(d)) - 1 ELSE 0

(* delta >= 1.5 * fr: dups = (int)(0.5 + delta) - 1                            *)
Dups(d) == IF Timed(d) /\ 2 * Delta(d) >= 3 * FrameTime THEN Rounded(Delta(d)) - 1 ELSE 0

(* Mutant: the frame just decoded is encoded.                                  *)
SubmittedNew(d) == IF d.frame # 0 THEN d.frame ELSE buffered.frame

(* oggmux_add_video gets the frame before the one just decoded.                *)
Submitted(d) == buffered.frame

(* More duplicates than libtheora takes are given one by one.                  *)
Calls(d) ==
    IF Dups(d) >= Keyint
    THEN [i \in 1 .. Dups(d) + 1 |-> [frame |-> Submitted(d), shown |-> 1, e_o_s |-> eos.video]]
    ELSE <<[frame |-> Submitted(d), shown |-> Dups(d) + 1, e_o_s |-> eos.video]>>

VideoOpen == pc = "video" /\ (eos.video \/ pkt.units > 0)

Section2 == IF EnterAudio(pkt, eos.audio) THEN "audio" ELSE "flush"

(* "Frame dropped to maintain sync": break, with the packet as it was.         *)
DropFrame ==
    /\ VideoOpen
    /\ \E d \in DecodeVideo :
          /\ Late(d)
          /\ decoder' = d.queue /\ decoded' = [decoded EXCEPT !.video = d.count]
    /\ pc' = Section2
    /\ UNCHANGED <<fixed, source, pkt, synced, eos, done, coded, sounded>>

(* Mutant: the loop goes on until the packet is used up.                       *)
BreaksNever(d) == FALSE

(* if (!got_frame) break                                                       *)
Breaks(d) == d.frame = 0

(* The buffered frame goes to the encoder and the new one takes its place.     *)
EncodeTurn ==
    /\ VideoOpen
    /\ \E d \in DecodeVideo :
          /\ ~Late(d)
          /\ decoder' = d.queue /\ decoded' = [decoded EXCEPT !.video = d.count]
          /\ pkt' = [pkt EXCEPT !.units = d.units]
          /\ pts_offset' = Offset(d)
          /\ IF buffered.frame # 0 /\ (d.frame # 0 \/ eos.video)
             THEN /\ video' = video \o Calls(d)
                  /\ frame_count' = frame_count + Dups(d) + 1
                  /\ done' = [done EXCEPT !.video = @ \/ eos.video]
             ELSE UNCHANGED <<video, frame_count, done>>
          /\ IF d.frame # 0
             THEN /\ buffered' = [frame |-> d.frame, dts |-> pkt.dts]
                  /\ accepted' = Append(accepted, d.frame)
             ELSE UNCHANGED <<buffered, accepted>>
          /\ pc' = IF Breaks(d) THEN Section2 ELSE "video"
    /\ UNCHANGED <<fixed, source, synced, eos, sounded>>

LeaveVideo ==
    /\ pc = "video" /\ ~VideoOpen
    /\ pc' = Section2
    /\ UNCHANGED <<fixed, source, pkt, synced, eos, done, decoder, decoded, coded, sounded>>

-----------------------------------------------------------------------------
(* while ((audio_eos && !audio_done) || avpkt.size > 0) *)

AudioOpen == pc = "audio" /\ ((eos.audio /\ ~done.audio) \/ pkt.units > 0)

(* if (len1 < 0) break: a bad packet, or what is left of another stream's.     *)
AudioError ==
    /\ AudioOpen
    /\ pkt.units > 0 /\ (pkt.bad \/ pkt.stream # "audio")
    /\ pc' = "flush"
    /\ UNCHANGED <<fixed, source, pkt, synced, eos, done, decoder, decoded, coded, sounded>>

(* What avcodec_decode_audio4 leaves: a new chunk, or no samples of a packet   *)
(* of another stream. Without data it is not called.                           *)
DecodeAudio ==
    CASE pkt.units = 0 -> {[got |-> FALSE, units |-> 0]}
      [] pkt.units > 0 /\ pkt.stream = "audio" /\ ~pkt.bad -> {[got |-> TRUE, units |-> pkt.units - 1]}
      [] pkt.units > 0 /\ pkt.stream # "audio" /\ ~pkt.bad -> {[got |-> FALSE, units |-> 0]}
      [] OTHER -> {}

(* Mutant: only what was encoded before is looked at.                          *)
BeyondEndLater(n) == job.samples > 0 /\ sample_count > job.samples

BeyondEnd(n) == job.samples > 0 /\ sample_count + n > job.samples

(* A chunk is decoded, clipped at the end time and given to oggmux_add_audio.  *)
(* At the end of the input that is the last chunk again.                       *)
AudioTurn ==
    /\ AudioOpen
    /\ \E d \in DecodeAudio :
       LET n    == IF d.got THEN ChunkSamples ELSE dst_nb_samples
           used == d.got \/ eos.audio
           clip == used /\ BeyondEnd(n)
           m    == IF clip THEN job.samples - sample_count ELSE n
           ends == eos.audio \/ clip
           gone == clip /\ m <= 0
       IN  /\ decoded' = [decoded EXCEPT !.audio = IF d.got THEN @ + 1 ELSE @]
           /\ pkt' = [pkt EXCEPT !.units = d.units]
           /\ dst_nb_samples' = m
           /\ audio_p' = IF d.got THEN decoded'.audio ELSE audio_p
           /\ eos' = [eos EXCEPT !.audio = ends]
           /\ IF used /\ ~gone
              THEN /\ audio' = Append(audio, [chunk |-> audio_p', samples |-> m, e_o_s |-> ends])
                   /\ sample_count' = sample_count + m
              ELSE UNCHANGED <<audio, sample_count>>
           /\ done' = [done EXCEPT !.audio = @ \/ (ends /\ ~gone)]
           /\ pc' = IF gone \/ (ends /\ d.units = 0) THEN "flush" ELSE "audio"
    /\ UNCHANGED <<fixed, source, synced, decoder, coded>>

LeaveAudio ==
    /\ pc = "audio" /\ ~AudioOpen
    /\ pc' = "flush"
    /\ UNCHANGED <<fixed, source, pkt, synced, eos, done, decoder, decoded, coded, sounded>>

-----------------------------------------------------------------------------
(* oggmux_flush, then while (ret >= 0 && !(audio_done && video_done)).         *)
Flush ==
    /\ pc = "flush"
    /\ pc' = IF pkt.stream # "eof" /\ ~(done.audio /\ done.video) THEN "read" ELSE "done"
    /\ UNCHANGED <<fixed, source, pkt, synced, eos, done, decoder, decoded, coded, sounded>>

(* Mutant: the frames of the first pass count on.                              *)
FramesOfPassKept == frame_count

(* this->frame_count = 0 when both passes run in one process.                  *)
FramesOfPass == 0

(* The second turn of the pass loop of main: the file is opened again, the     *)
(* locals and the codecs are new. What is in `this` stays, but for frame_count *)
(* and pts_offset.                                                             *)
NextPass ==
    /\ pc = "done"
    /\ passno = 1
    /\ passno' = 2
    /\ pass1' = video
    /\ frame_count' = FramesOfPass
    /\ pc' = "read" /\ read' = 0 /\ clock' = 0 /\ pkt' = EndOfFile
    /\ synced' = ~job.start
    /\ eos' = [video |-> FALSE, audio |-> FALSE] /\ done' = DoneAtStart(2)
    /\ decoder' = << >> /\ decoded' = [video |-> 0, audio |-> 0]
    /\ buffered' = [frame |-> 0, dts |-> 0]
    /\ dst_nb_samples' \in {0, ChunkSamples} /\ audio_p' = 0
    /\ pts_offset' = << >>
    /\ accepted' = << >> /\ video' = << >> /\ audio' = << >>
    /\ UNCHANGED <<job, input, whole, sample_count>>

Finished == pc = "done" /\ passno # 1 /\ UNCHANGED vars

Next ==
    \/ ReadEarly \/ ReadPacket \/ ReadFails
    \/ DropFrame \/ EncodeTurn \/ LeaveVideo
    \/ AudioError \/ AudioTurn \/ LeaveAudio
    \/ Flush \/ NextPass
    \/ Finished

Spec == Init /\ [][Next]_vars

(* One thread, which can always go on until both passes are done.              *)
FairSpec == Spec /\ WF_vars(Next)

-----------------------------------------------------------------------------
Call == [frame : Nat \ {0}, shown : Nat \ {0}, e_o_s : BOOLEAN]
Chunk == [chunk : Nat, samples : Nat, e_o_s : BOOLEAN]

TypeOK ==
    /\ job \in Job
    /\ passno \in 0 .. 2
    /\ pc \in {"read", "video", "audio", "flush", "done"}
    /\ input \in Seq(Arrival) /\ whole \in BOOLEAN
    /\ read \in Nat /\ clock \in Nat
    /\ pkt \in [stream : {"video", "audio", "other", "eof"}, units : Nat, dts : Nat, bad : BOOLEAN]
    /\ synced \in BOOLEAN
    /\ eos \in [video : BOOLEAN, audio : BOOLEAN]
    /\ done \in [video : BOOLEAN, audio : BOOLEAN]
    /\ decoder \in Seq(Nat \ {0})
    /\ decoded \in [video : Nat, audio : Nat]
    /\ buffered \in [frame : Nat, dts : Nat]
    /\ frame_count \in Nat /\ sample_count \in Nat
    /\ pts_offset = << >> \/ pts_offset \in Nat \X Nat
    /\ dst_nb_samples \in Nat /\ audio_p \in Nat
    /\ accepted \in Seq(Nat \ {0})
    /\ video \in Seq(Call) /\ pass1 \in Seq(Call)
    /\ audio \in Seq(Chunk)

-----------------------------------------------------------------------------
NoEndTime == job.frames = 0 /\ job.samples = 0

FramesOf(calls) == {calls[i].frame : i \in DOMAIN calls}

(* Holding a frame back loses, repeats and reorders none: what is kept of the  *)
(* decoded frames goes to the encoder in the order of decoding, repetitions of *)
(* a frame one after the other, and none is missing but the one in the buffer; *)
(* at the end of the input not that one either, unless the decoder delays.     *)
FramesInOrder ==
    /\ \A i, j \in DOMAIN accepted : i < j => accepted[i] < accepted[j]
    /\ \A i, j \in DOMAIN video : i < j => video[i].frame <= video[j].frame
    /\ \E n \in {Len(accepted) - 1, Len(accepted)} :
          FramesOf(video) = {accepted[i] : i \in 1 .. n}
    /\ pc = "done" /\ NoEndTime /\ job.delay = 0 =>
          FramesOf(video) = {accepted[i] : i \in DOMAIN accepted}

(* How much later than in the input the frame in the buffer starts in the      *)
(* output, when it is the next to be encoded; negative if it starts earlier.   *)
Behind == FrameTime * (frame_count - pts_offset[2]) - (buffered.dts - pts_offset[1])

(* What dropping and repeating frames is for: the frame in the buffer starts   *)
(* in the output less than half a frame before its decoding time and at most   *)
(* 1.6 frames after it (0.6 are not corrected, and it follows another).        *)
InSync ==
    job.sync /\ pts_offset # << >> /\ buffered.frame # 0 /\ ~eos.video =>
        -FrameTime < 2 * Behind /\ 5 * Behind <= 8 * FrameTime

(* Every call before the end is in other too, at the same place.               *)
StandIn(calls, other) ==
    \A n \in DOMAIN calls : ~calls[n].e_o_s => n \in DOMAIN other /\ other[n] = calls[n]

(* The second pass gives the encoder what the first gave it, which its         *)
(* statistics are about: until the end the same calls in the same order.       *)
PassesAgree ==
    passno = 2 => /\ StandIn(video, pass1)
                  /\ pc = "done" => StandIn(pass1, video)

(* Audio is encoded once and in order, in whole chunks but for the last call,  *)
(* which may repeat the last chunk, and no longer than to the end time.        *)
AudioOnce ==
    /\ \A i \in 1 .. Len(audio) - 1 :
          /\ ~audio[i].e_o_s /\ audio[i].samples = ChunkSamples
          /\ \/ audio[i].chunk < audio[i + 1].chunk
             \/ audio[i + 1].e_o_s /\ audio[i].chunk = audio[i + 1].chunk
    /\ job.samples > 0 => sample_count <= job.samples

(* When the loop is left every stream was ended: a video stream with a frame   *)
(* in it by a flagged call, by one and the last one if there is no end time    *)
(* and the decoder delays nothing; audio by the last call, unless it was       *)
(* exactly as long as asked for when the input ended.                          *)
StreamsEnded ==
    pc = "done" =>
        /\ accepted # << >> => \E i \in DOMAIN video : video[i].e_o_s
        /\ NoEndTime /\ job.delay = 0 =>
              \A i \in DOMAIN video : video[i].e_o_s <=> i = Len(video)
        /\ HasAudio /\ passno # 1 =>
              \/ audio # << >> /\ audio[Len(audio)].e_o_s
              \/ job.samples > 0 /\ sample_count = job.samples

(* No packet, frame or flag keeps the loop from its end.                       *)
Terminates == <>(pc = "done" /\ passno # 1)

(* "@param e_o_s 1 indicates ond of stream" (theorautils.c:1121): the flagged  *)
(* frame is the last that oggmux_add_video is given.                           *)
EndedOnce == \A i \in DOMAIN video : video[i].e_o_s => i = Len(video)

(* "End encoding at this time (in seconds)" (src/ffmpeg2theora.1:49): when the     *)
(* frames up to the end time were counted, video is being ended.               *)
EndHonoured ==
    pc = "read" /\ job.frames > 0 /\ frame_count > job.frames => eos.video
=============================================================================
