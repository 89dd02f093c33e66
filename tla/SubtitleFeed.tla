---------------------------- MODULE SubtitleFeed ----------------------------
(***************************************************************************)
(* From the loaded subtitles to the multiplexer (ff2theora_output in       *)
(* src/src/ffmpeg2theora.c). With a start time the subtitles that are over *)
(* by then are skipped. Then every turn of the conversion loop may add a   *)
(* subtitle of an embedded stream, gives the multiplexer those that start  *)
(* within a second of what is written, and flushes, which moves the times  *)
(* of the audio and the video written on.                                  *)
(*                                                                         *)
(* Times are in half seconds.                                              *)
(***************************************************************************)
EXTENDS SubtitleFile

CONSTANTS
    Arrivals,    \* subtitles an embedded stream may bring
    TimeSteps    \* by how much a flush moves the time of audio or video on

ASSUME SubtitleFeedAssumption ==
    /\ \A a \in Arrivals : /\ a.pts \in Nat /\ a.duration \in Nat
                           /\ a.kind \in {"text", "image", "invalid"}
    /\ TimeSteps \subseteq Nat

VARIABLES
    round,                  \* turns of the loop so far
    audiotime, videotime,   \* ends of the last audio and video page
    seen,                   \* history: avtime when subtitles were last fed, and now
    first,                  \* history: subtitles skipped, for every stream
    fed                     \* history: the subtitles given to every Kate stream

times == <<audiotime, videotime>>
feedVars == <<round, times, seen, first, fed>>
vars == <<fileVars, feedVars>>

-----------------------------------------------------------------------------
(* What a subtitle and a frame are apart at most: "a bit in advance".          *)
Lead == 2

FeedInit ==
    /\ Init
    /\ round = 0 /\ audiotime = 0 /\ videotime = 0
    /\ seen = [before |-> 0, now |-> 0]
    /\ first = << >> /\ fed = << >>

Load == LoadNext /\ UNCHANGED feedVars

(* Mutant: those that start before the start time are discarded.               *)
OverStarted(sub) == sub.t0 <= job.start

(* "discard subtitles by their end time, so we still have those that start     *)
(* before the start time, but end after it".                                   *)
Over(sub) == sub.t1 <= job.start

(* How many numbers behind n are in S, one after the other.                    *)
Run(n, S) == Max({m \in 0 .. Cardinality(S) : n + 1 .. n + m \subseteq S})

(* oggmux_setup_kate_streams, and the seek to the start time.                  *)
Seek ==
    /\ pc = "load" /\ i > Len(streams)
    /\ LET skipped == [n \in DOMAIN streams |->
               LET subs == streams[n].subtitles
               IN  IF job.start = 0 THEN 0 ELSE Run(0, {k \in DOMAIN subs : Over(subs[k])})]
       IN  /\ first' = skipped
           /\ streams' = [n \in DOMAIN streams |->
                             [streams[n] EXCEPT !.subtitles_count = skipped[n]]]
    /\ fed' = [n \in DOMAIN streams |-> << >>]
    /\ pc' = "packet"
    /\ UNCHANGED <<job, used, parser, round, times, seen>>

(* add_subtitle_for_stream and add_image_subtitle_for_stream: to every stream  *)
(* of this index, the array being reallocated.                                 *)
Add(k, sub) ==
    streams' = [n \in DOMAIN streams |->
                   IF streams[n].stream_index = k
                   THEN [streams[n] EXCEPT !.subtitles = Append(@, sub)] ELSE streams[n]]

(* A packet of an embedded stream. Its times are taken from the start time on; *)
(* a text that has begun by then is clipped, one that is over is left out, and *)
(* so is one that is no UTF-8. An image keeps its times.                       *)
ReadEmbedded ==
    /\ pc = "packet" /\ round < job.rounds
    /\ \E k \in 1 .. job.embedded, a \in Arrivals :
          LET t == a.pts - job.start
              begun == t < 0 /\ t + a.duration > 0
          IN  CASE a.kind = "image" -> Add(k, [t0 |-> t, t1 |-> t + a.duration, text |-> << >>])
                [] a.kind = "text" /\ t >= 0 ->
                     Add(k, [t0 |-> t, t1 |-> t + a.duration, text |-> << >>])
                [] a.kind = "text" /\ begun ->
                     Add(k, [t0 |-> 0, t1 |-> t + a.duration, text |-> << >>])
                [] OTHER -> UNCHANGED streams
    /\ pc' = "feed"
    /\ UNCHANGED <<job, used, parser, feedVars>>

ReadOther ==
    /\ pc = "packet" /\ round < job.rounds
    /\ pc' = "feed"
    /\ UNCHANGED <<job, used, streams, parser, feedVars>>

AVTime == CASE job.mode = "audio_only" -> audiotime
            [] job.mode = "video_only" -> videotime
            [] job.mode = "av" -> Min({audiotime, videotime})

(* Mutant: not in advance.                                                     *)
DueNow(sub) == sub.t0 <= AVTime + job.start

Due(sub) == sub.t0 - Lead <= AVTime + job.start

(* oggmux_add_kate_text or _image for every stream as long as the next one is  *)
(* due: one that is not holds up those behind it.                              *)
Feed ==
    /\ pc = "feed"
    /\ seen' = [before |-> seen.now, now |-> AVTime]
    /\ LET More(ks) == Run(ks.subtitles_count, {k \in DOMAIN ks.subtitles : Due(ks.subtitles[k])})
       IN  /\ streams' = [n \in DOMAIN streams |->
                             [streams[n] EXCEPT !.subtitles_count = @ + More(streams[n])]]
           /\ fed' = [n \in DOMAIN streams |->
                 fed[n] \o [k \in 1 .. More(streams[n]) |->
                     [sub |-> streams[n].subtitles[streams[n].subtitles_count + k],
                      round |-> round, before |-> seen.now, now |-> AVTime]]]
    /\ pc' = "flush"
    /\ UNCHANGED <<job, used, parser, round, times, first>>

(* oggmux_flush fetches pages of audio and video.                              *)
Flush ==
    /\ pc = "flush"
    /\ \E a \in TimeSteps : audiotime' = IF job.mode = "video_only" THEN 0 ELSE audiotime + a
    /\ \E v \in TimeSteps : videotime' = IF job.mode = "audio_only" THEN 0 ELSE videotime + v
    /\ round' = round + 1
    /\ pc' = "packet"
    /\ UNCHANGED <<job, used, streams, parser, seen, first, fed>>

Done ==
    /\ pc = "packet" /\ round = job.rounds
    /\ UNCHANGED vars

Next == Load \/ Seek \/ ReadEmbedded \/ ReadOther \/ Feed \/ Flush \/ Done

Spec == FeedInit /\ [][Next]_vars

-----------------------------------------------------------------------------
TypeOK ==
    /\ FileTypeOK
    /\ pc \in {"options", "load", "read", "packet", "feed", "flush"}
    /\ round \in 0 .. job.rounds /\ audiotime \in Nat /\ videotime \in Nat
    /\ seen \in [before : Nat, now : Nat]
    /\ first \in Seq(Nat) /\ Len(fed) = Len(first)

(* Nothing before it starts later: in a file that is sorted, always.           *)
InOrder(subs, k) == \A j \in 1 .. k - 1 : subs[j].t0 <= subs[k].t0

(* Every subtitle is fed once, in the order of its stream, and none is lost    *)
(* that the output shows: only those over at the start time are skipped, and   *)
(* when the shorter of audio and video has been written to a subtitle's start  *)
(* the multiplexer has it, whichever way the last pages jumped, by a second at *)
(* most, and if no subtitle in front of it starts later.                       *)
NoneLost ==
    pc \in {"packet", "feed", "flush"} =>
        \A n \in DOMAIN streams :
            LET subs == streams[n].subtitles
                count == streams[n].subtitles_count
            IN  /\ [k \in DOMAIN fed[n] |-> fed[n][k].sub] = SubSeq(subs, first[n] + 1, count)
                /\ \A k \in 1 .. first[n] : subs[k].t1 <= job.start
                /\ pc = "packet" /\ round > 0 /\ AVTime - seen.now <= Lead =>
                      \A k \in first[n] + 1 .. Len(subs) :
                          InOrder(subs, k) /\ subs[k].t0 <= AVTime + job.start => k <= count

(* "we encode a bit in advance so we're sure to hit the time [...] If we don't *)
(* do that, we can insert late": a subtitle of a file goes to the multiplexer  *)
(* before what is written reaches its start, but for those begun when the loop *)
(* starts, those behind one that starts later, and when pages jump by more     *)
(* than the second.                                                            *)
FedInTime ==
    \A n \in DOMAIN fed : \A k \in DOMAIN fed[n] :
        LET f == fed[n][k]
        IN  ~Embedded(streams[n]) =>
              \/ f.sub.t0 > f.now + job.start
              \/ f.round = 0
              \/ f.now - f.before > Lead
              \/ ~InOrder(streams[n].subtitles, first[n] + k)
=============================================================================
