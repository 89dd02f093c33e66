------------------------------- MODULE OggMux -------------------------------
(***************************************************************************)
(* The Ogg multiplexer of ffmpeg2theora (src/src/theorautils.c): packets   *)
(* of a Theora, a Vorbis and any number of Kate (subtitle) streams are     *)
(* queued in one libogg stream state each, cut into pages, held one page   *)
(* per stream, and interleaved into the output file by oggmux_flush.       *)
(*                                                                         *)
(* The caller is the decode loop of ff2theora_output: each iteration adds  *)
(* some packets and then calls oggmux_flush(info, video_eos + audio_eos).  *)
(* Here an iteration is any number of Add* steps followed by BeginFlush,   *)
(* and every pass through the `while (1)` of oggmux_flush is one step.     *)
(*                                                                         *)
(* libogg cuts a packet into lacing segments and a page at any segment, so *)
(* a packet is a sequence of fragments and may be continued on later       *)
(* pages.  How many fragments a page takes is libogg's choice (external).  *)
(* Writing a page always succeeds: on a short fwrite write_X_page prints a *)
(* message and goes on exactly as after a full write, so `written` is what *)
(* was handed to stdio.                                                    *)
(***************************************************************************)
EXTENDS Integers, Sequences, FiniteSets

CONSTANTS
    NKate,         \* n_kate_streams
    Modes,         \* subset of {"av", "video_only", "audio_only"}
    Passes,        \* first values of passno: 0 one pass, 1 two passes
    FlushAt,       \* more pending packets than this and a page is forced (22)
    EndTime,       \* the user gave an end time: streams end in different turns
    FrameTime,     \* duration of a video packet
    AudioTimes,    \* possible durations of an audio packet (0: the first one)
    KateGaps,      \* possible distances between starts of subtitles
    MaxVideo,      \* bound: video packets of a pass
    MaxAudio,      \* bound: audio packets
    MaxKate,       \* bound: packets of a Kate stream (its end packet excluded)
    MaxFragments   \* bound: fragments of a packet

ASSUME StreamAssumption ==
    /\ NKate \in Nat
    /\ Modes \subseteq {"av", "video_only", "audio_only"}
    /\ Passes \subseteq {0, 1}
    /\ EndTime \in BOOLEAN

ASSUME BoundAssumption ==
    /\ FlushAt \in Nat
    /\ FrameTime \in Nat
    /\ AudioTimes \subseteq Nat
    /\ KateGaps \subseteq Nat
    /\ MaxVideo \in Nat /\ MaxAudio \in Nat /\ MaxKate \in Nat
    /\ MaxFragments \in Nat

(***************************************************************************)
(* Streams are integers: a Kate stream is its index in kate_streams.       *)
(***************************************************************************)
Theora == -2
Vorbis == -1
Kate == 0 .. NKate - 1
AV == {Theora, Vorbis}
Streams == AV \cup Kate

VARIABLES
    mode,       \* audio_only / video_only, fixed by the input
    passno,     \* 0, or 1 then 2
    pc,         \* "feed", "flush", "flushed" or "closed"
    queue,      \* fragments in the ogg_stream_state (to, vo, ko)
    held,       \* videopage, audiopage, katepage; << >> when not valid
    time,       \* videotime, audiotime, katetime
    pkg,        \* v_pkg and a_pkg
    eos,        \* video_eos, audio_eos
    ended,      \* a packet with e_o_s was queued
    kend,       \* Kate streams whose end packet was dealt with
    next,       \* number of the next packet of each stream
    last,       \* time of the last packet of each stream
    submitted,  \* history: every fragment given to packetin in this pass
    written,    \* history: every fragment written to the file
    mark        \* history: time of the last audio or video page written

vars == <<mode, passno, pc, queue, held, time, pkg, eos, ended, kend, next, last,
          submitted, written, mark>>

-----------------------------------------------------------------------------
(* Packets, fragments and pages. *)

(* t is libogg's granule value of the segment, as a time: that of its packet   *)
(* on the packet's last segment, of the previous packet on the others.         *)
Fragment == [no : Nat, last : BOOLEAN, t : Nat]

(* Packet number no, after one that ends at t0, in n fragments, ends at t.     *)
Fragments(no, n, t0, t) ==
    [i \in 1 .. n |-> [no |-> no, last |-> (i = n), t |-> IF i = n THEN t ELSE t0]]

Ends(page) == {i \in DOMAIN page : page[i].last}

(* ogg_page_packets: how many packets end on the page. *)
PagePackets(page) == Cardinality(Ends(page))

(* X_granule_time(ogg_page_granulepos(page)) when that granulepos is > 0, the  *)
(* old time otherwise: a page on which no packet ends has granulepos -1.       *)
PageTime(page, old) ==
    IF Ends(page) # {} /\ page[Len(page)].t > 0 THEN page[Len(page)].t ELSE old

Pending(s) == PagePackets(held[s]) + PagePackets(queue[s])

Present(s) == CASE s = Theora -> mode # "audio_only"
                [] s = Vorbis -> mode # "video_only"
                [] OTHER      -> TRUE

(* video_eos + audio_eos *)
EOS == \E s \in AV : Present(s) /\ eos[s]

(* The input ended before a frame was decoded: no packet carries e_o_s.        *)
NoFrames == eos[Theora] /\ next[Theora] = 0

(* Nothing more comes of stream s.                                             *)
Over(s) == ended[s] \/ (s = Theora /\ NoFrames)

(* The decode loop is left when the input has ended or both streams are done.  *)
AllEnded == \A s \in AV : (Present(s) /\ ~(s = Vorbis /\ passno = 1)) => Over(s)

-----------------------------------------------------------------------------
Init ==
    /\ mode \in Modes
    /\ passno \in Passes
    /\ passno = 1 => mode # "audio_only"
    /\ pc = "feed"
    /\ queue = [s \in Streams |-> << >>]
    /\ held = [s \in Streams |-> << >>]
    /\ time = [s \in Streams |-> 0]
    /\ pkg = [s \in AV |-> 0]
    /\ eos = [s \in AV |-> FALSE]
    /\ ended = [s \in AV |-> FALSE]
    /\ kend = 0
    /\ next = [s \in Streams |-> 0]
    /\ last = [s \in Streams |-> 0]
    /\ submitted = [s \in Streams |-> << >>]
    /\ written = [s \in Streams |-> << >>]
    /\ mark = 0

(* ogg_stream_packetin of a packet of stream s that ends at t. *)
PacketIn(s, n, t) ==
    LET p == Fragments(next[s], n, last[s], t)
    IN  /\ queue' = [queue EXCEPT ![s] = @ \o p]
        /\ submitted' = [submitted EXCEPT ![s] = @ \o p]
        /\ next' = [next EXCEPT ![s] = @ + 1]
        /\ last' = [last EXCEPT ![s] = t]

(* The decode loop still reads input: it stops after the flush that follows    *)
(* the last packets.                                                           *)
Feeding == pc = "feed" \/ (pc = "flushed" /\ ~AllEnded)

(* The packet loops of oggmux_add_video and oggmux_add_audio, one packet each. *)
(* Packets after the flag was raised exist only with an end time: audio_eos is *)
(* raised by the clipping, the rest of what Vorbis holds comes later.          *)
AddAV(s, t, bound) ==
    /\ Feeding
    /\ Present(s)
    /\ ~Over(s)
    /\ eos[s] => EndTime
    /\ next[s] < bound
    /\ \E n \in 1 .. MaxFragments : PacketIn(s, n, t)
    /\ \E e_o_s \in BOOLEAN :
          /\ next[s] + 1 = bound => e_o_s
          /\ ended' = [ended EXCEPT ![s] = e_o_s]
          /\ eos' = [eos EXCEPT ![s] = @ \/ e_o_s]
    /\ pkg' = [pkg EXCEPT ![s] = @ + 1]
    /\ pc' = "feed"
    /\ UNCHANGED <<mode, passno, held, time, kend, written, mark>>

AddVideo == AddAV(Theora, last[Theora] + FrameTime, MaxVideo)

AddAudio ==
    /\ passno # 1
    /\ \E d \in AudioTimes : AddAV(Vorbis, last[Vorbis] + d, MaxAudio)

(* oggmux_add_kate_text and oggmux_add_kate_image. A packet that libkate       *)
(* refuses is dropped with a message: no step.                                 *)
AddKate(k) ==
    /\ Feeding
    /\ passno # 1
    /\ next[k] < MaxKate
    /\ \E d \in KateGaps, n \in 1 .. MaxFragments : PacketIn(k, n, last[k] + d)
    /\ pc' = "feed"
    /\ UNCHANGED <<mode, passno, held, time, pkg, eos, ended, kend, written, mark>>

(* A flag is raised without a packet that is marked: no frame was ever         *)
(* decoded; or the audio clipped at the end time has no samples left, and its  *)
(* last packets come in a later round.                                         *)
RaiseEOS(s) ==
    /\ Feeding
    /\ Present(s)
    /\ ~eos[s]
    /\ \/ s = Theora /\ next[s] = 0
       \/ s = Vorbis /\ EndTime
    /\ eos' = [eos EXCEPT ![s] = TRUE]
    /\ pc' = "feed"
    /\ UNCHANGED <<mode, passno, queue, held, time, pkg, ended, kend, next, last,
                   submitted, written, mark>>

(* The call of oggmux_flush: in pass 1 it returns at once. Without an end time *)
(* the streams end together, when av_read_frame fails; so they do when there   *)
(* was no frame.                                                               *)
BeginFlush ==
    /\ pc = "feed"
    /\ (mode = "av" /\ passno # 1) =>
          /\ ~EndTime => (eos[Theora] <=> eos[Vorbis])
          /\ NoFrames => ended[Vorbis]
    /\ pc' = IF passno = 1 THEN "flushed" ELSE "flush"
    /\ UNCHANGED <<mode, passno, queue, held, time, pkg, eos, ended, kend, next, last,
                   submitted, written, mark>>

-----------------------------------------------------------------------------
(* One turn of the loop of oggmux_flush. *)

(* libogg: ogg_stream_flush returns a page whenever something is queued.       *)
FlushedPages(q) == IF q = << >> THEN {<< >>}
                   ELSE {SubSeq(q, 1, n) : n \in 1 .. Len(q)}

(* libogg: ogg_stream_pageout may wait for more, unless e_o_s was queued.      *)
PagedOut(s) == IF s \in AV /\ ended[s] THEN FlushedPages(queue[s])
               ELSE FlushedPages(queue[s]) \cup {<< >>}

(* Mutant: a new page is fetched over one that is still held.                  *)
FetchableOverwrites(s) ==
    IF s \in Kate \/ pkg[s] > FlushAt THEN FlushedPages(queue[s]) ELSE PagedOut(s)

(* Mutant: the 23-packet rule is gone.                                         *)
FetchableWaits(s) ==
    CASE held[s] # << >>               -> {held[s]}
      [] held[s] = << >> /\ s \in Kate -> FlushedPages(queue[s])
      [] held[s] = << >> /\ s \in AV   -> PagedOut(s)

(* What stream s holds after the turn's fetch: the page it has, or a new one.  *)
Fetchable(s) ==
    CASE held[s] # << >>               -> {held[s]}
      [] held[s] = << >> /\ s \in Kate -> FlushedPages(queue[s])
      [] held[s] = << >> /\ s \in AV   ->
             IF pkg[s] > FlushAt THEN FlushedPages(queue[s]) ELSE PagedOut(s)

Rest(s, page) == IF held[s] = << >> THEN SubSeq(queue[s], Len(page) + 1, Len(queue[s]))
                 ELSE queue[s]

(* Mutant: the last valid Kate page, not the earliest.                         *)
BestKateLast(k, h, tm) ==
    h[k] # << >> /\ \A j \in Kate : h[j] # << >> => k >= j

(* find_best_valid_kate_page: the earliest page, the first stream on a tie.    *)
BestKate(k, h, tm) ==
    /\ h[k] # << >>
    /\ \A j \in Kate : h[j] # << >> => tm[k] < tm[j] \/ (tm[k] = tm[j] /\ k <= j)

(* Mutant: whichever stream has a page goes, without waiting for the other.    *)
DueAVEager(s, h, tm) ==
    /\ h[s] # << >>
    /\ \A r \in AV \ {s} : h[r] # << >> => (tm[s] < tm[r] \/ (tm[s] = tm[r] /\ s < r))

(* The audio or video page that may go out: with both streams, only when both  *)
(* have a page, and the earlier one, video on a tie.                           *)
DueAV(s, h, tm) ==
    /\ Present(s)
    /\ h[s] # << >>
    /\ mode = "av" => /\ h[Theora] # << >> /\ h[Vorbis] # << >>
                      /\ s = Theora <=> tm[Theora] <= tm[Vorbis]

(* CHECK_KATE_OUTPUT                                                           *)
KateBefore(s, h, tm) == \E k \in Kate : BestKate(k, h, tm) /\ tm[k] <= tm[s]

(* Mutant: the branch for Kate pages at the end of the streams is missing.     *)
DueAtEndNoKate(s, h, tm) == s \in AV /\ h[s] # << >> /\ (s = Vorbis => h[Theora] = << >>)

(* Mutant: audiopage_valid is not looked at.                                   *)
DueAtEndSpins(s, h, tm) ==
    IF s \in Kate THEN BestKate(s, h, tm)
    ELSE /\ \A k \in Kate : h[k] = << >>
         /\ IF s = Theora THEN h[Theora] # << >> ELSE h[Theora] = << >>

(* The last branches, for e_o_s: any Kate page, then video, then audio.        *)
DueAtEnd(s, h, tm) ==
    IF s \in Kate THEN BestKate(s, h, tm)
    ELSE /\ \A k \in Kate : h[k] = << >>
         /\ h[s] # << >>
         /\ s = Vorbis => h[Theora] = << >>

(* The page this turn writes is that of s; of no stream when nothing more is   *)
(* writable at the moment.                                                     *)
Due(s, h, tm) ==
    \/ s \in AV /\ DueAV(s, h, tm) /\ ~KateBefore(s, h, tm)
    \/ /\ s \in Kate /\ BestKate(s, h, tm)
       /\ \E a \in AV : DueAV(a, h, tm) /\ tm[s] <= tm[a]
    \/ /\ EOS
       /\ \A a \in AV : ~DueAV(a, h, tm)
       /\ DueAtEnd(s, h, tm)

(* Every way to fetch: the pages held afterwards.                              *)
Fetches ==
    {[s \in Streams |-> CASE s = Theora -> v [] s = Vorbis -> a [] OTHER -> f[s]] :
        v \in Fetchable(Theora), a \in Fetchable(Vorbis),
        f \in {g \in [Kate -> UNION {Fetchable(k) : k \in Kate}] :
                  \A k \in Kate : g[k] \in Fetchable(k)}}

NewTime(h) == [s \in Streams |-> IF held[s] = << >> THEN PageTime(h[s], time[s])
                                 ELSE time[s]]

Fetch(h) ==
    /\ queue' = [s \in Streams |-> Rest(s, h[s])]
    /\ time' = NewTime(h)

(* Mutant: X_page_valid stays 1.                                               *)
ReleaseNot(h, s) == h

(* X_page_valid = 0                                                            *)
Release(h, s) == [h EXCEPT ![s] = << >>]

(* Mutant: one packet per page.                                                *)
UncountPage(h, s) == IF s \in AV THEN [pkg EXCEPT ![s] = @ - 1] ELSE pkg

(* Mutant: a packet is subtracted that only starts on the page, as well.       *)
UncountAll(h, s) ==
    IF s \in AV THEN [pkg EXCEPT ![s] = @ - Cardinality({h[s][i].no : i \in DOMAIN h[s]})]
    ELSE pkg

(* X_pkg -= ogg_page_packets(page)                                             *)
Uncount(h, s) ==
    IF s \in AV THEN [pkg EXCEPT ![s] = @ - PagePackets(h[s])] ELSE pkg

(* write_video_page, write_audio_page, write_kate_page; then the loop goes on. *)
WritePage(h, s) ==
    /\ Fetch(h)
    /\ held' = Release(h, s)
    /\ written' = [written EXCEPT ![s] = @ \o h[s]]
    /\ pkg' = Uncount(h, s)
    /\ mark' = IF s \in AV THEN time'[s] ELSE mark
    /\ UNCHANGED <<mode, passno, pc, eos, ended, kend, next, last, submitted>>

FlushTurn ==
    /\ pc = "flush"
    /\ \E h \in Fetches, s \in Streams : Due(s, h, NewTime(h)) /\ WritePage(h, s)

(* The else branch: break. What was fetched stays held for the next call.      *)
FlushBreak ==
    /\ pc = "flush"
    /\ \E h \in Fetches : /\ \A s \in Streams : ~Due(s, h, NewTime(h))
                          /\ Fetch(h)
                          /\ held' = h
    /\ pc' = "flushed"
    /\ UNCHANGED <<mode, passno, pkg, eos, ended, kend, next, last, submitted, written, mark>>

-----------------------------------------------------------------------------
(* After the decode loop: oggmux_add_kate_end_packet and a flush for every     *)
(* Kate stream that has subtitles. The end packet may be refused.              *)
EndKate ==
    /\ pc = "flushed" /\ AllEnded
    /\ passno # 1
    /\ kend < NKate
    /\ kend' = kend + 1
    /\ \/ LET now == IF time[Theora] < time[Vorbis] THEN time[Vorbis] ELSE time[Theora]
              t   == IF now < last[kend] THEN last[kend] ELSE now
          IN  PacketIn(kend, 1, t) /\ pc' = "flush"
       \/ pc' = "flush" /\ UNCHANGED <<queue, submitted, next, last>>
       \/ /\ submitted[kend] = << >>
          /\ UNCHANGED <<pc, queue, submitted, next, last>>
    /\ UNCHANGED <<mode, passno, held, time, pkg, eos, ended, written, mark>>

(* oggmux_close, and for two passes the second ff2theora_output: oggmux_init   *)
(* starts the stream states afresh, but init_info, which clears v_pkg and      *)
(* a_pkg, is not called again.                                                 *)
NextPass ==
    /\ passno = 1
    /\ pc = "flushed" /\ AllEnded
    /\ passno' = 2
    /\ pc' = "feed"
    /\ queue' = [s \in Streams |-> << >>]
    /\ submitted' = [s \in Streams |-> << >>]
    /\ next' = [s \in Streams |-> 0]
    /\ last' = [s \in Streams |-> 0]
    /\ eos' = [s \in AV |-> FALSE]
    /\ ended' = [s \in AV |-> FALSE]
    /\ UNCHANGED <<mode, held, time, pkg, kend, written, mark>>

Close ==
    /\ passno # 1
    /\ pc = "flushed" /\ AllEnded
    /\ kend = NKate
    /\ pc' = "closed"
    /\ UNCHANGED <<mode, passno, queue, held, time, pkg, eos, ended, kend, next, last,
                   submitted, written, mark>>

(* The process exits. *)
Closed == pc = "closed" /\ UNCHANGED vars

Next ==
    \/ AddVideo \/ AddAudio
    \/ \E k \in Kate : AddKate(k)
    \/ \E s \in AV : RaiseEOS(s)
    \/ BeginFlush \/ FlushTurn \/ FlushBreak
    \/ EndKate \/ NextPass \/ Close
    \/ Closed

Spec == Init /\ [][Next]_vars

(* One thread runs all of this, and the input ends: av_read_frame fails after  *)
(* finitely many packets (MaxVideo, MaxAudio).                                 *)
FairSpec == Spec /\ WF_vars(Next)

-----------------------------------------------------------------------------
TypeOK ==
    /\ mode \in {"av", "video_only", "audio_only"}
    /\ passno \in {0, 1, 2}
    /\ pc \in {"feed", "flush", "flushed", "closed"}
    /\ queue \in [Streams -> Seq(Fragment)]
    /\ held \in [Streams -> Seq(Fragment)]
    /\ time \in [Streams -> Nat]
    /\ pkg \in [AV -> Nat]
    /\ eos \in [AV -> BOOLEAN]
    /\ ended \in [AV -> BOOLEAN]
    /\ kend \in 0 .. NKate
    /\ next \in [Streams -> Nat]
    /\ last \in [Streams -> Nat]
    /\ submitted \in [Streams -> Seq(Fragment)]
    /\ written \in [Streams -> Seq(Fragment)]
    /\ mark \in Nat

(* No fragment is lost, duplicated or reordered between packetin and the file: *)
(* what was submitted is what was written, then the held page, then the queue. *)
(* This is oggmux_flush's juggling of X_page_valid, pageout and flush.         *)
Conservation ==
    \A s \in Streams : submitted[s] = written[s] \o held[s] \o queue[s]

(* v_pkg and a_pkg, which decide when a page is forced out (theorautils.c:     *)
(* 1704, 1730), count the packets that are not completely written; in a second *)
(* pass they are never less than that.                                         *)
PkgCounts ==
    \A s \in AV : /\ pkg[s] >= Pending(s)
                  /\ passno # 2 => pkg[s] = Pending(s)

(* "not sure if 23 packets is a good value" (theorautils.c:1702): pages are    *)
(* forced out when 23 packets wait, so the counter means that many packets.    *)
PkgIsPending == \A s \in AV : pkg[s] = Pending(s)

(* A flush that stops leaves no stream with more than FlushAt waiting packets  *)
(* unless the other one had no page: buffering is bounded by the slower        *)
(* stream.                                                                     *)
BoundedBacklog ==
    (pc = "flushed" /\ passno # 1) =>
        \E s \in AV : Present(s) /\ held[s] = << >> /\ (Pending(s) <= FlushAt)

(* When the muxer is closed everything submitted is in the file: the last      *)
(* flush leaves neither a held page nor a queued packet behind.                *)
Drained == pc = "closed" => \A s \in Streams : written[s] = submitted[s]

(* "Make sure they're in the right order" (theorautils.c:1807): audio and      *)
(* video pages reach the file in the order of their end times.                 *)
InOrder ==
    [][\A s \in AV : written'[s] # written[s] => time'[s] >= mark]_vars

(* A subtitle page is never overtaken: no audio or video page is written while *)
(* a Kate page held in the muxer is due before it (CHECK_KATE_OUTPUT), until   *)
(* the streams end.                                                            *)
KateFirst ==
    [][\A s \in AV : (written'[s] # written[s]) =>
          \A k \in Kate : held'[k] # << >> => time'[k] > time'[s]]_vars

(* The multiplexer implements reliable first-in first-out streams.             *)
LS == INSTANCE LogicalStreams
         WITH Stream <- Streams, Item <- Fragment, sent <- submitted, delivered <- written
Reliable == LS!Spec

(* Every run ends with a closed file.                                          *)
Finishes == <>(pc = "closed")
=============================================================================
