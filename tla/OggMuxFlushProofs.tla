-------------------------- MODULE OggMuxFlushProofs --------------------------
(***************************************************************************)
(* What a call of oggmux_flush (src/src/theorautils.c:1695) guarantees     *)
(* when it returns: how much may wait, that nothing waits once the streams *)
(* have ended, and that no subtitle page was overtaken.  All three rest on *)
(* one fact about the chain of branches of the loop: when none of them     *)
(* writes a page, no audio or video page could have been written, because  *)
(* a subtitle page that is in its way is written itself.                   *)
(***************************************************************************)
EXTENDS OggMuxProofs, WellFoundedInduction

-----------------------------------------------------------------------------
(* The branches of the loop. *)

(* A set of natural numbers has a least one (the minimum that                  *)
(* find_best_valid_kate_page looks for).                                       *)
LEMMA LeastNumber ==
    ASSUME NEW S, S \subseteq Nat, S # {}
    PROVE  \E x \in S : \A y \in S : x <= y
<1>1. \A x, y \in Nat : x < y => <<x, y>> \in OpToRel(<, Nat)
  BY DEF OpToRel
<1>2. IsWellFoundedOn(OpToRel(<, Nat), Nat)
  BY NatLessThanWellFounded
<1>3. PICK x \in S : \A y \in S : ~(<<y, x>> \in OpToRel(<, Nat))
  BY <1>2, WFMin, Zenon
<1>4. ASSUME NEW y \in S PROVE x <= y
  <2>1. x \in Nat /\ y \in Nat
    OBVIOUS
  <2>2. ~(<<y, x>> \in OpToRel(<, Nat))
    BY <1>3
  <2>3. ~(y < x)
    BY <1>1, <2>1, <2>2
  <2>4. QED
    BY <2>1, <2>3
<1>5. QED
  BY <1>4

(* find_best_valid_kate_page finds a page whenever some Kate stream holds one: *)
(* the first stream of those with the least time.                              *)
LEMMA BestExists ==
    ASSUME NEW h, NEW tm, \A k \in Kate : tm[k] \in Nat,
           NEW j \in Kate, h[j] # << >>
    PROVE  \E b \in Kate : BestKate(b, h, tm)
<1> DEFINE Valid == {k \in Kate : h[k] # << >>}
           Times == {tm[k] : k \in Valid}
<1>1. Times \subseteq Nat /\ Times # {}
  OBVIOUS
<1>2. PICK m \in Times : \A y \in Times : m <= y
  BY <1>1, LeastNumber, Zenon
<1> DEFINE First == {k \in Valid : tm[k] = m}
<1>3. First \subseteq Nat /\ First # {}
  BY <1>2, StreamAssumption DEF Kate
<1>4. PICK b \in First : \A y \in First : b <= y
  BY <1>3, LeastNumber, Zenon
<1>5. b \in Kate /\ h[b] # << >> /\ tm[b] = m
  BY <1>4
<1>6. ASSUME NEW k \in Kate, h[k] # << >>
      PROVE  tm[b] < tm[k] \/ (tm[b] = tm[k] /\ b <= k)
  <2>1. tm[k] \in Times /\ m <= tm[k] /\ tm[k] \in Nat /\ m \in Nat
    BY <1>1, <1>2, <1>6
  <2>2. tm[k] = m => b <= k
    BY <1>4, <1>6
  <2>3. QED
    BY <1>5, <2>1, <2>2
<1>7. QED
  BY <1>5, <1>6 DEF BestKate

(* The times of the pages after a fetch are numbers.                           *)
LEMMA FetchTimes ==
    ASSUME TypeOK, NEW h \in Fetches
    PROVE  \A s \in Streams : NewTime(h)[s] \in Nat
BY FetchTypes

(* When no branch writes, no audio or video page was ready: the only thing     *)
(* that can be in its way is a Kate page, and that one goes out first.         *)
LEMMA NothingReady ==
    ASSUME NEW h, NEW tm, \A s \in Streams : ~Due(s, h, tm)
    PROVE  \A a \in AV : ~DueAV(a, h, tm)
<1> SUFFICES ASSUME NEW a \in AV, DueAV(a, h, tm) PROVE FALSE
  OBVIOUS
<1>1. a \in Streams /\ ~Due(a, h, tm)
  BY StreamKinds
<1>2. KateBefore(a, h, tm)
  BY <1>1 DEF Due
<1>3. PICK k \in Kate : BestKate(k, h, tm) /\ tm[k] <= tm[a]
  BY <1>2 DEF KateBefore
<1>4. Due(k, h, tm)
  BY <1>3 DEF Due
<1>5. QED
  BY <1>4, StreamKinds

(* When no branch writes, one of the streams of the file has no page.          *)
LEMMA SomeStreamEmpty ==
    ASSUME TypeOK, NEW h \in Fetches, \A s \in Streams : ~Due(s, h, NewTime(h))
    PROVE  \E s \in AV : Present(s) /\ h[s] = << >>
<1>1. \A a \in AV : ~DueAV(a, h, NewTime(h))
  BY NothingReady
<1>2. NewTime(h)[Theora] \in Nat /\ NewTime(h)[Vorbis] \in Nat
  BY FetchTimes, StreamKinds
<1>3. mode \in {"av", "video_only", "audio_only"}
  BY DEF TypeOK
<1>4. CASE mode = "av"
  <2>1. Present(Theora) /\ Present(Vorbis)
    BY <1>4 DEF Present
  <2>2. h[Theora] = << >> \/ h[Vorbis] = << >>
    <3> SUFFICES ASSUME h[Theora] # << >>, h[Vorbis] # << >> PROVE FALSE
      OBVIOUS
    <3>1. CASE NewTime(h)[Theora] <= NewTime(h)[Vorbis]
      BY <1>1, <2>1, <3>1, StreamKinds DEF DueAV
    <3>2. CASE ~(NewTime(h)[Theora] <= NewTime(h)[Vorbis])
      BY <1>1, <2>1, <3>2, StreamKinds DEF DueAV
    <3>3. QED
      BY <3>1, <3>2
  <2>3. QED
    BY <2>1, <2>2, StreamKinds
<1>5. CASE mode = "video_only"
  <2>1. Present(Theora)
    BY <1>5, StreamKinds DEF Present
  <2>2. h[Theora] = << >>
    BY <1>1, <1>5, <2>1, StreamKinds DEF DueAV
  <2>3. QED
    BY <2>1, <2>2, StreamKinds
<1>6. CASE mode = "audio_only"
  <2>1. Present(Vorbis)
    BY <1>6, StreamKinds DEF Present
  <2>2. h[Vorbis] = << >>
    BY <1>1, <1>6, <2>1, StreamKinds DEF DueAV
  <2>3. QED
    BY <2>1, <2>2, StreamKinds
<1>7. QED
  BY <1>3, <1>4, <1>5, <1>6

(* A stream that had to give a page and gave none had nothing.                 *)
LEMMA ForcedEmpty ==
    ASSUME TypeOK, NEW s \in Streams, NEW h \in Fetches, h[s] = << >>, Fetch(h),
           held[s] = << >> => h[s] \in FlushedPages(queue[s])
    PROVE  held[s] = << >> /\ queue[s] = << >> /\ queue'[s] = << >>
<1>1. h[s] \in Fetchable(s) /\ queue[s] \in Seq(Fragment)
  BY FetchEach DEF TypeOK
<1>2. held[s] = << >>
  BY <1>1 DEF Fetchable
<1>3. queue[s] = << >>
  <2> SUFFICES ASSUME queue[s] # << >> PROVE FALSE
    OBVIOUS
  <2>1. PICK n \in 1 .. Len(queue[s]) : h[s] = SubSeq(queue[s], 1, n)
    BY <1>2 DEF FlushedPages
  <2>2. Len(queue[s]) \in Nat
    BY <1>1, LenProperties
  <2>3. Len(h[s]) = n /\ n # 0
    BY <1>1, <2>1, <2>2, SplitQueue
  <2>4. QED
    BY <2>3, EmptySeq
<1>4. SubSeq(<< >>, 1, 0) = << >> /\ Len(<< >>) = 0
  BY EmptySeq, SubSeqEmpty
<1>5. Rest(s, h[s]) = << >>
  BY <1>2, <1>3, <1>4 DEF Rest
<1>6. QED
  BY <1>2, <1>3, <1>5, FetchState

-----------------------------------------------------------------------------
(* Draining. When the streams have ended a flush writes everything, so nothing *)
(* is left for oggmux_close to throw away. The invariant says what "ended"     *)
(* means for the streams: a stream whose last packet carries e_o_s is flagged, *)
(* and one that is absent or never had a packet has nothing to write.          *)

Idle(s) == held[s] = << >> /\ queue[s] = << >>

DrainFlags(s) ==
    /\ ended[s] => eos[s]
    /\ next[s] = 0 => Idle(s)
    /\ ~Present(s) => Idle(s)

AllWritten == pc = "closed" \/ (pc = "flushed" /\ passno # 1 /\ AllEnded)

DrainInv ==
    /\ \A s \in AV : DrainFlags(s)
    /\ AllWritten => \A s \in Streams : Idle(s)

(* AllEnded in the words of one stream.                                        *)
LEMMA OverWhenAllEnded ==
    ASSUME AllEnded, passno # 1, NEW s \in AV, Present(s), DrainFlags(s)
    PROVE  eos[s] /\ (ended[s] \/ next[s] = 0)
BY DEF AllEnded, Over, NoFrames, DrainFlags

(* Once the streams have ended the loop is left only when no page was held     *)
(* and none could be fetched: the last branches write whatever there is.       *)
LEMMA LastFlush ==
    ASSUME TypeOK, DrainInv, AllEnded, passno # 1,
           NEW h \in Fetches, \A s \in Streams : ~Due(s, h, NewTime(h))
    PROVE  \A s \in Streams : h[s] = << >>
<1>1. \A a \in AV : ~DueAV(a, h, NewTime(h))
  BY NothingReady
<1>2. PICK e \in AV : Present(e)
  BY StreamKinds DEF TypeOK, Present
<1>3. EOS
  BY <1>2, OverWhenAllEnded DEF DrainInv, EOS
<1>4. \A s \in Streams : ~DueAtEnd(s, h, NewTime(h))
  BY <1>1, <1>3 DEF Due
<1>5. \A k \in Kate : h[k] = << >>
  <2> SUFFICES ASSUME NEW j \in Kate, h[j] # << >> PROVE FALSE
    OBVIOUS
  <2>1. \A k \in Kate : NewTime(h)[k] \in Nat
    BY FetchTimes, StreamKinds
  <2>2. PICK b \in Kate : BestKate(b, h, NewTime(h))
    BY <2>1, BestExists
  <2>3. DueAtEnd(b, h, NewTime(h))
    BY <2>2 DEF DueAtEnd
  <2>4. QED
    BY <1>4, <2>3, StreamKinds
<1>6. h[Theora] = << >>
  BY <1>4, <1>5, StreamKinds DEF DueAtEnd
<1>7. h[Vorbis] = << >>
  BY <1>4, <1>5, <1>6, StreamKinds DEF DueAtEnd
<1>8. QED
  BY <1>5, <1>6, <1>7, StreamKinds DEF AV

(* Such a turn leaves nothing in the queues either.                            *)
LEMMA FlushBreakDrains ==
    ASSUME TypeOK, DrainInv, AllEnded, passno # 1, FlushBreak
    PROVE  \A s \in Streams : Idle(s)'
<1>1. PICK h \in Fetches : /\ \A s \in Streams : ~Due(s, h, NewTime(h))
                           /\ Fetch(h) /\ held' = h
  BY DEF FlushBreak
<1>2. \A s \in Streams : h[s] = << >>
  BY <1>1, LastFlush
<1>3. ASSUME NEW s \in Streams PROVE queue'[s] = << >>
  <2>1. h[s] \in Fetchable(s)
    BY FetchEach
  <2>2. CASE s \in Kate
    <3>1. held[s] = << >> => h[s] \in FlushedPages(queue[s])
      BY <2>1, <2>2, StreamKinds DEF Fetchable
    <3>2. QED
      BY <1>1, <1>2, <3>1, ForcedEmpty
  <2>3. CASE s \in AV /\ Idle(s)
    BY <1>1, <2>3, FetchEmpty DEF Idle
  <2>4. CASE s \in AV /\ ~Idle(s)
    <3>1. DrainFlags(s)
      BY <2>4 DEF DrainInv
    <3>2. ended[s]
      BY <2>4, <3>1, OverWhenAllEnded DEF DrainFlags
    <3>3. held[s] = << >> => h[s] \in FlushedPages(queue[s])
      BY <2>1, <2>4, <3>2, StreamKinds DEF Fetchable, PagedOut
    <3>4. QED
      BY <1>1, <1>2, <3>3, ForcedEmpty
  <2>5. QED
    BY <2>2, <2>3, <2>4, StreamKinds
<1>4. QED
  BY <1>1, <1>2, <1>3 DEF Idle

(* A step that does not touch queue and page of a stream, nor its numbers,     *)
(* keeps its flags right; a flag may be raised.                                *)
LEMMA FlagsUntouched ==
    ASSUME NEW s \in AV, DrainFlags(s),
           queue'[s] = queue[s], held'[s] = held[s], next'[s] = next[s],
           ended'[s] = ended[s], eos[s] => eos'[s], mode' = mode
    PROVE  DrainFlags(s)'
BY DEF DrainFlags, Idle, Present

(* A packet of an audio or video stream.                                       *)
LEMMA AddAVDrain ==
    ASSUME TypeOK, DrainInv, NEW s \in AV, NEW t, NEW bound, AddAV(s, t, bound)
    PROVE  DrainInv'
<1>1. PICK n \in 1 .. MaxFragments : PacketIn(s, n, t)
  BY DEF AddAV
<1>2. PICK e \in BOOLEAN : /\ ended' = [ended EXCEPT ![s] = e]
                        /\ eos' = [eos EXCEPT ![s] = @ \/ e]
  BY DEF AddAV
<1>3. pc' = "feed" /\ mode' = mode /\ held' = held /\ Present(s)
  BY DEF AddAV
<1>4. \A r \in Streams \ {s} : queue'[r] = queue[r] /\ next'[r] = next[r]
  BY <1>1 DEF PacketIn, TypeOK
<1>5. next[s] \in Nat /\ next'[s] = next[s] + 1
  BY <1>1, StreamKinds DEF PacketIn, TypeOK
<1>6. ~AllWritten'
  BY <1>3 DEF AllWritten
<1>7. ASSUME NEW r \in AV PROVE DrainFlags(r)'
  <2>1. DrainFlags(r) /\ r \in Streams
    BY StreamKinds DEF DrainInv
  <2>2. CASE r = s
    <3>1. ended'[s] => eos'[s]
      BY <1>2 DEF TypeOK
    <3>2. next'[s] # 0 /\ Present(s)'
      BY <1>3, <1>5 DEF Present
    <3>3. QED
      BY <2>2, <3>1, <3>2 DEF DrainFlags
  <2>3. CASE r # s
    <3>1. ended'[r] = ended[r] /\ eos'[r] = eos[r]
      BY <1>2, <2>3 DEF TypeOK
    <3>2. queue'[r] = queue[r] /\ next'[r] = next[r]
      BY <1>4, <2>1, <2>3
    <3>3. QED
      BY <1>3, <2>1, <3>1, <3>2, FlagsUntouched
  <2>4. QED
    BY <2>2, <2>3
<1>8. QED
  BY <1>6, <1>7 DEF DrainInv

(* A packet of a Kate stream.                                                  *)
LEMMA KatePacketDrain ==
    ASSUME TypeOK, DrainInv, NEW k \in Kate, NEW n, NEW t, PacketIn(k, n, t),
           pc' \in {"feed", "flush"}, UNCHANGED <<mode, held, eos, ended>>
    PROVE  DrainInv'
<1>1. ~AllWritten'
  BY DEF AllWritten
<1>2. ASSUME NEW r \in AV PROVE DrainFlags(r)'
  <2>1. DrainFlags(r) /\ r \in Streams /\ r # k
    BY StreamKinds DEF DrainInv
  <2>2. queue'[r] = queue[r] /\ next'[r] = next[r]
    BY <2>1 DEF PacketIn, TypeOK
  <2>3. QED
    BY <2>1, <2>2, FlagsUntouched
<1>3. QED
  BY <1>1, <1>2 DEF DrainInv

(* A fetch gives an idle stream nothing, and writing a page adds nothing.      *)
LEMMA FetchDrain ==
    ASSUME TypeOK, NEW s \in AV, DrainFlags(s), NEW h \in Fetches, Fetch(h),
           held'[s] \in {h[s], << >>}, UNCHANGED <<mode, eos, ended, next>>
    PROVE  DrainFlags(s)'
<1>1. Idle(s) => Idle(s)'
  BY FetchEmpty DEF Idle
<1>2. QED
  BY <1>1 DEF DrainFlags, Present

(* A turn that writes a page.                                                  *)
LEMMA FlushTurnDrain ==
    ASSUME TypeOK, DrainInv, FlushTurn
    PROVE  DrainInv'
<1>1. PICK h \in Fetches, w \in Streams : WritePage(h, w)
  BY DEF FlushTurn
<1>2. /\ Fetch(h) /\ held' = [h EXCEPT ![w] = << >>]
      /\ UNCHANGED <<mode, passno, pc, eos, ended, next>>
  BY <1>1 DEF WritePage, Release
<1>3. h \in [Streams -> Seq(Fragment)]
  BY FetchEach
<1>4. ~AllWritten'
  BY <1>2 DEF FlushTurn, AllWritten
<1>5. ASSUME NEW s \in AV PROVE DrainFlags(s)'
  <2>1. held'[s] \in {h[s], << >>}
    BY <1>2, <1>3, StreamKinds
  <2>2. DrainFlags(s)
    BY DEF DrainInv
  <2>3. QED
    BY <1>2, <2>1, <2>2, FetchDrain
<1>6. QED
  BY <1>4, <1>5 DEF DrainInv

(* The turn that leaves the loop.                                              *)
LEMMA FlushBreakDrain ==
    ASSUME TypeOK, DrainInv, passno # 1, FlushBreak
    PROVE  DrainInv'
<1>1. PICK h \in Fetches : Fetch(h) /\ held' = h
  BY DEF FlushBreak
<1>2. pc' = "flushed" /\ UNCHANGED <<mode, passno, eos, ended, next>>
  BY DEF FlushBreak
<1>3. \A s \in AV : DrainFlags(s)'
  BY <1>1, <1>2, FetchDrain DEF DrainInv
<1>4. AllWritten' => AllEnded
  BY <1>2 DEF AllWritten, AllEnded, Over, NoFrames, Present
<1>5. AllWritten' => \A s \in Streams : Idle(s)'
  BY <1>4, FlushBreakDrains
<1>6. QED
  BY <1>3, <1>5 DEF DrainInv

(* Every step keeps the invariant.                                             *)
LEMMA NextDrain == IInv /\ DrainInv /\ [Next]_vars => DrainInv'
<1> SUFFICES ASSUME IInv, DrainInv, [Next]_vars PROVE DrainInv'
  OBVIOUS
<1>0. TypeOK /\ PassOne /\ eos \in [AV -> BOOLEAN]
  BY DEF IInv, TypeOK
<1>1. CASE AddVideo
  BY <1>0, <1>1, AddAVDrain, StreamKinds DEF AddVideo
<1>2. CASE AddAudio
  BY <1>0, <1>2, AddAVDrain, StreamKinds DEF AddAudio
<1>3. ASSUME NEW k \in Kate, AddKate(k) PROVE DrainInv'
  BY <1>0, <1>3, KatePacketDrain DEF AddKate
<1>4. ASSUME NEW s \in AV, RaiseEOS(s) PROVE DrainInv'
  <2>1. /\ pc' = "feed" /\ eos' = [eos EXCEPT ![s] = TRUE]
        /\ UNCHANGED <<mode, queue, held, ended, next>>
    BY <1>4 DEF RaiseEOS
  <2>2. \A r \in AV : eos[r] => eos'[r]
    BY <1>0, <2>1
  <2>3. \A r \in AV : DrainFlags(r)'
    BY <2>1, <2>2, FlagsUntouched DEF DrainInv
  <2>4. QED
    BY <2>1, <2>3 DEF DrainInv, AllWritten
<1>5. CASE BeginFlush
  <2>1. \A r \in AV : DrainFlags(r)'
    BY <1>5, FlagsUntouched DEF DrainInv, BeginFlush
  <2>2. ~AllWritten'
    BY <1>5 DEF BeginFlush, AllWritten
  <2>3. QED
    BY <2>1, <2>2 DEF DrainInv
<1>6. CASE FlushTurn
  BY <1>0, <1>6, FlushTurnDrain
<1>7. CASE FlushBreak
  BY <1>0, <1>7, FlushBreakDrain DEF FlushBreak, PassOne
<1>8. CASE EndKate
  <2>1. kend \in Kate
    BY <1>0, <1>8, StreamAssumption DEF EndKate, TypeOK, Kate
  <2>2. UNCHANGED <<mode, passno, held, eos, ended>> /\ AllWritten
    BY <1>8 DEF EndKate, AllWritten
  <2>3. ASSUME NEW t, PacketIn(kend, 1, t), pc' = "flush" PROVE DrainInv'
    BY <1>0, <2>1, <2>2, <2>3, KatePacketDrain
  <2>4. CASE UNCHANGED <<queue, next>>
    <3>1. \A r \in Streams : Idle(r)'
      BY <2>2, <2>4 DEF DrainInv, Idle
    <3>2. \A r \in AV : DrainFlags(r)'
      BY <2>2, <2>4, FlagsUntouched DEF DrainInv
    <3>3. QED
      BY <3>1, <3>2 DEF DrainInv
  <2>5. QED
    BY <1>8, <2>3, <2>4 DEF EndKate
<1>9. CASE NextPass
  <2>1. /\ pc' = "feed" /\ held' = held
        /\ queue' = [s \in Streams |-> << >>]
        /\ ended' = [s \in AV |-> FALSE]
    BY <1>9 DEF NextPass
  <2>2. ASSUME NEW r \in AV PROVE DrainFlags(r)'
    <3>1. held'[r] = << >> /\ queue'[r] = << >> /\ ~ended'[r]
      BY <1>0, <1>9, <2>1, StreamKinds DEF NextPass, PassOne
    <3>2. QED
      BY <3>1 DEF DrainFlags, Idle
  <2>3. QED
    BY <2>1, <2>2 DEF DrainInv, AllWritten
<1>10. CASE Close
  <2>1. AllWritten /\ UNCHANGED <<mode, queue, held, eos, ended, next>>
    BY <1>10 DEF Close, AllWritten
  <2>2. \A r \in AV : DrainFlags(r)'
    BY <2>1, FlagsUntouched DEF DrainInv
  <2>3. \A r \in Streams : Idle(r)'
    BY <2>1 DEF DrainInv, Idle
  <2>4. QED
    BY <2>2, <2>3 DEF DrainInv
<1>11. CASE UNCHANGED vars
  <2>1. UNCHANGED <<mode, passno, pc, queue, held, eos, ended, next>>
    BY <1>11 DEF vars
  <2>2. \A r \in AV : DrainFlags(r)'
    BY <2>1, FlagsUntouched DEF DrainInv
  <2>3. (AllWritten' <=> AllWritten) /\ \A r \in Streams : Idle(r)' <=> Idle(r)
    BY <2>1 DEF AllWritten, AllEnded, Over, NoFrames, Present, Idle
  <2>4. QED
    BY <2>2, <2>3 DEF DrainInv
<1>12. QED
  BY <1>1, <1>2, <1>3, <1>4, <1>5, <1>6, <1>7, <1>8, <1>9, <1>10, <1>11 DEF Next, Closed

(* The initial state.                                                          *)
LEMMA InitDrain == Init => DrainInv
<1> SUFFICES ASSUME Init PROVE DrainInv
  OBVIOUS
<1>1. pc = "feed"
  BY DEF Init
<1>2. \A s \in AV : held[s] = << >> /\ queue[s] = << >> /\ ~ended[s]
  BY StreamKinds DEF Init
<1>3. QED
  BY <1>1, <1>2 DEF DrainInv, DrainFlags, Idle, AllWritten

(* oggmux_close comes when every packet that was ever submitted is in the      *)
(* file: nothing is held and nothing is queued.                                *)
THEOREM EverythingWritten == Spec => []Drained
<1>1. Init => IInv /\ DrainInv
  BY InitIInv, InitDrain
<1>2. (IInv /\ DrainInv) /\ [Next]_vars => (IInv /\ DrainInv)'
  BY NextIInv, NextDrain
<1>3. IInv /\ DrainInv => Drained
  <2> SUFFICES ASSUME IInv, DrainInv, pc = "closed", NEW s \in Streams
               PROVE  written[s] = submitted[s]
    BY DEF Drained
  <2>1. held[s] = << >> /\ queue[s] = << >>
    BY DEF DrainInv, AllWritten, Idle
  <2>2. submitted[s] = written[s] \o held[s] \o queue[s] /\ written[s] \in Seq(Fragment)
    BY DEF IInv, Conservation, TypeOK
  <2>3. QED
    BY <2>1, <2>2, ConcatEmptySeq
<1>4. QED
  BY <1>1, <1>2, <1>3, PTL DEF Spec

-----------------------------------------------------------------------------
(* The bound on what waits. A flush that returns leaves a stream of the file   *)
(* with no page although it was asked for one: either it had to give one,      *)
(* because more than FlushAt packets were counted, and had nothing, or the     *)
(* count, which is never too low, is a bound on what waits.                    *)

(* What the call of oggmux_flush leaves behind.                                *)
LEMMA FlushBreakBounds ==
    ASSUME IInv, FlushBreak
    PROVE  BoundedBacklog'
<1>1. TypeOK /\ PkgCounts
  BY DEF IInv
<1>2. PICK h \in Fetches : /\ \A s \in Streams : ~Due(s, h, NewTime(h))
                           /\ Fetch(h) /\ held' = h
  BY DEF FlushBreak
<1>3. PICK s \in AV : Present(s) /\ h[s] = << >>
  BY <1>1, <1>2, SomeStreamEmpty
<1>4. s \in Streams /\ h[s] \in Fetchable(s) /\ s \notin Kate
  BY <1>1, FetchEach, StreamKinds
<1>5. held[s] = << >>
  BY <1>3, <1>4 DEF Fetchable
<1>6. Pending(s)' = PagePackets(h[s]) + PagePackets(queue'[s])
  BY <1>2 DEF Pending, PagePackets, Ends
<1>7. Pending(s)' <= FlushAt
  <2>1. CASE pkg[s] > FlushAt
    <3>1. h[s] \in FlushedPages(queue[s])
      BY <1>4, <1>5, <2>1 DEF Fetchable
    <3>2. queue'[s] = << >>
      BY <1>1, <1>2, <1>3, <1>4, <3>1, ForcedEmpty
    <3>3. QED
      BY <1>3, <1>6, <3>2, CountEmpty, BoundAssumption
  <2>2. CASE ~(pkg[s] > FlushAt)
    <3>1. queue'[s] = Rest(s, h[s])
      BY <1>1, <1>2, <1>4, FetchState
    <3>2. Pending(s)' = Pending(s)
      BY <1>1, <1>4, <1>6, <3>1, FetchTypes
    <3>3. pkg[s] >= Pending(s) /\ pkg[s] \in Nat /\ Pending(s) \in Nat
      BY <1>1, <1>4, PendingNat DEF PkgCounts, TypeOK
    <3>4. QED
      BY <2>2, <3>2, <3>3, BoundAssumption
  <2>3. QED
    BY <2>1, <2>2
<1>8. held'[s] = << >> /\ Present(s)'
  BY <1>2, <1>3 DEF FlushBreak, Present
<1>9. QED
  BY <1>7, <1>8 DEF BoundedBacklog

(* The steps after a flush that leave the streams of the file alone.           *)
LEMMA NextBounded == IInv /\ BoundedBacklog /\ [Next]_vars => BoundedBacklog'
<1> SUFFICES ASSUME IInv, BoundedBacklog, [Next]_vars PROVE BoundedBacklog'
  OBVIOUS
<1>1. CASE FlushBreak
  BY <1>1, FlushBreakBounds
<1>2. CASE pc' # "flushed" \/ passno' = 1
  BY <1>2 DEF BoundedBacklog
<1>3. CASE UNCHANGED <<mode, passno, pc, queue, held>>
  BY <1>3 DEF BoundedBacklog, Present, Pending, PagePackets, Ends
<1>4. CASE AddVideo \/ AddAudio \/ (\E k \in Kate : AddKate(k)) \/ \E s \in AV : RaiseEOS(s)
  <2>1. pc' = "feed"
    BY <1>4 DEF AddVideo, AddAudio, AddAV, AddKate, RaiseEOS
  <2>2. QED
    BY <1>2, <2>1
<1>5. CASE BeginFlush
  BY <1>2, <1>5 DEF BeginFlush
<1>6. CASE FlushTurn
  BY <1>2, <1>6 DEF FlushTurn, WritePage
<1>7. CASE EndKate
  BY <1>2, <1>3, <1>7 DEF EndKate
<1>8. CASE NextPass \/ Close
  BY <1>2, <1>8 DEF NextPass, Close
<1>9. CASE UNCHANGED vars
  BY <1>3, <1>9 DEF vars
<1>10. QED
  BY <1>1, <1>4, <1>5, <1>6, <1>7, <1>8, <1>9 DEF Next, Closed

(* After every flush one stream of the file has no page and at most FlushAt    *)
(* packets waiting, however far ahead the other one is: the 23-packet rule     *)
(* bounds the lag of the slower stream.                                        *)
THEOREM BacklogBounded == Spec => []BoundedBacklog
<1>1. Init => IInv /\ BoundedBacklog
  BY InitIInv DEF Init, BoundedBacklog
<1>2. (IInv /\ BoundedBacklog) /\ [Next]_vars => (IInv /\ BoundedBacklog)'
  BY NextIInv, NextBounded
<1>3. QED
  BY <1>1, <1>2, PTL DEF Spec

-----------------------------------------------------------------------------
(* Subtitles. *)

(* A page of audio or video is written only when every Kate page that is held  *)
(* has a later time: by the first branches because the earliest of them has,   *)
(* by the last one because there is none.                                      *)
LEMMA KateLater ==
    ASSUME TypeOK, NEW h \in Fetches, NEW w \in AV, Due(w, h, NewTime(h)),
           NEW k \in Kate, h[k] # << >>
    PROVE  NewTime(h)[k] > NewTime(h)[w]
<1>1. \A s \in Streams : NewTime(h)[s] \in Nat
  BY FetchTimes
<1>2. PICK b \in Kate : BestKate(b, h, NewTime(h))
  BY <1>1, BestExists, StreamKinds
<1>3. NewTime(h)[b] <= NewTime(h)[k]
  BY <1>1, <1>2, StreamKinds DEF BestKate
<1>4. ~DueAtEnd(w, h, NewTime(h)) /\ w \notin Kate
  BY StreamKinds DEF DueAtEnd
<1>5. ~KateBefore(w, h, NewTime(h))
  BY <1>4 DEF Due
<1>6. ~(NewTime(h)[b] <= NewTime(h)[w])
  BY <1>2, <1>5 DEF KateBefore
<1>7. QED
  BY <1>1, <1>3, <1>6, StreamKinds

(* A step that writes audio or video.                                          *)
LEMMA StepKateFirst ==
    ASSUME IInv, [Next]_vars, NEW s \in AV, written'[s] # written[s],
           NEW k \in Kate, held'[k] # << >>
    PROVE  time'[k] > time'[s]
<1>0. TypeOK
  BY DEF IInv
<1>1. CASE FlushTurn
  <2>1. PICK h \in Fetches, w \in Streams : Due(w, h, NewTime(h)) /\ WritePage(h, w)
    BY <1>1 DEF FlushTurn
  <2>2. /\ time' = NewTime(h) /\ held' = [h EXCEPT ![w] = << >>]
        /\ written' = [written EXCEPT ![w] = @ \o h[w]]
    BY <2>1 DEF WritePage, Fetch, Release
  <2>3. w = s
    BY <1>0, <2>2, StreamKinds DEF TypeOK
  <2>4. held'[k] = h[k]
    BY <2>2, <2>3, StreamKinds
  <2>5. QED
    BY <1>0, <2>1, <2>2, <2>3, <2>4, KateLater
<1>2. CASE UNCHANGED written
  BY <1>2
<1>3. QED
  BY <1>1, <1>2 DEF Next, vars, AddVideo, AddAudio, AddAV, AddKate, RaiseEOS, BeginFlush,
                    FlushBreak, EndKate, NextPass, Close, Closed

(* CHECK_KATE_OUTPUT, and its counterpart after the end of the streams: no     *)
(* audio or video page overtakes a subtitle page that is due at or before its  *)
(* time.                                                                       *)
THEOREM SubtitlesFirst == Spec => KateFirst
<1>1. IInv /\ [Next]_vars =>
        (\A s \in AV : (written'[s] # written[s]) =>
            \A k \in Kate : held'[k] # << >> => time'[k] > time'[s])
  BY StepKateFirst
<1>2. QED
  BY <1>1, Invariant, PTL DEF Spec, KateFirst
=============================================================================
