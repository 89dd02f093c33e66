---------------------------- MODULE OggMuxProofs ----------------------------
(***************************************************************************)
(* Proofs about the multiplexer for any number of subtitle streams, any    *)
(* packets and any bounds: nothing is lost or reordered within a stream,   *)
(* the packet counters are right in the first pass, and audio and video    *)
(* pages are interleaved in the order of their times when the input ends   *)
(* for both at once.                                                       *)
(***************************************************************************)
EXTENDS OggMux, SequenceTheorems, FiniteSetTheorems, TLAPS

-----------------------------------------------------------------------------
(* Pages and the packets that end on them. *)

(* The set of packet ends of a page is finite, so counting them makes sense.   *)
LEMMA EndsFinite ==
    ASSUME NEW p \in Seq(Fragment)
    PROVE  /\ IsFiniteSet(Ends(p))
           /\ Ends(p) \subseteq 1 .. Len(p)
           /\ PagePackets(p) \in Nat
<1>1. DOMAIN p = 1 .. Len(p) /\ Len(p) \in Nat
  BY LenProperties
<1>2. Ends(p) \in SUBSET (1 .. Len(p))
  BY <1>1 DEF Ends
<1>3. IsFiniteSet(1 .. Len(p))
  BY <1>1, FS_Interval
<1>4. IsFiniteSet(Ends(p))
  BY <1>2, <1>3, FS_Subset
<1>5. QED
  BY <1>2, <1>4, FS_CardinalityType DEF PagePackets

(* An empty page ends no packet.                                               *)
LEMMA CountEmpty == PagePackets(<< >>) = 0 /\ Ends(<< >>) = {}
<1>1. Ends(<< >>) = {}
  BY EmptySeq DEF Ends
<1>2. QED
  BY <1>1, FS_EmptySet DEF PagePackets

(* Counting is additive: a packet ends in the first part or in the second.     *)
LEMMA CountConcat ==
    ASSUME NEW p \in Seq(Fragment), NEW q \in Seq(Fragment)
    PROVE  PagePackets(p \o q) = PagePackets(p) + PagePackets(q)
<1> DEFINE n == Len(p)
           shifted == {i + n : i \in Ends(q)}
           f == [i \in Ends(q) |-> i + n]
<1>1. /\ n \in Nat /\ Len(q) \in Nat
      /\ DOMAIN p = 1 .. n /\ DOMAIN q = 1 .. Len(q)
      /\ p \o q \in Seq(Fragment) /\ DOMAIN (p \o q) = 1 .. n + Len(q)
      /\ \A i \in 1 .. n + Len(q) : (p \o q)[i] = IF i <= n THEN p[i] ELSE q[i - n]
  BY LenProperties, ConcatProperties
<1>2. IsFiniteSet(Ends(p)) /\ IsFiniteSet(Ends(q)) /\ Ends(p) \subseteq 1 .. n
      /\ Ends(q) \subseteq 1 .. Len(q)
  BY EndsFinite
<1>3. Ends(p \o q) = Ends(p) \cup shifted
  <2>1. ASSUME NEW i \in Ends(p \o q) PROVE i \in Ends(p) \cup shifted
    <3>1. i \in 1 .. n + Len(q) /\ (p \o q)[i].last
      BY <1>1 DEF Ends
    <3>2. CASE i <= n
      BY <1>1, <3>1, <3>2 DEF Ends
    <3>3. CASE i > n
      <4>1. i - n \in 1 .. Len(q) /\ q[i - n].last /\ i = (i - n) + n
        BY <1>1, <3>1, <3>3
      <4>2. QED
        BY <1>1, <4>1 DEF Ends
    <3>4. QED
      BY <1>1, <3>1, <3>2, <3>3
  <2>2. ASSUME NEW i \in Ends(p) PROVE i \in Ends(p \o q)
    BY <1>1, <1>2 DEF Ends
  <2>3. ASSUME NEW i \in shifted PROVE i \in Ends(p \o q)
    <3>1. PICK j \in Ends(q) : i = j + n
      OBVIOUS
    <3>2. j \in 1 .. Len(q) /\ q[j].last
      BY <1>1, <3>1 DEF Ends
    <3>3. i \in 1 .. n + Len(q) /\ i > n /\ i - n = j
      BY <1>1, <3>1, <3>2
    <3>4. QED
      BY <1>1, <3>2, <3>3 DEF Ends
  <2>4. QED
    BY <2>1, <2>2, <2>3
<1>4. f \in Bijection(Ends(q), shifted)
  <2>1. f \in [Ends(q) -> shifted]
    OBVIOUS
  <2>2. \A a, b \in Ends(q) : f[a] = f[b] => a = b
    BY <1>1, <1>2
  <2>3. \A t \in shifted : \E s \in Ends(q) : f[s] = t
    OBVIOUS
  <2>4. QED
    BY <2>1, <2>2, <2>3 DEF Bijection, Injection, Surjection, IsInjective
<1>5. IsFiniteSet(shifted) /\ Cardinality(shifted) = Cardinality(Ends(q))
  BY <1>2, <1>4, FS_Bijection DEF ExistsBijection
<1>6. Ends(p) \cap shifted = {}
  BY <1>1, <1>2
<1>7. Cardinality(Ends(p) \cap shifted) = 0
  BY <1>6, FS_EmptySet
<1>8. Cardinality(Ends(p \o q)) = Cardinality(Ends(p)) + Cardinality(Ends(q))
  <2> HIDE DEF shifted, f, n
  <2>1. Cardinality(Ends(p) \cup shifted)
          = Cardinality(Ends(p)) + Cardinality(shifted) - Cardinality(Ends(p) \cap shifted)
    BY <1>2, <1>5, FS_Union
  <2>2. Cardinality(Ends(p)) \in Nat /\ Cardinality(Ends(q)) \in Nat
    BY <1>2, FS_CardinalityType
  <2>3. QED
    BY <1>3, <1>5, <1>7, <2>1, <2>2
<1>9. QED
  BY <1>8 DEF PagePackets

(* A packet ends once, whatever libogg cuts it into.                           *)
LEMMA CountPacket ==
    ASSUME NEW no \in Nat, NEW n \in Nat \ {0}, NEW t0 \in Nat, NEW t \in Nat
    PROVE  /\ Fragments(no, n, t0, t) \in Seq(Fragment)
           /\ Len(Fragments(no, n, t0, t)) = n
           /\ PagePackets(Fragments(no, n, t0, t)) = 1
<1> DEFINE p == Fragments(no, n, t0, t)
<1>1. p \in [1 .. n -> Fragment]
  BY DEF Fragments, Fragment
<1>2. p \in Seq(Fragment) /\ Len(p) = n /\ DOMAIN p = 1 .. n
  BY <1>1
<1>3. Ends(p) = {n}
  <2>1. \A i \in 1 .. n : p[i].last <=> i = n
    BY DEF Fragments
  <2>2. \A i : i \in Ends(p) <=> i \in 1 .. n /\ i = n
    BY <1>2, <2>1 DEF Ends
  <2>3. n \in 1 .. n
    OBVIOUS
  <2>4. QED
    BY <2>2, <2>3
<1>4. Cardinality({n}) = 1
  BY FS_Singleton
<1>5. QED
  BY <1>2, <1>3, <1>4 DEF PagePackets

(* A page and what it leaves in the queue make up the queue.                   *)
LEMMA SplitQueue ==
    ASSUME NEW q \in Seq(Fragment), NEW n \in 0 .. Len(q)
    PROVE  /\ SubSeq(q, 1, n) \in Seq(Fragment)
           /\ SubSeq(q, n + 1, Len(q)) \in Seq(Fragment)
           /\ Len(SubSeq(q, 1, n)) = n
           /\ SubSeq(q, 1, n) \o SubSeq(q, n + 1, Len(q)) = q
<1>1. Len(q) \in Nat /\ \A i \in 1 .. Len(q) : q[i] \in Fragment
  BY LenProperties, ElementOfSeq
<1>2. SubSeq(q, 1, n) \in Seq(Fragment) /\ Len(SubSeq(q, 1, n)) = n
  BY <1>1, SubSeqProperties
<1>3. SubSeq(q, n + 1, Len(q)) \in Seq(Fragment)
  BY <1>1, SubSeqProperties
<1>4. SubSeq(q, 1, n) \o SubSeq(q, n + 1, Len(q)) = SubSeq(q, 1, Len(q))
  <2>1. 1 \in 1 .. Len(q) + 1 /\ n \in 1 - 1 .. Len(q) /\ Len(q) \in n .. Len(q)
    BY <1>1
  <2>2. QED
    BY <2>1, ConcatAdjacentSubSeq
<1>5. QED
  BY <1>2, <1>3, <1>4, SubSeqFull

-----------------------------------------------------------------------------
(* The fetch half of a turn of oggmux_flush. *)

(* Streams, told apart.                                                        *)
LEMMA StreamKinds ==
    /\ AV \subseteq Streams /\ Kate \subseteq Streams
    /\ AV \cap Kate = {}
    /\ \A s \in Streams : s \in AV \/ s \in Kate
    /\ Theora \in Streams /\ Vorbis \in Streams /\ Theora # Vorbis
    /\ Theora \in AV /\ Vorbis \in AV
BY StreamAssumption DEF Streams, AV, Kate, Theora, Vorbis

(* A page that libogg returns is a prefix of the queue.                        *)
LEMMA PageIsPrefix ==
    ASSUME NEW q \in Seq(Fragment), NEW p \in FlushedPages(q) \cup {<< >>}
    PROVE  \E n \in 0 .. Len(q) : p = SubSeq(q, 1, n)
<1>1. Len(q) \in Nat
  BY LenProperties
<1>2. CASE p = << >>
  <2>1. SubSeq(q, 1, 0) = << >>
    BY SubSeqEmpty
  <2>2. QED
    BY <1>1, <1>2, <2>1
<1>3. CASE p # << >>
  BY <1>1, <1>3 DEF FlushedPages
<1>4. QED
  BY <1>2, <1>3

(* Fetching moves fragments of a stream from the queue to the held page and    *)
(* neither loses nor reorders one; a page that is held stays.                  *)
LEMMA FetchStream ==
    ASSUME TypeOK, NEW s \in Streams, NEW p \in Fetchable(s)
    PROVE  /\ p \in Seq(Fragment)
           /\ Rest(s, p) \in Seq(Fragment)
           /\ p \o Rest(s, p) = held[s] \o queue[s]
           /\ held[s] # << >> => p = held[s]
<1>1. queue[s] \in Seq(Fragment) /\ held[s] \in Seq(Fragment)
  BY DEF TypeOK
<1>2. CASE held[s] # << >>
  BY <1>1, <1>2, StreamKinds DEF Fetchable, Rest
<1>3. CASE held[s] = << >>
  <2>1. p \in FlushedPages(queue[s]) \cup {<< >>}
    BY <1>3, StreamKinds DEF Fetchable, PagedOut
  <2>2. PICK n \in 0 .. Len(queue[s]) : p = SubSeq(queue[s], 1, n)
    BY <1>1, <2>1, PageIsPrefix
  <2>3. p \in Seq(Fragment) /\ Len(p) = n
    BY <1>1, <2>2, SplitQueue
  <2>4. Rest(s, p) = SubSeq(queue[s], n + 1, Len(queue[s]))
    BY <1>3, <2>3 DEF Rest
  <2>5. Rest(s, p) \in Seq(Fragment) /\ p \o Rest(s, p) = queue[s]
    BY <1>1, <2>2, <2>4, SplitQueue
  <2>6. held[s] \o queue[s] = queue[s]
    BY <1>1, <1>3, ConcatEmptySeq
  <2>7. QED
    BY <1>3, <2>3, <2>5, <2>6
<1>4. QED
  BY <1>2, <1>3

(* A fetch of all streams is a fetch of each.                                  *)
LEMMA FetchEach ==
    ASSUME TypeOK, NEW h \in Fetches
    PROVE  /\ \A s \in Streams : h[s] \in Fetchable(s)
           /\ h \in [Streams -> Seq(Fragment)]
<1>1. PICK v \in Fetchable(Theora), a \in Fetchable(Vorbis),
           f \in [Kate -> UNION {Fetchable(k) : k \in Kate}] :
        /\ \A k \in Kate : f[k] \in Fetchable(k)
        /\ h = [s \in Streams |-> CASE s = Theora -> v [] s = Vorbis -> a [] OTHER -> f[s]]
  BY DEF Fetches
<1>2. \A s \in Streams : s = Theora \/ s = Vorbis \/ (s \in Kate /\ s # Theora /\ s # Vorbis)
  BY StreamKinds DEF AV
<1>3. ASSUME NEW s \in Streams PROVE h[s] \in Fetchable(s)
  <2>1. CASE s = Theora
    BY <1>1, <2>1
  <2>2. CASE s = Vorbis
    BY <1>1, <2>2, StreamKinds
  <2>3. CASE s \in Kate /\ s # Theora /\ s # Vorbis
    BY <1>1, <2>3
  <2>4. QED
    BY <1>2, <2>1, <2>2, <2>3
<1>4. \A s \in Streams : h[s] \in Seq(Fragment)
  BY <1>3, FetchStream
<1>5. h = [s \in Streams |-> h[s]]
  BY <1>1
<1>6. QED
  BY <1>3, <1>4, <1>5

(* Granule times are natural numbers.                                          *)
LEMMA PageTimeNat ==
    ASSUME NEW p \in Seq(Fragment), NEW old \in Nat
    PROVE  PageTime(p, old) \in Nat
<1>1. CASE Ends(p) = {}
  BY <1>1 DEF PageTime
<1>2. CASE Ends(p) # {}
  <2>1. Len(p) \in 1 .. Len(p)
    BY <1>2, EndsFinite, LenProperties
  <2>2. p[Len(p)] \in Fragment
    BY <2>1, ElementOfSeq
  <2>3. QED
    BY <1>2, <2>2 DEF PageTime, Fragment
<1>3. QED
  BY <1>1, <1>2

(* Concatenation of fragment sequences.                                        *)
LEMMA Assoc ==
    ASSUME NEW a \in Seq(Fragment), NEW b \in Seq(Fragment), NEW c \in Seq(Fragment)
    PROVE  /\ a \o b \in Seq(Fragment)
           /\ (a \o b) \o c = a \o (b \o c)
<1>1. a \o b \in Seq(Fragment)
  BY ConcatProperties
<1>2. (a \o b) \o c = a \o (b \o c)
  BY ConcatAssociative
<1>3. QED
  BY <1>1, <1>2

(* Waiting packets are counted by natural numbers.                             *)
LEMMA PendingNat ==
    ASSUME TypeOK, NEW s \in Streams
    PROVE  /\ PagePackets(held[s]) \in Nat
           /\ PagePackets(queue[s]) \in Nat
           /\ Pending(s) = PagePackets(held[s]) + PagePackets(queue[s])
           /\ Pending(s) \in Nat
<1>1. held[s] \in Seq(Fragment) /\ queue[s] \in Seq(Fragment)
  BY DEF TypeOK
<1>2. PagePackets(held[s]) \in Nat /\ PagePackets(queue[s]) \in Nat
  BY <1>1, EndsFinite
<1>3. QED
  BY <1>2 DEF Pending

-----------------------------------------------------------------------------
(* The inductive invariant. Conservation needs that the first of two passes    *)
(* writes nothing, because the second one starts the streams afresh.           *)

PassOne ==
    passno = 1 => /\ pc # "flush"
                  /\ \A s \in Streams : held[s] = << >> /\ written[s] = << >>

IInv == TypeOK /\ Conservation /\ PkgCounts /\ PassOne

(* The initial state.                                                          *)
LEMMA InitIInv == Init => IInv
<1> SUFFICES ASSUME Init PROVE IInv
  OBVIOUS
<1>1. << >> \in Seq(Fragment) /\ << >> \o << >> = << >>
  BY EmptySeq, ConcatEmptySeq
<1>2. TypeOK
  BY <1>1, StreamAssumption DEF Init, TypeOK
<1>3. Conservation
  BY <1>1, Zenon DEF Init, Conservation
<1>4. PkgCounts
  BY CountEmpty, StreamKinds DEF Init, PkgCounts, Pending
<1>5. PassOne
  BY DEF Init, PassOne
<1>6. QED
  BY <1>2, <1>3, <1>4, <1>5 DEF IInv

(* A packet that enters the queue of its stream.                               *)
LEMMA PacketInKeeps ==
    ASSUME TypeOK, Conservation,
           NEW s \in Streams, NEW n \in Nat \ {0}, NEW t \in Nat,
           PacketIn(s, n, t), UNCHANGED <<held, written>>
    PROVE  /\ queue' \in [Streams -> Seq(Fragment)]
           /\ submitted' \in [Streams -> Seq(Fragment)]
           /\ next' \in [Streams -> Nat]
           /\ last' \in [Streams -> Nat]
           /\ Conservation'
           /\ Pending(s)' = Pending(s) + 1
           /\ \A r \in Streams \ {s} : Pending(r)' = Pending(r)
<1> DEFINE p == Fragments(next[s], n, last[s], t)
<1>1. /\ p \in Seq(Fragment) /\ PagePackets(p) = 1
      /\ queue[s] \in Seq(Fragment) /\ held[s] \in Seq(Fragment)
      /\ submitted[s] \in Seq(Fragment) /\ written[s] \in Seq(Fragment)
  <2>1. next[s] \in Nat /\ last[s] \in Nat
    BY DEF TypeOK
  <2>2. p \in Seq(Fragment) /\ PagePackets(p) = 1
    BY <2>1, CountPacket
  <2>3. QED
    BY <2>2 DEF TypeOK
<1>2. /\ queue' = [queue EXCEPT ![s] = queue[s] \o p]
      /\ submitted' = [submitted EXCEPT ![s] = submitted[s] \o p]
      /\ next' = [next EXCEPT ![s] = next[s] + 1]
      /\ last' = [last EXCEPT ![s] = t]
  BY DEF PacketIn
<1> HIDE DEF p
<1>3. queue[s] \o p \in Seq(Fragment) /\ submitted[s] \o p \in Seq(Fragment)
  BY <1>1, ConcatProperties
<1>4. /\ queue' \in [Streams -> Seq(Fragment)]
      /\ submitted' \in [Streams -> Seq(Fragment)]
      /\ next' \in [Streams -> Nat]
      /\ last' \in [Streams -> Nat]
  BY <1>2, <1>3, SMTT(20) DEF TypeOK
<1>5. submitted'[s] = written[s] \o held[s] \o queue'[s]
  <2>1. submitted[s] = (written[s] \o held[s]) \o queue[s]
    BY DEF Conservation
  <2>2. written[s] \o held[s] \in Seq(Fragment)
    BY <1>1, Assoc
  <2>3. ((written[s] \o held[s]) \o queue[s]) \o p
          = (written[s] \o held[s]) \o (queue[s] \o p)
    BY <1>1, <2>2, Assoc, ZenonT(30)
  <2>4. submitted'[s] = submitted[s] \o p /\ queue'[s] = queue[s] \o p
    BY <1>2 DEF TypeOK
  <2>5. QED
    BY <2>1, <2>3, <2>4
<1>6. Conservation'
  <2>1. \A r \in Streams \ {s} : submitted'[r] = submitted[r] /\ queue'[r] = queue[r]
    BY <1>2 DEF TypeOK
  <2>2. QED
    BY <1>5, <2>1 DEF Conservation
<1>7. Pending(s)' = Pending(s) + 1
  <2>1. PagePackets(queue[s] \o p) = PagePackets(queue[s]) + 1
    BY <1>1, CountConcat
  <2>2. queue'[s] = queue[s] \o p /\ held'[s] = held[s]
    BY <1>2 DEF TypeOK
  <2>3. PagePackets(queue[s]) \in Nat /\ PagePackets(held[s]) \in Nat
    BY <1>1, EndsFinite
  <2>4. Pending(s)' = PagePackets(held'[s]) + PagePackets(queue'[s])
    BY DEF Pending, PagePackets, Ends
  <2>5. QED
    BY <2>1, <2>2, <2>3, <2>4 DEF Pending
<1>8. \A r \in Streams \ {s} : Pending(r)' = Pending(r)
  BY <1>2 DEF TypeOK, Pending, PagePackets, Ends
<1>9. QED
  BY <1>4, <1>6, <1>7, <1>8

(* Adding an audio or video packet: one more to count.                         *)
LEMMA AddAVKeeps ==
    ASSUME IInv, NEW s \in AV, NEW t \in Nat, NEW bound, AddAV(s, t, bound)
    PROVE  IInv'
<1>1. PICK n \in 1 .. MaxFragments : PacketIn(s, n, t)
  BY DEF AddAV
<1>2. n \in Nat \ {0} /\ s \in Streams
  BY StreamKinds, BoundAssumption
<1>3. PICK e \in BOOLEAN : /\ ended' = [ended EXCEPT ![s] = e]
                        /\ eos' = [eos EXCEPT ![s] = @ \/ e]
  BY DEF AddAV
<1>4. /\ pkg' = [pkg EXCEPT ![s] = pkg[s] + 1]
      /\ pc' = "feed"
      /\ UNCHANGED <<mode, passno, held, time, kend, written, mark>>
  BY DEF AddAV
<1>5. /\ queue' \in [Streams -> Seq(Fragment)]
      /\ submitted' \in [Streams -> Seq(Fragment)]
      /\ next' \in [Streams -> Nat] /\ last' \in [Streams -> Nat]
      /\ Conservation'
      /\ Pending(s)' = Pending(s) + 1
      /\ \A r \in Streams \ {s} : Pending(r)' = Pending(r)
  BY <1>1, <1>2, <1>4, PacketInKeeps DEF IInv
<1>6. TypeOK'
  BY <1>3, <1>4, <1>5 DEF IInv, TypeOK
<1>7. PkgCounts'
  <2>1. \A r \in AV : Pending(r) \in Nat
    BY PendingNat, StreamKinds DEF IInv
  <2>2. \A r \in AV : r \in Streams
    BY StreamKinds
  <2>3. pkg \in [AV -> Nat]
    BY DEF IInv, TypeOK
  <2>4. ASSUME NEW r \in AV
        PROVE  pkg'[r] >= Pending(r)' /\ (passno' # 2 => pkg'[r] = Pending(r)')
    <3>1. pkg[r] >= Pending(r) /\ (passno # 2 => pkg[r] = Pending(r))
      BY DEF IInv, PkgCounts
    <3>2. CASE r = s
      BY <1>4, <1>5, <2>1, <2>3, <3>1, <3>2
    <3>3. CASE r # s
      BY <1>4, <1>5, <2>2, <2>3, <3>1, <3>3
    <3>4. QED
      BY <3>2, <3>3
  <2>5. QED
    BY <2>4 DEF PkgCounts
<1>8. PassOne'
  BY <1>4 DEF IInv, PassOne
<1>9. QED
  BY <1>5, <1>6, <1>7, <1>8 DEF IInv

(* A subtitle packet, or a Kate end packet: no counter of theirs is modelled.  *)
LEMMA KatePacketKeeps ==
    ASSUME IInv, NEW k \in Kate, NEW n \in Nat \ {0}, NEW t \in Nat,
           PacketIn(k, n, t), passno # 1,
           pc' \in {"feed", "flush"}, kend' \in 0 .. NKate,
           UNCHANGED <<mode, passno, held, time, pkg, eos, ended, written, mark>>
    PROVE  IInv'
<1>1. k \in Streams
  BY StreamKinds
<1>2. /\ queue' \in [Streams -> Seq(Fragment)]
      /\ submitted' \in [Streams -> Seq(Fragment)]
      /\ next' \in [Streams -> Nat] /\ last' \in [Streams -> Nat]
      /\ Conservation'
      /\ \A r \in Streams \ {k} : Pending(r)' = Pending(r)
  BY <1>1, PacketInKeeps DEF IInv
<1>3. TypeOK'
  BY <1>2 DEF IInv, TypeOK
<1>4. PkgCounts'
  <2>1. \A r \in AV : r \in Streams \ {k}
    BY StreamKinds
  <2>2. QED
    BY <1>2, <2>1 DEF IInv, PkgCounts
<1>5. PassOne'
  BY DEF IInv, PassOne
<1>6. QED
  BY <1>2, <1>3, <1>4, <1>5 DEF IInv


(* What a fetch leaves: well-typed pages, queues and times, and as many        *)
(* packets in page and queue as before.                                        *)
LEMMA FetchTypes ==
    ASSUME TypeOK, NEW h \in Fetches, NEW s \in Streams
    PROVE  /\ h[s] \in Seq(Fragment)
           /\ Rest(s, h[s]) \in Seq(Fragment)
           /\ h[s] \o Rest(s, h[s]) = held[s] \o queue[s]
           /\ PagePackets(h[s]) \in Nat
           /\ PagePackets(Rest(s, h[s])) \in Nat
           /\ PagePackets(h[s]) + PagePackets(Rest(s, h[s])) = Pending(s)
           /\ NewTime(h)[s] \in Nat
<1>1. h[s] \in Fetchable(s)
  BY FetchEach
<1>2. /\ h[s] \in Seq(Fragment) /\ Rest(s, h[s]) \in Seq(Fragment)
      /\ h[s] \o Rest(s, h[s]) = held[s] \o queue[s]
  BY <1>1, FetchStream
<1>3. held[s] \in Seq(Fragment) /\ queue[s] \in Seq(Fragment) /\ time[s] \in Nat
  BY DEF TypeOK
<1>4. PagePackets(h[s]) \in Nat /\ PagePackets(Rest(s, h[s])) \in Nat
  BY <1>2, EndsFinite
<1>5. PagePackets(h[s] \o Rest(s, h[s])) = PagePackets(h[s]) + PagePackets(Rest(s, h[s]))
  BY <1>2, CountConcat
<1>6. PagePackets(held[s] \o queue[s]) = PagePackets(held[s]) + PagePackets(queue[s])
  BY <1>3, CountConcat
<1>7. PagePackets(h[s]) + PagePackets(Rest(s, h[s])) = Pending(s)
  BY <1>2, <1>5, <1>6 DEF Pending
<1>8. NewTime(h)[s] \in Nat
  BY <1>2, <1>3, PageTimeNat DEF NewTime
<1>9. QED
  BY <1>2, <1>4, <1>7, <1>8

(* The state after the fetch half of a turn.                                   *)
LEMMA FetchState ==
    ASSUME TypeOK, NEW h \in Fetches, Fetch(h)
    PROVE  /\ queue' \in [Streams -> Seq(Fragment)]
           /\ time' \in [Streams -> Nat]
           /\ \A s \in Streams : queue'[s] = Rest(s, h[s])
<1>1. \A s \in Streams : Rest(s, h[s]) \in Seq(Fragment) /\ NewTime(h)[s] \in Nat
  BY FetchTypes
<1>2. queue' = [s \in Streams |-> Rest(s, h[s])] /\ time' = NewTime(h)
  BY DEF Fetch
<1>3. queue' \in [Streams -> Seq(Fragment)]
  BY <1>1, <1>2
<1>4. NewTime(h) = [s \in Streams |-> NewTime(h)[s]]
  BY DEF NewTime
<1>5. time' \in [Streams -> Nat]
  BY <1>1, <1>2, <1>4
<1>6. QED
  BY <1>2, <1>3, <1>5

(* Seen from the file, a fetch changes nothing: written, page, queue.          *)
LEMMA FetchConserves ==
    ASSUME TypeOK, Conservation, NEW h \in Fetches, NEW s \in Streams
    PROVE  /\ written[s] \in Seq(Fragment) /\ written[s] \o h[s] \in Seq(Fragment)
           /\ h[s] \in Seq(Fragment) /\ Rest(s, h[s]) \in Seq(Fragment)
           /\ submitted[s] = (written[s] \o h[s]) \o Rest(s, h[s])
<1>1. /\ h[s] \in Seq(Fragment) /\ Rest(s, h[s]) \in Seq(Fragment)
      /\ h[s] \o Rest(s, h[s]) = held[s] \o queue[s]
  BY FetchTypes
<1>2. /\ held[s] \in Seq(Fragment) /\ queue[s] \in Seq(Fragment)
      /\ written[s] \in Seq(Fragment)
  BY DEF TypeOK
<1>3. submitted[s] = (written[s] \o held[s]) \o queue[s]
  BY DEF Conservation
<1>4. submitted[s] = written[s] \o (held[s] \o queue[s])
  BY <1>2, <1>3, Assoc
<1>5. written[s] \o (h[s] \o Rest(s, h[s])) = (written[s] \o h[s]) \o Rest(s, h[s])
  <2>1. /\ written[s] \in Seq(Fragment)
        /\ h[s] \in Seq(Fragment) /\ Rest(s, h[s]) \in Seq(Fragment)
    BY <1>1, <1>2
  <2>2. QED
    BY <2>1, Assoc, ZenonT(30)
<1>6. written[s] \o h[s] \in Seq(Fragment)
  BY <1>1, <1>2, Assoc
<1>7. QED
  BY <1>1, <1>2, <1>4, <1>5, <1>6

(* Writing a page moves it to the file and takes its packets off the count.    *)
LEMMA WritePageKeeps ==
    ASSUME IInv, pc = "flush", NEW h \in Fetches, NEW w \in Streams, WritePage(h, w)
    PROVE  IInv'
<1>1. /\ TypeOK /\ Conservation /\ PkgCounts /\ PassOne
      /\ passno # 1
  BY DEF IInv, PassOne
<1>2. /\ Fetch(h)
      /\ held' = [h EXCEPT ![w] = << >>]
      /\ written' = [written EXCEPT ![w] = written[w] \o h[w]]
      /\ pkg' = Uncount(h, w)
      /\ mark' = IF w \in AV THEN time'[w] ELSE mark
      /\ UNCHANGED <<mode, passno, pc, eos, ended, kend, next, last, submitted>>
  BY DEF WritePage, Release
<1>3. h \in [Streams -> Seq(Fragment)]
  BY <1>1, FetchEach
<1>4. \A s \in Streams :
        /\ queue'[s] = Rest(s, h[s])
        /\ held'[s] = IF s = w THEN << >> ELSE h[s]
        /\ written'[s] = IF s = w THEN written[s] \o h[s] ELSE written[s]
  BY <1>1, <1>2, <1>3, FetchState DEF TypeOK
<1>5. << >> \in Seq(Fragment) /\ PagePackets(<< >>) = 0
  BY EmptySeq, CountEmpty
<1>6. ASSUME NEW s \in AV
      PROVE  /\ pkg'[s] = IF s = w THEN pkg[s] - PagePackets(h[s]) ELSE pkg[s]
             /\ pkg'[s] \in Nat
             /\ Pending(s)' = IF s = w THEN Pending(s) - PagePackets(h[s]) ELSE Pending(s)
             /\ pkg'[s] >= Pending(s)'
             /\ passno # 2 => pkg'[s] = Pending(s)'
  <2>1. s \in Streams
    BY StreamKinds
  <2>2. /\ PagePackets(h[s]) \in Nat /\ PagePackets(Rest(s, h[s])) \in Nat
        /\ PagePackets(h[s]) + PagePackets(Rest(s, h[s])) = Pending(s)
    BY <1>1, <2>1, FetchTypes
  <2>3. pkg[s] \in Nat /\ pkg[s] >= Pending(s) /\ (passno # 2 => pkg[s] = Pending(s))
    BY <1>1 DEF TypeOK, PkgCounts
  <2>4. pkg'[s] = IF s = w THEN pkg[s] - PagePackets(h[s]) ELSE pkg[s]
    BY <1>1, <1>2 DEF Uncount, TypeOK
  <2>5. Pending(s)' = PagePackets(held'[s]) + PagePackets(queue'[s])
    BY DEF Pending, PagePackets, Ends
  <2>6. Pending(s)' = IF s = w THEN Pending(s) - PagePackets(h[s]) ELSE Pending(s)
    <3>1. CASE s = w
      BY <1>4, <1>5, <2>1, <2>2, <2>5, <3>1
    <3>2. CASE s # w
      BY <1>4, <2>1, <2>2, <2>5, <3>2
    <3>3. QED
      BY <3>1, <3>2
  <2>7. QED
    BY <2>2, <2>3, <2>4, <2>6
<1>7. pkg' \in [AV -> Nat]
  <2>1. pkg' = [s \in AV |-> pkg'[s]]
    BY <1>1, <1>2 DEF Uncount, TypeOK
  <2>2. QED
    BY <1>6, <2>1
<1>8. PkgCounts'
  BY <1>2, <1>6 DEF PkgCounts
<1>9. ASSUME NEW s \in Streams
      PROVE  /\ written'[s] \in Seq(Fragment)
             /\ submitted'[s] = written'[s] \o held'[s] \o queue'[s]
  <2>1. /\ written[s] \in Seq(Fragment) /\ written[s] \o h[s] \in Seq(Fragment)
        /\ submitted[s] = (written[s] \o h[s]) \o Rest(s, h[s])
    BY <1>1, FetchConserves
  <2>2. (written[s] \o h[s]) \o << >> = written[s] \o h[s]
    BY <2>1, ConcatEmptySeq
  <2>3. CASE s = w
    BY <1>2, <1>4, <2>1, <2>2, <2>3
  <2>4. CASE s # w
    BY <1>2, <1>4, <2>1, <2>4
  <2>5. QED
    BY <2>3, <2>4
<1>10. Conservation'
  BY <1>9 DEF Conservation
<1>11. TypeOK'
  <2>1. queue' \in [Streams -> Seq(Fragment)] /\ time' \in [Streams -> Nat]
    BY <1>1, <1>2, FetchState
  <2>2. held' \in [Streams -> Seq(Fragment)]
    BY <1>2, <1>3, <1>5
  <2>3. written' \in [Streams -> Seq(Fragment)]
    <3>1. written' = [s \in Streams |-> written'[s]]
      BY <1>1, <1>2 DEF TypeOK
    <3>2. QED
      BY <1>9, <3>1
  <2>4. mark' \in Nat
    BY <1>1, <1>2, <2>1 DEF TypeOK
  <2>5. QED
    BY <1>1, <1>2, <1>7, <2>1, <2>2, <2>3, <2>4 DEF TypeOK
<1>12. PassOne'
  BY <1>1, <1>2 DEF PassOne
<1>13. QED
  BY <1>8, <1>10, <1>11, <1>12 DEF IInv

(* A turn that writes nothing keeps what it fetched.                           *)
LEMMA FlushBreakKeeps ==
    ASSUME IInv, FlushBreak
    PROVE  IInv'
<1>1. /\ TypeOK /\ Conservation /\ PkgCounts /\ PassOne
      /\ passno # 1
  BY DEF IInv, PassOne, FlushBreak
<1>2. PICK h \in Fetches : Fetch(h) /\ held' = h
  BY DEF FlushBreak
<1>3. h \in [Streams -> Seq(Fragment)]
  BY <1>1, FetchEach
<1>4. /\ pc' = "flushed"
      /\ UNCHANGED <<mode, passno, pkg, eos, ended, kend, next, last, submitted, written, mark>>
  BY DEF FlushBreak
<1>5. \A s \in Streams : queue'[s] = Rest(s, h[s]) /\ held'[s] = h[s]
  BY <1>1, <1>2, FetchState
<1>6. TypeOK'
  BY <1>1, <1>2, <1>3, <1>4, FetchState DEF TypeOK
<1>7. ASSUME NEW s \in Streams PROVE submitted'[s] = written'[s] \o held'[s] \o queue'[s]
  BY <1>1, <1>4, <1>5, FetchConserves
<1>8. ASSUME NEW s \in AV PROVE Pending(s)' = Pending(s)
  <2>1. s \in Streams
    BY StreamKinds
  <2>2. PagePackets(h[s]) + PagePackets(Rest(s, h[s])) = Pending(s)
    BY <1>1, <2>1, FetchTypes
  <2>3. Pending(s)' = PagePackets(held'[s]) + PagePackets(queue'[s])
    BY DEF Pending, PagePackets, Ends
  <2>4. QED
    BY <1>5, <2>1, <2>2, <2>3
<1>9. PkgCounts'
  BY <1>1, <1>4, <1>8 DEF PkgCounts
<1>10. Conservation' /\ PassOne'
  BY <1>1, <1>4, <1>7 DEF Conservation, PassOne
<1>11. QED
  BY <1>6, <1>9, <1>10 DEF IInv


(* The end of a Kate stream after the loop: a packet, a refusal, or nothing.   *)
LEMMA EndKateKeeps ==
    ASSUME IInv, EndKate
    PROVE  IInv'
<1>1. /\ TypeOK /\ passno # 1 /\ kend < NKate /\ kend' = kend + 1
      /\ UNCHANGED <<mode, passno, held, time, pkg, eos, ended, written, mark>>
  BY DEF IInv, EndKate
<1>2. kend \in Kate /\ kend' \in 0 .. NKate
  BY <1>1, StreamAssumption DEF TypeOK, Kate
<1> DEFINE now == IF time[Theora] < time[Vorbis] THEN time[Vorbis] ELSE time[Theora]
           t == IF now < last[kend] THEN last[kend] ELSE now
<1>3. CASE PacketIn(kend, 1, t) /\ pc' = "flush"
  <2>1. t \in Nat
    BY <1>1, <1>2, StreamKinds DEF TypeOK
  <2> HIDE DEF t
  <2>2. QED
    BY <1>1, <1>2, <1>3, <2>1, KatePacketKeeps
<1>4. CASE pc' \in {pc, "flush"} /\ UNCHANGED <<queue, submitted, next, last>>
  <2>1. TypeOK'
    BY <1>1, <1>2, <1>4 DEF TypeOK
  <2>2. Conservation'
    BY <1>1, <1>4 DEF IInv, Conservation
  <2>3. PkgCounts' /\ PassOne'
    BY <1>1, <1>4 DEF IInv, PkgCounts, PassOne, Pending, PagePackets, Ends
  <2>4. QED
    BY <2>1, <2>2, <2>3 DEF IInv
<1>5. QED
  BY <1>3, <1>4 DEF EndKate

(* The second pass starts the streams afresh; nothing of them was held or      *)
(* written in the first.                                                       *)
LEMMA NextPassKeeps ==
    ASSUME IInv, NextPass
    PROVE  IInv'
<1>1. /\ TypeOK /\ PkgCounts
      /\ \A s \in Streams : held[s] = << >> /\ written[s] = << >>
      /\ passno = 1 /\ passno' = 2 /\ pc' = "feed"
      /\ queue' = [s \in Streams |-> << >>] /\ submitted' = [s \in Streams |-> << >>]
      /\ next' = [s \in Streams |-> 0] /\ last' = [s \in Streams |-> 0]
      /\ eos' = [s \in AV |-> FALSE]
      /\ ended' = [s \in AV |-> FALSE]
      /\ UNCHANGED <<mode, held, time, pkg, kend, written, mark>>
  BY DEF IInv, PassOne, NextPass
<1>2. << >> \in Seq(Fragment) /\ << >> \o << >> = << >>
  BY EmptySeq, ConcatEmptySeq
<1>3. TypeOK'
  BY <1>1, <1>2 DEF TypeOK
<1>4. Conservation'
  BY <1>1, <1>2, Zenon DEF Conservation
<1>5. ASSUME NEW s \in AV PROVE pkg'[s] >= Pending(s)'
  <2>1. s \in Streams
    BY StreamKinds
  <2>2. Pending(s)' = 0
    <3>1. held'[s] = << >> /\ queue'[s] = << >>
      BY <1>1, <2>1
    <3>2. Pending(s)' = PagePackets(held'[s]) + PagePackets(queue'[s])
      BY DEF Pending, PagePackets, Ends
    <3>3. QED
      BY <3>1, <3>2, CountEmpty
  <2>3. QED
    BY <1>1, <2>2 DEF TypeOK
<1>6. PkgCounts'
  BY <1>1, <1>5 DEF PkgCounts
<1>7. PassOne'
  BY <1>1 DEF PassOne
<1>8. QED
  BY <1>3, <1>4, <1>6, <1>7 DEF IInv

(* Steps that touch none of the streams.                                       *)
LEMMA QuietKeeps ==
    ASSUME IInv, pc' \in {"feed", "flush", "flushed", "closed"},
           passno = 1 => pc' # "flush", eos' \in [AV -> BOOLEAN],
           UNCHANGED <<mode, passno, queue, held, time, pkg, ended, kend, next, last,
                       submitted, written, mark>>
    PROVE  IInv'
<1>1. TypeOK'
  BY DEF IInv, TypeOK
<1>2. Conservation' /\ PassOne'
  BY DEF IInv, Conservation, PassOne
<1>3. PkgCounts'
  BY DEF IInv, PkgCounts, Pending, PagePackets, Ends
<1>4. QED
  BY <1>1, <1>2, <1>3 DEF IInv

(* Every step keeps the inductive invariant.                                   *)
LEMMA NextIInv == IInv /\ [Next]_vars => IInv'
<1> SUFFICES ASSUME IInv, [Next]_vars PROVE IInv'
  OBVIOUS
<1>0. /\ \A s \in Streams : last[s] \in Nat
      /\ eos \in [AV -> BOOLEAN]
  BY DEF IInv, TypeOK
<1>1. CASE AddVideo
  <2>1. last[Theora] + FrameTime \in Nat /\ Theora \in AV
    BY <1>0, StreamKinds, BoundAssumption
  <2>2. QED
    BY <1>1, <2>1, AddAVKeeps DEF AddVideo
<1>2. CASE AddAudio
  <2>1. PICK d \in AudioTimes : AddAV(Vorbis, last[Vorbis] + d, MaxAudio)
    BY <1>2 DEF AddAudio
  <2>2. last[Vorbis] + d \in Nat /\ Vorbis \in AV
    BY <1>0, StreamKinds, BoundAssumption
  <2>3. QED
    BY <2>1, <2>2, AddAVKeeps
<1>3. ASSUME NEW k \in Kate, AddKate(k) PROVE IInv'
  <2>1. PICK d \in KateGaps, n \in 1 .. MaxFragments : PacketIn(k, n, last[k] + d)
    BY <1>3 DEF AddKate
  <2>2. last[k] + d \in Nat /\ n \in Nat \ {0}
    BY <1>0, StreamKinds, BoundAssumption
  <2>3. /\ passno # 1 /\ pc' = "feed" /\ kend' \in 0 .. NKate
        /\ UNCHANGED <<mode, passno, held, time, pkg, eos, ended, written, mark>>
    BY <1>3 DEF AddKate, IInv, TypeOK
  <2>4. QED
    BY <2>1, <2>2, <2>3, KatePacketKeeps
<1>4. CASE BeginFlush
  BY <1>0, <1>4, QuietKeeps DEF BeginFlush
<1>5. CASE FlushTurn
  BY <1>5, WritePageKeeps DEF FlushTurn
<1>6. CASE FlushBreak
  BY <1>6, FlushBreakKeeps
<1>7. CASE EndKate
  BY <1>7, EndKateKeeps
<1>8. CASE NextPass
  BY <1>8, NextPassKeeps
<1>9. CASE Close
  BY <1>0, <1>9, QuietKeeps DEF Close
<1>10. CASE Closed \/ UNCHANGED vars
  <2>1. UNCHANGED vars
    BY <1>10 DEF Closed
  <2>2. passno = 1 => pc # "flush"
    BY DEF IInv, PassOne
  <2>3. pc \in {"feed", "flush", "flushed", "closed"}
    BY DEF IInv, TypeOK
  <2>4. QED
    BY <1>0, <2>1, <2>2, <2>3, QuietKeeps DEF vars
<1>11. ASSUME NEW s \in AV, RaiseEOS(s) PROVE IInv'
  <2>1. /\ pc' = "feed" /\ eos' \in [AV -> BOOLEAN]
        /\ UNCHANGED <<mode, passno, queue, held, time, pkg, ended, kend, next, last,
                       submitted, written, mark>>
    BY <1>0, <1>11 DEF RaiseEOS
  <2>2. QED
    BY <2>1, QuietKeeps
<1>12. QED
  BY <1>1, <1>2, <1>3, <1>4, <1>5, <1>6, <1>7, <1>8, <1>9, <1>10, <1>11 DEF Next

(* IInv holds in every reachable state.                                        *)
THEOREM Invariant == Spec => []IInv
<1>1. Init => IInv
  BY InitIInv
<1>2. IInv /\ [Next]_vars => IInv'
  BY NextIInv
<1>3. QED
  BY <1>1, <1>2, PTL DEF Spec

(* The variables of the multiplexer keep their types.                          *)
THEOREM TypeCorrect == Spec => []TypeOK
BY Invariant, PTL DEF IInv

(* Between packetin and the file no fragment is lost, duplicated or reordered, *)
(* whatever pages libogg cuts and in whatever order oggmux_flush writes them.  *)
THEOREM NothingLost == Spec => []Conservation
BY Invariant, PTL DEF IInv

(* v_pkg and a_pkg count the packets that wait; they overcount only in a       *)
(* second pass, which starts with the counts of the first.                     *)
THEOREM CountersRight == Spec => []PkgCounts
BY Invariant, PTL DEF IInv


-----------------------------------------------------------------------------
(* The multiplexer implements reliable streams. *)

(* What is extended has the old value as a prefix.                             *)
LEMMA PrefixConcat ==
    ASSUME NEW a \in Seq(Fragment), NEW b \in Seq(Fragment)
    PROVE  a \o b \in Seq(Fragment) /\ LS!Prefix(a, a \o b)
<1>1. /\ a \o b \in Seq(Fragment)
      /\ Len(a \o b) = Len(a) + Len(b)
      /\ \A i \in 1 .. Len(a) + Len(b) : (a \o b)[i] = IF i <= Len(a) THEN a[i] ELSE b[i - Len(a)]
      /\ Len(a) \in Nat /\ Len(b) \in Nat
  BY LenProperties, ConcatProperties
<1>2. \A i \in 1 .. Len(a) : i \in 1 .. Len(a) + Len(b) /\ i <= Len(a)
  BY <1>1
<1>3. QED
  BY <1>1, <1>2 DEF LS!Prefix

(* A packet that is queued is sent.                                            *)
LEMMA PacketInSends ==
    ASSUME TypeOK, NEW s \in Streams, NEW n \in Nat \ {0}, NEW t \in Nat,
           PacketIn(s, n, t), UNCHANGED written
    PROVE  LS!Next
<1> DEFINE p == Fragments(next[s], n, last[s], t)
<1>1. p \in Seq(Fragment)
  BY CountPacket DEF TypeOK
<1>2. submitted' = [submitted EXCEPT ![s] = submitted[s] \o p]
  BY DEF PacketIn
<1> HIDE DEF p
<1>3. submitted[s] \in Seq(Fragment) /\ submitted'[s] = submitted[s] \o p
  BY <1>2 DEF TypeOK
<1>4. submitted'[s] \in Seq(Fragment) /\ LS!Prefix(submitted[s], submitted'[s])
  BY <1>1, <1>3, PrefixConcat
<1>5. submitted' = [submitted EXCEPT ![s] = submitted'[s]]
  BY <1>2, <1>3
<1>6. LS!Send(s)
  BY <1>4, <1>5 DEF LS!Send
<1>7. QED
  BY <1>6 DEF LS!Next

(* A page that is written is delivered.                                        *)
LEMMA WritePageDelivers ==
    ASSUME TypeOK, Conservation, NEW h \in Fetches, NEW w \in Streams, WritePage(h, w)
    PROVE  LS!Next
<1>1. /\ written[w] \in Seq(Fragment) /\ written[w] \o h[w] \in Seq(Fragment)
      /\ h[w] \in Seq(Fragment) /\ Rest(w, h[w]) \in Seq(Fragment)
      /\ submitted[w] = (written[w] \o h[w]) \o Rest(w, h[w])
  BY FetchConserves
<1>2. /\ written' = [written EXCEPT ![w] = written[w] \o h[w]]
      /\ UNCHANGED submitted
  BY DEF WritePage
<1>3. written'[w] = written[w] \o h[w]
  BY <1>2 DEF TypeOK
<1>4. LS!Prefix(written[w], written'[w])
  BY <1>1, <1>3, PrefixConcat
<1>5. LS!Prefix(written'[w], submitted[w])
  BY <1>1, <1>3, PrefixConcat
<1>6. written' = [written EXCEPT ![w] = written'[w]]
  BY <1>2, <1>3
<1>7. LS!Deliver(w)
  BY <1>1, <1>2, <1>3, <1>4, <1>5, <1>6 DEF LS!Deliver
<1>8. QED
  BY <1>7 DEF LS!Next

(* Every step of the multiplexer is a step of the streams, or none of theirs.  *)
LEMMA StepRefines ==
    IInv /\ [Next]_vars => [LS!Next]_<<submitted, written>>
<1> SUFFICES ASSUME IInv, [Next]_vars PROVE LS!Next \/ UNCHANGED <<submitted, written>>
  OBVIOUS
<1>1. TypeOK /\ Conservation /\ PassOne /\ \A s \in Streams : last[s] \in Nat
  BY DEF IInv, TypeOK
<1>2. ASSUME NEW s \in AV, NEW t \in Nat, NEW bound, AddAV(s, t, bound) PROVE LS!Next
  <2>1. PICK n \in 1 .. MaxFragments : PacketIn(s, n, t)
    BY <1>2 DEF AddAV
  <2>2. n \in Nat \ {0} /\ s \in Streams /\ UNCHANGED written
    BY <1>2, StreamKinds, BoundAssumption DEF AddAV
  <2>3. QED
    BY <1>1, <2>1, <2>2, PacketInSends
<1>3. CASE AddVideo
  <2>1. last[Theora] + FrameTime \in Nat /\ Theora \in AV
    BY <1>1, StreamKinds, BoundAssumption
  <2>2. QED
    BY <1>2, <1>3, <2>1 DEF AddVideo
<1>4. CASE AddAudio
  <2>1. PICK d \in AudioTimes : AddAV(Vorbis, last[Vorbis] + d, MaxAudio)
    BY <1>4 DEF AddAudio
  <2>2. last[Vorbis] + d \in Nat /\ Vorbis \in AV
    BY <1>1, StreamKinds, BoundAssumption
  <2>3. QED
    BY <1>2, <2>1, <2>2
<1>5. ASSUME NEW k \in Kate, AddKate(k) PROVE LS!Next
  <2>1. PICK d \in KateGaps, n \in 1 .. MaxFragments : PacketIn(k, n, last[k] + d)
    BY <1>5 DEF AddKate
  <2>2. /\ last[k] + d \in Nat /\ n \in Nat \ {0} /\ k \in Streams
        /\ UNCHANGED written
    BY <1>1, <1>5, StreamKinds, BoundAssumption DEF AddKate
  <2>3. QED
    BY <1>1, <2>1, <2>2, PacketInSends
<1>6. CASE FlushTurn
  BY <1>1, <1>6, WritePageDelivers DEF FlushTurn
<1>7. CASE EndKate
  <2> DEFINE now == IF time[Theora] < time[Vorbis] THEN time[Vorbis] ELSE time[Theora]
             t == IF now < last[kend] THEN last[kend] ELSE now
  <2>1. kend \in Streams /\ t \in Nat /\ UNCHANGED written
    BY <1>1, <1>7, StreamKinds, StreamAssumption, SMTT(20) DEF EndKate, TypeOK, Kate
  <2>2. PacketIn(kend, 1, t) \/ UNCHANGED submitted
    BY <1>7 DEF EndKate
  <2> HIDE DEF t
  <2>3. QED
    BY <1>1, <2>1, <2>2, PacketInSends
<1>8. CASE NextPass
  <2>1. LS!Restart
    BY <1>1, <1>8 DEF NextPass, PassOne, LS!Restart
  <2>2. QED
    BY <2>1 DEF LS!Next
<1>9. CASE \/ \E s \in AV : RaiseEOS(s)
           \/ BeginFlush \/ FlushBreak \/ Close \/ Closed \/ UNCHANGED vars
  BY <1>9 DEF RaiseEOS, BeginFlush, FlushBreak, Close, Closed, vars
<1>10. QED
  BY <1>3, <1>4, <1>5, <1>6, <1>7, <1>8, <1>9 DEF Next

(* For any number of streams and whatever libogg does, the multiplexer is a    *)
(* set of reliable first-in first-out channels.                                *)
THEOREM Refinement == Spec => Reliable
<1>1. Init => LS!Init
  BY DEF Init, LS!Init
<1>2. IInv /\ [Next]_vars => [LS!Next]_<<submitted, written>>
  BY StepRefines
<1>3. QED
  BY <1>1, <1>2, Invariant, PTL DEF Spec, Reliable, LS!Spec


-----------------------------------------------------------------------------
(* Interleaving. Audio and video pages are written in the order of their times *)
(* when both streams end in the same iteration of the decode loop. The         *)
(* invariant says why a page that is written later is not earlier: the         *)
(* fragments of a stream wait in the order of their times, none before the     *)
(* time of the last page, and a stream whose time lies before the mark has     *)
(* nothing left to write. A stream that is flagged as ended gives out all of   *)
(* its pages: its last packet carries e_o_s, unless it never had a packet.     *)

Ordered(s) ==
    /\ time[s] <= last[s]
    /\ \A i \in DOMAIN queue[s] : time[s] <= queue[s][i].t /\ queue[s][i].t <= last[s]
    /\ \A i, j \in DOMAIN queue[s] : i <= j => queue[s][i].t <= queue[s][j].t

Exhausted(s) == held[s] = << >> /\ queue[s] = << >> /\ (Present(s) => eos[s])

Flagged(s) ==
    /\ ended[s] => eos[s]
    /\ eos[s] /\ queue[s] # << >> => ended[s]
    /\ next[s] = 0 => queue[s] = << >>

StreamOrder(s) ==
    /\ Ordered(s)
    /\ mark <= time[s] \/ Exhausted(s)
    /\ ~Present(s) => held[s] = << >> /\ queue[s] = << >>
    /\ Flagged(s)

OrderInv ==
    /\ \A s \in AV : StreamOrder(s)
    /\ passno = 1 => mark = 0 /\ \A s \in AV : time[s] = 0
    /\ pc = "flush" /\ mode = "av" => (eos[Theora] <=> eos[Vorbis])

(* Times of fragments and of streams are natural numbers.                      *)
LEMMA TimesNat ==
    ASSUME TypeOK, NEW s \in AV
    PROVE  /\ s \in Streams
           /\ queue[s] \in Seq(Fragment) /\ held[s] \in Seq(Fragment)
           /\ Len(queue[s]) \in Nat /\ DOMAIN queue[s] = 1 .. Len(queue[s])
           /\ \A i \in 1 .. Len(queue[s]) : queue[s][i] \in Fragment /\ queue[s][i].t \in Nat
           /\ time[s] \in Nat /\ last[s] \in Nat /\ mark \in Nat
<1>1. s \in Streams
  BY StreamKinds
<1>2. /\ queue[s] \in Seq(Fragment) /\ held[s] \in Seq(Fragment)
      /\ time[s] \in Nat /\ last[s] \in Nat /\ mark \in Nat
  BY <1>1 DEF TypeOK
<1>3. Len(queue[s]) \in Nat /\ DOMAIN queue[s] = 1 .. Len(queue[s])
  BY <1>2, LenProperties
<1>4. \A i \in 1 .. Len(queue[s]) : queue[s][i] \in Fragment
  BY <1>2, ElementOfSeq
<1>5. \A f \in Fragment : f.t \in Nat
  BY DEF Fragment
<1>6. QED
  BY <1>1, <1>2, <1>3, <1>4, <1>5

(* A fetch moves the time of a stream forward, at most to that of the first    *)
(* fragment it leaves in the queue.                                            *)
LEMMA FetchOrdered ==
    ASSUME TypeOK, NEW s \in AV, Ordered(s), NEW h \in Fetches, Fetch(h),
           UNCHANGED last
    PROVE  /\ time[s] <= time'[s] /\ time'[s] = NewTime(h)[s] /\ time'[s] \in Nat
           /\ Ordered(s)'
<1>1. /\ s \in Streams
      /\ queue[s] \in Seq(Fragment) /\ held[s] \in Seq(Fragment)
      /\ Len(queue[s]) \in Nat /\ DOMAIN queue[s] = 1 .. Len(queue[s])
      /\ \A i \in 1 .. Len(queue[s]) : queue[s][i] \in Fragment /\ queue[s][i].t \in Nat
      /\ time[s] \in Nat /\ last[s] \in Nat
  BY TimesNat
<1>2. /\ queue'[s] = Rest(s, h[s]) /\ time' = NewTime(h)
      /\ NewTime(h)[s] = IF held[s] = << >> THEN PageTime(h[s], time[s]) ELSE time[s]
      /\ h[s] \in Fetchable(s)
  BY <1>1, FetchState, FetchEach DEF Fetch, NewTime
<1>3. NewTime(h)[s] \in Nat
  BY <1>1, FetchTypes
<1>4. CASE held[s] # << >>
  <2>1. queue'[s] = queue[s] /\ time'[s] = time[s] /\ last'[s] = last[s]
    BY <1>2, <1>4 DEF Rest
  <2>2. Ordered(s)'
    BY <2>1 DEF Ordered
  <2>3. QED
    BY <1>1, <1>2, <2>1, <2>2
<1>5. CASE held[s] = << >>
  <2> DEFINE q == queue[s]
             L == Len(queue[s])
  <2>1. h[s] \in FlushedPages(q) \cup {<< >>}
    BY <1>2, <1>5 DEF Fetchable, PagedOut
  <2>2. PICK n \in 0 .. L : h[s] = SubSeq(q, 1, n)
    BY <1>1, <2>1, PageIsPrefix
  <2>3. Len(h[s]) = n /\ n \in Nat
    BY <1>1, <2>2, SplitQueue
  <2>4. queue'[s] = SubSeq(q, n + 1, L)
    BY <1>2, <1>5, <2>3 DEF Rest
  <2>5. /\ Len(queue'[s]) = L - n /\ DOMAIN queue'[s] = 1 .. L - n
        /\ \A i \in 1 .. L - n : queue'[s][i] = q[n + i]
    <3>1. \A i \in n + 1 .. L : q[i] \in Fragment
      BY <1>1
    <3>2. n + 1 \in Nat /\ n + 1 \in 1 .. L + 1
      BY <1>1, <2>3
    <3>3. /\ Len(SubSeq(q, n + 1, L)) = L - n
          /\ \A i \in 1 .. L - n : SubSeq(q, n + 1, L)[i] = q[n + i]
          /\ SubSeq(q, n + 1, L) \in Seq(Fragment)
      BY <1>1, <3>1, <3>2, SubSeqProperties
    <3>4. QED
      BY <2>4, <3>3, LenProperties
  <2>6. \A i \in 1 .. n : h[s][i] = q[i]
    BY <1>1, <2>2, SubSeqProperties
  <2>7. \/ NewTime(h)[s] = time[s]
        \/ n >= 1 /\ NewTime(h)[s] = q[n].t
    <3>1. CASE Ends(h[s]) # {} /\ h[s][Len(h[s])].t > 0
      <4>1. h[s] \in Seq(Fragment)
        BY <1>1, FetchTypes
      <4>2. n >= 1
        BY <2>3, <3>1, <4>1, EndsFinite
      <4>3. h[s][n] = q[n]
        BY <2>3, <2>6, <4>2
      <4>4. NewTime(h)[s] = q[n].t
        BY <1>2, <1>5, <2>3, <3>1, <4>3 DEF PageTime
      <4>5. QED
        BY <4>2, <4>4
    <3>2. CASE ~(Ends(h[s]) # {} /\ h[s][Len(h[s])].t > 0)
      BY <1>2, <1>5, <3>2 DEF PageTime
    <3>3. QED
      BY <3>1, <3>2
  <2>8. /\ \A i \in 1 .. L : time[s] <= q[i].t /\ q[i].t <= last[s]
        /\ \A i, j \in 1 .. L : i <= j => q[i].t <= q[j].t
        /\ time[s] <= last[s]
    BY <1>1 DEF Ordered
  <2>9. n >= 1 => n \in 1 .. L
    BY <1>1, <2>3
  <2>10. time[s] <= NewTime(h)[s] /\ NewTime(h)[s] <= last[s]
    BY <1>1, <1>3, <2>7, <2>8, <2>9
  <2>11. ASSUME NEW i \in 1 .. L - n
         PROVE  /\ n + i \in 1 .. L /\ queue'[s][i].t \in Nat
                /\ NewTime(h)[s] <= queue'[s][i].t /\ queue'[s][i].t <= last[s]
    <3>1. n + i \in 1 .. L /\ n <= n + i
      BY <1>1, <2>3
    <3>2. queue'[s][i] = q[n + i]
      BY <2>5
    <3>3. n >= 1 => q[n].t <= q[n + i].t
      BY <2>8, <2>9, <3>1
    <3>4. time[s] <= q[n + i].t /\ q[n + i].t <= last[s] /\ q[n + i].t \in Nat
      BY <1>1, <2>8, <3>1
    <3>5. QED
      BY <2>7, <3>1, <3>2, <3>3, <3>4
  <2>12. ASSUME NEW i \in 1 .. L - n, NEW j \in 1 .. L - n, i <= j
         PROVE  queue'[s][i].t <= queue'[s][j].t
    <3>1. n + i \in 1 .. L /\ n + j \in 1 .. L /\ n + i <= n + j
      BY <1>1, <2>3, <2>12, SMTT(20)
    <3>2. QED
      BY <2>5, <2>8, <3>1
  <2>13. time'[s] = NewTime(h)[s] /\ last'[s] = last[s]
    BY <1>2
  <2>14. \A i \in DOMAIN queue'[s] : time'[s] <= queue'[s][i].t /\ queue'[s][i].t <= last'[s]
    BY <2>5, <2>11, <2>13
  <2>15. \A i, j \in DOMAIN queue'[s] : i <= j => queue'[s][i].t <= queue'[s][j].t
    BY <2>5, <2>12
  <2>16. Ordered(s)'
    BY <2>10, <2>13, <2>14, <2>15 DEF Ordered
  <2>17. QED
    BY <1>3, <2>10, <2>13, <2>16
<1>6. QED
  BY <1>2, <1>3, <1>4, <1>5

(* Nothing comes of a stream that has nothing.                                 *)
LEMMA FetchEmpty ==
    ASSUME TypeOK, NEW s \in AV, NEW h \in Fetches, Fetch(h),
           held[s] = << >>, queue[s] = << >>
    PROVE  h[s] = << >> /\ queue'[s] = << >>
<1>1. s \in Streams /\ h[s] \in Fetchable(s)
  BY StreamKinds, FetchEach
<1>2. h[s] = << >>
  BY <1>1 DEF Fetchable, PagedOut, FlushedPages
<1>3. SubSeq(<< >>, 1, 0) = << >> /\ Len(<< >>) = 0
  BY EmptySeq, SubSeqEmpty
<1>4. Rest(s, h[s]) = << >>
  BY <1>2, <1>3 DEF Rest
<1>5. QED
  BY <1>1, <1>2, <1>4, FetchState

(* A fetch does not fill a queue, so the flags of the stream stay right.       *)
LEMMA FetchFlagged ==
    ASSUME TypeOK, NEW s \in AV, Flagged(s), NEW h \in Fetches, Fetch(h),
           UNCHANGED <<eos, ended, next>>
    PROVE  Flagged(s)'
<1>1. s \in Streams
  BY StreamKinds
<1>2. queue[s] = << >> => queue'[s] = << >>
  <2>1. CASE held[s] = << >>
    BY <2>1, FetchEmpty
  <2>2. CASE held[s] # << >>
    BY <1>1, <2>2, FetchState DEF Rest
  <2>3. QED
    BY <2>1, <2>2
<1>3. QED
  BY <1>2 DEF Flagged

(* An ended stream that yields no page has nothing: libogg gives out the last  *)
(* page once e_o_s is queued.                                                  *)
LEMMA FetchEnded ==
    ASSUME TypeOK, NEW s \in AV, Flagged(s), NEW h \in Fetches, Fetch(h),
           eos[s], h[s] = << >>
    PROVE  queue'[s] = << >>
<1>1. s \in Streams /\ h[s] \in Fetchable(s) /\ queue[s] \in Seq(Fragment)
  BY StreamKinds, FetchEach, TimesNat
<1>2. held[s] = << >>
  BY <1>1 DEF Fetchable
<1>3. CASE queue[s] = << >>
  BY <1>2, <1>3, FetchEmpty
<1>4. CASE queue[s] # << >>
  <2>0. h[s] \in FlushedPages(queue[s])
    BY <1>1, <1>2, <1>4, StreamKinds DEF Fetchable, PagedOut, Flagged
  <2>1. PICK n \in 1 .. Len(queue[s]) : h[s] = SubSeq(queue[s], 1, n)
    BY <1>4, <2>0 DEF FlushedPages
  <2>2. Len(h[s]) = n /\ n # 0
    BY <1>1, <2>1, SplitQueue, LenProperties
  <2>3. QED
    BY <2>2, EmptySeq
<1>5. QED
  BY <1>3, <1>4


(* The initial state is in order.                                              *)
LEMMA InitOrder == Init => OrderInv
<1> SUFFICES ASSUME Init PROVE OrderInv
  OBVIOUS
<1>1. ASSUME NEW s \in AV
      PROVE  /\ queue[s] = << >> /\ held[s] = << >> /\ time[s] = 0 /\ last[s] = 0 /\ mark = 0
             /\ DOMAIN queue[s] = {} /\ ~eos[s] /\ ~ended[s]
  <2>1. /\ queue[s] = << >> /\ held[s] = << >> /\ time[s] = 0 /\ last[s] = 0 /\ mark = 0
        /\ ~eos[s] /\ ~ended[s]
    BY StreamKinds DEF Init
  <2>2. QED
    BY <2>1, EmptySeq
<1>2. \A s \in AV : StreamOrder(s)
  BY <1>1 DEF StreamOrder, Ordered, Flagged
<1>3. QED
  BY <1>1, <1>2 DEF Init, OrderInv

(* A stream whose queue, page and times a step leaves alone.                   *)
LEMMA OrderUntouched ==
    ASSUME NEW s \in AV, StreamOrder(s),
           queue'[s] = queue[s], held'[s] = held[s], time'[s] = time[s], last'[s] = last[s],
           mark' = mark, mode' = mode, next'[s] = next[s], ended'[s] = ended[s],
           eos'[s] = eos[s]
    PROVE  StreamOrder(s)'
BY DEF StreamOrder, Ordered, Exhausted, Flagged, Present

(* A packet is not earlier than the one before it, and none follows the flag.  *)
LEMMA AddAVOrder ==
    ASSUME EndTime = FALSE, TypeOK, OrderInv, NEW s \in AV, NEW d \in Nat, NEW bound,
           AddAV(s, last[s] + d, bound)
    PROVE  OrderInv'
<1>1. /\ s \in Streams
      /\ queue[s] \in Seq(Fragment)
      /\ Len(queue[s]) \in Nat /\ DOMAIN queue[s] = 1 .. Len(queue[s])
      /\ \A i \in 1 .. Len(queue[s]) : queue[s][i].t \in Nat
      /\ time[s] \in Nat /\ last[s] \in Nat /\ mark \in Nat /\ next[s] \in Nat
  BY TimesNat DEF TypeOK
<1>2. PICK n \in 1 .. MaxFragments : PacketIn(s, n, last[s] + d)
  BY DEF AddAV
<1> DEFINE t == last[s] + d
           p == Fragments(next[s], n, last[s], t)
           L == Len(queue[s])
<1>3. /\ Present(s) /\ ~eos[s] /\ pc' = "feed"
      /\ UNCHANGED <<mode, passno, held, time, written, mark>>
      /\ \A r \in AV \ {s} : ended'[r] = ended[r] /\ eos'[r] = eos[r]
      /\ eos'[s] = ended'[s]
  BY DEF AddAV, TypeOK
<1>4. /\ queue' = [queue EXCEPT ![s] = queue[s] \o p] /\ last' = [last EXCEPT ![s] = t]
      /\ next' = [next EXCEPT ![s] = next[s] + 1]
  BY <1>2 DEF PacketIn
<1>5. n \in Nat \ {0} /\ t \in Nat /\ last[s] <= t
  BY <1>1, BoundAssumption
<1>6. /\ p \in Seq(Fragment) /\ Len(p) = n
      /\ \A i \in 1 .. n : p[i].t = IF i = n THEN t ELSE last[s]
  <2>1. p \in Seq(Fragment) /\ Len(p) = n
    <3>1. next[s] \in Nat /\ n \in Nat \ {0} /\ last[s] \in Nat /\ t \in Nat
      BY <1>1, <1>5
    <3> HIDE DEF t
    <3>2. p \in [1 .. n -> Fragment]
      BY <3>1 DEF Fragments, Fragment
    <3> HIDE DEF p
    <3>3. QED
      BY <3>1, <3>2
  <2>2. \A i \in 1 .. n : p[i].t = IF i = n THEN t ELSE last[s]
    BY DEF Fragments
  <2>3. QED
    BY <2>1, <2>2
<1> HIDE DEF p, t
<1>7. /\ queue'[s] = queue[s] \o p /\ last'[s] = t /\ time'[s] = time[s]
      /\ DOMAIN queue'[s] = 1 .. L + n
      /\ \A i \in 1 .. L + n : queue'[s][i] = IF i <= L THEN queue[s][i] ELSE p[i - L]
  <2>1. queue'[s] = queue[s] \o p /\ last'[s] = t
    BY <1>1, <1>4 DEF TypeOK
  <2>2. /\ queue[s] \o p \in Seq(Fragment) /\ Len(queue[s] \o p) = L + n
        /\ \A i \in 1 .. L + n : (queue[s] \o p)[i] = IF i <= L THEN queue[s][i] ELSE p[i - L]
    BY <1>1, <1>6, ConcatProperties
  <2>3. QED
    BY <1>3, <2>1, <2>2, LenProperties
<1>8. /\ time[s] <= last[s]
      /\ \A i \in 1 .. L : time[s] <= queue[s][i].t /\ queue[s][i].t <= last[s]
      /\ \A i, j \in 1 .. L : i <= j => queue[s][i].t <= queue[s][j].t
  BY <1>1 DEF OrderInv, StreamOrder, Ordered
<1>9. ASSUME NEW i \in 1 .. L + n
      PROVE  /\ i <= L => queue'[s][i].t = queue[s][i].t /\ i \in 1 .. L
             /\ ~(i <= L) => queue'[s][i].t = IF i = L + n THEN t ELSE last[s]
  <2>1. CASE i <= L
    BY <1>1, <1>7, <2>1
  <2>2. CASE ~(i <= L)
    <3>0. i \in Int /\ L \in Int /\ n \in Int /\ i > L /\ i <= L + n
      BY <1>1, <1>5, <2>2
    <3>1. i - L \in 1 .. n /\ (i - L = n <=> i = L + n)
      <4> HIDE DEF L
      <4>1. QED
        BY <3>0
    <3>2. QED
      BY <1>6, <1>7, <2>2, <3>1
  <2>3. QED
    BY <2>1, <2>2
<1>10. Ordered(s)'
  <2>1. ASSUME NEW i \in 1 .. L + n
        PROVE  time'[s] <= queue'[s][i].t /\ queue'[s][i].t <= last'[s]
    <3>0. /\ time'[s] = time[s] /\ last'[s] = t /\ last[s] <= t
          /\ time[s] \in Nat /\ last[s] \in Nat /\ t \in Nat
      BY <1>1, <1>5, <1>7
    <3>1. CASE i <= L
      <4>1. /\ queue'[s][i].t = queue[s][i].t /\ queue[s][i].t \in Nat
            /\ time[s] <= queue[s][i].t /\ queue[s][i].t <= last[s]
        BY <1>1, <1>8, <1>9, <3>1
      <4>2. QED
        BY <3>0, <4>1
    <3>2. CASE ~(i <= L)
      <4>1. queue'[s][i].t = IF i = L + n THEN t ELSE last[s]
        BY <1>9, <3>2
      <4>2. QED
        BY <1>8, <3>0, <4>1
    <3>3. QED
      BY <3>1, <3>2
  <2>2. ASSUME NEW i \in 1 .. L + n, NEW j \in 1 .. L + n, i <= j
        PROVE  queue'[s][i].t <= queue'[s][j].t
    <3>1. CASE i <= L /\ j <= L
      BY <1>8, <1>9, <2>2, <3>1
    <3>2. CASE i <= L /\ ~(j <= L)
      <4>1. /\ queue'[s][i].t = queue[s][i].t /\ queue[s][i].t \in Nat
            /\ queue[s][i].t <= last[s]
        BY <1>1, <1>8, <1>9, <3>2
      <4>2. queue'[s][j].t = IF j = L + n THEN t ELSE last[s]
        BY <1>9, <3>2
      <4>3. QED
        BY <1>1, <1>5, <4>1, <4>2
    <3>3. CASE ~(i <= L)
      <4>1. ~(j <= L) /\ (i = L + n => j = L + n)
        BY <1>1, <1>5, <2>2, <3>3
      <4>2. /\ queue'[s][i].t = IF i = L + n THEN t ELSE last[s]
            /\ queue'[s][j].t = IF j = L + n THEN t ELSE last[s]
        BY <1>9, <3>3, <4>1
      <4>3. QED
        BY <1>1, <1>5, <4>1, <4>2
    <3>4. QED
      BY <3>1, <3>2, <3>3
  <2>3. time'[s] <= last'[s]
    BY <1>1, <1>5, <1>7, <1>8
  <2>4. QED
    BY <1>7, <2>1, <2>2, <2>3 DEF Ordered
<1>11. StreamOrder(s)'
  <2>1. mark' <= time'[s]
    BY <1>3 DEF OrderInv, StreamOrder, Exhausted
  <2>2. Flagged(s)'
    <3>1. next'[s] = next[s] + 1 /\ next'[s] # 0
      BY <1>1, <1>4 DEF TypeOK
    <3>2. QED
      BY <1>3, <3>1 DEF Flagged
  <2>3. QED
    BY <1>3, <1>10, <2>1, <2>2 DEF StreamOrder, Present
<1>12. ASSUME NEW r \in AV \ {s} PROVE StreamOrder(r)'
  <2>1. r \in AV /\ r \in Streams
    BY StreamKinds
  <2>2. /\ queue'[r] = queue[r] /\ last'[r] = last[r] /\ held'[r] = held[r]
        /\ time'[r] = time[r] /\ next'[r] = next[r]
    BY <1>3, <1>4, <2>1 DEF TypeOK
  <2>3. QED
    BY <1>3, <2>1, <2>2, OrderUntouched DEF OrderInv
<1>13. QED
  BY <1>3, <1>11, <1>12 DEF OrderInv

(* Steps that touch no audio or video stream.                                  *)
LEMMA OtherOrder ==
    ASSUME OrderInv,
           \A s \in AV : queue'[s] = queue[s] /\ last'[s] = last[s] /\ next'[s] = next[s],
           UNCHANGED <<mode, passno, held, time, eos, ended, mark>>,
           pc' = "flush" /\ mode = "av" => (eos[Theora] <=> eos[Vorbis])
    PROVE  OrderInv'
<1>1. ASSUME NEW s \in AV PROVE StreamOrder(s)'
  BY OrderUntouched DEF OrderInv
<1>2. QED
  BY <1>1 DEF OrderInv


(* What a fetch does to the order of a stream: its time moves forward, and a   *)
(* stream behind the mark still has nothing.                                   *)
LEMMA FetchStreamOrder ==
    ASSUME TypeOK, NEW s \in AV, StreamOrder(s), NEW h \in Fetches, Fetch(h),
           UNCHANGED <<last, eos, ended, next>>
    PROVE  /\ Ordered(s)' /\ time'[s] = NewTime(h)[s]
           /\ \/ mark <= time'[s]
              \/ h[s] = << >> /\ queue'[s] = << >> /\ (Present(s) => eos[s])
           /\ ~Present(s) => h[s] = << >> /\ queue'[s] = << >>
           /\ Flagged(s)'
<1>1. /\ time[s] <= time'[s] /\ time'[s] = NewTime(h)[s] /\ time'[s] \in Nat
      /\ Ordered(s)'
  BY FetchOrdered DEF StreamOrder
<1>2. time[s] \in Nat /\ mark \in Nat
  BY TimesNat
<1>3. held[s] = << >> /\ queue[s] = << >> => h[s] = << >> /\ queue'[s] = << >>
  BY FetchEmpty
<1>4. mark <= time[s] => mark <= time'[s]
  BY <1>1, <1>2
<1>5. Flagged(s)'
  BY FetchFlagged DEF StreamOrder
<1>6. QED
  BY <1>1, <1>3, <1>4, <1>5 DEF StreamOrder, Exhausted

(* The page that is written is not earlier than the mark, and no other stream  *)
(* with anything left is behind it.                                            *)
LEMMA WritePageOrder ==
    ASSUME TypeOK, OrderInv, pc = "flush", passno # 1,
           NEW h \in Fetches, NEW w \in Streams,
           Due(w, h, NewTime(h)), WritePage(h, w)
    PROVE  /\ OrderInv'
           /\ w \in AV => time'[w] >= mark
<1>1. /\ Fetch(h)
      /\ held' = [h EXCEPT ![w] = << >>]
      /\ mark' = IF w \in AV THEN time'[w] ELSE mark
      /\ UNCHANGED <<mode, passno, pc, eos, ended, next, last>>
  BY DEF WritePage, Release
<1>2. h \in [Streams -> Seq(Fragment)] /\ \A s \in AV : s \in Streams
  BY FetchEach, StreamKinds
<1>3. \A s \in AV : held'[s] = IF s = w THEN << >> ELSE h[s]
  BY <1>1, <1>2
<1>4. ASSUME NEW s \in AV
      PROVE  /\ Ordered(s)' /\ time'[s] = NewTime(h)[s] /\ time'[s] \in Nat
             /\ \/ mark <= time'[s]
                \/ h[s] = << >> /\ queue'[s] = << >> /\ (Present(s) => eos[s])
             /\ ~Present(s) => h[s] = << >> /\ queue'[s] = << >>
             /\ (Present(s)' <=> Present(s)) /\ eos'[s] = eos[s] /\ Flagged(s)'
  <2>1. StreamOrder(s)
    BY DEF OrderInv
  <2>2. time'[s] \in Nat
    BY <1>1, <1>2, FetchState
  <2>3. Present(s)' <=> Present(s)
    BY <1>1 DEF Present
  <2>4. QED
    BY <1>1, <2>1, <2>2, <2>3, FetchStreamOrder
<1>5. ASSUME \A s \in AV : StreamOrder(s)' PROVE OrderInv'
  BY <1>1, <1>5 DEF OrderInv
<1>6. CASE w \in Kate
  <2>1. w \notin AV
    BY <1>6, StreamKinds
  <2>2. ASSUME NEW s \in AV PROVE StreamOrder(s)'
    <3>1. held'[s] = h[s] /\ mark' = mark /\ s \in AV
      BY <1>1, <1>3, <2>1
    <3>2. QED
      BY <1>4, <3>1 DEF StreamOrder, Exhausted
  <2>3. QED
    BY <1>5, <2>1, <2>2
<1>7. CASE w \in AV
  <2>1. h[w] # << >> /\ w \notin Kate
    BY <1>7, StreamKinds DEF Due, DueAV, DueAtEnd
  <2>2. Present(w) /\ mark <= time'[w] /\ time'[w] \in Nat
    BY <1>4, <1>7, <2>1
  <2>3. ASSUME NEW r \in AV \ {w}, Present(r)
        PROVE  \/ time'[w] <= time'[r]
               \/ h[r] = << >> /\ queue'[r] = << >> /\ eos[r]
    <3>1. mode = "av" /\ {w, r} = {Theora, Vorbis} /\ r \in AV
      <4>1. r \in AV /\ ((w = Theora /\ r = Vorbis) \/ (w = Vorbis /\ r = Theora))
        BY <1>7, <2>3 DEF AV
      <4>2. Present(Theora) /\ Present(Vorbis)
        BY <2>2, <2>3, <4>1
      <4>3. mode \in {"av", "video_only", "audio_only"}
        BY DEF TypeOK
      <4>4. mode = "av"
        BY <4>2, <4>3, StreamKinds DEF Present
      <4>5. QED
        BY <4>1, <4>4
    <3>2. /\ NewTime(h)[Theora] \in Nat /\ NewTime(h)[Vorbis] \in Nat
          /\ time'[w] = NewTime(h)[w] /\ time'[r] = NewTime(h)[r]
      BY <1>4, <1>7, <3>1, StreamKinds
    <3>3. CASE DueAV(w, h, NewTime(h))
      <4>1. w = Theora <=> NewTime(h)[Theora] <= NewTime(h)[Vorbis]
        BY <3>1, <3>3 DEF DueAV
      <4>2. (w = Theora /\ r = Vorbis) \/ (w = Vorbis /\ r = Theora)
        BY <3>1, StreamKinds
      <4>3. time'[w] <= time'[r]
        <5>1. CASE w = Theora /\ r = Vorbis
          BY <3>2, <4>1, <5>1
        <5>2. CASE w = Vorbis /\ r = Theora
          BY <3>2, <4>1, <5>2, StreamKinds
        <5>3. QED
          BY <4>2, <5>1, <5>2
      <4>4. QED
        BY <4>3
    <3>4. CASE ~DueAV(w, h, NewTime(h))
      <4>1. EOS /\ \A a \in AV : ~DueAV(a, h, NewTime(h))
        BY <2>1, <3>4 DEF Due
      <4>2. eos[w] /\ eos[r] /\ Flagged(r)
        <5>1. (eos[Theora] <=> eos[Vorbis]) /\ Flagged(r)
          BY <3>1 DEF OrderInv, StreamOrder
        <5>2. eos[Theora] \/ eos[Vorbis]
          BY <4>1 DEF EOS, AV
        <5>3. QED
          BY <3>1, <5>1, <5>2
      <4>3. h[r] = << >>
        <5>1. ASSUME h[r] # << >> PROVE FALSE
          <6>1. h[Theora] # << >> /\ h[Vorbis] # << >>
            BY <2>1, <3>1, <5>1
          <6>2. Present(Theora) /\ Present(Vorbis)
            BY <3>1, StreamKinds DEF Present
          <6>3. CASE NewTime(h)[Theora] <= NewTime(h)[Vorbis]
            BY <4>1, <6>1, <6>2, <6>3, StreamKinds DEF DueAV
          <6>4. CASE ~(NewTime(h)[Theora] <= NewTime(h)[Vorbis])
            BY <4>1, <6>1, <6>2, <6>4, StreamKinds DEF DueAV
          <6>5. QED
            BY <6>3, <6>4
        <5>2. QED
          BY <5>1
      <4>4. queue'[r] = << >>
        BY <1>1, <3>1, <4>2, <4>3, FetchEnded
      <4>5. QED
        BY <4>2, <4>3, <4>4
    <3>5. QED
      BY <3>3, <3>4
  <2>4. mark' = time'[w] /\ held'[w] = << >>
    BY <1>1, <1>3, <1>7
  <2>5. StreamOrder(w)'
    <3>1. Ordered(w)' /\ mark' <= time'[w] /\ Present(w)' /\ Flagged(w)'
      BY <1>4, <1>7, <2>2, <2>4
    <3>2. QED
      BY <3>1 DEF StreamOrder
  <2>6. ASSUME NEW r \in AV \ {w} PROVE StreamOrder(r)'
    <3>1. held'[r] = h[r] /\ r \in AV
      BY <1>3
    <3>2. /\ Ordered(r)' /\ (Present(r)' <=> Present(r)) /\ eos'[r] = eos[r] /\ Flagged(r)'
          /\ ~Present(r) => h[r] = << >> /\ queue'[r] = << >>
      BY <1>4, <3>1
    <3>3. QED
      BY <2>3, <2>4, <3>1, <3>2 DEF StreamOrder, Exhausted
  <2>7. QED
    BY <1>2, <1>4, <1>5, <1>7, <2>2, <2>5, <2>6, TimesNat
<1>8. QED
  BY <1>6, <1>7, StreamKinds

(* A turn that writes nothing.                                                 *)
LEMMA FlushBreakOrder ==
    ASSUME TypeOK, OrderInv, passno # 1, FlushBreak
    PROVE  OrderInv'
<1>1. PICK h \in Fetches : Fetch(h) /\ held' = h
  BY DEF FlushBreak
<1>2. pc' = "flushed" /\ UNCHANGED <<mode, passno, eos, ended, next, last, mark>>
  BY DEF FlushBreak
<1>3. ASSUME NEW s \in AV PROVE StreamOrder(s)'
  <2>1. StreamOrder(s)
    BY DEF OrderInv
  <2>2. /\ Ordered(s)' /\ Flagged(s)'
        /\ \/ mark <= time'[s]
           \/ h[s] = << >> /\ queue'[s] = << >> /\ (Present(s) => eos[s])
        /\ ~Present(s) => h[s] = << >> /\ queue'[s] = << >>
    BY <1>1, <1>2, <2>1, FetchStreamOrder
  <2>3. (Present(s)' <=> Present(s)) /\ held'[s] = h[s] /\ mark' = mark /\ eos'[s] = eos[s]
    BY <1>1, <1>2 DEF Present
  <2>4. QED
    BY <2>2, <2>3 DEF StreamOrder, Exhausted
<1>4. QED
  BY <1>2, <1>3 DEF OrderInv

(* The second pass starts from time zero.                                      *)
LEMMA NextPassOrder ==
    ASSUME IInv, OrderInv, NextPass
    PROVE  OrderInv'
<1>1. /\ mark' = 0 /\ passno' = 2 /\ pc' = "feed" /\ mode' = mode
      /\ \A s \in AV : /\ queue'[s] = << >> /\ held'[s] = << >>
                       /\ time'[s] = 0 /\ last'[s] = 0
                       /\ ~eos'[s] /\ ~ended'[s]
  BY StreamKinds DEF IInv, PassOne, OrderInv, NextPass
<1>2. DOMAIN << >> = {}
  BY EmptySeq
<1>3. \A s \in AV : DOMAIN queue'[s] = {}
  BY <1>1, <1>2
<1>4. ASSUME NEW s \in AV PROVE StreamOrder(s)'
  BY <1>1, <1>3 DEF StreamOrder, Ordered, Flagged
<1>5. QED
  BY <1>1, <1>4 DEF OrderInv


(* Every step keeps the order, when the input ends for both streams at once.   *)
LEMMA NextOrder ==
    ASSUME EndTime = FALSE, IInv, OrderInv, [Next]_vars
    PROVE  /\ OrderInv'
           /\ \A s \in AV : written'[s] # written[s] => time'[s] >= mark
<1>1. TypeOK /\ PassOne /\ (pc = "flush" => passno # 1)
  BY DEF IInv, PassOne
<1>2. \A s \in AV : s \in Streams /\ s \notin Kate
  BY StreamKinds
<1>3. CASE AddVideo
  <2>1. OrderInv'
    BY <1>1, <1>3, AddAVOrder, StreamKinds, BoundAssumption DEF AddVideo
  <2>2. QED
    BY <1>3, <2>1 DEF AddVideo, AddAV
<1>4. CASE AddAudio
  <2>1. PICK d \in AudioTimes : AddAV(Vorbis, last[Vorbis] + d, MaxAudio)
    BY <1>4 DEF AddAudio
  <2>2. OrderInv'
    BY <1>1, <2>1, AddAVOrder, StreamKinds, BoundAssumption
  <2>3. QED
    BY <2>1, <2>2 DEF AddAV
<1>5. ASSUME NEW k \in Kate, AddKate(k)
      PROVE  OrderInv' /\ UNCHANGED written
  <2>1. \A s \in AV : queue'[s] = queue[s] /\ last'[s] = last[s] /\ next'[s] = next[s]
    BY <1>1, <1>2, <1>5 DEF AddKate, PacketIn, TypeOK
  <2>2. UNCHANGED <<mode, passno, held, time, eos, ended, mark, written>> /\ pc' = "feed"
    BY <1>5 DEF AddKate
  <2>3. QED
    BY <2>1, <2>2, OtherOrder
<1>6. CASE BeginFlush
  <2>1. UNCHANGED <<mode, passno, held, time, eos, ended, mark, written, queue, last, next>>
    BY <1>6 DEF BeginFlush
  <2>2. pc' = "flush" /\ mode = "av" => (eos[Theora] <=> eos[Vorbis])
    BY <1>6 DEF BeginFlush
  <2>3. QED
    BY <2>1, <2>2, OtherOrder
<1>7. CASE FlushTurn
  <2>1. PICK h \in Fetches, w \in Streams : Due(w, h, NewTime(h)) /\ WritePage(h, w)
    BY <1>7 DEF FlushTurn
  <2>2. OrderInv' /\ (w \in AV => time'[w] >= mark)
    BY <1>1, <1>7, <2>1, WritePageOrder DEF FlushTurn
  <2>3. \A s \in AV : written'[s] # written[s] => s = w
    BY <1>1, <1>2, <2>1 DEF WritePage, TypeOK
  <2>4. QED
    BY <2>2, <2>3
<1>8. CASE FlushBreak
  <2>1. passno # 1
    BY <1>1, <1>8 DEF FlushBreak
  <2>2. OrderInv'
    BY <1>1, <1>8, <2>1, FlushBreakOrder
  <2>3. QED
    BY <1>8, <2>2 DEF FlushBreak
<1>9. CASE EndKate
  <2>1. UNCHANGED <<mode, passno, held, time, eos, ended, mark, written>>
    BY <1>9 DEF EndKate
  <2>2. kend \in Kate
    BY <1>1, <1>9, StreamAssumption DEF EndKate, TypeOK, Kate
  <2>3. \A s \in AV : queue'[s] = queue[s] /\ last'[s] = last[s] /\ next'[s] = next[s]
    BY <1>1, <1>2, <1>9, <2>2 DEF EndKate, PacketIn, TypeOK
  <2>4. mode = "av" => (eos[Theora] <=> eos[Vorbis])
    <3>1. mode = "av" => Present(Theora) /\ Present(Vorbis)
      BY StreamKinds DEF Present
    <3>2. AllEnded /\ passno # 1
      BY <1>9 DEF EndKate
    <3>3. mode = "av" => Over(Theora) /\ Over(Vorbis)
      BY <3>1, <3>2, StreamKinds DEF AllEnded
    <3>4. \A s \in AV : Over(s) => eos[s]
      BY DEF Over, NoFrames, OrderInv, StreamOrder, Flagged
    <3>5. QED
      BY <3>3, <3>4, StreamKinds
  <2>5. QED
    BY <2>1, <2>3, <2>4, OtherOrder
<1>10. CASE NextPass
  <2>1. OrderInv'
    BY <1>10, NextPassOrder
  <2>2. QED
    BY <1>10, <2>1 DEF NextPass
<1>11. CASE Close
  <2>1. UNCHANGED <<mode, passno, held, time, eos, ended, mark, written, queue, last, next>>
    BY <1>11 DEF Close
  <2>2. pc' = "closed"
    BY <1>11 DEF Close
  <2>3. QED
    BY <2>1, <2>2, OtherOrder
<1>12. CASE Closed \/ UNCHANGED vars
  <2>1. UNCHANGED <<mode, passno, pc, held, time, eos, ended, mark, written, queue, last, next>>
    BY <1>12 DEF Closed, vars
  <2>2. pc' = "flush" /\ mode = "av" => (eos[Theora] <=> eos[Vorbis])
    BY <2>1 DEF OrderInv
  <2>3. QED
    BY <2>1, <2>2, OtherOrder
<1>13. ASSUME NEW r \in AV, RaiseEOS(r)
       PROVE  OrderInv' /\ UNCHANGED written
  <2>1. /\ UNCHANGED <<mode, passno, queue, held, time, ended, next, last, written, mark>>
        /\ pc' = "feed" /\ next[r] = 0 /\ eos' = [eos EXCEPT ![r] = TRUE]
    BY <1>13 DEF RaiseEOS
  <2>2. ASSUME NEW s \in AV PROVE StreamOrder(s)'
    <3>1. StreamOrder(s)
      BY DEF OrderInv
    <3>2. eos'[s] = (s = r \/ eos[s])
      BY <1>1, <2>1 DEF TypeOK
    <3>3. QED
      BY <2>1, <3>1, <3>2 DEF StreamOrder, Ordered, Exhausted, Flagged, Present
  <2>3. QED
    BY <2>1, <2>2 DEF OrderInv
<1>14. QED
  BY <1>3, <1>4, <1>5, <1>6, <1>7, <1>8, <1>9, <1>10, <1>11, <1>12, <1>13 DEF Next

(* "Make sure they're in the right order" (theorautils.c:1807): without an end *)
(* time, no audio or video page is written after a later one, for any number   *)
(* of subtitle streams and whatever pages libogg cuts.                         *)
THEOREM Interleaving ==
    ASSUME EndTime = FALSE
    PROVE  Spec => InOrder
<1>1. Init => OrderInv
  BY InitOrder
<1>2. IInv /\ OrderInv /\ [Next]_vars => OrderInv'
  BY NextOrder
<1>3. IInv /\ OrderInv /\ [Next]_vars
        => [\A s \in AV : written'[s] # written[s] => time'[s] >= mark]_vars
  BY NextOrder
<1>4. QED
  BY <1>1, <1>2, <1>3, Invariant, PTL DEF Spec, InOrder

=============================================================================
