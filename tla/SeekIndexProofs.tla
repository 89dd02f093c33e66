-------------------------- MODULE SeekIndexProofs --------------------------
(***************************************************************************)
(* Proofs about the keyframe index for every kind of stream, any packets,  *)
(* pages, times, interval and duration: the search finds the page of every *)
(* keyframe, and the keypoints are exact, spaced, close enough to any      *)
(* keyframe, as many as are needed, and inside the range of the index;     *)
(* their bytes are counted right and read back as what was kept.           *)
(*                                                                         *)
(* The heart of the invariant is `cum`: cum[p] is the number of the last   *)
(* packet that starts on one of the first p pages. The loop of             *)
(* write_index_pages recomputes it from the recorded counts.               *)
(***************************************************************************)
EXTENDS SeekIndex, SequenceTheorems, FiniteSetTheorems, WellFoundedInduction, TLAPS

Segment == [no : Nat, first : BOOLEAN, last : BOOLEAN]

(* The types the proofs need.                                                  *)
Typed ==
    /\ kind \in Kinds
    /\ pc \in {"encode", "search", "done"}
    /\ clock \in Nat /\ last_end_time \in Nat \cup {-1}
    /\ packetno \in Nat /\ filepos \in Nat
    /\ queue \in Seq(Segment)
    /\ packets \in Seq(Keyframe)
    /\ range = << >> \/ range \in [start_time : Nat, end_time : Nat]
    /\ pages \in Seq(Page)
    /\ starts \in Seq(SUBSET Nat) /\ Len(starts) = Len(pages)
    /\ i \in Nat \ {0} /\ pageno \in Nat \ {0}
    /\ last_packetno \in Nat /\ packet_in_page \in Nat
    /\ prev_keyframe_pageno \in Nat \cup {-INT_MAX}
    /\ prev_keyframe_start_time \in Nat \cup {-INT_MAX}
    /\ keypoints \in Seq(Keypoint)

(* Both lists are recorded in order, packets also of time but for Kate.        *)
Recorded ==
    /\ kind # "kate" =>
          \A m \in DOMAIN packets :
              /\ packets[m].start_time <= clock
              /\ \A j \in 1 .. m : packets[j].start_time <= packets[m].start_time
    /\ \A m \in DOMAIN packets : packets[m].packetno \in NumHeaders .. packetno - 1
    /\ \A m, n \in DOMAIN packets : m < n => packets[m].packetno < packets[n].packetno
    /\ \A p, q \in DOMAIN pages : p < q => pages[p].offset < pages[q].offset
    /\ \A p \in DOMAIN pages : pages[p].offset < filepos
    /\ pc # "encode" => queue = << >>

(* The range holds every recorded start, and the end of the last subtitle,     *)
(* which may be the next start.                                                *)
Ranged ==
    /\ packets # << >> => range # << >>
    /\ \A m \in DOMAIN packets :
          range.start_time <= packets[m].start_time /\ packets[m].start_time <= range.end_time
    /\ last_end_time >= 0 => range # << >> /\ last_end_time <= range.end_time

(* The search has not begun.                                                   *)
Fresh ==
    pc = "encode" =>
        /\ i = 1 /\ pageno = 1 /\ last_packetno = FirstPacketno
        /\ packet_in_page = 0 /\ prev_keyframe_pageno = -INT_MAX
        /\ prev_keyframe_start_time = -INT_MAX /\ keypoints = << >>

(* Packets start on the pages in the order of their numbers, none is left out, *)
(* and those in the queue follow.                                              *)
Numbered(cum) ==
    /\ cum \in [0 .. Len(pages) -> Nat]
    /\ cum[0] = NumHeaders - 1
    /\ \A p \in 1 .. Len(pages) : /\ cum[p] = cum[p - 1] + pages[p].packet_start_num
                                  /\ starts[p] = cum[p - 1] + 1 .. cum[p]
    /\ \A p, q \in 0 .. Len(pages) : p <= q => cum[p] <= cum[q]
    /\ cum[Len(pages)] < packetno
    /\ \A g, h \in DOMAIN queue :
          g < h /\ queue[g].first /\ queue[h].first => queue[g].no < queue[h].no
    /\ \A g \in DOMAIN queue :
          queue[g].first => queue[g].no \in cum[Len(pages)] + 1 .. packetno - 1
    /\ \A x \in cum[Len(pages)] + 1 .. packetno - 1 :
          \E g \in DOMAIN queue : queue[g].first /\ queue[g].no = x

Consecutive == \E cum : Numbered(cum)

(* How many of the keyframes looked at start on the page.                      *)
Current == IF prev_keyframe_pageno = pageno THEN packet_in_page ELSE 0

Behind(n) == {j \in 1 .. i - 1 : packets[j].packetno > n}

(* The search knows the number of the last packet before its page.             *)
Walked(cum) ==
    /\ pageno <= Len(pages) + 1
    /\ last_packetno = cum[pageno - 1]
    /\ i <= Len(packets) + 1
    /\ i > 1 => pageno <= Len(pages)
    /\ \A j \in 1 .. i - 1 : packets[j].packetno <= cum[pageno]
    /\ i <= Len(packets) => last_packetno < packets[i].packetno
    /\ prev_keyframe_pageno <= pageno
    /\ Current = Cardinality(Behind(last_packetno))

(* The target packet of page p is the m-th keyframe.                           *)
Target(m, p) ==
    /\ packets[m].packetno \in starts[p]
    /\ Cardinality({j \in 1 .. m : packets[j].packetno \in starts[p]}) = TargetPacket

(* No packet before the m-th starts after it, if times can go back at all.     *)
InTurn(m) ==
    kind = "kate" => \A j \in 1 .. m : packets[j].start_time <= packets[m].start_time

(* The m-th packet starts at most the interval after a keypoint.               *)
Near(m) ==
    \E k \in DOMAIN keypoints : /\ keypoints[k].time <= packets[m].start_time
                               /\ packets[m].start_time <= keypoints[k].time + Interval

(* Keypoints are target packets the search has passed, and the last one is no  *)
(* longer to be found again.                                                   *)
Kept ==
    /\ \A k \in DOMAIN keypoints : \E m \in DOMAIN packets, p \in DOMAIN pages :
          /\ m < i /\ p <= pageno
          /\ packets[m].start_time = keypoints[k].time
          /\ pages[p].offset = keypoints[k].offset
          /\ Target(m, p)
    /\ keypoints = << >> => prev_keyframe_start_time = -INT_MAX
    /\ keypoints # << >> =>
          /\ prev_keyframe_start_time = keypoints[Len(keypoints)].time
          /\ \E q \in DOMAIN pages :
                /\ q <= pageno
                /\ pages[q].offset = keypoints[Len(keypoints)].offset
                /\ q = pageno => Current >= TargetPacket

(* Keypoints are used up no faster than one per interval.                      *)
Paced ==
    /\ Len(keypoints) <= MaxKeypoints
    /\ \A k \in DOMAIN keypoints : keypoints[k].time >= (k - 1) * Interval

IndexInv ==
    /\ Typed /\ Recorded /\ Ranged /\ Fresh
    /\ \E cum \in [0 .. Len(pages) -> Nat] : Numbered(cum) /\ Walked(cum)
    /\ Kept /\ Spaced /\ Covers /\ Paced /\ EnoughKeypoints

-----------------------------------------------------------------------------
(* Arithmetic. *)

(* The constants as numbers.                                                   *)
LEMMA Constants ==
    /\ NumHeaders \in Nat /\ NumHeaders >= 3
    /\ FirstPacketno = NumHeaders - 1
    /\ TargetPacket \in {1, 2}
    /\ INT_MAX \in Nat /\ Interval < INT_MAX
    /\ Interval \in Nat /\ Duration \in Nat
  BY IndexAssumption DEF NumHeaders, FirstPacketno, TargetPacket, INT_MAX

(* ceil(duration / interval) intervals are as long as the duration.            *)
LEMMA Ceiling ==
    ASSUME Interval > 0
    PROVE  /\ MaxKeypoints \in Nat /\ MaxKeypoints >= 2
           /\ (MaxKeypoints - 1) * Interval > Duration
<1> DEFINE a == Duration + Interval - 1
           q == a \div Interval
<1>1. a \in Nat /\ Interval \in Nat \ {0} /\ Duration \in Nat
  BY IndexAssumption
<1>2. q \in Int /\ a % Interval \in 0 .. Interval - 1 /\ a = Interval * q + (a % Interval)
  BY <1>1
<1> HIDE DEF a
<1>3. q \in Nat
  BY <1>1
<1>4. MaxKeypoints = q + 2
  BY <1>1 DEF MaxKeypoints, KeypointsPerIndex, a
<1>5. Interval * q >= Duration
  BY <1>1, <1>2, <1>3 DEF a
<1>6. (q + 1) * Interval = Interval * q + Interval
  BY <1>1, <1>3
<1>7. QED
  BY <1>1, <1>3, <1>4, <1>5, <1>6

(* Room is reserved for a whole number of keypoints.                           *)
LEMMA MaxKeypointsType == MaxKeypoints \in Nat
<1>1. CASE Interval = 0
  BY <1>1 DEF MaxKeypoints, KeypointsPerIndex
<1>2. CASE Interval # 0
  BY <1>2, Ceiling, IndexAssumption
<1>3. QED
  BY <1>1, <1>2

(* A finite set of numbers above a without a gap is an interval.               *)
LEMMA NoGap ==
    ASSUME NEW T, IsFiniteSet(T), NEW a \in Nat,
           \A x \in T : x \in Nat /\ x > a,
           \A x \in T, y \in Nat : a < y /\ y < x => y \in T
    PROVE  T = a + 1 .. a + Cardinality(T)
<1>1. Cardinality(T) \in Nat
  BY FS_CardinalityType
<1>2. ASSUME NEW x \in T PROVE x <= a + Cardinality(T)
  <2>1. a + 1 .. x \in SUBSET T
    BY <1>2
  <2>2. Cardinality(a + 1 .. x) <= Cardinality(T)
    BY <2>1, FS_Subset
  <2>3. Cardinality(a + 1 .. x) = x - a
    <3>1. Cardinality(a + 1 .. x) = IF a + 1 > x THEN 0 ELSE x - (a + 1) + 1
      BY FS_Interval
    <3>2. QED
      BY <3>1
  <2>4. QED
    BY <1>1, <2>2, <2>3
<1> DEFINE b == a + Cardinality(T)
<1>3. b \in Int /\ a + 1 \in Int
  BY <1>1
<1>4. T \in SUBSET (a + 1 .. b)
  BY <1>1, <1>2
<1> HIDE DEF b
<1>5. /\ IsFiniteSet(a + 1 .. b)
      /\ Cardinality(a + 1 .. b) = IF a + 1 > b THEN 0 ELSE b - (a + 1) + 1
  BY <1>3, FS_Interval
<1>6. Cardinality(a + 1 .. b) = Cardinality(T)
  BY <1>1, <1>5 DEF b
<1>7. T = a + 1 .. b
  BY <1>4, <1>5, <1>6, FS_Subset
<1>8. QED
  BY <1>7 DEF b

-----------------------------------------------------------------------------
(* Before the search. *)

(* While nothing was searched the parts about the search say nothing.          *)
LEMMA Unsearched ==
    ASSUME Typed, Recorded, Fresh, pc = "encode",
           NEW cum, Numbered(cum)
    PROVE  Walked(cum) /\ Kept /\ Spaced /\ Covers /\ Paced /\ EnoughKeypoints
<1>1. /\ i = 1 /\ pageno = 1 /\ last_packetno = NumHeaders - 1
      /\ prev_keyframe_pageno = -INT_MAX /\ prev_keyframe_start_time = -INT_MAX
      /\ keypoints = << >>
  BY Constants DEF Fresh
<1>2. Len(pages) \in Nat /\ Len(packets) \in Nat /\ DOMAIN packets = 1 .. Len(packets)
  BY LenProperties DEF Typed
<1>3. Walked(cum)
  <2>1. Behind(last_packetno) = {}
    BY <1>1 DEF Behind
  <2>2. Current = 0
    BY <1>1, Constants DEF Current
  <2>3. Cardinality(Behind(last_packetno)) = 0
    BY <2>1, FS_EmptySet
  <2>4. i <= Len(packets) => last_packetno < packets[i].packetno
    BY <1>1, <1>2, Constants DEF Recorded
  <2>5. last_packetno = cum[pageno - 1]
    BY <1>1, Constants DEF Numbered
  <2>6. QED
    BY <1>1, <1>2, <2>2, <2>3, <2>4, <2>5, Constants DEF Walked
<1>4. Kept /\ Spaced /\ Paced
  BY <1>1, MaxKeypointsType DEF Kept, Spaced, Paced
<1>5. Covers /\ EnoughKeypoints
  BY <1>1 DEF Covers, EnoughKeypoints
<1>6. QED
  BY <1>3, <1>4, <1>5

(* As a formula about one state, for the next state.                           *)
LEMMA UnsearchedInv ==
    Typed /\ Recorded /\ Ranged /\ Fresh /\ pc = "encode" /\ Consecutive => IndexInv
<1> SUFFICES ASSUME Typed, Recorded, Ranged, Fresh, pc = "encode", NEW cum, Numbered(cum)
             PROVE  IndexInv
  BY DEF Consecutive
<1>1. cum \in [0 .. Len(pages) -> Nat]
  BY DEF Numbered
<1>2. Walked(cum) /\ Kept /\ Spaced /\ Covers /\ Paced /\ EnoughKeypoints
  BY Unsearched
<1>3. QED
  BY <1>1, <1>2 DEF IndexInv

(* The invariant before the search begins, for the state after a step.         *)
LEMMA UnsearchedNext ==
    (Typed /\ Recorded /\ Ranged /\ Fresh /\ pc = "encode" /\ Consecutive => IndexInv)'
  BY UnsearchedInv, PTL

(* Before the first packet the only page number known is that of the headers.  *)
LEMMA InitInv == Init => IndexInv
<1> SUFFICES ASSUME Init PROVE IndexInv
  OBVIOUS
<1> DEFINE cum == [p \in 0 .. 0 |-> NumHeaders - 1]
<1>1. Typed
  BY Constants, IndexAssumption DEF Init, Typed
<1>2. Recorded /\ Ranged /\ Fresh
  BY Constants DEF Init, Recorded, Ranged, Fresh
<1>3. Numbered(cum)
  <2>1. Len(pages) = 0 /\ packetno = NumHeaders /\ queue = << >>
    BY DEF Init
  <2>2. cum \in [0 .. Len(pages) -> Nat] /\ cum[0] = NumHeaders - 1 /\ cum[Len(pages)] = NumHeaders - 1
    BY <2>1, Constants
  <2>3. \A p, q \in 0 .. Len(pages) : cum[p] <= cum[q]
    BY <2>1, Constants
  <2> HIDE DEF cum
  <2>4. QED
    BY <2>1, <2>2, <2>3, Constants DEF Numbered
<1>4. pc = "encode"
  BY DEF Init
<1> HIDE DEF cum
<1>5. QED
  BY <1>1, <1>2, <1>3, <1>4, UnsearchedInv DEF Consecutive

(* What a packet in n segments adds to the queue.                              *)
Segments(n) == [f \in 1 .. n |-> [no |-> packetno, first |-> f = 1, last |-> f = n]]

(* The segments of a packet go to the end of the queue, the first of them      *)
(* marked.                                                                     *)
LEMMA Queued ==
    ASSUME Typed, NEW n \in Nat \ {0}, queue' = queue \o Segments(n)
    PROVE  /\ queue' \in Seq(Segment) /\ Len(queue') = Len(queue) + n
           /\ DOMAIN queue' = 1 .. Len(queue) + n
           /\ \A g \in 1 .. Len(queue) : queue'[g] = queue[g]
           /\ \A g \in Len(queue) + 1 .. Len(queue) + n :
                 queue'[g].no = packetno /\ (queue'[g].first <=> g = Len(queue) + 1)
<1>1. /\ Segments(n) \in Seq(Segment) /\ Len(Segments(n)) = n
  BY DEF Segments, Segment, Typed
<1>2. /\ queue \in Seq(Segment) /\ Len(queue) \in Nat
  BY LenProperties DEF Typed
<1>3. /\ queue' \in Seq(Segment) /\ Len(queue') = Len(queue) + n
      /\ \A g \in 1 .. Len(queue) + n :
            queue'[g] = IF g <= Len(queue) THEN queue[g] ELSE Segments(n)[g - Len(queue)]
  BY <1>1, <1>2, ConcatProperties
<1>4. ASSUME NEW g \in Len(queue) + 1 .. Len(queue) + n
      PROVE  queue'[g].no = packetno /\ (queue'[g].first <=> g = Len(queue) + 1)
  <2>1. g - Len(queue) \in 1 .. n /\ queue'[g] = Segments(n)[g - Len(queue)]
    BY <1>2, <1>3
  <2>2. Segments(n)[g - Len(queue)] =
          [no |-> packetno, first |-> g - Len(queue) = 1, last |-> g - Len(queue) = n]
    BY <2>1 DEF Segments
  <2>3. (g - Len(queue) = 1) <=> g = Len(queue) + 1
    BY <1>2
  <2> DEFINE one == g - Len(queue) = 1
             end == g - Len(queue) = n
  <2>4. queue'[g] = [no |-> packetno, first |-> one, last |-> end]
    BY <2>1, <2>2
  <2> HIDE DEF one, end
  <2>5. queue'[g].no = packetno /\ queue'[g].first = one
    BY <2>4
  <2>6. queue'[g].no = packetno /\ (queue'[g].first <=> g - Len(queue) = 1)
    BY <2>5, Zenon DEF one
  <2>7. QED
    BY <2>3, <2>6, Zenon
<1>5. QED
  BY <1>2, <1>3, <1>4, LenProperties

(* A packet that is indexed with a start no later than its end, or with the    *)
(* end of the subtitle before.                                                 *)
LEMMA PacketStep ==
    ASSUME IndexInv,
           NEW start \in Nat, NEW end \in Nat, NEW key \in BOOLEAN,
           Packet(start, end, key),
           clock' \in Nat,
           start <= end \/ (start = last_end_time /\ last_end_time >= 0),
           last_end_time' \in {last_end_time, end},
           kind # "kate" => start = clock /\ clock <= clock'
    PROVE  IndexInv'
<1>1. PICK cum : Numbered(cum)
  BY DEF IndexInv
<1>2. Typed /\ Recorded /\ Ranged /\ Fresh
  BY DEF IndexInv
<1>3. /\ pc = "encode" /\ pc' = "encode"
      /\ range' = Widened(start, end)
      /\ packets' = IF key THEN Append(packets, [packetno |-> packetno, start_time |-> start])
                    ELSE packets
      /\ packetno' = packetno + 1
      /\ UNCHANGED <<kind, packet_size, filepos, pages, starts, pc, search>>
  BY DEF Packet
<1>4. PICK n \in Nat \ {0} : queue' = queue \o Segments(n)
  <2>1. \A n \in 1 .. MaxFragments : n \in Nat \ {0}
    BY IndexAssumption
  <2>2. \E n \in 1 .. MaxFragments : queue' = queue \o Segments(n)
    BY Zenon DEF Packet, Segments
  <2>3. QED
    BY <2>1, <2>2, Zenon
<1>5. /\ queue' \in Seq(Segment) /\ Len(queue') = Len(queue) + n
      /\ DOMAIN queue' = 1 .. Len(queue) + n
      /\ \A g \in 1 .. Len(queue) : queue'[g] = queue[g]
      /\ \A g \in Len(queue) + 1 .. Len(queue) + n :
            queue'[g].no = packetno /\ (queue'[g].first <=> g = Len(queue) + 1)
  BY <1>2, <1>4, Queued
<1>6. /\ Len(queue) \in Nat /\ DOMAIN queue = 1 .. Len(queue)
      /\ Len(pages) \in Nat /\ DOMAIN pages = 1 .. Len(pages)
      /\ Len(packets) \in Nat /\ DOMAIN packets = 1 .. Len(packets)
      /\ packetno \in Nat
  BY <1>2, LenProperties DEF Typed
<1>7. packetno >= NumHeaders
  <2>1. cum \in [0 .. Len(pages) -> Nat] /\ cum[0] = NumHeaders - 1 /\ cum[Len(pages)] < packetno
    BY <1>1 DEF Numbered
  <2>2. 0 \in 0 .. Len(pages) /\ Len(pages) \in 0 .. Len(pages) /\ 0 <= Len(pages)
    BY <1>6
  <2>3. cum[0] <= cum[Len(pages)]
    BY <1>1, <2>2 DEF Numbered
  <2>4. QED
    BY <1>6, <2>1, <2>2, <2>3, Constants
<1>8. /\ packets' \in Seq(Keyframe)
      /\ \A m \in DOMAIN packets' :
            \/ m \in DOMAIN packets /\ packets'[m] = packets[m]
            \/ m = Len(packets) + 1 /\ packets'[m] = [packetno |-> packetno, start_time |-> start]
  <2> DEFINE e == [packetno |-> packetno, start_time |-> start]
  <2>1. packets \in Seq(Keyframe) /\ e \in Keyframe
    BY <1>2, <1>6 DEF Typed, Keyframe
  <2> HIDE DEF e
  <2>2. packets' = IF key THEN Append(packets, e) ELSE packets
    BY <1>3 DEF e
  <2>3. CASE key
    BY <1>6, <2>1, <2>2, <2>3, AppendProperties DEF e
  <2>4. CASE ~key
    BY <2>1, <2>2, <2>4
  <2>5. QED
    BY <2>3, <2>4
<1>9. NumHeaders' = NumHeaders
  BY <1>3 DEF search, NumHeaders
<1>10. range' \in [start_time : Nat, end_time : Nat]
  BY <1>2, <1>3 DEF Typed, Widened
<1>11. Typed'
  BY <1>2, <1>3, <1>5, <1>8, <1>10, SMTT(20) DEF Typed, search
<1>12. Recorded'
  <2>1. \A m \in DOMAIN packets' : packets'[m].packetno \in NumHeaders .. packetno' - 1
    BY <1>2, <1>3, <1>6, <1>7, <1>8, Constants, SMTT(20) DEF Recorded
  <2>2. \A l, m \in DOMAIN packets' : l < m => packets'[l].packetno < packets'[m].packetno
    BY <1>2, <1>6, <1>8, Constants, SMTT(20) DEF Recorded
  <2>3. ASSUME kind # "kate", NEW m \in DOMAIN packets'
        PROVE  /\ packets'[m].start_time <= clock'
               /\ \A j \in 1 .. m : packets'[j].start_time <= packets'[m].start_time
    <3>1. start = clock /\ clock <= clock' /\ clock \in Nat
      BY <1>2, <2>3 DEF Typed
    <3>2. \A j \in DOMAIN packets :
             /\ packets[j].start_time <= clock /\ packets[j].start_time \in Nat
             /\ \A l \in 1 .. j : packets[l].start_time <= packets[j].start_time
      <4>1. \A j \in DOMAIN packets : packets[j] \in Keyframe
        BY <1>2, <1>6, ElementOfSeq DEF Typed
      <4>2. QED
        BY <1>2, <2>3, <4>1 DEF Recorded, Keyframe
    <3>3. \A j \in DOMAIN packets : j \in DOMAIN packets' => packets'[j] = packets[j]
      BY <1>6, <1>8
    <3>4. DOMAIN packets' = 1 .. Len(packets')
      BY <1>8, LenProperties
    <3>5. \A j \in 1 .. m : j \in DOMAIN packets'
      BY <1>6, <1>8, <3>4
    <3>6. CASE m \in DOMAIN packets
      <4>1. packets'[m] = packets[m] /\ \A j \in 1 .. m : j \in DOMAIN packets
        BY <1>6, <3>3, <3>6
      <4>2. \A j \in 1 .. m : packets'[j] = packets[j]
        BY <3>3, <3>5, <4>1
      <4>3. QED
        BY <3>1, <3>2, <3>6, <4>1, <4>2
    <3>7. CASE m = Len(packets) + 1
      <4>1. packets'[m].start_time = start
        BY <1>6, <1>8, <3>7
      <4>2. \A j \in 1 .. m : j = m \/ (j \in DOMAIN packets /\ packets'[j] = packets[j])
        BY <1>6, <3>3, <3>5, <3>7
      <4>3. QED
        BY <3>1, <3>2, <4>1, <4>2
    <3>8. QED
      BY <1>8, <3>6, <3>7
  <2>4. QED
    BY <1>2, <1>3, <1>9, <2>1, <2>2, <2>3 DEF Recorded, search
<1>13. Ranged'
  <2>1. /\ range'.start_time <= start
        /\ start <= range'.end_time /\ end <= range'.end_time
        /\ range # << >> => /\ range'.start_time <= range.start_time
                            /\ range.end_time <= range'.end_time
    BY <1>2, <1>3 DEF Typed, Widened, Ranged
  <2>2. /\ range' # << >> /\ range'.start_time \in Nat /\ range'.end_time \in Nat
    BY <1>3, <1>10 DEF Widened
  <2>3. \A m \in DOMAIN packets : /\ range'.start_time <= packets[m].start_time
                                  /\ packets[m].start_time <= range'.end_time
    <3>1. SUFFICES ASSUME NEW m \in DOMAIN packets
                   PROVE  /\ range'.start_time <= packets[m].start_time
                          /\ packets[m].start_time <= range'.end_time
      OBVIOUS
    <3>2. /\ range # << >>
          /\ range.start_time <= packets[m].start_time /\ packets[m].start_time <= range.end_time
      BY <1>2, <1>6 DEF Ranged
    <3>3. /\ packets[m].start_time \in Nat
          /\ range.start_time \in Nat /\ range.end_time \in Nat
      <4>1. packets[m] \in Keyframe
        BY <1>2, <3>1, ElementOfSeq, <1>6 DEF Typed
      <4>2. range \in [start_time : Nat, end_time : Nat]
        BY <1>2, <3>2 DEF Typed
      <4>3. QED
        BY <4>1, <4>2 DEF Keyframe
    <3>4. QED
      BY <2>1, <2>2, <3>2, <3>3
  <2>4. \A m \in DOMAIN packets' : /\ range'.start_time <= packets'[m].start_time
                                   /\ packets'[m].start_time <= range'.end_time
    BY <1>8, <2>1, <2>3
  <2>5. last_end_time' >= 0 => last_end_time' <= range'.end_time
    <3>1. CASE last_end_time' = end
      BY <2>1, <3>1
    <3>2. CASE last_end_time' = last_end_time /\ last_end_time >= 0
      <4>1. range # << >> /\ last_end_time <= range.end_time
        BY <1>2, <3>2 DEF Ranged
      <4>2. range.end_time \in Nat /\ last_end_time \in Nat
        BY <1>2, <3>2, <4>1 DEF Typed
      <4>3. QED
        BY <2>1, <2>2, <3>2, <4>1, <4>2
    <3>3. QED
      BY <3>1, <3>2
  <2>6. QED
    BY <2>2, <2>4, <2>5 DEF Ranged
<1>14. Fresh'
  BY <1>2, <1>3 DEF Fresh, search, FirstPacketno, NumHeaders
<1>15. Numbered(cum)'
  <2>1. cum[Len(pages)] \in Nat /\ cum[Len(pages)] < packetno
    BY <1>1, <1>6 DEF Numbered
  <2>2. \A g, h \in DOMAIN queue' :
          g < h /\ queue'[g].first /\ queue'[h].first => queue'[g].no < queue'[h].no
    <3>1. SUFFICES ASSUME NEW g \in DOMAIN queue', NEW h \in DOMAIN queue', g < h,
                          queue'[g].first, queue'[h].first
                   PROVE  queue'[g].no < queue'[h].no
      OBVIOUS
    <3>2. g \in 1 .. Len(queue) /\ queue'[g] = queue[g]
      BY <1>5, <1>6, <3>1
    <3>3. queue[g].no \in cum[Len(pages)] + 1 .. packetno - 1
      BY <1>1, <1>6, <3>1, <3>2 DEF Numbered
    <3>4. CASE h \in 1 .. Len(queue)
      <4>1. queue'[h] = queue[h]
        BY <1>5, <3>4
      <4>2. QED
        BY <1>1, <1>6, <3>1, <3>2, <3>4, <4>1 DEF Numbered
    <3>5. CASE h \in Len(queue) + 1 .. Len(queue) + n
      BY <1>5, <1>6, <2>1, <3>2, <3>3, <3>5, SMTT(20)
    <3>6. QED
      BY <1>5, <1>6, <3>4, <3>5
  <2>3. \A g \in DOMAIN queue' :
          queue'[g].first => queue'[g].no \in cum[Len(pages)] + 1 .. packetno
    <3>1. SUFFICES ASSUME NEW g \in DOMAIN queue', queue'[g].first
                   PROVE  queue'[g].no \in cum[Len(pages)] + 1 .. packetno
      OBVIOUS
    <3>2. CASE g \in 1 .. Len(queue)
      <4>1. queue'[g] = queue[g]
        BY <1>5, <3>2
      <4>2. queue[g].no \in cum[Len(pages)] + 1 .. packetno - 1
        BY <1>1, <1>6, <3>1, <3>2, <4>1 DEF Numbered
      <4>3. QED
        BY <1>6, <2>1, <4>1, <4>2
    <3>3. CASE g \in Len(queue) + 1 .. Len(queue) + n
      BY <1>5, <1>6, <2>1, <3>3, SMTT(20)
    <3>4. QED
      BY <1>5, <1>6, <3>2, <3>3
  <2>4. ASSUME NEW x \in cum[Len(pages)] + 1 .. packetno
        PROVE  \E g \in DOMAIN queue' : queue'[g].first /\ queue'[g].no = x
    <3>1. CASE x = packetno
      <4>1. Len(queue) + 1 \in Len(queue) + 1 .. Len(queue) + n /\ Len(queue) + 1 \in DOMAIN queue'
        BY <1>5, <1>6
      <4>2. queue'[Len(queue) + 1].no = packetno /\ queue'[Len(queue) + 1].first
        BY <1>5, <4>1
      <4>3. QED
        BY <3>1, <4>1, <4>2
    <3>2. CASE x # packetno
      <4>1. x \in cum[Len(pages)] + 1 .. packetno - 1
        BY <1>6, <2>1, <3>2
      <4>2. PICK g \in DOMAIN queue : queue[g].first /\ queue[g].no = x
        BY <1>1, <4>1 DEF Numbered
      <4>3. g \in DOMAIN queue' /\ queue'[g] = queue[g]
        BY <1>5, <1>6
      <4>4. QED
        BY <4>2, <4>3
    <3>3. QED
      BY <3>1, <3>2
  <2>5. packetno' - 1 = packetno
    BY <1>3, <1>6
  <2>6. pages' = pages /\ starts' = starts
    BY <1>3
  <2>7. /\ cum \in [0 .. Len(pages) -> Nat]
        /\ cum[0] = NumHeaders - 1
        /\ \A p \in 1 .. Len(pages) : /\ cum[p] = cum[p - 1] + pages[p].packet_start_num
                                      /\ starts[p] = cum[p - 1] + 1 .. cum[p]
        /\ \A p, q \in 0 .. Len(pages) : p <= q => cum[p] <= cum[q]
    BY <1>1 DEF Numbered
  <2>8. cum[Len(pages)] < packetno'
    BY <1>3, <1>6, <2>1
  <2>9. \A x \in cum[Len(pages)] + 1 .. packetno :
           \E g \in DOMAIN queue' : queue'[g].first /\ queue'[g].no = x
    BY <2>4
  <2>10. QED
    BY <1>9, <2>2, <2>3, <2>5, <2>6, <2>7, <2>8, <2>9, Zenon DEF Numbered
<1>16. Consecutive'
  BY <1>15 DEF Consecutive
<1>17. QED
  BY <1>3, <1>11, <1>12, <1>13, <1>14, <1>16, UnsearchedNext

(* The first n segments of the queue make a page: its number of packet starts  *)
(* says which packets start there.                                             *)
LEMMA PageStarts ==
    ASSUME Typed, NEW cum, Numbered(cum), NEW n \in 1 .. Len(queue),
           NEW page, page = SubSeq(queue, 1, n)
    PROVE  /\ StartPackets(page) \in Nat
           /\ cum[Len(pages)] + StartPackets(page) < packetno
           /\ {page[f].no : f \in {g \in 1 .. n : page[g].first}}
                = cum[Len(pages)] + 1 .. cum[Len(pages)] + StartPackets(page)
<1> DEFINE a == cum[Len(pages)]
           S == {g \in 1 .. n : queue[g].first}
           T == {queue[f].no : f \in S}
<1>1. /\ Len(queue) \in Nat /\ DOMAIN queue = 1 .. Len(queue) /\ n \in Nat
      /\ \A g \in 1 .. Len(queue) : queue[g] \in Segment
      /\ packetno \in Nat /\ Len(pages) \in Nat
  BY LenProperties, ElementOfSeq DEF Typed
<1>2. /\ page \in Seq(Segment) /\ Len(page) = n /\ DOMAIN page = 1 .. n
      /\ \A g \in 1 .. n : page[g] = queue[g]
  BY <1>1, SubSeqProperties DEF Typed
<1>3. a \in Nat /\ a < packetno
  <2>1. cum \in [0 .. Len(pages) -> Nat] /\ cum[Len(pages)] < packetno
    BY DEF Numbered
  <2>2. Len(pages) \in 0 .. Len(pages)
    BY <1>1
  <2>3. QED
    BY <2>1, <2>2
<1>4. /\ \A g \in S, h \in S : g < h => queue[g].no < queue[h].no
      /\ \A g \in S : queue[g].no \in a + 1 .. packetno - 1
  <2>1. \A g \in S : g \in DOMAIN queue /\ queue[g].first
    BY <1>1
  <2>2. QED
    BY <2>1 DEF Numbered
<1>5. IsFiniteSet(S) /\ Cardinality(S) \in Nat
  <2>1. IsFiniteSet(1 .. n) /\ S \in SUBSET (1 .. n)
    BY <1>1, FS_Interval
  <2>2. QED
    BY <2>1, FS_Subset, FS_CardinalityType
<1>6. IsFiniteSet(T) /\ Cardinality(T) = Cardinality(S)
  <2> DEFINE b == [g \in S |-> queue[g].no]
  <2>1. b \in Injection(S, T)
    <3>1. ASSUME NEW g \in S, NEW h \in S, b[g] = b[h] PROVE g = h
      <4>1. queue[g].no = queue[h].no /\ queue[g].no \in Nat /\ g \in Nat /\ h \in Nat
        BY <1>1, <1>3, <1>4, <3>1
      <4>2. QED
        BY <1>4, <4>1
    <3>2. b \in [S -> T]
      OBVIOUS
    <3>3. QED
      BY <3>1, <3>2 DEF Injection, IsInjective
  <2>2. b \in Surjection(S, T)
    BY DEF Surjection
  <2>3. b \in Bijection(S, T)
    BY <2>1, <2>2 DEF Bijection
  <2>4. QED
    BY <1>5, <2>3, FS_Bijection DEF ExistsBijection
<1>7. T = a + 1 .. a + Cardinality(T)
  <2>1. \A x \in T : x \in Nat /\ x > a
    BY <1>1, <1>3, <1>4
  <2>2. ASSUME NEW x \in T, NEW y \in Nat, a < y, y < x PROVE y \in T
    <3>1. PICK g \in S : x = queue[g].no
      OBVIOUS
    <3>2. y \in a + 1 .. packetno - 1
      BY <1>1, <1>3, <1>4, <2>2, <3>1
    <3>3. PICK h \in DOMAIN queue : queue[h].first /\ queue[h].no = y
      BY <3>2 DEF Numbered
    <3>4. ~(g < h)
      <4>1. g \in DOMAIN queue /\ queue[g].first
        BY <1>1, <3>1
      <4>2. g < h => queue[g].no < queue[h].no
        BY <3>3, <4>1 DEF Numbered
      <4>3. x \in Nat
        BY <2>1
      <4>4. QED
        BY <2>2, <3>1, <3>3, <4>2, <4>3
    <3>5. h \in S
      BY <1>1, <3>1, <3>3, <3>4
    <3>6. QED
      BY <3>3, <3>5
  <2> HIDE DEF T
  <2>3. QED
    BY <1>3, <1>6, <2>1, <2>2, NoGap
<1>8. StartPackets(page) = Cardinality(S)
  <2>1. {f \in DOMAIN page : page[f].first} = S
    BY <1>1, <1>2
  <2>2. QED
    BY <2>1 DEF StartPackets
<1>9. {page[f].no : f \in {g \in 1 .. n : page[g].first}} = T
  BY <1>1, <1>2
<1>10. a + Cardinality(T) < packetno
  <2>1. CASE Cardinality(T) = 0
    BY <1>3, <2>1
  <2>2. CASE Cardinality(T) # 0
    <3> DEFINE c == a + Cardinality(T)
    <3>1. c \in a + 1 .. c
      BY <1>3, <1>5, <1>6, <2>2
    <3>2. c \in T
      BY <1>7, <3>1
    <3>3. \A x \in T : x \in a + 1 .. packetno - 1
      BY <1>4
    <3> HIDE DEF c, T
    <3>4. c < packetno
      BY <1>1, <1>3, <3>2, <3>3
    <3>5. QED
      BY <3>4 DEF c
  <2>3. QED
    BY <2>1, <2>2
<1>11. QED
  BY <1>5, <1>6, <1>7, <1>8, <1>9, <1>10

(* Writing a page keeps the invariant: its packets are counted on.             *)
LEMMA PageStep == ASSUME IndexInv, WritePage PROVE IndexInv'
<1>1. PICK cum : Numbered(cum)
  BY DEF IndexInv
<1>2. Typed /\ Recorded /\ Ranged /\ Fresh
  BY DEF IndexInv
<1>3. PICK n \in 1 .. Len(queue), size \in PageSteps :
        LET page == SubSeq(queue, 1, n)
        IN  /\ pages' = Append(pages, [offset |-> filepos, packet_start_num |-> StartPackets(page)])
            /\ starts' = Append(starts, {page[f].no : f \in {g \in 1 .. n : page[g].first}})
            /\ queue' = SubSeq(queue, n + 1, Len(queue))
            /\ filepos' = filepos + size
  BY Zenon DEF WritePage
<1> DEFINE a == cum[Len(pages)]
           c == StartPackets(SubSeq(queue, 1, n))
           new == [offset |-> filepos, packet_start_num |-> c]
<1>4. c \in Nat /\ a + c < packetno
      /\ starts' = Append(starts, a + 1 .. a + c)
  BY <1>1, <1>2, <1>3, PageStarts
<1>5. /\ pages' = Append(pages, new)
      /\ queue' = SubSeq(queue, n + 1, Len(queue))
      /\ filepos' = filepos + size /\ size \in Nat \ {0}
  BY <1>3, IndexAssumption
<1> HIDE DEF c
<1>6. /\ pc = "encode" /\ pc' = "encode"
      /\ UNCHANGED <<kind, packet_size, clock, last_end_time, packetno, packets, range, pc, search>>
  BY DEF WritePage
<1>7. /\ Len(queue) \in Nat /\ DOMAIN queue = 1 .. Len(queue) /\ n \in Nat
      /\ Len(pages) \in Nat /\ DOMAIN pages = 1 .. Len(pages)
      /\ Len(starts) = Len(pages) /\ DOMAIN starts = 1 .. Len(pages)
      /\ packetno \in Nat /\ filepos \in Nat
      /\ \A g \in 1 .. Len(queue) : queue[g] \in Segment
  BY <1>2, LenProperties, ElementOfSeq DEF Typed
<1>8. /\ cum \in [0 .. Len(pages) -> Nat] /\ cum[0] = NumHeaders - 1
      /\ \A p \in 1 .. Len(pages) : /\ cum[p] = cum[p - 1] + pages[p].packet_start_num
                                    /\ starts[p] = cum[p - 1] + 1 .. cum[p]
      /\ \A p, q \in 0 .. Len(pages) : p <= q => cum[p] <= cum[q]
      /\ a \in Nat
  <2>1. Len(pages) \in 0 .. Len(pages)
    BY <1>7
  <2>2. QED
    BY <1>1, <2>1 DEF Numbered
<1>9. /\ new \in Page /\ pages' \in Seq(Page) /\ Len(pages') = Len(pages) + 1
      /\ DOMAIN pages' = 1 .. Len(pages) + 1
      /\ \A p \in 1 .. Len(pages) : pages'[p] = pages[p]
      /\ pages'[Len(pages) + 1] = new
  <2>1. new \in Page /\ pages \in Seq(Page)
    BY <1>2, <1>4, <1>7 DEF Typed, Page
  <2> HIDE DEF new
  <2>2. QED
    BY <1>5, <1>7, <2>1, AppendProperties, LenProperties
<1>10. /\ starts' \in Seq(SUBSET Nat) /\ Len(starts') = Len(pages) + 1
       /\ \A p \in 1 .. Len(pages) : starts'[p] = starts[p]
       /\ starts'[Len(pages) + 1] = a + 1 .. a + c
  <2>1. a + 1 .. a + c \in SUBSET Nat /\ starts \in Seq(SUBSET Nat)
    BY <1>2, <1>4, <1>8 DEF Typed
  <2>2. QED
    BY <1>4, <1>7, <2>1, AppendProperties
<1>11. /\ queue' \in Seq(Segment) /\ Len(queue') = Len(queue) - n
       /\ DOMAIN queue' = 1 .. Len(queue) - n
       /\ \A g \in 1 .. Len(queue) - n : queue'[g] = queue[n + g]
  <2>1. /\ SubSeq(queue, n + 1, Len(queue)) \in Seq(Segment)
        /\ Len(SubSeq(queue, n + 1, Len(queue)))
             = IF n + 1 <= Len(queue) THEN Len(queue) - (n + 1) + 1 ELSE 0
        /\ \A g \in 1 .. Len(queue) - (n + 1) + 1 :
              SubSeq(queue, n + 1, Len(queue))[g] = queue[n + 1 + g - 1]
    <3>1. n + 1 \in Int /\ Len(queue) \in Int
          /\ \A g \in n + 1 .. Len(queue) : queue[g] \in Segment
      BY <1>7
    <3>2. QED
      BY <3>1, SubSeqProperties
  <2>2. Len(queue') = Len(queue) - n
    <3>1. Len(queue') = IF n + 1 <= Len(queue) THEN Len(queue) - (n + 1) + 1 ELSE 0
      BY <1>5, <2>1
    <3>2. n <= Len(queue)
      BY <1>3, <1>7
    <3>3. CASE n + 1 <= Len(queue)
      BY <1>7, <3>1, <3>3
    <3>4. CASE ~(n + 1 <= Len(queue))
      <4>1. n \in Nat /\ Len(queue) \in Nat
        BY <1>7
      <4>2. n = Len(queue)
        BY <3>2, <3>4, <4>1
      <4>3. Len(queue') = 0
        BY <3>1, <3>4
      <4>4. QED
        BY <4>1, <4>2, <4>3
    <3>5. QED
      BY <3>3, <3>4
  <2>3. \A g \in 1 .. Len(queue) - n : n + 1 + g - 1 = n + g
    BY <1>7
  <2>4. Len(queue) - (n + 1) + 1 = Len(queue) - n
    BY <1>7
  <2>5. QED
    BY <1>5, <2>1, <2>2, <2>3, <2>4, LenProperties
<1>12. NumHeaders' = NumHeaders
  BY <1>6 DEF NumHeaders
<1>13. Typed'
  <2>1. filepos' \in Nat /\ Len(starts') = Len(pages')
    BY <1>5, <1>7, <1>9, <1>10
  <2>2. queue' \in Seq(Segment) /\ pages' \in Seq(Page) /\ starts' \in Seq(SUBSET Nat)
    BY <1>9, <1>10, <1>11
  <2>3. QED
    BY <1>2, <1>6, <2>1, <2>2 DEF Typed, search
<1>14. Recorded'
  <2>1. \A p, q \in DOMAIN pages' : p < q => pages'[p].offset < pages'[q].offset
    BY <1>2, <1>7, <1>9 DEF Recorded
  <2>2. \A p \in DOMAIN pages' : pages'[p].offset < filepos'
    <3>1. \A p \in 1 .. Len(pages) : pages[p].offset < filepos /\ pages[p].offset \in Nat
      <4>1. \A p \in 1 .. Len(pages) : pages[p] \in Page
        BY <1>2, ElementOfSeq DEF Typed
      <4>2. QED
        BY <1>2, <1>7, <4>1 DEF Recorded, Page
    <3>2. QED
      BY <1>5, <1>7, <1>9, <3>1
  <2>3. QED
    BY <1>2, <1>6, <1>12, <2>1, <2>2 DEF Recorded
<1>15. Ranged' /\ Fresh'
  BY <1>2, <1>6, <1>12 DEF Ranged, Fresh, search, FirstPacketno
<1>16. PICK cum2 : /\ cum2 \in [0 .. Len(pages) + 1 -> Nat]
                   /\ \A p \in 0 .. Len(pages) : cum2[p] = cum[p]
                   /\ cum2[Len(pages) + 1] = a + c
  <2> DEFINE d == [p \in 0 .. Len(pages) + 1 |-> IF p <= Len(pages) THEN cum[p] ELSE a + c]
  <2>1. /\ d \in [0 .. Len(pages) + 1 -> Nat]
        /\ \A p \in 0 .. Len(pages) : d[p] = cum[p]
        /\ d[Len(pages) + 1] = a + c
    BY <1>4, <1>7, <1>8
  <2>2. QED
    BY <2>1
<1> HIDE DEF new
<1>17. \A p \in 1 .. Len(pages) + 1 : /\ cum2[p] = cum2[p - 1] + pages'[p].packet_start_num
                                      /\ starts'[p] = cum2[p - 1] + 1 .. cum2[p]
  <2>1. SUFFICES ASSUME NEW p \in 1 .. Len(pages) + 1
                 PROVE  /\ cum2[p] = cum2[p - 1] + pages'[p].packet_start_num
                        /\ starts'[p] = cum2[p - 1] + 1 .. cum2[p]
    OBVIOUS
  <2>2. CASE p \in 1 .. Len(pages)
    <3>1. p \in 0 .. Len(pages) /\ p - 1 \in 0 .. Len(pages)
      BY <1>7, <2>2
    <3>2. QED
      BY <1>8, <1>9, <1>10, <1>16, <2>2, <3>1
  <2>3. CASE p = Len(pages) + 1
    <3>1. p - 1 = Len(pages) /\ Len(pages) \in 0 .. Len(pages)
      BY <1>7, <2>3
    <3>2. pages'[p].packet_start_num = c
      BY <1>9, <2>3 DEF new
    <3>3. QED
      BY <1>10, <1>16, <2>3, <3>1, <3>2
  <2>4. QED
    BY <1>7, <2>2, <2>3
<1>18. \A p, q \in 0 .. Len(pages) + 1 : p <= q => cum2[p] <= cum2[q]
  <2>1. \A p \in 0 .. Len(pages) : cum[p] \in Nat /\ cum[p] <= a
    <3>1. Len(pages) \in 0 .. Len(pages) /\ \A p \in 0 .. Len(pages) : p <= Len(pages)
      BY <1>7
    <3>2. QED
      BY <1>8, <3>1
  <2>2. SUFFICES ASSUME NEW p \in 0 .. Len(pages) + 1, NEW q \in 0 .. Len(pages) + 1, p <= q
                 PROVE  cum2[p] <= cum2[q]
    OBVIOUS
  <2>3. CASE q \in 0 .. Len(pages)
    <3>1. p \in 0 .. Len(pages)
      BY <1>7, <2>2, <2>3
    <3>2. QED
      BY <1>8, <1>16, <2>2, <2>3, <3>1
  <2>4. CASE q = Len(pages) + 1
    <3>1. CASE p \in 0 .. Len(pages)
      BY <1>4, <1>8, <1>16, <2>1, <2>4, <3>1
    <3>2. CASE p = Len(pages) + 1
      BY <1>4, <1>8, <1>16, <2>4, <3>2
    <3>3. QED
      BY <1>7, <3>1, <3>2
  <2>5. QED
    BY <1>7, <2>3, <2>4
<1>19. \A g \in 1 .. Len(queue) - n : g \in Nat /\ n + g \in DOMAIN queue /\ queue'[g] = queue[n + g]
  BY <1>7, <1>11
<1>20. \A g, h \in DOMAIN queue' :
         g < h /\ queue'[g].first /\ queue'[h].first => queue'[g].no < queue'[h].no
  <2>1. SUFFICES ASSUME NEW g \in DOMAIN queue', NEW h \in DOMAIN queue', g < h,
                        queue'[g].first, queue'[h].first
                 PROVE  queue'[g].no < queue'[h].no
    OBVIOUS
  <2>2. n + g \in DOMAIN queue /\ n + h \in DOMAIN queue /\ n + g < n + h
    BY <1>7, <1>11, <1>19, <2>1
  <2>3. \A e, f \in DOMAIN queue : e < f /\ queue[e].first /\ queue[f].first => queue[e].no < queue[f].no
    BY <1>1 DEF Numbered
  <2>4. queue'[g] = queue[n + g] /\ queue'[h] = queue[n + h]
    BY <1>11, <1>19, <2>1
  <2>5. queue[n + g].no < queue[n + h].no
    BY <2>1, <2>2, <2>3, <2>4, Zenon
  <2>6. QED
    BY <2>4, <2>5, Zenon
<1>21. ASSUME NEW f \in 1 .. n, queue[f].first
       PROVE  queue[f].no \in a + 1 .. a + c
  <2> DEFINE page == SubSeq(queue, 1, n)
  <2>1. {page[g].no : g \in {h \in 1 .. n : page[h].first}} = a + 1 .. a + c
    BY <1>1, <1>2, PageStarts DEF c
  <2>2. page[f] = queue[f]
    BY <1>7, SubSeqProperties
  <2> HIDE DEF page
  <2>3. QED
    BY <1>21, <2>1, <2>2
<1>22. ASSUME NEW x \in a + 1 .. a + c
       PROVE  \E f \in 1 .. n : queue[f].first /\ queue[f].no = x
  <2> DEFINE page == SubSeq(queue, 1, n)
  <2>1. {page[g].no : g \in {h \in 1 .. n : page[h].first}} = a + 1 .. a + c
    BY <1>1, <1>2, PageStarts DEF c
  <2>2. \A f \in 1 .. n : page[f] = queue[f]
    BY <1>7, SubSeqProperties
  <2> HIDE DEF page
  <2>3. QED
    BY <1>22, <2>1, <2>2
<1>23. ASSUME NEW g \in DOMAIN queue', queue'[g].first
       PROVE  queue'[g].no \in a + c + 1 .. packetno - 1
  <2>1. n + g \in DOMAIN queue /\ queue'[g] = queue[n + g] /\ queue[n + g].first /\ g \in Nat \ {0}
    BY <1>7, <1>11, <1>19, <1>23
  <2>2. queue[n + g].no \in a + 1 .. packetno - 1
    BY <1>1, <2>1 DEF Numbered
  <2>3. ~(queue[n + g].no <= a + c)
    <3>1. SUFFICES ASSUME queue[n + g].no <= a + c PROVE FALSE
      OBVIOUS
    <3>2. queue[n + g].no \in a + 1 .. a + c
      BY <1>4, <1>8, <2>2, <3>1
    <3>3. PICK f \in 1 .. n : queue[f].first /\ queue[f].no = queue[n + g].no
      BY <1>22, <3>2
    <3>4. f \in DOMAIN queue /\ f < n + g
      BY <1>7, <2>1
    <3>5. queue[f].no < queue[n + g].no
      BY <1>1, <2>1, <3>3, <3>4 DEF Numbered
    <3>6. QED
      BY <1>8, <2>2, <3>3, <3>5
  <2>4. QED
    BY <1>4, <1>7, <1>8, <2>1, <2>2, <2>3, SMTT(20)
<1>24. ASSUME NEW x \in a + c + 1 .. packetno - 1
       PROVE  \E g \in DOMAIN queue' : queue'[g].first /\ queue'[g].no = x
  <2>1. x \in a + 1 .. packetno - 1 /\ x \notin a + 1 .. a + c
    BY <1>4, <1>7, <1>8
  <2>2. PICK h \in DOMAIN queue : queue[h].first /\ queue[h].no = x
    BY <1>1, <2>1 DEF Numbered
  <2>3. h \notin 1 .. n
    BY <1>21, <2>1, <2>2
  <2>4. h - n \in DOMAIN queue' /\ n + (h - n) = h
    BY <1>7, <1>11, <2>3
  <2>5. queue'[h - n] = queue[h]
    BY <1>11, <2>4
  <2>6. QED
    BY <2>2, <2>4, <2>5
<1>25. Numbered(cum2)'
  <2>1. cum2[0] = NumHeaders - 1
    BY <1>7, <1>8, <1>16
  <2>2. cum2[Len(pages')] = a + c /\ packetno' = packetno
    BY <1>6, <1>9, <1>16
  <2>3. \A g \in DOMAIN queue' : queue'[g].first => queue'[g].no \in a + c + 1 .. packetno - 1
    BY <1>23
  <2>4. \A x \in a + c + 1 .. packetno - 1 : \E g \in DOMAIN queue' : queue'[g].first /\ queue'[g].no = x
    BY <1>24
  <2>5. Len(pages') = Len(pages) + 1
    BY <1>9
  <2> HIDE DEF a
  <2>6. /\ cum2 \in [0 .. Len(pages') -> Nat]
        /\ \A p \in 1 .. Len(pages') : /\ cum2[p] = cum2[p - 1] + pages'[p].packet_start_num
                                       /\ starts'[p] = cum2[p - 1] + 1 .. cum2[p]
        /\ \A p, q \in 0 .. Len(pages') : p <= q => cum2[p] <= cum2[q]
    BY <1>16, <1>17, <1>18, <2>5
  <2>7. cum2[Len(pages')] < packetno'
    BY <1>4, <2>2
  <2>8. /\ \A g \in DOMAIN queue' :
              queue'[g].first => queue'[g].no \in cum2[Len(pages')] + 1 .. packetno' - 1
        /\ \A x \in cum2[Len(pages')] + 1 .. packetno' - 1 :
              \E g \in DOMAIN queue' : queue'[g].first /\ queue'[g].no = x
    BY <2>2, <2>3, <2>4, Zenon
  <2>9. QED
    BY <1>12, <1>20, <2>1, <2>6, <2>7, <2>8, Zenon DEF Numbered
<1>26. Consecutive'
  BY <1>25 DEF Consecutive
<1>27. QED
  BY <1>6, <1>13, <1>14, <1>15, <1>26, UnsearchedNext

(* Every step before the index is written keeps it.                            *)
LEMMA EncodeStep ==
    ASSUME IndexInv, AddVideo \/ AddAudio \/ AddKate \/ WritePage
    PROVE  IndexInv'
<1>1. clock \in Nat /\ last_end_time \in Nat \cup {-1} /\ Steps \subseteq Nat
  BY IndexAssumption DEF IndexInv, Typed
<1>2. CASE AddVideo
  <2>1. PICK d \in Steps, key \in BOOLEAN : Packet(clock, clock + d, key) /\ clock' = clock + d
    BY <1>2 DEF AddVideo
  <2>2. d \in Nat /\ clock + d \in Nat /\ clock <= clock + d /\ last_end_time' = last_end_time
    BY <1>1, <1>2 DEF AddVideo
  <2>3. QED
    BY <1>1, <2>1, <2>2, PacketStep
<1>3. CASE AddAudio
  <2>1. PICK d \in Steps \cup {0} : Packet(clock, clock + d, TRUE) /\ clock' = clock + d
    BY <1>3 DEF AddAudio
  <2>2. d \in Nat /\ clock + d \in Nat /\ clock <= clock + d /\ last_end_time' = last_end_time
    BY <1>1, <1>3 DEF AddAudio
  <2>3. QED
    BY <1>1, <2>1, <2>2, PacketStep
<1>4. CASE AddKate
  <2>1. PICK gap \in Steps \cup {0}, d \in Steps :
           LET t0 == clock + gap
           IN  Packet(KateStart(t0), t0 + d, TRUE) /\ clock' = t0 /\ last_end_time' = t0 + d
    BY <1>4 DEF AddKate
  <2> DEFINE t0 == clock + gap
             start == KateStart(t0)
  <2>2. gap \in Nat /\ d \in Nat /\ t0 \in Nat /\ t0 + d \in Nat /\ t0 <= t0 + d
    BY <1>1
  <2>3. (start = last_end_time /\ last_end_time >= 0) \/ start = t0
    BY DEF KateStart
  <2>4. start \in Nat
    BY <1>1, <2>2, <2>3
  <2>5. Packet(start, t0 + d, TRUE) /\ clock' = t0 /\ last_end_time' = t0 + d
    BY <2>1
  <2>6. start <= t0 + d \/ (start = last_end_time /\ last_end_time >= 0)
    BY <2>2, <2>3
  <2>7. kind = "kate"
    BY <1>4 DEF AddKate
  <2> HIDE DEF t0, start
  <2>8. QED
    BY <2>2, <2>4, <2>5, <2>6, <2>7, PacketStep
<1>5. CASE WritePage
  BY <1>5, PageStep
<1>6. QED
  BY <1>2, <1>3, <1>4, <1>5

-----------------------------------------------------------------------------
(* The search. *)

(* It changes nothing of what was recorded.                                    *)
LEMMA SameRecord ==
    ASSUME Typed, Recorded, Ranged, queue = << >>, UNCHANGED encoded, pc' # "encode"
    PROVE  Recorded' /\ Ranged' /\ Fresh' /\ (\A cum : Numbered(cum) => Numbered(cum)')
<1>1. UNCHANGED <<kind, packet_size, clock, last_end_time, packetno, queue, filepos,
                  packets, range, pages, starts>>
  BY DEF encoded
<1>2. NumHeaders' = NumHeaders
  BY <1>1 DEF NumHeaders
<1>3. Recorded'
  BY <1>1, <1>2 DEF Recorded
<1>4. Ranged' /\ Fresh'
  BY <1>1 DEF Ranged, Fresh
<1>5. \A cum : Numbered(cum) => Numbered(cum)'
  BY <1>1, <1>2 DEF Numbered
<1>6. QED
  BY <1>3, <1>4, <1>5

(* When all is written the last page leads up to the last packet, so the       *)
(* search finds a page for every keyframe.                                     *)
LEMMA PageFound ==
    ASSUME Typed, Recorded, queue = << >>, NEW cum, Numbered(cum), Walked(cum),
           i <= Len(packets)
    PROVE  pageno \in 1 .. Len(pages)
<1>1. /\ Len(pages) \in Nat /\ Len(packets) \in Nat /\ DOMAIN packets = 1 .. Len(packets)
      /\ i \in 1 .. Len(packets) /\ pageno \in Nat \ {0} /\ packetno \in Nat
  BY LenProperties DEF Typed
<1>2. cum[Len(pages)] \in Nat /\ cum[Len(pages)] < packetno
  <2>1. Len(pages) \in 0 .. Len(pages) /\ cum \in [0 .. Len(pages) -> Nat]
    BY <1>1 DEF Numbered
  <2>2. QED
    BY <2>1 DEF Numbered
<1>3. cum[Len(pages)] + 1 .. packetno - 1 = {}
  <2>1. DOMAIN queue = {}
    OBVIOUS
  <2>2. QED
    BY <2>1 DEF Numbered
<1>4. cum[Len(pages)] = packetno - 1
  <2>1. cum[Len(pages)] + 1 \notin cum[Len(pages)] + 1 .. packetno - 1
    BY <1>3
  <2>2. QED
    BY <1>1, <1>2, <2>1
<1>5. packets[i].packetno \in NumHeaders .. packetno - 1
  BY <1>1 DEF Recorded
<1>6. last_packetno = cum[pageno - 1] /\ last_packetno < packets[i].packetno /\ pageno <= Len(pages) + 1
  BY <1>1 DEF Walked
<1>7. pageno # Len(pages) + 1
  <2>1. SUFFICES ASSUME pageno = Len(pages) + 1 PROVE FALSE
    OBVIOUS
  <2>2. pageno - 1 = Len(pages)
    BY <1>1, <2>1
  <2>3. packetno - 1 < packets[i].packetno
    BY <1>4, <1>6, <2>2
  <2>4. QED
    BY <1>1, <1>5, <2>3, Constants
<1>8. QED
  BY <1>1, <1>6, <1>7

(* The search changes nothing a keypoint is about.                             *)
LEMMA SameTarget ==
    ASSUME UNCHANGED encoded
    PROVE  /\ TargetPacket' = TargetPacket
           /\ \A m, p : Target(m, p)' <=> Target(m, p)
           /\ \A m : InTurn(m)' <=> InTurn(m)
<1>1. TargetPacket' = TargetPacket
  BY DEF encoded, TargetPacket
<1>2. packets' = packets /\ starts' = starts
  BY DEF encoded
<1>3. \A m, p : Target(m, p)' <=> Target(m, p)
  BY <1>1, <1>2 DEF Target
<1>4. \A m : InTurn(m)' <=> InTurn(m)
  BY DEF InTurn, encoded
<1>5. QED
  BY <1>1, <1>3, <1>4

(* What is covered, in other words.                                            *)
LEMMA CoversIs ==
    Covers <=> \A m \in 1 .. i - 1, p \in DOMAIN pages : Target(m, p) /\ InTurn(m) => Near(m)
BY DEF Covers, Target, InTurn, Near

(* The same of the next state.                                                 *)
LEMMA CoversNext ==
    Covers' <=> (\A m \in 1 .. i - 1, p \in DOMAIN pages : Target(m, p) /\ InTurn(m) => Near(m))'
BY DEF Covers, Target, InTurn, Near

(* The search begins in front of the first packet and the first page.          *)
LEMMA StartStep == ASSUME IndexInv, StartIndex PROVE IndexInv'
<1>1. PICK cum \in [0 .. Len(pages) -> Nat] : Numbered(cum) /\ Walked(cum)
  BY DEF IndexInv
<1>2. /\ Typed /\ Recorded /\ Ranged /\ Fresh /\ Kept /\ Spaced /\ Covers /\ Paced
      /\ pc = "encode" /\ queue = << >> /\ pc' \in {"search", "done"}
      /\ UNCHANGED <<encoded, search>>
  BY DEF IndexInv, StartIndex
<1>3. Recorded' /\ Ranged' /\ Fresh' /\ Numbered(cum)'
  BY <1>1, <1>2, SameRecord
<1>4. Typed'
  BY <1>2 DEF Typed, encoded, search
<1>5. Walked(cum)'
  BY <1>1, <1>2 DEF Walked, Current, Behind, encoded, search
<1>6. Kept' /\ Spaced' /\ Covers' /\ Paced'
  <2>1. /\ packets' = packets /\ pages' = pages /\ starts' = starts
        /\ i' = i /\ pageno' = pageno /\ keypoints' = keypoints
        /\ prev_keyframe_start_time' = prev_keyframe_start_time /\ Current' = Current
    BY <1>2 DEF encoded, search, Current
  <2>2. Kept'
    BY <1>2, <2>1, SameTarget DEF Kept
  <2>3. Spaced' /\ Paced'
    BY <1>2, <2>1 DEF Spaced, Paced, MaxKeypoints, KeypointsPerIndex
  <2>4. Covers'
    BY <1>2, <2>1, SameTarget, CoversIs, CoversNext DEF Near
  <2>5. QED
    BY <2>2, <2>3, <2>4
<1>7. EnoughKeypoints'
  <2>1. SUFFICES ASSUME pc' = "done", Interval > 0 PROVE i' > Len(packets')
    BY DEF EnoughKeypoints
  <2>2. packets = << >>
    BY <2>1, Ceiling DEF StartIndex
  <2>3. i' = 1 /\ packets' = packets
    BY <1>2 DEF Fresh, encoded, search
  <2>4. QED
    BY <2>2, <2>3
<1>8. (cum \in [0 .. Len(pages) -> Nat])'
  BY <1>1, <1>2 DEF encoded
<1>9. QED
  BY <1>3, <1>4, <1>5, <1>6, <1>7, <1>8 DEF IndexInv

(* Going on to the next page of the stream keeps the packet in front.          *)
LEMMA NextPageStep == ASSUME IndexInv, NextPage PROVE IndexInv'
<1>1. PICK cum \in [0 .. Len(pages) -> Nat] : Numbered(cum) /\ Walked(cum)
  BY DEF IndexInv
<1>2. /\ Typed /\ Recorded /\ Ranged /\ Kept /\ Spaced /\ Covers /\ Paced
      /\ pc = "search" /\ i <= Len(packets) /\ queue = << >>
  BY DEF IndexInv, NextPage, Searching, Recorded
<1>3. /\ last_packetno' = last_packetno + pages[pageno].packet_start_num
      /\ last_packetno' < packets[i].packetno
      /\ pageno' = pageno + 1 /\ pageno <= Len(pages)
      /\ UNCHANGED <<encoded, pc, i, packet_in_page, prev_keyframe_pageno,
                     prev_keyframe_start_time, keypoints>>
  BY DEF NextPage, Beyond
<1>4. Recorded' /\ Ranged' /\ Fresh' /\ Numbered(cum)'
  BY <1>1, <1>2, <1>3, SameRecord
<1>5. /\ Len(pages) \in Nat /\ pageno \in 1 .. Len(pages) /\ i \in Nat \ {0}
      /\ Len(packets) \in Nat /\ DOMAIN packets = 1 .. Len(packets)
      /\ prev_keyframe_pageno \in Int /\ prev_keyframe_pageno <= pageno
      /\ pages[pageno] \in Page
      /\ \A j \in 1 .. Len(packets) : packets[j].packetno \in Nat
  <2>1. \A j \in 1 .. Len(packets) : packets[j] \in Keyframe
    BY <1>2, ElementOfSeq DEF Typed
  <2>2. pageno \in 1 .. Len(pages)
    BY <1>2, <1>3, LenProperties DEF Typed
  <2>3. pages[pageno] \in Page
    BY <1>2, <2>2, ElementOfSeq DEF Typed
  <2>4. /\ Len(pages) \in Nat /\ Len(packets) \in Nat /\ DOMAIN packets = 1 .. Len(packets)
        /\ i \in Nat \ {0}
    BY <1>2, LenProperties DEF Typed
  <2>5. prev_keyframe_pageno \in Int
    BY <1>2, Constants DEF Typed
  <2>6. prev_keyframe_pageno <= pageno
    BY <1>1 DEF Walked
  <2>7. \A j \in 1 .. Len(packets) : packets[j].packetno \in Nat
    BY <2>1 DEF Keyframe
  <2>8. QED
    BY <2>2, <2>3, <2>4, <2>5, <2>6, <2>7
<1>6. /\ last_packetno' = cum[pageno] /\ last_packetno' \in Nat
      /\ pageno \in 0 .. Len(pages)
  BY <1>1, <1>3, <1>5, SMTT(20) DEF Numbered, Walked
<1>7. /\ UNCHANGED <<kind, packet_size, clock, last_end_time, packetno, queue, filepos,
                     packets, range, pages, starts>>
  BY <1>3 DEF encoded
<1>8. Typed'
  BY <1>2, <1>3, <1>5, <1>6, <1>7 DEF Typed
<1>9. Current' = 0
  BY <1>3, <1>5 DEF Current
<1>10. Behind(last_packetno)' = {}
  <2>1. ASSUME NEW j \in 1 .. i - 1 PROVE ~(packets[j].packetno > cum[pageno])
    <3>1. packets[j].packetno <= cum[pageno] /\ packets[j].packetno \in Nat /\ cum[pageno] \in Nat
      BY <1>1, <1>2, <1>5, <1>6 DEF Walked
    <3>2. QED
      BY <3>1
  <2>2. QED
    BY <1>3, <1>6, <1>7, <2>1 DEF Behind
<1>11. (pageno \in 1 .. Len(pages))'
  <2>1. SUFFICES ASSUME pageno + 1 = Len(pages) + 1 PROVE FALSE
    BY <1>3, <1>5, <1>7
  <2>2. pageno = Len(pages)
    BY <1>5, <2>1
  <2>3. /\ \A x \in cum[Len(pages)] + 1 .. packetno - 1 : x \in DOMAIN << >>
        /\ packets[i].packetno \in NumHeaders .. packetno - 1
    BY <1>1, <1>2, <1>5 DEF Numbered, Recorded
  <2>4. packets[i].packetno \in cum[Len(pages)] + 1 .. packetno - 1
    BY <1>3, <1>5, <1>6, <2>2, <2>3, Constants, SMTT(20)
  <2>5. DOMAIN << >> = {}
    OBVIOUS
  <2>6. QED
    BY <2>3, <2>4, <2>5
<1>12. Walked(cum)'
  <2>1. \A j \in 1 .. i - 1 : packets[j].packetno <= cum[pageno + 1]
    <3>1. cum[pageno] <= cum[pageno + 1] /\ cum[pageno] \in Nat /\ cum[pageno + 1] \in Nat
      <4>1. pageno + 1 \in 0 .. Len(pages) /\ pageno <= pageno + 1
        BY <1>3, <1>5, <1>7, <1>11
      <4>2. QED
        BY <1>1, <1>6, <4>1 DEF Numbered
    <3>2. \A j \in 1 .. i - 1 : packets[j].packetno <= cum[pageno] /\ packets[j].packetno \in Nat
      BY <1>1, <1>2, <1>5 DEF Walked
    <3>3. QED
      BY <3>1, <3>2
  <2>2. pageno' - 1 = pageno
    BY <1>3, <1>5
  <2>3. Current' = Cardinality(Behind(last_packetno)')
    BY <1>9, <1>10, FS_EmptySet
  <2>4. prev_keyframe_pageno' <= pageno'
    BY <1>3, <1>5
  <2>5. pageno' <= Len(pages') /\ pageno' <= Len(pages') + 1
    BY <1>5, <1>7, <1>11
  <2>6. i' <= Len(packets') + 1 /\ (i' <= Len(packets') => last_packetno' < packets'[i'].packetno)
    BY <1>2, <1>3, <1>5, <1>7
  <2>7. QED
    BY <1>3, <1>6, <1>7, <2>1, <2>2, <2>3, <2>4, <2>5, <2>6 DEF Walked
<1>13. Kept'
  <2>1. ASSUME NEW k \in DOMAIN keypoints'
        PROVE  \E m \in DOMAIN packets', p \in DOMAIN pages' :
                  /\ m < i' /\ p <= pageno'
                  /\ packets'[m].start_time = keypoints'[k].time
                  /\ pages'[p].offset = keypoints'[k].offset
                  /\ Target(m, p)'
    <3>1. PICK m \in DOMAIN packets, p \in DOMAIN pages :
              /\ m < i /\ p <= pageno
              /\ packets[m].start_time = keypoints[k].time
              /\ pages[p].offset = keypoints[k].offset
              /\ Target(m, p)
      BY <1>2, <1>3, <2>1 DEF Kept
    <3>2. p <= pageno'
      BY <1>2, <1>3, <1>5, <3>1, LenProperties DEF Typed
    <3>3. QED
      BY <1>3, <1>7, <3>1, <3>2, SameTarget
  <2>2. keypoints # << >> =>
           \E q \in DOMAIN pages : /\ q <= pageno + 1
                                   /\ pages[q].offset = keypoints[Len(keypoints)].offset
                                   /\ q # pageno + 1
    <3>1. DOMAIN pages = 1 .. Len(pages)
      BY <1>2, LenProperties DEF Typed
    <3>2. \A q \in DOMAIN pages : q <= pageno => q <= pageno + 1 /\ q # pageno + 1
      BY <1>5, <3>1
    <3>3. QED
      BY <1>2, <3>2 DEF Kept
  <2>3. QED
    BY <1>2, <1>3, <1>7, <2>1, <2>2 DEF Kept
<1>14. Spaced' /\ Paced'
  BY <1>2, <1>3, <1>7 DEF Spaced, Paced, MaxKeypoints, KeypointsPerIndex
<1>15. Covers'
  BY <1>2, <1>3, <1>7, SameTarget, CoversIs, CoversNext DEF Near
<1>16. EnoughKeypoints'
  BY <1>2, <1>3 DEF EnoughKeypoints
<1>17. (cum \in [0 .. Len(pages) -> Nat])'
  BY <1>1, <1>7
<1>18. QED
  BY <1>4, <1>8, <1>12, <1>13, <1>14, <1>15, <1>16, <1>17 DEF IndexInv

(* The keyframe that is considered starts on the page the search is at, and    *)
(* InPage is its number among those that do.                                   *)
LEMMA Found ==
    ASSUME IndexInv, NEW cum, Numbered(cum), Walked(cum), Considered
    PROVE  /\ i \in 1 .. Len(packets) /\ DOMAIN packets = 1 .. Len(packets)
           /\ pageno \in 1 .. Len(pages) /\ DOMAIN pages = 1 .. Len(pages)
           /\ packets[i].packetno \in starts[pageno]
           /\ Cardinality({j \in 1 .. i : packets[j].packetno \in starts[pageno]}) = InPage
           /\ \A p \in DOMAIN pages : packets[i].packetno \in starts[p] => p = pageno
           /\ InPage = Current + 1 /\ Current \in Nat
           /\ Walked(cum)'
<1>1. /\ Typed /\ Recorded
      /\ pc = "search" /\ i <= Len(packets) /\ queue = << >> /\ Len(keypoints) < MaxKeypoints
  BY DEF IndexInv, Considered, Searching, Recorded
<1>2. /\ i' = i + 1 /\ packet_in_page' = InPage /\ prev_keyframe_pageno' = pageno
      /\ UNCHANGED <<encoded, pc, pageno, last_packetno>>
      /\ ~Beyond /\ pageno <= Len(pages)
  BY DEF Considered
<1>3. /\ Len(pages) \in Nat /\ pageno \in 1 .. Len(pages) /\ DOMAIN pages = 1 .. Len(pages)
      /\ i \in 1 .. Len(packets)
      /\ Len(packets) \in Nat /\ DOMAIN packets = 1 .. Len(packets)
      /\ packet_in_page \in Nat
  BY <1>1, <1>2, LenProperties DEF Typed
<1>4. /\ pages[pageno] \in Page
      /\ \A j \in 1 .. Len(packets) : packets[j].packetno \in Nat
  <2>1. \A j \in 1 .. Len(packets) : packets[j] \in Keyframe
    BY <1>1, ElementOfSeq DEF Typed
  <2>2. pages[pageno] \in Page
    BY <1>1, <1>3, ElementOfSeq DEF Typed
  <2>3. QED
    BY <2>1, <2>2 DEF Keyframe
<1>5. /\ pageno - 1 \in 0 .. Len(pages) /\ pageno \in 0 .. Len(pages)
      /\ cum[pageno] = cum[pageno - 1] + pages[pageno].packet_start_num
      /\ starts[pageno] = cum[pageno - 1] + 1 .. cum[pageno]
      /\ \A p \in 0 .. Len(pages) : cum[p] \in Nat
      /\ last_packetno = cum[pageno - 1]
  <2>1. pageno - 1 \in 0 .. Len(pages) /\ pageno \in 0 .. Len(pages)
    BY <1>3
  <2>2. /\ cum[pageno] = cum[pageno - 1] + pages[pageno].packet_start_num
        /\ starts[pageno] = cum[pageno - 1] + 1 .. cum[pageno]
        /\ \A p \in 0 .. Len(pages) : cum[p] \in Nat
    BY <1>3 DEF Numbered
  <2>3. last_packetno = cum[pageno - 1]
    BY DEF Walked
  <2>4. QED
    BY <2>1, <2>2, <2>3
<1>6. last_packetno < packets[i].packetno /\ packets[i].packetno <= cum[pageno]
  <2>1. ~(last_packetno + pages[pageno].packet_start_num < packets[i].packetno)
    BY <1>2 DEF Beyond
  <2>2. pages[pageno].packet_start_num \in Nat /\ packets[i].packetno \in Nat /\ last_packetno \in Nat
    BY <1>3, <1>4, <1>5 DEF Page
  <2>3. last_packetno < packets[i].packetno
    BY <1>3 DEF Walked
  <2>4. QED
    BY <1>5, <2>1, <2>2, <2>3, SMTT(20)
<1>7. packets[i].packetno \in starts[pageno]
  BY <1>3, <1>4, <1>5, <1>6, SMTT(20)
<1>8. \A j \in 1 .. i - 1 : j \in 1 .. Len(packets) /\ packets[j].packetno <= cum[pageno]
  BY <1>3 DEF Walked
<1>9. {j \in 1 .. i : packets[j].packetno \in starts[pageno]} = Behind(last_packetno) \cup {i}
  <2>1. ASSUME NEW j \in 1 .. i - 1
        PROVE  packets[j].packetno \in starts[pageno] <=> packets[j].packetno > last_packetno
    <3>1. packets[j].packetno \in Nat /\ packets[j].packetno <= cum[pageno]
      BY <1>4, <1>8
    <3>2. QED
      BY <1>5, <3>1
  <2>2. 1 .. i = (1 .. i - 1) \cup {i}
    BY <1>3
  <2>3. QED
    BY <1>7, <2>1, <2>2 DEF Behind
<1>10. /\ IsFiniteSet(Behind(last_packetno)) /\ i \notin Behind(last_packetno)
       /\ Current = Cardinality(Behind(last_packetno)) /\ Current \in Nat
  <2>1. IsFiniteSet(1 .. i - 1) /\ Behind(last_packetno) \in SUBSET (1 .. i - 1)
    <3>1. 1 \in Int /\ i - 1 \in Int
      BY <1>3
    <3>2. IsFiniteSet(1 .. i - 1)
      BY <3>1, FS_Interval
    <3>3. QED
      BY <3>2 DEF Behind
  <2>2. IsFiniteSet(Behind(last_packetno))
    BY <2>1, FS_Subset
  <2>3. i \notin 1 .. i - 1
    BY <1>3
  <2>4. Current = Cardinality(Behind(last_packetno))
    BY DEF Walked
  <2>5. QED
    BY <2>1, <2>2, <2>3, <2>4, FS_CardinalityType
<1>11. InPage = Current + 1
  BY <1>3 DEF InPage, Current
<1>12. Cardinality(Behind(last_packetno) \cup {i}) = InPage
  BY <1>10, <1>11, FS_AddElement
<1>13. ASSUME NEW p \in DOMAIN pages, packets[i].packetno \in starts[p] PROVE p = pageno
  <2> DEFINE x == packets[i].packetno
  <2>1. /\ p \in 1 .. Len(pages) /\ p - 1 \in 0 .. Len(pages) /\ p \in 0 .. Len(pages)
        /\ starts[p] = cum[p - 1] + 1 .. cum[p]
    BY <1>3 DEF Numbered
  <2>2. CASE p < pageno
    <3>1. cum[p] <= cum[pageno - 1]
      <4>1. p <= pageno - 1
        BY <1>3, <2>1, <2>2
      <4>2. QED
        BY <1>5, <2>1, <4>1 DEF Numbered
    <3>2. x \in cum[p - 1] + 1 .. cum[p]
      BY <1>13, <2>1
    <3>3. /\ x \in Nat /\ cum[p - 1] \in Nat /\ cum[p] \in Nat /\ cum[pageno - 1] \in Nat
          /\ cum[pageno - 1] < x
      BY <1>3, <1>4, <1>5, <1>6, <2>1
    <3> HIDE DEF x
    <3>4. FALSE
      BY <3>1, <3>2, <3>3
    <3>5. QED
      BY <3>4
  <2>3. CASE p > pageno
    <3>1. cum[pageno] <= cum[p - 1]
      <4>1. pageno <= p - 1
        BY <1>3, <2>1, <2>3
      <4>2. QED
        BY <1>5, <2>1, <4>1 DEF Numbered
    <3>2. x \in cum[p - 1] + 1 .. cum[p]
      BY <1>13, <2>1
    <3>3. /\ x \in Nat /\ cum[p - 1] \in Nat /\ cum[p] \in Nat /\ cum[pageno] \in Nat
          /\ x <= cum[pageno]
      BY <1>3, <1>4, <1>5, <1>6, <2>1
    <3> HIDE DEF x
    <3>4. FALSE
      BY <3>1, <3>2, <3>3
    <3>5. QED
      BY <3>4
  <2>4. QED
    BY <1>3, <2>1, <2>2, <2>3
<1>14. Walked(cum)'
  <2>1. packets' = packets /\ pages' = pages /\ last_packetno' = last_packetno /\ pageno' = pageno
    BY <1>2 DEF encoded
  <2>2. Behind(last_packetno)' = Behind(last_packetno) \cup {i}
    <3>1. 1 .. i' - 1 = (1 .. i - 1) \cup {i} /\ packets[i].packetno > last_packetno
      BY <1>2, <1>3, <1>4, <1>5, <1>6
    <3>2. QED
      BY <2>1, <3>1 DEF Behind
  <2>3. Current' = InPage
    BY <1>2 DEF Current
  <2>4. \A j \in 1 .. i' - 1 : packets[j].packetno <= cum[pageno]
    <3>1. \A j \in 1 .. i' - 1 : j \in 1 .. i - 1 \/ j = i
      BY <1>2, <1>3
    <3>2. QED
      BY <1>6, <1>8, <3>1
  <2>5. i' <= Len(packets) => last_packetno < packets[i'].packetno
    <3>1. SUFFICES ASSUME i + 1 <= Len(packets) PROVE last_packetno < packets[i + 1].packetno
      BY <1>2
    <3>2. i \in DOMAIN packets /\ i + 1 \in DOMAIN packets /\ i < i + 1
      BY <1>3, <3>1
    <3>3. packets[i].packetno < packets[i + 1].packetno
      BY <1>1, <3>2 DEF Recorded
    <3>4. packets[i].packetno \in Nat /\ packets[i + 1].packetno \in Nat
      BY <1>3, <1>4, <3>2
    <3>5. QED
      BY <1>5, <1>6, <3>3, <3>4
  <2>6. i' <= Len(packets) + 1 /\ pageno <= Len(pages) + 1 /\ prev_keyframe_pageno' <= pageno
    BY <1>2, <1>3
  <2>7. QED
    BY <1>2, <1>5, <1>12, <2>1, <2>2, <2>3, <2>4, <2>5, <2>6 DEF Walked
<1>15. QED
  BY <1>3, <1>7, <1>9, <1>10, <1>11, <1>12, <1>13, <1>14

(* A packet that gets no keypoint is not needed, or comes too soon after the   *)
(* last.                                                                       *)
LEMMA SkipStep == ASSUME IndexInv, SkipPacket PROVE IndexInv'
<1>1. PICK cum \in [0 .. Len(pages) -> Nat] : Numbered(cum) /\ Walked(cum)
  BY DEF IndexInv
<1>2. /\ Typed /\ Recorded /\ Ranged /\ Kept /\ Spaced /\ Covers /\ Paced
      /\ pc = "search" /\ queue = << >> /\ Considered
  BY DEF IndexInv, SkipPacket, Considered, Searching, Recorded
<1>3. /\ i' = i + 1 /\ packet_in_page' = InPage /\ prev_keyframe_pageno' = pageno
      /\ UNCHANGED <<encoded, pc, pageno, last_packetno, keypoints, prev_keyframe_start_time>>
      /\ InPage # TargetPacket \/ TooClose(packets[i].start_time)
  BY DEF SkipPacket, Considered, Skip
<1>4. /\ i \in 1 .. Len(packets) /\ DOMAIN packets = 1 .. Len(packets)
      /\ pageno \in 1 .. Len(pages) /\ DOMAIN pages = 1 .. Len(pages)
      /\ Cardinality({j \in 1 .. i : packets[j].packetno \in starts[pageno]}) = InPage
      /\ \A p \in DOMAIN pages : packets[i].packetno \in starts[p] => p = pageno
      /\ InPage = Current + 1 /\ Current \in Nat
      /\ Walked(cum)'
  BY <1>1, <1>2, Found
<1>5. Recorded' /\ Ranged' /\ Fresh' /\ Numbered(cum)'
  BY <1>1, <1>2, <1>3, SameRecord
<1>6. UNCHANGED <<kind, packet_size, clock, last_end_time, packetno, queue, filepos,
                  packets, range, pages, starts>>
  BY <1>3 DEF encoded
<1>7. Len(packets) \in Nat /\ Len(pages) \in Nat /\ Len(keypoints) \in Nat
      /\ DOMAIN keypoints = 1 .. Len(keypoints) /\ i \in Nat
  BY <1>2, LenProperties DEF Typed
<1>8. Typed'
  BY <1>2, <1>3, <1>4, <1>6, <1>7 DEF Typed
<1>9. Current' = Current + 1
  BY <1>3, <1>4 DEF Current
<1>10. Kept'
  <2>1. ASSUME NEW k \in DOMAIN keypoints'
        PROVE  \E m \in DOMAIN packets', p \in DOMAIN pages' :
                  /\ m < i' /\ p <= pageno'
                  /\ packets'[m].start_time = keypoints'[k].time
                  /\ pages'[p].offset = keypoints'[k].offset
                  /\ Target(m, p)'
    <3>1. PICK m \in DOMAIN packets, p \in DOMAIN pages :
              /\ m < i /\ p <= pageno
              /\ packets[m].start_time = keypoints[k].time
              /\ pages[p].offset = keypoints[k].offset
              /\ Target(m, p)
      BY <1>2, <1>3, <2>1 DEF Kept
    <3>2. m < i'
      BY <1>3, <1>4, <1>7, <3>1
    <3>3. QED
      BY <1>3, <1>6, <3>1, <3>2, SameTarget
  <2>2. keypoints # << >> =>
           \E q \in DOMAIN pages : /\ q <= pageno
                                   /\ pages[q].offset = keypoints[Len(keypoints)].offset
                                   /\ q = pageno => Current' >= TargetPacket
    <3>1. Current >= TargetPacket => Current' >= TargetPacket
      BY <1>4, <1>9, Constants
    <3>2. QED
      BY <1>2, <3>1 DEF Kept
  <2>3. QED
    BY <1>2, <1>3, <1>6, <2>1, <2>2, SameTarget DEF Kept
<1>11. Spaced' /\ Paced'
  BY <1>2, <1>3, <1>6 DEF Spaced, Paced, MaxKeypoints, KeypointsPerIndex
<1>12. Covers'
  <2>1. ASSUME NEW m \in 1 .. i' - 1, NEW p \in DOMAIN pages, Target(m, p), InTurn(m)
        PROVE  Near(m)
    <3>1. CASE m \in 1 .. i - 1
      BY <1>2, <2>1, <3>1, CoversIs
    <3>2. CASE m = i
      <4>1. p = pageno /\ InPage = TargetPacket
        BY <1>4, <2>1, <3>2 DEF Target
      <4>2. packets[i].start_time <= prev_keyframe_start_time + Interval
        BY <1>3, <4>1 DEF TooClose
      <4>3. packets[i].start_time \in Nat
        <5>1. packets[i] \in Keyframe
          BY <1>2, <1>4, ElementOfSeq DEF Typed
        <5>2. QED
          BY <5>1 DEF Keyframe
      <4>4. keypoints # << >>
        <5>1. SUFFICES ASSUME keypoints = << >> PROVE FALSE
          OBVIOUS
        <5>2. prev_keyframe_start_time = -INT_MAX
          BY <1>2, <5>1 DEF Kept
        <5>3. QED
          BY <4>2, <4>3, <5>2, Constants
      <4>5. prev_keyframe_start_time = keypoints[Len(keypoints)].time
        BY <1>2, <4>4 DEF Kept
      <4>6. Len(keypoints) \in DOMAIN keypoints
        BY <1>2, <1>7, <4>4, EmptySeq DEF Typed
      <4>7. keypoints[Len(keypoints)].time <= packets[i].start_time
        <5>1. PICK j \in DOMAIN packets : j < i /\ packets[j].start_time = keypoints[Len(keypoints)].time
          BY <1>2, <4>6 DEF Kept
        <5>2. j \in 1 .. i
          BY <1>4, <1>7, <5>1
        <5>3. packets[j].start_time <= packets[i].start_time
          BY <1>2, <1>4, <2>1, <3>2, <5>2 DEF InTurn, Recorded
        <5>4. QED
          BY <5>1, <5>3
      <4>8. QED
        BY <3>2, <4>2, <4>5, <4>6, <4>7 DEF Near
    <3>3. QED
      BY <1>3, <1>4, <1>7, <2>1, <3>1, <3>2
  <2>2. \A m : Near(m)' <=> Near(m)
    BY <1>3, <1>6 DEF Near
  <2>3. QED
    BY <1>3, <1>6, <2>1, <2>2, SameTarget, CoversNext
<1>13. EnoughKeypoints'
  BY <1>2, <1>3 DEF EnoughKeypoints
<1>14. (cum \in [0 .. Len(pages) -> Nat])'
  BY <1>1, <1>6
<1>15. QED
  BY <1>4, <1>5, <1>8, <1>10, <1>11, <1>12, <1>13, <1>14 DEF IndexInv

(* A keypoint points at the page that its packet begins on.                    *)
LEMMA AddStep == ASSUME IndexInv, AddKeypoint PROVE IndexInv'
<1> DEFINE kp == [offset |-> pages[pageno].offset, time |-> packets[i].start_time]
           last == Len(keypoints)
<1>1. PICK cum \in [0 .. Len(pages) -> Nat] : Numbered(cum) /\ Walked(cum)
  BY DEF IndexInv
<1>2. /\ Typed /\ Recorded /\ Ranged /\ Kept /\ Spaced /\ Covers /\ Paced
      /\ pc = "search" /\ queue = << >> /\ Considered /\ last < MaxKeypoints
  BY DEF IndexInv, AddKeypoint, Considered, Searching, Recorded
<1>3. /\ i' = i + 1 /\ packet_in_page' = InPage /\ prev_keyframe_pageno' = pageno
      /\ UNCHANGED <<encoded, pc, pageno, last_packetno>>
      /\ InPage = TargetPacket /\ ~TooClose(packets[i].start_time)
      /\ keypoints' = Append(keypoints, kp)
      /\ prev_keyframe_start_time' = kp.time
  BY DEF AddKeypoint, Considered
<1>4. /\ i \in 1 .. Len(packets) /\ DOMAIN packets = 1 .. Len(packets)
      /\ pageno \in 1 .. Len(pages) /\ DOMAIN pages = 1 .. Len(pages)
      /\ packets[i].packetno \in starts[pageno]
      /\ Cardinality({j \in 1 .. i : packets[j].packetno \in starts[pageno]}) = InPage
      /\ InPage = Current + 1 /\ Current \in Nat
      /\ Walked(cum)'
  BY <1>1, <1>2, Found
<1>5. Recorded' /\ Ranged' /\ Fresh' /\ Numbered(cum)'
  BY <1>1, <1>2, <1>3, SameRecord
<1>6. UNCHANGED <<kind, packet_size, clock, last_end_time, packetno, queue, filepos,
                  packets, range, pages, starts>>
  BY <1>3 DEF encoded
<1>7. /\ Len(packets) \in Nat /\ Len(pages) \in Nat /\ last \in Nat
      /\ DOMAIN keypoints = 1 .. last /\ i \in Nat
      /\ \A k \in 1 .. last : keypoints[k] \in Keypoint
      /\ \A p \in DOMAIN pages : pages[p].offset \in Nat
      /\ packets[i].start_time \in Nat
  <2>1. \A p \in DOMAIN pages : pages[p] \in Page
    BY <1>2, <1>4, ElementOfSeq DEF Typed
  <2>2. packets[i] \in Keyframe
    BY <1>2, <1>4, ElementOfSeq DEF Typed
  <2>3. Len(packets) \in Nat /\ Len(pages) \in Nat /\ last \in Nat /\ DOMAIN keypoints = 1 .. last /\ i \in Nat
    BY <1>2, LenProperties DEF Typed
  <2>4. \A k \in 1 .. last : keypoints[k] \in Keypoint
    BY <1>2, ElementOfSeq DEF Typed
  <2>5. QED
    BY <2>1, <2>2, <2>3, <2>4 DEF Page, Keyframe
<1>8. kp \in Keypoint /\ kp.offset = pages[pageno].offset /\ kp.time = packets[i].start_time
  BY <1>4, <1>7 DEF Keypoint
<1> HIDE DEF kp
<1>9. /\ keypoints' \in Seq(Keypoint) /\ Len(keypoints') = last + 1
      /\ DOMAIN keypoints' = 1 .. last + 1
      /\ \A k \in 1 .. last : keypoints'[k] = keypoints[k]
      /\ keypoints'[last + 1] = kp /\ keypoints' # << >>
  <2>1. keypoints \in Seq(Keypoint)
    BY <1>2 DEF Typed
  <2>2. QED
    BY <1>3, <1>7, <1>8, <2>1, AppendProperties, LenProperties
<1>10. Typed'
  <2>1. prev_keyframe_start_time' \in Nat /\ packet_in_page' \in Nat /\ i' \in Nat \ {0}
    BY <1>3, <1>4, <1>7, <1>8
  <2>2. QED
    BY <1>2, <1>3, <1>4, <1>6, <1>9, <2>1 DEF Typed
<1>11. Current' = TargetPacket
  BY <1>3 DEF Current
<1>12. Target(i, pageno)
  BY <1>3, <1>4 DEF Target
<1>13. TargetPacket' = TargetPacket /\ \A m, p : Target(m, p)' <=> Target(m, p)
  BY <1>3, SameTarget
<1>14. Kept'
  <2>1. ASSUME NEW k \in DOMAIN keypoints'
        PROVE  \E m \in DOMAIN packets, p \in DOMAIN pages :
                  /\ m < i' /\ p <= pageno
                  /\ packets[m].start_time = keypoints'[k].time
                  /\ pages[p].offset = keypoints'[k].offset
                  /\ Target(m, p)
    <3>1. CASE k \in 1 .. last
      <4>1. PICK m \in DOMAIN packets, p \in DOMAIN pages :
                /\ m < i /\ p <= pageno
                /\ packets[m].start_time = keypoints[k].time
                /\ pages[p].offset = keypoints[k].offset
                /\ Target(m, p)
        BY <1>2, <1>7, <3>1 DEF Kept
      <4>2. m < i'
        BY <1>3, <1>4, <1>7, <4>1
      <4>3. QED
        BY <1>9, <3>1, <4>1, <4>2
    <3>2. CASE k = last + 1
      <4>1. keypoints'[k] = kp /\ i < i' /\ i \in DOMAIN packets /\ pageno \in DOMAIN pages
            /\ pageno <= pageno
        BY <1>3, <1>4, <1>7, <1>9, <3>2
      <4>2. QED
        BY <1>8, <1>12, <4>1
    <3>3. QED
      BY <1>7, <1>9, <2>1, <3>1, <3>2
  <2>2. /\ pageno \in DOMAIN pages /\ pageno <= pageno
        /\ pages[pageno].offset = keypoints'[Len(keypoints')].offset
        /\ Current' >= TargetPacket
        /\ prev_keyframe_start_time' = keypoints'[Len(keypoints')].time
    <3>1. keypoints'[Len(keypoints')] = kp
      BY <1>9
    <3>2. Current' >= TargetPacket
      BY <1>11, Constants
    <3>3. QED
      BY <1>3, <1>4, <1>8, <3>1, <3>2
  <2>3. QED
    BY <1>3, <1>6, <1>9, <1>13, <2>1, <2>2 DEF Kept
<1>15. last > 0 => /\ last \in DOMAIN keypoints
                   /\ prev_keyframe_start_time = keypoints[last].time
                   /\ keypoints[last].time \in Nat /\ keypoints[last].offset \in Nat
                   /\ kp.time > keypoints[last].time + Interval
                   /\ kp.offset > keypoints[last].offset
  <2>1. SUFFICES ASSUME last > 0
                 PROVE  /\ last \in DOMAIN keypoints
                        /\ prev_keyframe_start_time = keypoints[last].time
                        /\ keypoints[last].time \in Nat /\ keypoints[last].offset \in Nat
                        /\ kp.time > keypoints[last].time + Interval
                        /\ kp.offset > keypoints[last].offset
    OBVIOUS
  <2>2. last \in DOMAIN keypoints /\ keypoints # << >>
    BY <1>7, <2>1
  <2>3. prev_keyframe_start_time = keypoints[last].time
    BY <1>2, <2>2 DEF Kept
  <2>4. keypoints[last].time \in Nat /\ keypoints[last].offset \in Nat
    BY <1>7, <2>2 DEF Keypoint
  <2>5. kp.time > keypoints[last].time + Interval
    <3>1. ~(packets[i].start_time <= keypoints[last].time + Interval)
      BY <1>3, <2>3 DEF TooClose
    <3>2. QED
      <4> DEFINE u == packets[i].start_time
                 u0 == keypoints[last].time
      <4>1. u \in Nat /\ u0 \in Nat /\ Interval \in Nat /\ ~(u <= u0 + Interval)
        BY <1>7, <2>4, <3>1, Constants
      <4> HIDE DEF u, u0
      <4>2. u > u0 + Interval
        BY <4>1
      <4>3. QED
        BY <1>8, <4>2 DEF u, u0
  <2>6. kp.offset > keypoints[last].offset
    <3>1. PICK q \in DOMAIN pages :
              /\ q <= pageno /\ pages[q].offset = keypoints[last].offset
              /\ q = pageno => Current >= TargetPacket
      BY <1>2, <2>2 DEF Kept
    <3>2. q < pageno
      BY <1>3, <1>4, <3>1, Constants
    <3>3. pages[q].offset < pages[pageno].offset
      BY <1>2, <1>4, <3>2 DEF Recorded
    <3>4. QED
      BY <1>4, <1>7, <1>8, <3>1, <3>3
  <2>7. QED
    BY <2>2, <2>3, <2>4, <2>5, <2>6
<1>16. Spaced'
  <2>1. ASSUME NEW k \in 2 .. last + 1
        PROVE  /\ keypoints'[k].time > keypoints'[k - 1].time + Interval
               /\ keypoints'[k].offset > keypoints'[k - 1].offset
    <3>1. CASE k \in 2 .. last
      <4>1. k \in 1 .. last /\ k - 1 \in 1 .. last
        BY <1>7, <3>1
      <4>2. QED
        BY <1>2, <1>9, <3>1, <4>1 DEF Spaced
    <3>2. CASE k = last + 1
      <4>1. last > 0 /\ k - 1 = last /\ last \in 1 .. last
        BY <1>7, <2>1, <3>2
      <4>2. QED
        BY <1>9, <1>15, <3>2, <4>1
    <3>3. QED
      BY <1>7, <2>1, <3>1, <3>2
  <2>2. QED
    BY <1>9, <2>1 DEF Spaced
<1>17. Covers'
  <2>1. ASSUME NEW m \in 1 .. i' - 1, NEW p \in DOMAIN pages, Target(m, p), InTurn(m)
        PROVE  Near(m)'
    <3>1. CASE m \in 1 .. i - 1
      <4>1. PICK k \in DOMAIN keypoints : /\ keypoints[k].time <= packets[m].start_time
                                          /\ packets[m].start_time <= keypoints[k].time + Interval
        BY <1>2, <2>1, <3>1, CoversIs DEF Near
      <4>2. k \in DOMAIN keypoints' /\ keypoints'[k] = keypoints[k]
        BY <1>7, <1>9
      <4>3. QED
        BY <1>6, <4>1, <4>2 DEF Near
    <3>2. CASE m = i
      <4>1. last + 1 \in DOMAIN keypoints' /\ keypoints'[last + 1].time = packets[i].start_time
        BY <1>7, <1>8, <1>9
      <4>2. packets[i].start_time \in Nat
        BY <1>7
      <4>3. packets[i].start_time <= packets[i].start_time + Interval
        BY <4>2, Constants
      <4>4. QED
        BY <1>6, <3>2, <4>1, <4>2, <4>3 DEF Near
    <3>3. QED
      BY <1>3, <1>4, <1>7, <2>1, <3>1, <3>2
  <2>2. QED
    BY <1>3, <1>6, <2>1, SameTarget, CoversNext
<1>18. Paced'
  <2>1. Len(keypoints') <= MaxKeypoints
    BY <1>2, <1>7, <1>9, MaxKeypointsType
  <2>2. ASSUME NEW k \in 1 .. last + 1 PROVE keypoints'[k].time >= (k - 1) * Interval
    <3>1. CASE k \in 1 .. last
      BY <1>2, <1>7, <1>9, <3>1 DEF Paced
    <3>2. CASE k = last + 1 /\ last = 0
      <4>1. (k - 1) * Interval = 0
        BY <3>2, Constants
      <4>2. QED
        BY <1>7, <1>8, <1>9, <3>2, <4>1
    <3>3. CASE k = last + 1 /\ last > 0
      <4>1. keypoints[last].time >= (last - 1) * Interval
        BY <1>2, <1>15, <3>3 DEF Paced
      <4>2. last * Interval = (last - 1) * Interval + Interval
        BY <1>7, Constants
      <4>3. (last - 1) * Interval \in Int /\ last * Interval \in Int
        BY <1>7, Constants
      <4>4. kp.time >= last * Interval
        BY <1>7, <1>8, <1>15, <3>3, <4>1, <4>2, <4>3, Constants
      <4>5. k - 1 = last
        BY <1>7, <3>3
      <4>6. QED
        BY <1>9, <3>3, <4>4, <4>5
    <3>4. QED
      BY <1>7, <2>2, <3>1, <3>2, <3>3
  <2>3. QED
    BY <1>9, <2>1, <2>2 DEF Paced, MaxKeypoints, KeypointsPerIndex
<1>19. EnoughKeypoints'
  BY <1>2, <1>3 DEF EnoughKeypoints
<1>20. (cum \in [0 .. Len(pages) -> Nat])'
  BY <1>1, <1>6
<1>21. QED
  BY <1>4, <1>5, <1>10, <1>14, <1>16, <1>17, <1>18, <1>19, <1>20 DEF IndexInv

(* What has been found when the search ends is the index.                      *)
LEMMA WriteIndexStep == ASSUME IndexInv, WriteIndex PROVE IndexInv'
<1>1. PICK cum \in [0 .. Len(pages) -> Nat] : Numbered(cum) /\ Walked(cum)
  BY DEF IndexInv
<1>2. /\ Typed /\ Recorded /\ Ranged /\ Fresh /\ Kept /\ Spaced /\ Covers /\ Paced
      /\ pc = "search" /\ queue = << >> /\ pc' = "done" /\ ~Searching
      /\ UNCHANGED <<encoded, search>>
  BY DEF IndexInv, WriteIndex, Recorded
<1>3. Recorded' /\ Ranged' /\ Fresh' /\ Numbered(cum)'
  BY <1>1, <1>2, SameRecord
<1>4. Typed'
  BY <1>2 DEF Typed, encoded, search
<1>5. Walked(cum)'
  BY <1>1, <1>2 DEF Walked, Current, Behind, encoded, search
<1>6. /\ packets' = packets /\ pages' = pages /\ starts' = starts
      /\ i' = i /\ pageno' = pageno /\ keypoints' = keypoints
      /\ prev_keyframe_start_time' = prev_keyframe_start_time /\ Current' = Current
  BY <1>2 DEF encoded, search, Current
<1>7. Kept'
  BY <1>2, <1>6, SameTarget DEF Kept
<1>8. Spaced' /\ Paced'
  BY <1>2, <1>6 DEF Spaced, Paced, MaxKeypoints, KeypointsPerIndex
<1>9. Covers'
  BY <1>2, <1>6, SameTarget, CoversIs, CoversNext DEF Near
<1>10. EnoughKeypoints'
  <2>1. SUFFICES ASSUME Interval > 0, \A m \in DOMAIN packets : packets[m].start_time <= Duration,
                        ~(i > Len(packets))
                 PROVE  FALSE
    BY <1>2, <1>6 DEF EnoughKeypoints
  <2> DEFINE last == Len(keypoints)
  <2>2. /\ Len(packets) \in Nat /\ last \in Nat /\ i \in Nat
        /\ DOMAIN keypoints = 1 .. last
        /\ \A k \in 1 .. last : keypoints[k] \in Keypoint
    BY <1>2, LenProperties, ElementOfSeq DEF Typed
  <2>3. last = MaxKeypoints /\ MaxKeypoints \in Nat /\ MaxKeypoints >= 2
    BY <1>2, <2>1, <2>2, Ceiling DEF Searching, Paced
  <2>4. last \in DOMAIN keypoints
    BY <2>2, <2>3
  <2>5. keypoints[last].time >= (last - 1) * Interval
    BY <1>2, <2>4 DEF Paced
  <2>6. keypoints[last].time <= Duration
    <3>1. PICK m \in DOMAIN packets : packets[m].start_time = keypoints[last].time
      BY <1>2, <2>4 DEF Kept
    <3>2. QED
      BY <2>1, <3>1
  <2>7. (last - 1) * Interval > Duration
    BY <2>1, <2>3, Ceiling
  <2>8. keypoints[last].time \in Nat /\ (last - 1) * Interval \in Int
    BY <2>2, <2>4, Constants DEF Keypoint
  <2>9. QED
    BY <2>5, <2>6, <2>7, <2>8, Constants
<1>11. (cum \in [0 .. Len(pages) -> Nat])'
  BY <1>1, <1>6
<1>12. QED
  BY <1>3, <1>4, <1>5, <1>7, <1>8, <1>9, <1>10, <1>11 DEF IndexInv

(* Nothing happens.                                                            *)
LEMMA Stutter == ASSUME IndexInv, UNCHANGED vars PROVE IndexInv'
<1>1. PICK cum \in [0 .. Len(pages) -> Nat] : Numbered(cum) /\ Walked(cum)
  BY DEF IndexInv
<1>2. UNCHANGED <<kind, packet_size, clock, last_end_time, packetno, queue, filepos,
                  packets, range, pages, starts, pc, i, pageno, last_packetno, packet_in_page,
                  prev_keyframe_pageno, prev_keyframe_start_time, keypoints>>
  BY DEF vars, encoded, search
<1>3. UNCHANGED encoded
  BY DEF vars
<1>4. /\ NumHeaders' = NumHeaders /\ FirstPacketno' = FirstPacketno /\ Current' = Current
      /\ \A n : Behind(n)' = Behind(n)
  BY <1>2 DEF NumHeaders, FirstPacketno, Current, Behind
<1>5. Typed' /\ Ranged'
  BY <1>2 DEF IndexInv, Typed, Ranged
<1>6. Recorded' /\ Fresh'
  BY <1>2, <1>4 DEF IndexInv, Recorded, Fresh
<1>7. Numbered(cum)'
  BY <1>1, <1>2, <1>4 DEF Numbered
<1>8. Walked(cum)'
  BY <1>1, <1>2, <1>4 DEF Walked
<1>9. Kept'
  BY <1>2, <1>3, <1>4, SameTarget DEF IndexInv, Kept
<1>10. Spaced' /\ Paced'
  BY <1>2 DEF IndexInv, Spaced, Paced, MaxKeypoints, KeypointsPerIndex
<1>11. Covers'
  BY <1>2, <1>3, SameTarget, CoversIs, CoversNext DEF IndexInv, Near
<1>12. EnoughKeypoints'
  BY <1>2 DEF IndexInv, EnoughKeypoints
<1>13. (cum \in [0 .. Len(pages) -> Nat])'
  BY <1>1, <1>2
<1>14. QED
  BY <1>5, <1>6, <1>7, <1>8, <1>9, <1>10, <1>11, <1>12, <1>13 DEF IndexInv

-----------------------------------------------------------------------------
(* Theorems. *)

(* The invariant holds however the stream is encoded and cut into pages.       *)
THEOREM Invariant == Spec => []IndexInv
<1>1. Init => IndexInv
  BY InitInv
<1>2. IndexInv /\ [Next]_vars => IndexInv'
  <2> SUFFICES ASSUME IndexInv, [Next]_vars PROVE IndexInv'
    OBVIOUS
  <2>1. CASE AddVideo \/ AddAudio \/ AddKate \/ WritePage
    BY <2>1, EncodeStep
  <2>2. CASE StartIndex
    BY <2>2, StartStep
  <2>3. CASE NextPage
    BY <2>3, NextPageStep
  <2>4. CASE SkipPacket
    BY <2>4, SkipStep
  <2>5. CASE AddKeypoint
    BY <2>5, AddStep
  <2>6. CASE WriteIndex
    BY <2>6, WriteIndexStep
  <2>7. CASE Done \/ UNCHANGED vars
    BY <2>7, Stutter DEF Done
  <2>8. QED
    BY <2>1, <2>2, <2>3, <2>4, <2>5, <2>6, <2>7 DEF Next
<1>3. QED
  BY <1>1, <1>2, PTL DEF Spec

(* The assertion of write_index_pages holds: the count of packet starts        *)
(* reaches the page of every recorded keyframe.                                *)
THEOREM PageAlwaysExists == Spec => []PageExists
<1>1. IndexInv => PageExists
  <2> SUFFICES ASSUME IndexInv, Searching PROVE pageno <= Len(pages)
    BY DEF PageExists
  <2>1. PICK cum : Numbered(cum) /\ Walked(cum)
    BY DEF IndexInv
  <2>2. Typed /\ Recorded /\ queue = << >> /\ i <= Len(packets)
    BY DEF IndexInv, Searching, Recorded
  <2>3. pageno \in 1 .. Len(pages)
    BY <2>1, <2>2, PageFound
  <2>4. QED
    BY <2>2, <2>3, LenProperties DEF Typed
<1>2. QED
  BY <1>1, Invariant, PTL

(* Every keypoint has the time of a keyframe and the offset of the page on     *)
(* which that keyframe starts as the target packet.                            *)
THEOREM IndexExact == Spec => []KeypointsExact
<1>1. IndexInv => KeypointsExact
  BY DEF IndexInv, Kept, Target, KeypointsExact
<1>2. QED
  BY <1>1, Invariant, PTL

(* Keypoints are more than the interval apart and grow in time and offset.     *)
THEOREM KeypointsSpaced == Spec => []Spaced
<1>1. IndexInv => Spaced
  BY DEF IndexInv
<1>2. QED
  BY <1>1, Invariant, PTL

(* A target packet the search has passed starts at most the interval after a   *)
(* keypoint, unless it is a Kate packet that starts before an earlier one.     *)
THEOREM IndexCovers == Spec => []Covers
<1>1. IndexInv => Covers
  BY DEF IndexInv
<1>2. QED
  BY <1>1, Invariant, PTL

(* ceil(duration / interval) + 2 keypoints are enough for the whole media.     *)
THEOREM KeypointsSuffice == Spec => []EnoughKeypoints
<1>1. IndexInv => EnoughKeypoints
  BY DEF IndexInv
<1>2. QED
  BY <1>1, Invariant, PTL

(* The range written into the index holds every keypoint.                      *)
THEOREM RangeCorrect == Spec => []RangeHolds
<1>1. IndexInv => RangeHolds
  BY DEF IndexInv, Kept, Ranged, RangeHolds
<1>2. QED
  BY <1>1, Invariant, PTL

-----------------------------------------------------------------------------
(* Recursion. What a recursive function is is known only when there is one:    *)
(* it is put together from those that go up to a number.                       *)

(* A set of numbers has a least one.                                           *)
LEMMA LeastNumber ==
    ASSUME NEW S, S \subseteq Nat, S # {}
    PROVE  \E x \in S : \A y \in S : x <= y
<1>1. \A x, y \in Nat : x < y => <<x, y>> \in OpToRel(<, Nat)
  BY DEF OpToRel
<1>2. \E R : IsWellFoundedOn(R, Nat) /\ \A x, y \in Nat : x < y => <<x, y>> \in R
  BY <1>1, NatLessThanWellFounded
<1>3. PICK R : IsWellFoundedOn(R, Nat) /\ \A x, y \in Nat : x < y => <<x, y>> \in R
  BY <1>2
<1>4. IsWellFoundedOn(R, Nat)
  BY <1>3
<1>5. PICK x \in S : \A y \in S : ~(<<y, x>> \in R)
  BY <1>4, WFMin, Zenon
<1>6. ASSUME NEW y \in S PROVE x <= y
  <2>1. x \in Nat /\ y \in Nat
    OBVIOUS
  <2>2. y < x => <<y, x>> \in R
    BY <1>3, <2>1
  <2>3. ~(<<y, x>> \in R)
    BY <1>5
  <2>4. QED
    BY <2>1, <2>2, <2>3
<1>7. QED
  BY <1>6

(* A function that is given on base and elsewhere computed from its value at a *)
(* smaller argument.                                                           *)
Computes(f, dom, base, first, d, step) ==
    \A n \in dom : f[n] = IF n \in base THEN first[n] ELSE step[<<n, f[d[n]]>>]

LEMMA Recursion ==
    ASSUME NEW D, D \subseteq Nat, NEW T, NEW base, base \subseteq D, NEW first \in [base -> T],
           NEW d \in [D \ base -> D], \A n \in D \ base : d[n] < n,
           NEW step \in [D \X T -> T]
    PROVE  \E f \in [D -> T] : Computes(f, D, base, first, d, step)
<1> DEFINE Below(n) == {m \in D : m <= n}
           Ok(g, n) == g \in [Below(n) -> T] /\ Computes(g, Below(n), base, first, d, step)
           G(n) == CHOOSE g : Ok(g, n)
<1> HIDE DEF G
<1>a. ASSUME NEW n \in D, n \notin base
      PROVE  d[n] \in D /\ d[n] < n /\ d[n] \in Nat /\ n \in Nat
  BY <1>a
<1>b. ASSUME NEW n \in D, NEW m \in D, m <= n
      PROVE  m \in Below(n) /\ n \in Nat /\ m \in Nat
  BY <1>b
<1>c. ASSUME NEW n, \E g : Ok(g, n) PROVE Ok(G(n), n)
  BY <1>c, Zenon DEF G
<1>d. ASSUME NEW n, NEW g, Ok(g, n), NEW m \in Below(n)
      PROVE  /\ g[m] \in T
             /\ g[m] = IF m \in base THEN first[m] ELSE step[<<m, g[d[m]]>>]
  BY <1>d DEF Computes
<1>1. ASSUME NEW n \in D, NEW k \in D, NEW g, NEW h, Ok(g, n), Ok(h, k)
      PROVE  \A m \in Below(n) \cap Below(k) : g[m] = h[m]
  <2> DEFINE bad == {m \in Below(n) \cap Below(k) : g[m] # h[m]}
  <2> SUFFICES ASSUME bad # {} PROVE FALSE
    OBVIOUS
  <2>1. PICK m \in bad : \A y \in bad : m <= y
    <3>1. bad \subseteq Nat
      OBVIOUS
    <3> HIDE DEF bad
    <3>2. QED
      BY <3>1, LeastNumber
  <2>m. m \in D /\ m <= n /\ m <= k /\ m \in Below(n) /\ m \in Below(k) /\ g[m] # h[m]
    BY <2>1
  <2>2. /\ g[m] = IF m \in base THEN first[m] ELSE step[<<m, g[d[m]]>>]
        /\ h[m] = IF m \in base THEN first[m] ELSE step[<<m, h[d[m]]>>]
    BY <1>1, <2>m DEF Computes
  <2>3. CASE m \in base
    BY <2>m, <2>2, <2>3
  <2>4. CASE m \notin base
    <3>1. /\ d[m] \in D /\ d[m] < m /\ d[m] \in Nat /\ m \in Nat /\ n \in Nat /\ k \in Nat
          /\ m <= n /\ m <= k
      BY <2>m, <2>4, <1>a, <1>b
    <3>2. d[m] \in Below(n) \cap Below(k)
      BY <3>1
    <3>3. d[m] \notin bad
      <4> HIDE DEF bad
      <4>1. QED
        BY <2>1, <3>1
    <3>4. g[d[m]] = h[d[m]]
      BY <3>2, <3>3
    <3>5. QED
      BY <2>m, <2>2, <2>4, <3>4
  <2>5. QED
    BY <2>3, <2>4
<1> HIDE DEF Ok
<1>e. ASSUME NEW n \in D, NEW k \in D, Ok(G(n), n), Ok(G(k), k), NEW m \in Below(n), m \in Below(k)
      PROVE  G(n)[m] = G(k)[m]
  <2> HIDE DEF Below
  <2>1. QED
    BY <1>1, <1>e
<1>2. ASSUME NEW n \in D, \A m \in D : m < n => \E g : Ok(g, m)
      PROVE  \E g : Ok(g, n)
  <2> DEFINE at == IF n \in base THEN first[n] ELSE step[<<n, G(d[n])[d[n]]>>]
             g == [m \in Below(n) |-> IF m = n THEN at ELSE G(m)[m]]
  <2>1. ASSUME NEW m \in D, m < n
        PROVE  /\ Ok(G(m), m) /\ m \in Below(m) /\ G(m)[m] \in T
               /\ G(m)[m] = IF m \in base THEN first[m] ELSE step[<<m, G(m)[d[m]]>>]
    <3>1. Ok(G(m), m)
      BY <1>2, <1>c, <2>1
    <3>2. m <= m /\ m \in Nat
      BY <2>1
    <3>3. m \in Below(m)
      BY <3>2
    <3> HIDE DEF Below
    <3>4. QED
      BY <3>1, <3>3, <1>d
  <2>2. n \notin base => d[n] \in D /\ d[n] < n /\ G(d[n])[d[n]] \in T
    BY <1>a, <2>1
  <2>3. at \in T
    BY <2>2
  <2> HIDE DEF at
  <2>4. g \in [Below(n) -> T]
    <3>1. ASSUME NEW m \in Below(n), m # n PROVE G(m)[m] \in T
      <4>1. m \in D /\ m \in Nat /\ n \in Nat /\ m <= n
        BY <3>1
      <4>2. m < n
        BY <3>1, <4>1
      <4>3. QED
        BY <2>1, <4>1, <4>2
    <3> HIDE DEF Below
    <3>2. QED
      BY <2>3, <3>1
  <2>5. ASSUME NEW m \in Below(n)
        PROVE  g[m] = IF m \in base THEN first[m] ELSE step[<<m, g[d[m]]>>]
    <3>0. m \in D /\ m \in Nat /\ n \in Nat /\ m <= n
      BY <2>5
    <3>1. m \notin base => d[m] \in Below(n) /\ d[m] < m /\ d[m] # n /\ d[m] \in D /\ d[m] <= m /\ d[m] < n
      BY <1>a, <3>0
    <3>2. m \notin base => g[d[m]] = G(d[m])[d[m]]
      <4> HIDE DEF Below
      <4>1. QED
        BY <3>1
    <3>3. CASE m = n
      <4>1. g[m] = at
        <5> HIDE DEF Below
        <5>1. QED
          BY <3>3
      <4> HIDE DEF g
      <4>2. QED
        BY <3>2, <3>3, <4>1 DEF at
    <3>4. CASE m # n
      <4>1. m \in D /\ m < n
        BY <3>0, <3>4
      <4>2. g[m] = G(m)[m]
        <5> HIDE DEF Below
        <5>1. QED
          BY <3>4
      <4>3. G(m)[m] = IF m \in base THEN first[m] ELSE step[<<m, G(m)[d[m]]>>]
        BY <2>1, <4>1
      <4>4. m \notin base => G(m)[d[m]] = G(d[m])[d[m]]
        <5> SUFFICES ASSUME m \notin base PROVE G(m)[d[m]] = G(d[m])[d[m]]
          OBVIOUS
        <5>1. d[m] \in D /\ d[m] < n /\ d[m] \in Below(m) /\ d[m] \in Below(d[m])
          BY <3>1, <3>0, <1>b, <2>1
        <5>2. Ok(G(m), m) /\ Ok(G(d[m]), d[m])
          BY <2>1, <4>1, <5>1
        <5> HIDE DEF Below, g
        <5>3. QED
          BY <1>e, <4>1, <5>1, <5>2
      <4> HIDE DEF g
      <4>5. QED
        BY <3>2, <4>2, <4>3, <4>4
    <3>5. QED
      BY <3>3, <3>4
  <2> HIDE DEF g
  <2>6. Computes(g, Below(n), base, first, d, step)
    <3> HIDE DEF Below
    <3>1. QED
      BY <2>5 DEF Computes
  <2>7. Ok(g, n)
    BY <2>4, <2>6 DEF Ok
  <2>8. QED
    BY <2>7
<1>3. \A n \in D : \E g : Ok(g, n)
  <2> DEFINE bad == {n \in D : ~\E g : Ok(g, n)}
  <2> SUFFICES ASSUME bad # {} PROVE FALSE
    OBVIOUS
  <2>1. PICK n \in bad : \A y \in bad : n <= y
    <3>1. bad \subseteq Nat
      OBVIOUS
    <3> HIDE DEF bad
    <3>2. QED
      BY <3>1, LeastNumber
  <2>2. ASSUME NEW m \in D, m < n PROVE m \notin bad
    <3>1. m \in Nat /\ n \in Nat
      OBVIOUS
    <3> HIDE DEF bad
    <3>2. QED
      BY <2>1, <2>2, <3>1
  <2>3. \A m \in D : m < n => \E g : Ok(g, m)
    BY <2>2
  <2>4. n \in D
    OBVIOUS
  <2>5. \E g : Ok(g, n)
    BY <1>2, <2>3, <2>4
  <2>6. QED
    BY <2>5
<1> DEFINE f == [n \in D |-> G(n)[n]]
<1>4. ASSUME NEW n \in D
      PROVE  /\ Ok(G(n), n) /\ n \in Below(n) /\ G(n)[n] \in T
             /\ G(n)[n] = IF n \in base THEN first[n] ELSE step[<<n, G(n)[d[n]]>>]
  <2>1. Ok(G(n), n)
    BY <1>3, <1>c
  <2>2. n <= n /\ n \in Nat
    OBVIOUS
  <2>3. n \in Below(n)
    BY <2>2
  <2> HIDE DEF Below
  <2>4. QED
    BY <2>1, <2>3, <1>d
<1>5. f \in [D -> T]
  BY <1>4
<1>6. ASSUME NEW n \in D
      PROVE  f[n] = IF n \in base THEN first[n] ELSE step[<<n, f[d[n]]>>]
  <2>3. n \notin base => G(n)[d[n]] = f[d[n]]
    <3> SUFFICES ASSUME n \notin base PROVE G(n)[d[n]] = f[d[n]]
      OBVIOUS
    <3>0. d[n] \in D /\ d[n] < n /\ d[n] \in Nat /\ n \in Nat
      BY <1>a
    <3>1. d[n] \in Below(n) /\ d[n] \in Below(d[n])
      BY <3>0
    <3>2. f[d[n]] = G(d[n])[d[n]]
      BY <3>0
    <3>3. Ok(G(n), n) /\ Ok(G(d[n]), d[n])
      BY <1>4, <3>0
    <3> HIDE DEF Below, f
    <3>4. QED
      BY <1>1, <3>0, <3>1, <3>2, <3>3
  <2>4. QED
    BY <1>4, <2>3
<1> HIDE DEF f
<1>7. QED
  BY <1>5, <1>6 DEF Computes

(* Induction over a set of numbers, for a property given as a set.             *)
LEMMA Induction ==
    ASSUME NEW D, D \subseteq Nat, NEW S,
           \A n \in D : (\A m \in D : m < n => m \in S) => n \in S
    PROVE  D \subseteq S
<1> SUFFICES ASSUME D \ S # {} PROVE FALSE
  OBVIOUS
<1>1. PICK n \in D \ S : \A y \in D \ S : n <= y
  BY LeastNumber
<1>2. ASSUME NEW m \in D, m < n PROVE m \in S
  <2>1. m \in Nat /\ n \in Nat
    OBVIOUS
  <2>2. QED
    BY <1>1, <1>2, <2>1
<1>3. QED
  BY <1>2

-----------------------------------------------------------------------------
(* Bytes. *)

(* The loop that counts bits.                                                  *)
LEMMA BitsIs ==
    /\ Bits \in [Nat -> Nat]
    /\ \A n \in Nat : Bits[n] = IF n = 0 THEN 0 ELSE Bits[n \div 2] + 1
<1> DEFINE first == [n \in {0} |-> 0]
           d == [n \in Nat \ {0} |-> n \div 2]
           step == [x \in Nat \X Nat |-> x[2] + 1]
<1>1. ASSUME NEW n \in Nat \ {0} PROVE n \div 2 \in Nat /\ n \div 2 < n
  OBVIOUS
<1>2. /\ first \in [{0} -> Nat] /\ d \in [Nat \ {0} -> Nat] /\ step \in [Nat \X Nat -> Nat]
      /\ \A n \in Nat \ {0} : d[n] < n
  BY <1>1
<1>3. PICK f \in [Nat -> Nat] : Computes(f, Nat, {0}, first, d, step)
  <2>1. {0} \subseteq Nat /\ Nat \subseteq Nat
    OBVIOUS
  <2> HIDE DEF first, d, step
  <2>2. QED
    BY <1>2, <2>1, Recursion
<1>4. ASSUME NEW n \in Nat PROVE f[n] = IF n = 0 THEN 0 ELSE f[n \div 2] + 1
  BY <1>1, <1>3 DEF Computes
<1> DEFINE Body(g) == [n \in Nat |-> IF n = 0 THEN 0 ELSE g[n \div 2] + 1]
<1>5. f = Body(f)
  BY <1>4
<1>6. Bits = CHOOSE g : g = Body(g)
  BY DEF Bits
<1>7. Bits = Body(Bits)
  <2> HIDE DEF Body
  <2>1. QED
    BY <1>5, <1>6, Zenon
<1>8. \A n \in Nat : Bits[n] = IF n = 0 THEN 0 ELSE Bits[n \div 2] + 1
  BY <1>7
<1> DEFINE S == {n \in Nat : Bits[n] \in Nat}
<1>9. Nat \subseteq S
  <2>1. ASSUME NEW n \in Nat, \A m \in Nat : m < n => m \in S PROVE n \in S
    BY <1>1, <1>8, <2>1
  <2> HIDE DEF S
  <2>2. QED
    BY <2>1, Induction
<1>10. Bits = [n \in Nat |-> Bits[n]]
  BY <1>7
<1>11. QED
  BY <1>8, <1>9, <1>10

Byte == 0 .. 255

(* The loop that puts out bytes.                                               *)
LEMMA PutIs ==
    /\ Put \in [Nat -> Seq(Byte)]
    /\ \A n \in Nat : /\ n < 128 => Put[n] = <<n + 128>>
                      /\ n >= 128 => /\ n \div 128 \in Nat /\ n \div 128 < n
                                     /\ Put[n] = <<n % 128>> \o Put[n \div 128]
<1> DEFINE small == 0 .. 127
           first == [n \in small |-> <<n + 128>>]
           d == [n \in Nat \ small |-> n \div 128]
           step == [x \in Nat \X Seq(Byte) |-> <<x[1] % 128>> \o x[2]]
<1>1. ASSUME NEW n \in Nat
      PROVE  /\ n \div 128 \in Nat /\ n % 128 \in Byte
             /\ n \notin small => n \div 128 < n
             /\ n \in small <=> n \div 128 = 0
  BY DEF Byte
<1>2. /\ first \in [small -> Seq(Byte)] /\ d \in [Nat \ small -> Nat] /\ step \in [Nat \X Seq(Byte) -> Seq(Byte)]
      /\ \A n \in Nat \ small : d[n] < n
  <2>1. first \in [small -> Seq(Byte)]
    BY DEF Byte
  <2>2. ASSUME NEW x \in Nat \X Seq(Byte) PROVE <<x[1] % 128>> \o x[2] \in Seq(Byte)
    <3>1. <<x[1] % 128>> \in Seq(Byte)
      BY <1>1
    <3>2. QED
      BY <3>1, ConcatProperties
  <2>3. step \in [Nat \X Seq(Byte) -> Seq(Byte)]
    BY <2>2
  <2>4. /\ d \in [Nat \ small -> Nat]
        /\ \A n \in Nat \ small : d[n] < n
    <3> HIDE DEF small
    <3>1. QED
      BY <1>1
  <2>5. QED
    BY <2>1, <2>3, <2>4
<1>3. PICK f \in [Nat -> Seq(Byte)] : Computes(f, Nat, small, first, d, step)
  <2>1. small \subseteq Nat
    OBVIOUS
  <2> HIDE DEF first, d, step, small
  <2>2. QED
    BY <1>2, <2>1, Recursion
<1> DEFINE Body(g) == [k \in Nat |-> IF k \div 128 = 0 THEN <<k + 128>> ELSE <<k % 128>> \o g[k \div 128]]
<1>4. ASSUME NEW n \in Nat
      PROVE  f[n] = IF n \div 128 = 0 THEN <<n + 128>> ELSE <<n % 128>> \o f[n \div 128]
  <2>1. CASE n \in small
    <3>1. f[n] = first[n]
      <4> HIDE DEF first, d, step, small
      <4>1. QED
        BY <1>3, <2>1 DEF Computes
    <3>2. QED
      BY <1>1, <2>1, <3>1
  <2>2. CASE n \notin small
    <3>1. f[n] = step[<<n, f[d[n]]>>]
      <4> HIDE DEF first, d, step, small
      <4>1. QED
        BY <1>3, <2>2 DEF Computes
    <3>2. d[n] = n \div 128
      BY <2>2
    <3>3. f[n \div 128] \in Seq(Byte)
      BY <1>1
    <3>4. step[<<n, f[n \div 128]>>] = <<n % 128>> \o f[n \div 128]
      BY <3>3
    <3> HIDE DEF step, d
    <3>5. QED
      BY <1>1, <2>2, <3>1, <3>2, <3>4
  <2>3. QED
    BY <2>1, <2>2
<1>5. f = Body(f)
  BY <1>4
<1>6. Put = CHOOSE g : g = Body(g)
  BY DEF Put
<1>7. Put = Body(Put)
  <2> HIDE DEF Body
  <2>1. QED
    BY <1>5, <1>6, Zenon
<1>8. \A n \in Nat : Put[n] = IF n \div 128 = 0 THEN <<n + 128>> ELSE <<n % 128>> \o Put[n \div 128]
  BY <1>7
<1> DEFINE S == {n \in Nat : Put[n] \in Seq(Byte)}
<1>9. Nat \subseteq S
  <2>1. ASSUME NEW n \in Nat, \A m \in Nat : m < n => m \in S PROVE n \in S
    <3>1. CASE n \in small
      <4>1. Put[n] = <<n + 128>>
        BY <1>1, <1>8, <3>1
      <4>2. <<n + 128>> \in Seq(Byte)
        BY <3>1 DEF Byte
      <4>3. QED
        BY <4>1, <4>2
    <3>2. CASE n \notin small
      <4>1. Put[n] = <<n % 128>> \o Put[n \div 128]
        BY <1>1, <1>8, <3>2
      <4>2. Put[n \div 128] \in Seq(Byte)
        BY <1>1, <2>1, <3>2
      <4>3. <<n % 128>> \in Seq(Byte)
        BY <1>1
      <4>4. <<n % 128>> \o Put[n \div 128] \in Seq(Byte)
        BY <4>2, <4>3, ConcatProperties
      <4>5. QED
        BY <4>1, <4>4
    <3>3. QED
      BY <3>1, <3>2
  <2> HIDE DEF S
  <2>2. QED
    BY <2>1, Induction
<1>10. Put = [n \in Nat |-> Put[n]]
  BY <1>7
<1>11. Put \in [Nat -> Seq(Byte)]
  BY <1>9, <1>10
<1>12. ASSUME NEW n \in Nat
       PROVE  /\ n < 128 => Put[n] = <<n + 128>>
              /\ n >= 128 => /\ n \div 128 \in Nat /\ n \div 128 < n
                             /\ Put[n] = <<n % 128>> \o Put[n \div 128]
  <2>1. CASE n < 128
    <3>1. n \in small
      BY <2>1
    <3>2. Put[n] = <<n + 128>>
      BY <1>1, <1>8, <3>1
    <3>3. QED
      BY <2>1, <3>2
  <2>2. CASE n >= 128
    <3>1. n \notin small
      BY <2>2
    <3> HIDE DEF small
    <3>2. n \div 128 \in Nat /\ n \div 128 < n /\ n \div 128 # 0
      BY <1>1, <3>1
    <3>3. Put[n] = <<n % 128>> \o Put[n \div 128]
      BY <1>8, <3>2
    <3>4. QED
      BY <2>2, <3>2, <3>3
  <2>3. QED
    BY <2>1, <2>2
<1>13. QED
  BY <1>11, <1>12

(* As many bytes are required as are put out: seven more bits, one more byte.  *)
LEMMA BytesRequiredIs ==
    ASSUME NEW n \in Nat
    PROVE  BytesRequired(n) \in Nat /\ Len(VlBytes(n)) = BytesRequired(n)
<1>1. \A k \in Nat : k # 0 => k \div 2 \in Nat /\ Bits[k] = Bits[k \div 2] + 1
  BY BitsIs
<1>2. Bits[0] = 0
  BY BitsIs
<1>3. ASSUME NEW k \in Nat, k \in 1 .. 127 PROVE Bits[k] \in 1 .. 7
  <2>a. \A m \in Nat : m = 0 => Bits[m] = 0
    BY <1>2
  <2>1. \A m \in Nat : m < 2 => Bits[m] \in 0 .. 1
    BY <1>1, <2>a
  <2>2. \A m \in Nat : m < 4 => Bits[m] \in 0 .. 2
    BY <1>1, <2>a, <2>1
  <2>3. \A m \in Nat : m < 8 => Bits[m] \in 0 .. 3
    BY <1>1, <2>a, <2>2
  <2>4. \A m \in Nat : m < 16 => Bits[m] \in 0 .. 4
    BY <1>1, <2>a, <2>3
  <2>5. \A m \in Nat : m < 32 => Bits[m] \in 0 .. 5
    BY <1>1, <2>a, <2>4
  <2>6. \A m \in Nat : m < 64 => Bits[m] \in 0 .. 6
    BY <1>1, <2>a, <2>5
  <2>7. Bits[k \div 2] \in 0 .. 6
    BY <1>3, <2>6
  <2>8. QED
    BY <1>1, <1>3, <2>7
<1>4. ASSUME NEW k \in Nat, k >= 128 PROVE Bits[k] = Bits[k \div 128] + 7
  <2>1. Bits[k] = Bits[k \div 2] + 1
    BY <1>1, <1>4
  <2>2. k \div 2 \in Nat /\ k \div 2 # 0 /\ (k \div 2) \div 2 = k \div 4
    BY <1>4
  <2>3. k \div 4 \in Nat /\ k \div 4 # 0 /\ (k \div 4) \div 2 = k \div 8
    BY <1>4
  <2>4. k \div 8 \in Nat /\ k \div 8 # 0 /\ (k \div 8) \div 2 = k \div 16
    BY <1>4
  <2>5. k \div 16 \in Nat /\ k \div 16 # 0 /\ (k \div 16) \div 2 = k \div 32
    BY <1>4
  <2>6. k \div 32 \in Nat /\ k \div 32 # 0 /\ (k \div 32) \div 2 = k \div 64
    BY <1>4
  <2>7. k \div 64 \in Nat /\ k \div 64 # 0 /\ (k \div 64) \div 2 = k \div 128
    BY <1>4
  <2>8. /\ Bits[k \div 2] = Bits[k \div 4] + 1 /\ Bits[k \div 4] = Bits[k \div 8] + 1
        /\ Bits[k \div 8] = Bits[k \div 16] + 1 /\ Bits[k \div 16] = Bits[k \div 32] + 1
        /\ Bits[k \div 32] = Bits[k \div 64] + 1 /\ Bits[k \div 64] = Bits[k \div 128] + 1
    BY <1>1, <2>2, <2>3, <2>4, <2>5, <2>6, <2>7
  <2>9. k \div 128 \in Nat
    BY <1>4
  <2>10. Bits[k \div 128] \in Nat
    BY <2>9, BitsIs
  <2> DEFINE b == Bits[k \div 128]
  <2> HIDE DEF b
  <2>11. QED
    BY <2>1, <2>8, <2>10
<1> DEFINE S == {k \in Nat : BytesRequired(k) \in Nat /\ Len(Put[k]) = BytesRequired(k)}
<1>5. ASSUME NEW k \in Nat, \A m \in Nat : m < k => m \in S PROVE k \in S
  <2>1. CASE k < 128
    <3>1. Len(Put[k]) = 1
      <4>1. Put[k] = <<k + 128>>
        BY <2>1, PutIs
      <4>2. QED
        BY <4>1
    <3>2. Bits[k] \in 0 .. 7 /\ (Bits[k] = 0 => k = 0)
      BY <1>2, <1>3, <2>1
    <3>3. BytesRequired(k) = 1
      BY <3>2 DEF BytesRequired
    <3>4. QED
      BY <3>1, <3>3
  <2>2. CASE k >= 128
    <3> DEFINE q == k \div 128
    <3>1. q \in Nat /\ q < k /\ q # 0 /\ Put[k] = <<k % 128>> \o Put[q] /\ Put[q] \in Seq(Byte)
      <4>1. q # 0
        BY <2>2
      <4>2. q \in Nat /\ q < k /\ Put[k] = <<k % 128>> \o Put[q]
        BY <2>2, PutIs
      <4> HIDE DEF q
      <4>3. Put[q] \in Seq(Byte)
        BY <4>2, PutIs
      <4>4. QED
        BY <4>1, <4>2, <4>3
    <3>2. q \in S
      BY <1>5, <3>1
    <3>3. Len(Put[k]) = Len(Put[q]) + 1
      <4>1. k % 128 \in Byte
        BY DEF Byte
      <4>2. <<k % 128>> \in Seq(Byte) /\ Len(<<k % 128>>) = 1
        BY <4>1
      <4> HIDE DEF q
      <4>3. QED
        BY <3>1, <4>2, ConcatProperties
    <3>4. Bits[k] = Bits[q] + 7 /\ Bits[q] \in Nat \ {0}
      BY <1>1, <1>4, <2>2, <3>1, BitsIs
    <3>5. BytesRequired(k) = BytesRequired(q) + 1
      <4> DEFINE b == Bits[q]
      <4>1. b \in Nat \ {0} /\ Bits[k] = b + 7
        BY <3>4
      <4> HIDE DEF b, q
      <4>2. (b + 7) \div 7 = b \div 7 + 1 /\ (b + 7) % 7 = b % 7
        BY <4>1
      <4>3. BytesRequired(k) = b \div 7 + 1 + (IF b % 7 # 0 THEN 1 ELSE 0)
        BY <4>1, <4>2 DEF BytesRequired
      <4>4. BytesRequired(q) = b \div 7 + (IF b % 7 # 0 THEN 1 ELSE 0)
        BY <4>1 DEF BytesRequired, b
      <4>5. b \div 7 \in Nat
        BY <4>1
      <4>6. QED
        BY <4>3, <4>4, <4>5
    <3> HIDE DEF q
    <3>6. QED
      BY <3>2, <3>3, <3>5
  <2>3. QED
    BY <2>1, <2>2
<1>6. Nat \subseteq S
  <2> HIDE DEF S
  <2>1. QED
    BY <1>5, Induction
<1>7. QED
  BY <1>6 DEF VlBytes

-----------------------------------------------------------------------------
(* Sequences of sequences. *)

(* FlattenSeq is a recursive function of the number of sequences taken.        *)
LEMMA FlattenUnfolds ==
    ASSUME NEW S, NEW s \in Seq(Seq(S)), s # << >>
    PROVE  \E f \in [1 .. Len(s) -> Seq(S)] :
              /\ f[1] = s[1]
              /\ \A n \in 2 .. Len(s) : f[n] = f[n - 1] \o s[n]
              /\ FlattenSeq(s) = f[Len(s)]
<1> DEFINE D == 1 .. Len(s)
           first == [n \in {1} |-> s[1]]
           d == [n \in D \ {1} |-> n - 1]
           step == [x \in D \X Seq(S) |-> x[2] \o s[x[1]]]
<1>1. Len(s) \in Nat /\ Len(s) # 0 /\ Len(s) >= 1 /\ \A n \in D : s[n] \in Seq(S)
  BY EmptySeq, LenProperties
<1>2. /\ first \in [{1} -> Seq(S)] /\ d \in [D \ {1} -> D] /\ step \in [D \X Seq(S) -> Seq(S)]
      /\ \A n \in D \ {1} : d[n] < n
  <2>1. first \in [{1} -> Seq(S)] /\ d \in [D \ {1} -> D] /\ \A n \in D \ {1} : d[n] < n
    BY <1>1
  <2>2. ASSUME NEW x \in D \X Seq(S) PROVE x[2] \o s[x[1]] \in Seq(S)
    BY <1>1, ConcatProperties
  <2>3. QED
    BY <2>1, <2>2
<1>3. PICK f \in [D -> Seq(S)] : Computes(f, D, {1}, first, d, step)
  <2>1. D \subseteq Nat /\ {1} \subseteq D
    BY <1>1
  <2> HIDE DEF first, d, step, D
  <2>2. QED
    BY <1>2, <2>1, Recursion
<1> DEFINE Body(g) == [n \in 1 .. Len(s) |-> IF n = 1 THEN s[n] ELSE g[n - 1] \o s[n]]
           flatten == CHOOSE g : g = Body(g)
<1>4. ASSUME NEW n \in D PROVE f[n] = IF n = 1 THEN s[n] ELSE f[n - 1] \o s[n]
  <2>1. f[n] = IF n \in {1} THEN first[n] ELSE step[<<n, f[d[n]]>>]
    <3> HIDE DEF first, d, step, D
    <3>1. QED
      BY <1>3 DEF Computes
  <2>2. CASE n = 1
    BY <2>1, <2>2
  <2>3. CASE n # 1
    <3>1. d[n] = n - 1 /\ n - 1 \in D
      BY <1>1, <2>3
    <3>2. f[n - 1] \in Seq(S)
      BY <3>1
    <3>3. step[<<n, f[n - 1]>>] = f[n - 1] \o s[n]
      BY <3>2
    <3> HIDE DEF step, d, first
    <3>4. QED
      BY <2>1, <2>3, <3>1, <3>3
  <2>4. QED
    BY <2>2, <2>3
<1>5. f = Body(f)
  BY <1>4
<1>6. flatten = Body(flatten)
  <2> HIDE DEF Body
  <2>1. QED
    BY <1>5, Zenon
<1>7. FlattenSeq(s) = flatten[Len(s)]
  BY <1>1 DEF FlattenSeq
<1> HIDE DEF flatten
<1>8. ASSUME NEW n \in D
      PROVE  flatten[n] = IF n = 1 THEN s[n] ELSE flatten[n - 1] \o s[n]
  BY <1>6
<1> DEFINE same == {n \in D : flatten[n] = f[n]}
<1>9. ASSUME NEW n \in D, \A m \in D : m < n => m \in same PROVE n \in same
  <2>1. n # 1 => n - 1 \in D /\ n - 1 < n
    BY <1>1
  <2>2. n # 1 => flatten[n - 1] = f[n - 1]
    BY <1>9, <2>1
  <2>3. QED
    BY <1>4, <1>8, <2>2
<1>10. D \subseteq same
  <2>1. D \subseteq Nat
    OBVIOUS
  <2> HIDE DEF same, D
  <2>2. QED
    BY <1>9, <2>1, Induction
<1>11. FlattenSeq(s) = f[Len(s)]
  BY <1>1, <1>7, <1>10
<1> HIDE DEF first, d, step, Body, same
<1>12. f[1] = s[1]
  <2>1. 1 \in D
    BY <1>1
  <2> HIDE DEF D
  <2>2. QED
    BY <1>4, <2>1
<1>13. ASSUME NEW n \in 2 .. Len(s) PROVE f[n] = f[n - 1] \o s[n]
  <2>1. n \in D /\ n # 1
    BY <1>1, <1>13
  <2> HIDE DEF D
  <2>2. QED
    BY <1>4, <2>1
<1>14. QED
  BY <1>11, <1>12, <1>13

(* A sequence that is appended comes behind the others.                        *)
LEMMA FlattenAppend ==
    ASSUME NEW S, NEW s \in Seq(Seq(S)), NEW e \in Seq(S)
    PROVE  /\ FlattenSeq(s) \in Seq(S)
           /\ FlattenSeq(Append(s, e)) = FlattenSeq(s) \o e
<1> DEFINE t == Append(s, e)
<1>1. /\ t \in Seq(Seq(S)) /\ t # << >> /\ Len(s) \in Nat /\ Len(t) = Len(s) + 1
      /\ t[Len(t)] = e /\ \A n \in 1 .. Len(s) : t[n] = s[n]
  BY AppendProperties, LenProperties, EmptySeq
<1> HIDE DEF t
<1>2. PICK g \in [1 .. Len(t) -> Seq(S)] :
        /\ g[1] = t[1]
        /\ \A n \in 2 .. Len(t) : g[n] = g[n - 1] \o t[n]
        /\ FlattenSeq(t) = g[Len(t)]
  BY <1>1, FlattenUnfolds
<1>3. CASE s = << >>
  <2>1. Len(s) = 0
    BY <1>3
  <2>2. FlattenSeq(s) = << >>
    BY <1>3, <2>1 DEF FlattenSeq
  <2>3. FlattenSeq(t) = e
    BY <1>1, <1>2, <2>1
  <2>4. << >> \o e = e
    BY ConcatEmptySeq
  <2>5. << >> \in Seq(S)
    BY EmptySeq
  <2>6. QED
    BY <2>2, <2>3, <2>4, <2>5 DEF t
<1>4. CASE s # << >>
  <2>1. PICK f \in [1 .. Len(s) -> Seq(S)] :
          /\ f[1] = s[1]
          /\ \A n \in 2 .. Len(s) : f[n] = f[n - 1] \o s[n]
          /\ FlattenSeq(s) = f[Len(s)]
    BY <1>4, FlattenUnfolds
  <2>2. Len(s) >= 1
    BY <1>1, <1>4, EmptySeq
  <2> DEFINE same == {n \in 1 .. Len(s) : f[n] = g[n]}
  <2>3. ASSUME NEW n \in 1 .. Len(s), \A m \in 1 .. Len(s) : m < n => m \in same PROVE n \in same
    <3>1. CASE n = 1
      BY <1>1, <1>2, <2>1, <2>2, <3>1
    <3>2. CASE n # 1
      <4>1. n \in 2 .. Len(s) /\ n \in 2 .. Len(t) /\ n - 1 \in 1 .. Len(s) /\ n - 1 < n
        BY <1>1, <2>3, <3>2
      <4>2. f[n - 1] = g[n - 1]
        BY <2>3, <4>1
      <4>3. f[n] = f[n - 1] \o s[n] /\ g[n] = g[n - 1] \o t[n] /\ t[n] = s[n]
        BY <1>1, <1>2, <2>1, <4>1
      <4>4. QED
        BY <4>2, <4>3
    <3>3. QED
      BY <3>1, <3>2
  <2>4. 1 .. Len(s) \subseteq same
    <3>1. 1 .. Len(s) \subseteq Nat
      OBVIOUS
    <3> HIDE DEF same
    <3>2. QED
      BY <2>3, <3>1, Induction
  <2>5. f[Len(s)] = g[Len(s)] /\ f[Len(s)] \in Seq(S)
    <3>1. Len(s) \in 1 .. Len(s)
      BY <1>1, <2>2
    <3>2. Len(s) \in same
      <4> HIDE DEF same
      <4>1. QED
        BY <2>4, <3>1
    <3>3. QED
      BY <3>1, <3>2
  <2>6. g[Len(t)] = g[Len(s)] \o e
    <3>1. Len(t) \in 2 .. Len(t) /\ Len(t) - 1 = Len(s)
      BY <1>1, <2>2
    <3>2. g[Len(t)] = g[Len(t) - 1] \o t[Len(t)]
      BY <1>2, <3>1
    <3>3. QED
      BY <1>1, <3>1, <3>2
  <2>7. QED
    BY <1>2, <2>1, <2>5, <2>6 DEF t
<1>5. QED
  BY <1>3, <1>4

-----------------------------------------------------------------------------
(* Reading back. *)

(* What a byte makes of the numbers behind it.                                 *)
Joined(byte, rest) ==
    IF byte >= 128 THEN <<byte - 128>> \o rest
    ELSE IF rest = << >> THEN << >>
    ELSE <<byte + 128 * rest[1]>> \o Tail(rest)

LEMMA JoinedType ==
    ASSUME NEW byte \in Byte, NEW rest \in Seq(Nat)
    PROVE  Joined(byte, rest) \in Seq(Nat)
<1>1. byte \in Nat
  BY DEF Byte
<1>2. CASE byte >= 128
  <2>1. <<byte - 128>> \in Seq(Nat)
    BY <1>1, <1>2
  <2>2. QED
    BY <1>2, <2>1, ConcatProperties DEF Joined
<1>3. CASE byte < 128 /\ rest # << >>
  <2>1. Len(rest) \in Nat /\ Len(rest) >= 1 /\ rest[1] \in Nat /\ Tail(rest) \in Seq(Nat)
    BY <1>3, EmptySeq, LenProperties, HeadTailProperties
  <2>2. byte + 128 * rest[1] \in Nat
    BY <1>1, <2>1
  <2>3. <<byte + 128 * rest[1]>> \in Seq(Nat)
    BY <2>2
  <2>4. <<byte + 128 * rest[1]>> \o Tail(rest) \in Seq(Nat)
    BY <2>1, <2>3, ConcatProperties
  <2>5. QED
    BY <1>1, <1>3, <2>4 DEF Joined
<1>4. QED
  BY <1>1, <1>2, <1>3 DEF Joined

LEMMA DecodedUnfolds ==
    ASSUME NEW b \in Seq(Byte)
    PROVE  \E f \in [0 .. Len(b) -> Seq(Nat)] :
              /\ f[0] = << >>
              /\ \A k \in 1 .. Len(b) : f[k] = Joined(b[Len(b) + 1 - k], f[k - 1])
              /\ Decoded(b) = f[Len(b)]
<1> DEFINE D == 0 .. Len(b)
           first == [n \in {0} |-> << >>]
           d == [n \in D \ {0} |-> n - 1]
           step == [x \in D \X Seq(Nat) |->
                       IF x[1] = 0 THEN << >> ELSE Joined(b[Len(b) + 1 - x[1]], x[2])]
<1>1. Len(b) \in Nat /\ \A n \in D : n # 0 => b[Len(b) + 1 - n] \in Byte /\ n - 1 \in D
  <2>1. Len(b) \in Nat
    BY LenProperties
  <2>2. ASSUME NEW n \in D, n # 0 PROVE b[Len(b) + 1 - n] \in Byte /\ n - 1 \in D
    <3>1. Len(b) + 1 - n \in 1 .. Len(b) /\ n - 1 \in D
      BY <2>1, <2>2
    <3> HIDE DEF D
    <3>2. QED
      BY <3>1, LenProperties
  <2>3. QED
    BY <2>1, <2>2
<1>2. /\ first \in [{0} -> Seq(Nat)] /\ d \in [D \ {0} -> D] /\ step \in [D \X Seq(Nat) -> Seq(Nat)]
      /\ \A n \in D \ {0} : d[n] < n
  <2>0. << >> \in Seq(Nat)
    BY EmptySeq
  <2>1. first \in [{0} -> Seq(Nat)] /\ d \in [D \ {0} -> D] /\ \A n \in D \ {0} : d[n] < n
    BY <1>1, <2>0
  <2>2. ASSUME NEW x \in D \X Seq(Nat)
        PROVE (IF x[1] = 0 THEN << >> ELSE Joined(b[Len(b) + 1 - x[1]], x[2])) \in Seq(Nat)
    BY <1>1, <2>0, JoinedType
  <2>3. QED
    BY <2>1, <2>2
<1>3. PICK f \in [D -> Seq(Nat)] : Computes(f, D, {0}, first, d, step)
  <2>1. D \subseteq Nat /\ {0} \subseteq D
    BY <1>1
  <2> HIDE DEF first, d, step, D
  <2>2. QED
    BY <1>2, <2>1, Recursion
<1> DEFINE Body(g) == [k \in 0 .. Len(b) |->
                          IF k = 0 THEN << >> ELSE Joined(b[Len(b) + 1 - k], g[k - 1])]
           last == CHOOSE g : g = Body(g)
<1>4. ASSUME NEW n \in D PROVE f[n] = IF n = 0 THEN << >> ELSE Joined(b[Len(b) + 1 - n], f[n - 1])
  <2>1. f[n] = IF n \in {0} THEN first[n] ELSE step[<<n, f[d[n]]>>]
    <3> HIDE DEF first, d, step, D
    <3>1. QED
      BY <1>3 DEF Computes
  <2>2. CASE n = 0
    BY <2>1, <2>2
  <2>3. CASE n # 0
    <3>1. d[n] = n - 1 /\ n - 1 \in D
      BY <1>1, <2>3
    <3>2. f[n - 1] \in Seq(Nat)
      BY <3>1
    <3>3. step[<<n, f[n - 1]>>] = Joined(b[Len(b) + 1 - n], f[n - 1])
      BY <2>3, <3>2
    <3> HIDE DEF step, d, first
    <3>4. QED
      BY <2>1, <2>3, <3>1, <3>3
  <2>4. QED
    BY <2>2, <2>3
<1>5. f = Body(f)
  BY <1>4
<1>6. last = Body(last)
  <2> HIDE DEF Body
  <2>1. QED
    BY <1>5, Zenon
<1>7. Decoded(b) = last[Len(b)]
  BY DEF Decoded, Joined
<1> HIDE DEF last
<1>8. ASSUME NEW n \in D
      PROVE  last[n] = IF n = 0 THEN << >> ELSE Joined(b[Len(b) + 1 - n], last[n - 1])
  BY <1>6
<1> DEFINE same == {n \in D : last[n] = f[n]}
<1>9. ASSUME NEW n \in D, \A m \in D : m < n => m \in same PROVE n \in same
  <2>1. n # 0 => n - 1 \in D /\ n - 1 < n
    BY <1>1
  <2>2. n # 0 => last[n - 1] = f[n - 1]
    BY <1>9, <2>1
  <2>3. QED
    BY <1>4, <1>8, <2>2
<1>10. D \subseteq same
  <2>1. D \subseteq Nat
    OBVIOUS
  <2> HIDE DEF same, D
  <2>2. QED
    BY <1>9, <2>1, Induction
<1>11. Decoded(b) = f[Len(b)]
  BY <1>1, <1>7, <1>10
<1>12. f[0] = << >>
  BY <1>1, <1>4
<1>13. ASSUME NEW k \in 1 .. Len(b) PROVE f[k] = Joined(b[Len(b) + 1 - k], f[k - 1])
  BY <1>1, <1>4
<1>14. QED
  BY <1>11, <1>12, <1>13

(* A reader takes a byte, and then the rest.                                   *)
LEMMA DecodedBehind ==
    ASSUME NEW byte \in Byte, NEW b \in Seq(Byte)
    PROVE  /\ Decoded(b) \in Seq(Nat)
           /\ Decoded(<<byte>> \o b) = Joined(byte, Decoded(b))
<1> DEFINE c == <<byte>> \o b
<1>1. /\ c \in Seq(Byte) /\ Len(b) \in Nat /\ Len(c) = Len(b) + 1 /\ c[1] = byte
      /\ \A n \in 1 .. Len(b) : c[n + 1] = b[n]
  <2>1. <<byte>> \in Seq(Byte) /\ Len(<<byte>>) = 1 /\ <<byte>>[1] = byte
    OBVIOUS
  <2>2. Len(b) \in Nat
    BY LenProperties
  <2>3. /\ c \in Seq(Byte) /\ Len(c) = 1 + Len(b)
        /\ \A n \in 1 .. 1 + Len(b) : c[n] = IF n <= 1 THEN <<byte>>[n] ELSE b[n - 1]
    BY <2>1, ConcatProperties
  <2> HIDE DEF c
  <2>4. \A n \in 1 .. Len(b) : c[n + 1] = b[n]
    BY <2>2, <2>3
  <2>5. QED
    BY <2>1, <2>2, <2>3, <2>4
<1> HIDE DEF c
<1>2. PICK f \in [0 .. Len(b) -> Seq(Nat)] :
        /\ f[0] = << >>
        /\ \A k \in 1 .. Len(b) : f[k] = Joined(b[Len(b) + 1 - k], f[k - 1])
        /\ Decoded(b) = f[Len(b)]
  BY DecodedUnfolds
<1>3. PICK g \in [0 .. Len(c) -> Seq(Nat)] :
        /\ g[0] = << >>
        /\ \A k \in 1 .. Len(c) : g[k] = Joined(c[Len(c) + 1 - k], g[k - 1])
        /\ Decoded(c) = g[Len(c)]
  BY <1>1, DecodedUnfolds
<1> DEFINE same == {k \in 0 .. Len(b) : f[k] = g[k]}
<1>4. ASSUME NEW k \in 0 .. Len(b), \A m \in 0 .. Len(b) : m < k => m \in same PROVE k \in same
  <2>1. CASE k = 0
    BY <1>1, <1>2, <1>3, <2>1
  <2>2. CASE k # 0
    <3>1. k \in 1 .. Len(b) /\ k \in 1 .. Len(c) /\ k - 1 \in 0 .. Len(b) /\ k - 1 < k
      BY <1>1, <2>2
    <3>2. f[k - 1] = g[k - 1]
      BY <1>4, <3>1
    <3>3. Len(b) + 1 - k \in 1 .. Len(b) /\ Len(c) + 1 - k = (Len(b) + 1 - k) + 1
      BY <1>1, <3>1
    <3>4. c[Len(c) + 1 - k] = b[Len(b) + 1 - k]
      BY <1>1, <3>3
    <3>5. QED
      BY <1>2, <1>3, <3>1, <3>2, <3>4
  <2>3. QED
    BY <2>1, <2>2
<1>5. 0 .. Len(b) \subseteq same
  <2>1. 0 .. Len(b) \subseteq Nat
    OBVIOUS
  <2> HIDE DEF same
  <2>2. QED
    BY <1>4, <2>1, Induction
<1>6. g[Len(b)] = Decoded(b) /\ f[Len(b)] \in Seq(Nat)
  BY <1>1, <1>2, <1>5
<1>7. g[Len(c)] = Joined(c[1], g[Len(b)])
  <2>1. Len(c) \in 1 .. Len(c) /\ Len(c) + 1 - Len(c) = 1 /\ Len(c) - 1 = Len(b)
    BY <1>1
  <2>2. g[Len(c)] = Joined(c[Len(c) + 1 - Len(c)], g[Len(c) - 1])
    BY <1>3, <2>1
  <2>3. QED
    BY <2>1, <2>2
<1>8. QED
  BY <1>1, <1>2, <1>3, <1>6, <1>7 DEF c

(* The first element of a sequence, and the others.                            *)
LEMMA FirstAndRest ==
    ASSUME NEW S, NEW x \in S, NEW r \in Seq(S)
    PROVE  (<<x>> \o r)[1] = x /\ <<x>> \o r # << >> /\ Tail(<<x>> \o r) = r
<1> DEFINE s == <<x>> \o r
<1>1. Len(r) \in Nat /\ <<x>> \in Seq(S) /\ Len(<<x>>) = 1 /\ <<x>>[1] = x
  BY LenProperties
<1>2. /\ s \in Seq(S) /\ Len(s) = 1 + Len(r)
      /\ \A m \in 1 .. 1 + Len(r) : s[m] = IF m <= 1 THEN <<x>>[m] ELSE r[m - 1]
  BY <1>1, ConcatProperties
<1> HIDE DEF s
<1>3. s # << >>
  BY <1>1, <1>2, EmptySeq
<1>4. /\ Tail(s) \in Seq(S) /\ Len(Tail(s)) = Len(r)
      /\ \A m \in 1 .. Len(Tail(s)) : Tail(s)[m] = s[m + 1]
  BY <1>1, <1>2, <1>3, HeadTailProperties
<1>5. \A m \in 1 .. Len(Tail(s)) : Tail(s)[m] = r[m]
  BY <1>1, <1>2, <1>4
<1>6. Tail(s) = r
  BY <1>4, <1>5, SeqEqual
<1>7. s[1] = x
  BY <1>1, <1>2
<1>8. QED
  BY <1>3, <1>6, <1>7 DEF s

(* It does not matter where a sequence is taken apart.                         *)
LEMMA Associative ==
    ASSUME NEW S, NEW s \in Seq(S), NEW t \in Seq(S), NEW u \in Seq(S)
    PROVE  (s \o t) \o u = s \o (t \o u)
<1>1. s \o t \in Seq(S) /\ t \o u \in Seq(S)
  BY ConcatProperties
<1>2. QED
  BY <1>1, ConcatAssociative

LEMMA BytesAssociative == \A s, t, u \in Seq(Byte) : (s \o t) \o u = s \o (t \o u)
  BY Associative

Number == Nat

LEMMA NumberAssociative == \A s, t, u \in Seq(Number) : (s \o t) \o u = s \o (t \o u)
  BY Associative

LEMMA NumbersAssociative ==
    ASSUME NEW s \in Seq(Nat), NEW t \in Seq(Nat), NEW u \in Seq(Nat)
    PROVE  (s \o t) \o u = s \o (t \o u)
  BY NumberAssociative DEF Number

(* A number is read back, whatever follows.                                    *)
LEMMA ReadsBack ==
    ASSUME NEW n \in Nat, NEW b \in Seq(Byte)
    PROVE  Decoded(VlBytes(n) \o b) = <<n>> \o Decoded(b)
<1> DEFINE S == {k \in Nat : \A c \in Seq(Byte) : Decoded(Put[k] \o c) = <<k>> \o Decoded(c)}
<1>1. ASSUME NEW k \in Nat, \A m \in Nat : m < k => m \in S PROVE k \in S
  <2> SUFFICES ASSUME NEW c \in Seq(Byte) PROVE Decoded(Put[k] \o c) = <<k>> \o Decoded(c)
    OBVIOUS
  <2>1. CASE k < 128
    <3>1. Put[k] = <<k + 128>> /\ k + 128 \in Byte
      <4>1. Put[k] = <<k + 128>>
        BY <2>1, PutIs
      <4>2. k + 128 \in Byte
        BY <2>1 DEF Byte
      <4>3. QED
        BY <4>1, <4>2
    <3>2. Decoded(<<k + 128>> \o c) = Joined(k + 128, Decoded(c))
      BY <3>1, DecodedBehind
    <3>3. k + 128 >= 128 /\ (k + 128) - 128 = k
      OBVIOUS
    <3>4. QED
      BY <3>1, <3>2, <3>3 DEF Joined
  <2>2. CASE k >= 128
    <3> DEFINE q == k \div 128
               x == k % 128
    <3>1. q \in Nat /\ q < k /\ Put[k] = <<x>> \o Put[q]
      BY <2>2, PutIs
    <3>2. x \in Byte /\ x < 128 /\ x + 128 * q = k
      BY DEF Byte
    <3> HIDE DEF q, x
    <3>3. Put[q] \in Seq(Byte) /\ <<x>> \in Seq(Byte)
      BY <3>1, <3>2, PutIs
    <3>4. Put[k] \o c = <<x>> \o (Put[q] \o c) /\ Put[q] \o c \in Seq(Byte)
      <4>1. (<<x>> \o Put[q]) \o c = <<x>> \o (Put[q] \o c)
        <5> DEFINE one == <<x>>
                   others == Put[q]
        <5>1. one \in Seq(Byte) /\ others \in Seq(Byte)
          BY <3>3
        <5> HIDE DEF one, others
        <5>2. (one \o others) \o c = one \o (others \o c)
          BY <5>1, BytesAssociative
        <5>3. QED
          BY <5>2 DEF one, others
      <4>2. Put[q] \o c \in Seq(Byte)
        BY <3>3, ConcatProperties
      <4>3. QED
        BY <3>1, <4>1, <4>2
    <3>5. Decoded(Put[q] \o c) = <<q>> \o Decoded(c)
      BY <1>1, <3>1
    <3> DEFINE r == Decoded(c)
    <3>6. Decoded(Put[k] \o c) = Joined(x, <<q>> \o r)
      BY <3>2, <3>4, <3>5, DecodedBehind
    <3>7. r \in Seq(Nat)
      BY DecodedBehind, <3>2
    <3> HIDE DEF r
    <3>8. (<<q>> \o r)[1] = q /\ <<q>> \o r # << >> /\ Tail(<<q>> \o r) = r
      <4> DEFINE N == Nat
      <4>1. q \in N /\ r \in Seq(N)
        BY <3>1, <3>7
      <4> HIDE DEF N
      <4>2. QED
        BY <4>1, FirstAndRest
    <3>9. Joined(x, <<q>> \o r) = <<x + 128 * q>> \o r
      BY <3>2, <3>8 DEF Joined, Byte
    <3>10. QED
      BY <3>2, <3>6, <3>9 DEF r
  <2>3. QED
    BY <2>1, <2>2
<1>2. Nat \subseteq S
  <2> HIDE DEF S
  <2>1. QED
    BY <1>1, Induction
<1>3. QED
  BY <1>2 DEF VlBytes

(* One more number, its bytes behind the others.                               *)
LEMMA AllBytesAppend ==
    ASSUME NEW nums \in Seq(Nat), NEW n \in Nat
    PROVE  /\ AllBytes(nums) \in Seq(Byte)
           /\ AllBytes(Append(nums, n)) = AllBytes(nums) \o VlBytes(n)
<1> DEFINE F(s) == [m \in DOMAIN s |-> VlBytes(s[m])]
           more == Append(nums, n)
<1>1. Len(nums) \in Nat /\ DOMAIN nums = 1 .. Len(nums) /\ \A m \in 1 .. Len(nums) : nums[m] \in Nat
  BY LenProperties
<1>2. /\ more \in Seq(Nat) /\ DOMAIN more = 1 .. Len(nums) + 1
      /\ more[Len(nums) + 1] = n /\ \A m \in 1 .. Len(nums) : more[m] = nums[m]
  <2>1. more \in Seq(Nat) /\ Len(more) = Len(nums) + 1
        /\ more[Len(nums) + 1] = n /\ \A m \in 1 .. Len(nums) : more[m] = nums[m]
    BY AppendProperties
  <2>2. DOMAIN more = 1 .. Len(more)
    BY <2>1, LenProperties
  <2>3. QED
    BY <2>1, <2>2
<1> HIDE DEF more
<1>3. \A m \in Nat : VlBytes(m) \in Seq(Byte)
  BY PutIs DEF VlBytes
<1>4. F(nums) \in Seq(Seq(Byte)) /\ Len(F(nums)) = Len(nums)
  BY <1>1, <1>3
<1>5. F(more) \in Seq(Seq(Byte)) /\ Len(F(more)) = Len(nums) + 1
  <2>1. \A m \in 1 .. Len(nums) + 1 : more[m] \in Nat
    BY <1>1, <1>2
  <2> DEFINE l == Len(nums) + 1
  <2>2. \A m \in 1 .. l : VlBytes(more[m]) \in Seq(Byte)
    BY <1>3, <2>1
  <2>3. F(more) = [m \in 1 .. l |-> VlBytes(more[m])]
    BY <1>2
  <2>4. l \in Nat
    BY <1>1
  <2> HIDE DEF l, F
  <2>5. F(more) \in Seq(Seq(Byte)) /\ Len(F(more)) = l
    BY <2>2, <2>3, <2>4
  <2>6. QED
    BY <2>5 DEF l
<1>6. F(more) = Append(F(nums), VlBytes(n))
  <2> DEFINE G == Append(F(nums), VlBytes(n))
  <2>1. /\ G \in Seq(Seq(Byte)) /\ Len(G) = Len(nums) + 1 /\ G[Len(nums) + 1] = VlBytes(n)
        /\ \A m \in 1 .. Len(nums) : G[m] = F(nums)[m]
    <3>1. VlBytes(n) \in Seq(Byte)
      BY <1>3
    <3> HIDE DEF F
    <3>2. QED
      BY <1>4, <3>1, AppendProperties
  <2> HIDE DEF G
  <2>2. ASSUME NEW m \in 1 .. Len(nums) + 1 PROVE F(more)[m] = G[m]
    <3>1. F(more)[m] = VlBytes(more[m])
      BY <1>2
    <3>2. CASE m = Len(nums) + 1
      BY <1>2, <2>1, <3>1, <3>2
    <3>3. CASE m # Len(nums) + 1
      <4>1. m \in 1 .. Len(nums)
        BY <1>1, <3>3
      <4>2. F(nums)[m] = VlBytes(nums[m])
        BY <1>1, <4>1
      <4> HIDE DEF F
      <4>3. QED
        BY <1>2, <2>1, <3>1, <4>1, <4>2
    <3>4. QED
      BY <3>2, <3>3
  <2> HIDE DEF F
  <2>3. F(more) = G
    BY <1>5, <2>1, <2>2, SeqEqual
  <2>4. QED
    BY <2>3 DEF G
<1>7. VlBytes(n) \in Seq(Byte)
  BY <1>3
<1>8. AllBytes(nums) = FlattenSeq(F(nums)) /\ AllBytes(more) = FlattenSeq(F(more))
  BY DEF AllBytes
<1> HIDE DEF F
<1>9. QED
  BY <1>4, <1>6, <1>7, <1>8, FlattenAppend DEF more

LEMMA AllBytesEmpty == AllBytes(<< >>) = << >>
  BY DEF AllBytes, FlattenSeq

(* The numbers are read back, one after the other.                             *)
THEOREM NumbersReadBack ==
    ASSUME NEW nums \in Seq(Nat)
    PROVE  Decoded(AllBytes(nums)) = nums
<1> DEFINE Right(s) == \A b \in Seq(Byte) : Decoded(AllBytes(s) \o b) = s \o Decoded(b)
           S == {l \in Nat : \A s \in Seq(Nat) : Len(s) = l => Right(s)}
<1>0. \A b \in Seq(Byte) : Decoded(b) \in Seq(Nat)
  <2>1. 0 \in Byte
    BY DEF Byte
  <2>2. QED
    BY <2>1, DecodedBehind
<1>1. ASSUME NEW l \in Nat, \A m \in Nat : m < l => m \in S PROVE l \in S
  <2> SUFFICES ASSUME NEW s \in Seq(Nat), Len(s) = l, NEW b \in Seq(Byte)
               PROVE  Decoded(AllBytes(s) \o b) = s \o Decoded(b)
    OBVIOUS
  <2>1. CASE s = << >>
    <3>1. AllBytes(s) \o b = b /\ s \o Decoded(b) = Decoded(b)
      BY <1>0, <2>1, AllBytesEmpty, ConcatEmptySeq
    <3>2. QED
      BY <3>1
  <2>2. CASE s # << >>
    <3>1. PICK t \in Seq(Nat), n \in Nat : s = Append(t, n)
      BY <2>2, SequenceEmptyOrAppend
    <3>2. Len(t) \in Nat /\ Len(t) < l
      BY <3>1, AppendProperties, LenProperties
    <3>3. Right(t)
      BY <1>1, <3>2
    <3> DEFINE head == AllBytes(t)
               one == VlBytes(n)
    <3>4. head \in Seq(Byte) /\ AllBytes(s) = head \o one /\ one \in Seq(Byte)
      <4>1. one \in Seq(Byte)
        BY PutIs DEF VlBytes
      <4>2. head \in Seq(Byte) /\ AllBytes(s) = head \o one
        BY <3>1, AllBytesAppend
      <4>3. QED
        BY <4>1, <4>2
    <3>5. AllBytes(s) \o b = AllBytes(t) \o (VlBytes(n) \o b) /\ VlBytes(n) \o b \in Seq(Byte)
      <4> HIDE DEF head, one
      <4>1. (head \o one) \o b = head \o (one \o b)
        BY <3>4, BytesAssociative
      <4>2. one \o b \in Seq(Byte)
        BY <3>4, ConcatProperties
      <4>3. QED
        BY <3>4, <4>1, <4>2 DEF head, one
    <3>6. Decoded(AllBytes(s) \o b) = t \o (<<n>> \o Decoded(b))
      BY <3>3, <3>5, ReadsBack
    <3>7. s = t \o <<n>> /\ <<n>> \in Seq(Nat)
      BY <3>1, AppendIsConcat
    <3>8. t \o (<<n>> \o Decoded(b)) = (t \o <<n>>) \o Decoded(b)
      <4>1. Decoded(b) \in Seq(Nat)
        BY <1>0
      <4> DEFINE last == <<n>>
                 others == Decoded(b)
      <4>2. last \in Seq(Nat) /\ others \in Seq(Nat)
        BY <3>7, <4>1
      <4> HIDE DEF last, others
      <4>3. (t \o last) \o others = t \o (last \o others)
        BY <4>2, NumbersAssociative
      <4>4. QED
        BY <4>3 DEF last, others
    <3>9. QED
      BY <3>6, <3>7, <3>8
  <2>3. QED
    BY <2>1, <2>2
<1>2. Nat \subseteq S
  <2> HIDE DEF S
  <2>1. QED
    BY <1>1, Induction
<1>3. Right(nums)
  BY <1>2, LenProperties
<1>4. << >> \in Seq(Byte)
  BY EmptySeq
<1>5. Decoded(<< >>) = << >>
  <2>1. Len(<< >>) = 0
    OBVIOUS
  <2>2. PICK f \in [0 .. Len(<< >>) -> Seq(Nat)] : f[0] = << >> /\ Decoded(<< >>) = f[Len(<< >>)]
    BY <1>4, DecodedUnfolds
  <2>3. QED
    BY <2>1, <2>2
<1>6. AllBytes(nums) \in Seq(Byte)
  <2>1. 0 \in Nat
    OBVIOUS
  <2>2. QED
    BY <2>1, AllBytesAppend
<1>7. AllBytes(nums) \o << >> = AllBytes(nums) /\ nums \o << >> = nums
  BY <1>6, ConcatEmptySeq
<1>8. QED
  BY <1>3, <1>4, <1>5, <1>7

-----------------------------------------------------------------------------
(* The keypoints as numbers. *)

Growing(kps) ==
    \A k \in 2 .. Len(kps) : /\ kps[k].offset >= kps[k - 1].offset
                             /\ kps[k].time >= kps[k - 1].time

(* What a keypoint behind the others is compared with.                         *)
Before(kps) == IF kps = << >> THEN [offset |-> 0, time |-> 0] ELSE kps[Len(kps)]

Pairs(kps) ==
    [k \in DOMAIN kps |->
        IF k = 1 THEN <<kps[1].offset, kps[1].time>>
        ELSE <<kps[k].offset - kps[k - 1].offset, kps[k].time - kps[k - 1].time>>]

LEMMA PairsType ==
    ASSUME NEW kps \in Seq(Keypoint), Growing(kps)
    PROVE  /\ Pairs(kps) \in Seq(Seq(Nat)) /\ Len(Pairs(kps)) = Len(kps)
           /\ Deltas(kps) = FlattenSeq(Pairs(kps)) /\ Deltas(kps) \in Seq(Nat)
<1>1. Len(kps) \in Nat /\ DOMAIN kps = 1 .. Len(kps) /\ \A k \in 1 .. Len(kps) : kps[k] \in Keypoint
  BY LenProperties
<1>2. ASSUME NEW k \in 1 .. Len(kps) PROVE Pairs(kps)[k] \in Seq(Nat)
  <2>1. CASE k = 1
    <3>1. Pairs(kps)[k] = <<kps[1].offset, kps[1].time>>
      BY <1>1, <2>1 DEF Pairs
    <3>2. kps[1].offset \in Nat /\ kps[1].time \in Nat
      BY <1>1, <2>1 DEF Keypoint
    <3>3. QED
      BY <3>1, <3>2
  <2>2. CASE k # 1
    <3>1. Pairs(kps)[k] = <<kps[k].offset - kps[k - 1].offset, kps[k].time - kps[k - 1].time>>
      BY <1>1, <2>2 DEF Pairs
    <3>2. k \in 2 .. Len(kps) /\ k - 1 \in 1 .. Len(kps)
      BY <1>1, <2>2
    <3>3. kps[k] \in Keypoint /\ kps[k - 1] \in Keypoint
      BY <1>1, <3>2
    <3>4. kps[k].offset - kps[k - 1].offset \in Nat /\ kps[k].time - kps[k - 1].time \in Nat
      <4>1. /\ kps[k].offset \in Nat /\ kps[k - 1].offset \in Nat
            /\ kps[k].time \in Nat /\ kps[k - 1].time \in Nat
        BY <3>3 DEF Keypoint
      <4>2. kps[k].offset >= kps[k - 1].offset /\ kps[k].time >= kps[k - 1].time
        BY <3>2 DEF Growing
      <4>3. QED
        <5> DEFINE o == kps[k].offset
                   o0 == kps[k - 1].offset
                   u == kps[k].time
                   u0 == kps[k - 1].time
        <5>1. /\ o \in Nat /\ o0 \in Nat /\ u \in Nat /\ u0 \in Nat
              /\ o >= o0 /\ u >= u0
          BY <4>1, <4>2
        <5> HIDE DEF o, o0, u, u0
        <5>2. o - o0 \in Nat /\ u - u0 \in Nat
          BY <5>1
        <5>3. QED
          BY <5>2 DEF o, o0, u, u0
    <3>5. QED
      BY <3>1, <3>4
  <2>3. QED
    BY <2>1, <2>2
<1>3. Pairs(kps) = [k \in 1 .. Len(kps) |-> Pairs(kps)[k]]
  BY <1>1 DEF Pairs
<1>4. Pairs(kps) \in Seq(Seq(Nat)) /\ Len(Pairs(kps)) = Len(kps)
  BY <1>1, <1>2, <1>3
<1>5. Deltas(kps) = FlattenSeq(Pairs(kps))
  BY DEF Deltas, Pairs
<1>6. << >> \in Seq(Nat)
  BY EmptySeq
<1>7. FlattenSeq(Pairs(kps)) \in Seq(Nat)
  BY <1>4, <1>6, FlattenAppend
<1>8. QED
  BY <1>4, <1>5, <1>7

(* One more keypoint is two more numbers.                                      *)
LEMMA DeltasAppend ==
    ASSUME NEW kps \in Seq(Keypoint), NEW kp \in Keypoint, Growing(Append(kps, kp))
    PROVE  /\ Growing(kps) /\ Deltas(kps) \in Seq(Nat)
           /\ kp.offset - Before(kps).offset \in Nat
           /\ kp.time - Before(kps).time \in Nat
           /\ Deltas(Append(kps, kp)) = Append(Append(Deltas(kps), kp.offset - Before(kps).offset),
                                               kp.time - Before(kps).time)
<1> DEFINE more == Append(kps, kp)
           l == Len(kps)
           o == kp.offset - Before(kps).offset
           t == kp.time - Before(kps).time
<1>1. l \in Nat /\ DOMAIN kps = 1 .. l /\ \A k \in 1 .. l : kps[k] \in Keypoint
  BY LenProperties
<1>2. /\ more \in Seq(Keypoint) /\ Len(more) = l + 1 /\ more[l + 1] = kp
      /\ \A k \in 1 .. l : more[k] = kps[k]
  BY AppendProperties
<1> HIDE DEF more
<1>3. DOMAIN more = 1 .. l + 1
  BY <1>2, LenProperties
<1>4. Growing(more)
  BY DEF more
<1>5. Growing(kps)
  <2> SUFFICES ASSUME NEW k \in 2 .. l
               PROVE  kps[k].offset >= kps[k - 1].offset /\ kps[k].time >= kps[k - 1].time
    BY DEF Growing
  <2>1. k \in 2 .. Len(more) /\ k \in 1 .. l /\ k - 1 \in 1 .. l
    BY <1>1, <1>2
  <2>2. more[k] = kps[k] /\ more[k - 1] = kps[k - 1]
    BY <1>2, <2>1
  <2>3. QED
    BY <1>4, <2>1, <2>2 DEF Growing
<1>6. Pairs(kps) \in Seq(Seq(Nat)) /\ Len(Pairs(kps)) = l
      /\ Deltas(kps) = FlattenSeq(Pairs(kps)) /\ Deltas(kps) \in Seq(Nat)
  BY <1>5, PairsType
<1>7. Pairs(more) \in Seq(Seq(Nat)) /\ Len(Pairs(more)) = l + 1 /\ Deltas(more) = FlattenSeq(Pairs(more))
  BY <1>2, <1>4, PairsType
<1>8. Pairs(more)[l + 1] = <<o, t>>
  <2>1. CASE kps = << >>
    <3>1. l = 0
      BY <2>1
    <3>2. more[1] = kp /\ 1 \in DOMAIN more
      BY <1>2, <1>3, <3>1
    <3>3. Before(kps).offset = 0 /\ Before(kps).time = 0
      BY <2>1 DEF Before
    <3>4. kp.offset \in Nat /\ kp.time \in Nat
      BY DEF Keypoint
    <3>5. o = kp.offset /\ t = kp.time
      BY <3>3, <3>4
    <3>6. Pairs(more)[1] = <<kp.offset, kp.time>>
      BY <3>2 DEF Pairs
    <3>7. QED
      BY <3>1, <3>5, <3>6
  <2>2. CASE kps # << >>
    <3>1. l >= 1
      BY <1>1, <2>2, EmptySeq
    <3>2. l + 1 \in DOMAIN more /\ l + 1 # 1 /\ l + 1 - 1 = l
      BY <1>1, <1>3, <3>1
    <3>3. more[l] = kps[l] /\ Before(kps) = kps[l]
      BY <1>1, <1>2, <2>2, <3>1 DEF Before
    <3>4. Pairs(more)[l + 1] = <<more[l + 1].offset - more[l].offset, more[l + 1].time - more[l].time>>
      BY <3>2 DEF Pairs
    <3>5. QED
      BY <1>2, <3>3, <3>4
  <2>3. QED
    BY <2>1, <2>2
<1>9. ASSUME NEW k \in 1 .. l PROVE Pairs(more)[k] = Pairs(kps)[k]
  <2>1. k \in DOMAIN more /\ k \in DOMAIN kps /\ more[k] = kps[k]
    BY <1>1, <1>2, <1>3
  <2>2. k # 1 => more[k - 1] = kps[k - 1]
    BY <1>1, <1>2
  <2>3. CASE k = 1
    BY <2>1, <2>3 DEF Pairs
  <2>4. CASE k # 1
    BY <2>1, <2>2, <2>4 DEF Pairs
  <2>5. QED
    BY <2>3, <2>4
<1>10. o \in Nat /\ t \in Nat
  <2>1. l + 1 \in 1 .. Len(Pairs(more))
    BY <1>1, <1>7
  <2>2. <<o, t>> \in Seq(Nat)
    BY <1>7, <1>8, <2>1, ElementOfSeq
  <2>3. QED
    BY <2>2
<1> HIDE DEF o, t
<1>11. <<o, t>> \in Seq(Nat)
  BY <1>10
<1>12. Pairs(more) = Append(Pairs(kps), <<o, t>>)
  <2> DEFINE G == Append(Pairs(kps), <<o, t>>)
  <2>1. /\ G \in Seq(Seq(Nat)) /\ Len(G) = l + 1 /\ G[l + 1] = <<o, t>>
        /\ \A k \in 1 .. l : G[k] = Pairs(kps)[k]
    BY <1>6, <1>11, AppendProperties
  <2> HIDE DEF G
  <2>2. ASSUME NEW k \in 1 .. l + 1 PROVE Pairs(more)[k] = G[k]
    <3>1. CASE k = l + 1
      BY <1>8, <2>1, <3>1
    <3>2. CASE k # l + 1
      <4>1. k \in 1 .. l
        BY <1>1, <3>2
      <4>2. QED
        BY <1>9, <2>1, <4>1
    <3>3. QED
      BY <3>1, <3>2
  <2>3. Pairs(more) = G
    BY <1>7, <2>1, <2>2, SeqEqual
  <2>4. QED
    BY <2>3 DEF G
<1>13. Deltas(more) = Deltas(kps) \o <<o, t>>
  BY <1>6, <1>7, <1>11, <1>12, FlattenAppend
<1>14. Deltas(kps) \o <<o, t>> = Append(Append(Deltas(kps), o), t)
  <2> DEFINE s == Deltas(kps)
             a == s \o <<o, t>>
             b == Append(Append(s, o), t)
  <2>1. s \in Seq(Nat) /\ Len(s) \in Nat
    BY <1>6, LenProperties
  <2> HIDE DEF s
  <2>2. a \in Seq(Nat) /\ Len(a) = Len(s) + 2
        /\ \A m \in 1 .. Len(s) + 2 : a[m] = IF m <= Len(s) THEN s[m] ELSE <<o, t>>[m - Len(s)]
    BY <1>11, <2>1, ConcatProperties
  <2>3. /\ Append(s, o) \in Seq(Nat) /\ Len(Append(s, o)) = Len(s) + 1 /\ Append(s, o)[Len(s) + 1] = o
        /\ \A m \in 1 .. Len(s) : Append(s, o)[m] = s[m]
    BY <1>10, <2>1, AppendProperties
  <2>4. /\ b \in Seq(Nat) /\ Len(b) = Len(s) + 2 /\ b[Len(s) + 2] = t
        /\ \A m \in 1 .. Len(s) + 1 : b[m] = Append(s, o)[m]
    <3> DEFINE one == Append(s, o)
    <3>1. one \in Seq(Nat) /\ Len(one) = Len(s) + 1
      BY <2>3
    <3> HIDE DEF one
    <3>2. /\ Append(one, t) \in Seq(Nat) /\ Len(Append(one, t)) = Len(one) + 1
          /\ Append(one, t)[Len(one) + 1] = t
          /\ \A m \in 1 .. Len(one) : Append(one, t)[m] = one[m]
      BY <1>10, <3>1, AppendProperties
    <3>3. Len(one) + 1 = Len(s) + 2
      BY <2>1, <3>1
    <3>4. QED
      BY <3>1, <3>2, <3>3 DEF one
  <2> HIDE DEF a, b
  <2>5. ASSUME NEW m \in 1 .. Len(s) + 2 PROVE a[m] = b[m]
    <3>1. CASE m <= Len(s)
      <4>1. m \in 1 .. Len(s) /\ m \in 1 .. Len(s) + 1
        BY <2>1, <3>1
      <4>2. a[m] = s[m]
        BY <2>2, <3>1
      <4>3. b[m] = Append(s, o)[m] /\ Append(s, o)[m] = s[m]
        BY <2>3, <2>4, <4>1
      <4>4. QED
        BY <4>2, <4>3
    <3>2. CASE m = Len(s) + 1
      <4>0. ~(m <= Len(s)) /\ m - Len(s) = 1
        BY <2>1, <3>2
      <4>1. a[m] = <<o, t>>[1]
        BY <2>2, <4>0
      <4>2. b[m] = o
        BY <2>1, <2>3, <2>4, <3>2
      <4>3. QED
        BY <4>1, <4>2
    <3>3. CASE m = Len(s) + 2
      <4>0. ~(m <= Len(s)) /\ m - Len(s) = 2
        BY <2>1, <3>3
      <4>1. a[m] = <<o, t>>[2]
        BY <2>2, <4>0
      <4>2. QED
        BY <2>4, <3>3, <4>1
    <3>4. QED
      BY <2>1, <3>1, <3>2, <3>3
  <2>6. a = b
    BY <2>2, <2>4, <2>5, SeqEqual
  <2>7. QED
    BY <2>6 DEF a, b, s
<1>15. QED
  BY <1>5, <1>6, <1>10, <1>13, <1>14 DEF o, t, more

(* Two more numbers, and as many bytes more as they require.                   *)
LEMMA BytesAppend ==
    ASSUME NEW nums \in Seq(Nat), NEW o \in Nat, NEW t \in Nat
    PROVE  /\ Len(AllBytes(nums)) \in Nat
           /\ Len(AllBytes(Append(Append(nums, o), t)))
                 = Len(AllBytes(nums)) + BytesRequired(o) + BytesRequired(t)
<1>1. ASSUME NEW s \in Seq(Nat), NEW n \in Nat
      PROVE  /\ Len(AllBytes(s)) \in Nat /\ Append(s, n) \in Seq(Nat)
             /\ Len(AllBytes(Append(s, n))) = Len(AllBytes(s)) + BytesRequired(n)
  <2>1. AllBytes(s) \in Seq(Byte) /\ AllBytes(Append(s, n)) = AllBytes(s) \o VlBytes(n)
    BY AllBytesAppend
  <2>2. VlBytes(n) \in Seq(Byte) /\ Len(VlBytes(n)) = BytesRequired(n)
    BY PutIs, BytesRequiredIs DEF VlBytes
  <2>3. Len(AllBytes(s) \o VlBytes(n)) = Len(AllBytes(s)) + Len(VlBytes(n))
    BY <2>1, <2>2, ConcatProperties
  <2>4. Append(s, n) \in Seq(Nat)
    BY AppendProperties
  <2>5. QED
    BY <2>1, <2>2, <2>3, <2>4, LenProperties
<1>2. BytesRequired(o) \in Nat /\ BytesRequired(t) \in Nat
  BY BytesRequiredIs
<1>3. QED
  BY <1>1, <1>2

-----------------------------------------------------------------------------
(* The size of the index packet. *)

(* What was counted is what is written, and what was kept is smaller than the  *)
(* space reserved for it.                                                      *)
Counted ==
    /\ packet_size \in Nat
    /\ keypoints_cutoff \in 0 .. Len(keypoints)
    /\ BytesCounted
    /\ keypoints_cutoff > 0 => Len(AllBytes(Deltas(Written))) < packet_size

LEMMA NothingWritten == AllBytes(Deltas(<< >>)) = << >> /\ Deltas(<< >>) = << >>
<1>1. Deltas(<< >>) = << >>
  BY DEF Deltas, FlattenSeq
<1>2. QED
  BY <1>1, AllBytesEmpty

LEMMA InitCounted == Init => Counted
<1> SUFFICES ASSUME Init PROVE Counted
  OBVIOUS
<1>1. packet_size \in Nat
  <2>1. (MaxKeypoints * 51) \div 10 \in Nat
    BY MaxKeypointsType
  <2>2. QED
    BY <2>1, IndexAssumption DEF Init
<1>2. keypoints = << >> /\ index_bytes = 0 /\ keypoints_cutoff = 0
  BY DEF Init
<1>3. BytesCounted
  BY <1>2, NothingWritten DEF BytesCounted
<1>4. QED
  BY <1>1, <1>2, <1>3 DEF Counted

(* Keypoints are in order, also those that are written.                        *)
LEMMA KeypointsGrow ==
    ASSUME NEW kps \in Seq(Keypoint),
           \A k \in 2 .. Len(kps) : /\ kps[k].time > kps[k - 1].time + Interval
                                    /\ kps[k].offset > kps[k - 1].offset
    PROVE  /\ Growing(kps)
           /\ \A n \in 0 .. Len(kps) :
                 SubSeq(kps, 1, n) \in Seq(Keypoint) /\ Growing(SubSeq(kps, 1, n))
<1>1. /\ Len(kps) \in Nat /\ Interval \in Nat
      /\ \A k \in 1 .. Len(kps) : kps[k] \in Keypoint
  BY LenProperties, Constants
<1>2. ASSUME NEW k \in 2 .. Len(kps)
      PROVE  /\ kps[k].offset >= kps[k - 1].offset
             /\ kps[k].time >= kps[k - 1].time
  <2>1. k \in 1 .. Len(kps) /\ k - 1 \in 1 .. Len(kps)
    BY <1>1
  <2>2. kps[k] \in Keypoint /\ kps[k - 1] \in Keypoint
    BY <1>1, <2>1
  <2>3. /\ kps[k].offset \in Nat /\ kps[k - 1].offset \in Nat
        /\ kps[k].time \in Nat /\ kps[k - 1].time \in Nat
    BY <2>2 DEF Keypoint
  <2>4. kps[k].time > kps[k - 1].time + Interval /\ kps[k].offset > kps[k - 1].offset
    OBVIOUS
  <2>5. QED
    <3> DEFINE o == kps[k].offset
               o0 == kps[k - 1].offset
               u == kps[k].time
               u0 == kps[k - 1].time
    <3>1. /\ o \in Nat /\ o0 \in Nat /\ u \in Nat /\ u0 \in Nat
          /\ u > u0 + Interval /\ o > o0
      BY <2>3, <2>4
    <3> HIDE DEF o, o0, u, u0
    <3>2. o >= o0 /\ u >= u0
      BY <1>1, <3>1
    <3>3. QED
      BY <3>2 DEF o, o0, u, u0
<1>3. Growing(kps)
  BY <1>2 DEF Growing
<1>4. ASSUME NEW n \in 0 .. Len(kps)
      PROVE  SubSeq(kps, 1, n) \in Seq(Keypoint) /\ Growing(SubSeq(kps, 1, n))
  <2> DEFINE s == SubSeq(kps, 1, n)
  <2>1. n \in Int /\ 1 \in Int /\ \A k \in 1 .. n : kps[k] \in Keypoint
    BY <1>1
  <2>2. /\ s \in Seq(Keypoint) /\ Len(s) = IF 1 <= n THEN n - 1 + 1 ELSE 0
        /\ \A k \in 1 .. n - 1 + 1 : s[k] = kps[1 + k - 1]
    BY <2>1, SubSeqProperties
  <2>3. Len(s) = n /\ \A k \in 1 .. n : s[k] = kps[k]
    BY <2>1, <2>2
  <2> HIDE DEF s
  <2>4. ASSUME NEW k \in 2 .. Len(s) PROVE s[k].offset >= s[k - 1].offset /\ s[k].time >= s[k - 1].time
    <3>1. k \in 1 .. n /\ k - 1 \in 1 .. n /\ k \in 2 .. Len(kps)
      BY <1>1, <2>3
    <3>2. QED
      BY <1>2, <2>3, <3>1
  <2>5. Growing(s)
    BY <2>4 DEF Growing
  <2>6. QED
    BY <2>2, <2>5 DEF s
<1>5. QED
  BY <1>3, <1>4

(* A keypoint that does not fit is counted and not written.                    *)
LEMMA AddCounted == ASSUME IndexInv, IndexInv', Counted, AddKeypoint PROVE Counted'
<1> DEFINE kp == [offset |-> pages[pageno].offset, time |-> packets[i].start_time]
           o == kp.offset - PrevKeypoint.offset
           t == kp.time - PrevKeypoint.time
<1>1. /\ keypoints' = Append(keypoints, kp)
      /\ index_bytes' = index_bytes + BytesRequired(o) + BytesRequired(t)
      /\ keypoints_cutoff' = IF Room(index_bytes') THEN Len(keypoints') ELSE keypoints_cutoff
      /\ packet_size' = packet_size
  <2>1. index_bytes' = index_bytes + BytesRequired(o) + BytesRequired(t)
    BY DEF AddKeypoint
  <2>2. keypoints' = Append(keypoints, kp)
    BY DEF AddKeypoint
  <2>3. keypoints_cutoff' = IF Room(index_bytes') THEN Len(keypoints') ELSE keypoints_cutoff
    BY DEF AddKeypoint
  <2>4. packet_size' = packet_size
    BY DEF AddKeypoint, Considered, encoded
  <2>5. QED
    BY <2>1, <2>2, <2>3, <2>4
<1>2. Typed /\ Spaced'
  BY DEF IndexInv
<1>3. keypoints \in Seq(Keypoint) /\ packets \in Seq(Keyframe) /\ pages \in Seq(Page)
  BY <1>2 DEF Typed
<1>4. PrevKeypoint = Before(keypoints)
  BY DEF PrevKeypoint, Before
<1>5. kp \in Keypoint
  <2>1. i \in 1 .. Len(packets) /\ pageno \in 1 .. Len(pages)
    <3>1. i <= Len(packets) /\ pageno <= Len(pages) /\ i \in Nat \ {0} /\ pageno \in Nat \ {0}
      BY <1>2 DEF AddKeypoint, Considered, Searching, Typed
    <3>2. Len(packets) \in Nat /\ Len(pages) \in Nat
      BY <1>3, LenProperties
    <3>3. QED
      BY <3>1, <3>2
  <2>2. packets[i] \in Keyframe /\ pages[pageno] \in Page
    BY <1>3, <2>1, ElementOfSeq
  <2>3. QED
    BY <2>2 DEF Keyframe, Page, Keypoint
<1> HIDE DEF kp
<1>6. /\ Append(keypoints, kp) \in Seq(Keypoint) /\ Len(Append(keypoints, kp)) = Len(keypoints) + 1
      /\ Len(keypoints) \in Nat
      /\ \A k \in 1 .. Len(keypoints) : Append(keypoints, kp)[k] = keypoints[k]
  BY <1>3, <1>5, AppendProperties, LenProperties
<1>7. Growing(Append(keypoints, kp))
  <2>1. \A k \in 2 .. Len(keypoints') : /\ keypoints'[k].time > keypoints'[k - 1].time + Interval
                                        /\ keypoints'[k].offset > keypoints'[k - 1].offset
    BY <1>2 DEF Spaced
  <2>2. QED
    BY <1>1, <1>6, <2>1, KeypointsGrow
<1>8. /\ Deltas(keypoints) \in Seq(Nat) /\ o \in Nat /\ t \in Nat
      /\ Deltas(keypoints') = Append(Append(Deltas(keypoints), o), t)
  BY <1>1, <1>3, <1>4, <1>5, <1>7, DeltasAppend
<1> HIDE DEF o, t
<1>9. BytesCounted'
  <2>1. index_bytes = Len(AllBytes(Deltas(keypoints)))
    BY DEF Counted, BytesCounted
  <2>2. /\ Len(AllBytes(Deltas(keypoints))) \in Nat
        /\ Len(AllBytes(Deltas(keypoints')))
              = Len(AllBytes(Deltas(keypoints))) + BytesRequired(o) + BytesRequired(t)
    <3> DEFINE nums == Deltas(keypoints)
    <3>1. nums \in Seq(Nat) /\ o \in Nat /\ t \in Nat
      BY <1>8
    <3>2. Deltas(keypoints') = Append(Append(nums, o), t)
      BY <1>8
    <3> HIDE DEF nums
    <3>3. /\ Len(AllBytes(nums)) \in Nat
          /\ Len(AllBytes(Append(Append(nums, o), t)))
                = Len(AllBytes(nums)) + BytesRequired(o) + BytesRequired(t)
      BY <3>1, BytesAppend
    <3>4. QED
      BY <3>2, <3>3 DEF nums
  <2>3. index_bytes' = Len(AllBytes(Deltas(keypoints')))
    BY <1>1, <2>1, <2>2
  <2>4. QED
    BY <2>3 DEF BytesCounted
<1>10. Len(keypoints') = Len(keypoints) + 1 /\ keypoints' \in Seq(Keypoint) /\ keypoints_cutoff \in 0 .. Len(keypoints)
  BY <1>1, <1>6 DEF Counted
<1>11. CASE Room(index_bytes')
  <2>1. keypoints_cutoff' = Len(keypoints')
    BY <1>1, <1>11
  <2>2. Written' = keypoints'
    <3>1. SubSeq(keypoints', 1, Len(keypoints')) = keypoints'
      BY <1>10, SubSeqFull
    <3>2. QED
      BY <2>1, <3>1 DEF Written
  <2>3. Len(AllBytes(Deltas(Written'))) < packet_size'
    <3>1. index_bytes' = Len(AllBytes(Deltas(keypoints')))
      BY <1>9 DEF BytesCounted
    <3>2. index_bytes' < packet_size
      BY <1>11 DEF Room
    <3>3. QED
      BY <1>1, <2>2, <3>1, <3>2
  <2>4. packet_size' \in Nat /\ keypoints_cutoff' \in 0 .. Len(keypoints')
    BY <1>1, <1>6, <1>10, <2>1 DEF Counted
  <2>5. QED
    BY <1>9, <2>3, <2>4 DEF Counted
<1>12. CASE ~Room(index_bytes')
  <2>1. keypoints_cutoff' = keypoints_cutoff
    BY <1>1, <1>12
  <2>2. keypoints_cutoff > 0 => Written' = Written
    <3> SUFFICES ASSUME keypoints_cutoff > 0 PROVE Written' = Written
      OBVIOUS
    <3>1. Append(keypoints, kp) = keypoints \o <<kp>> /\ <<kp>> \in Seq(Keypoint)
      BY <1>3, <1>5, AppendIsConcat
    <3>2. 1 \in 1 .. Len(keypoints) /\ keypoints_cutoff \in 1 .. Len(keypoints)
      BY <1>6, <1>10
    <3>3. SubSeq(keypoints \o <<kp>>, 1, keypoints_cutoff) = SubSeq(keypoints, 1, keypoints_cutoff)
      BY <1>3, <3>1, <3>2, SubSeqOfConcat1
    <3>4. QED
      BY <1>1, <2>1, <3>1, <3>3 DEF Written
  <2>3. packet_size' \in Nat /\ keypoints_cutoff' \in 0 .. Len(keypoints')
    BY <1>1, <1>6, <1>10, <2>1 DEF Counted
  <2>4. keypoints_cutoff' > 0 => Len(AllBytes(Deltas(Written'))) < packet_size'
    <3> SUFFICES ASSUME keypoints_cutoff' > 0 PROVE Len(AllBytes(Deltas(Written'))) < packet_size'
      OBVIOUS
    <3>1. Written' = Written /\ keypoints_cutoff > 0
      BY <2>1, <2>2
    <3>2. Len(AllBytes(Deltas(Written))) < packet_size
      BY <3>1 DEF Counted
    <3>3. QED
      BY <1>1, <3>1, <3>2
  <2>5. QED
    BY <1>9, <2>3, <2>4 DEF Counted
<1>13. QED
  BY <1>11, <1>12

(* No other step adds a keypoint.                                              *)
LEMMA OtherCounted ==
    ASSUME Counted, UNCHANGED <<packet_size, keypoints, index_bytes, keypoints_cutoff>>
    PROVE  Counted'
<1>1. Written' = Written
  BY DEF Written
<1>2. BytesCounted' <=> BytesCounted
  BY DEF BytesCounted
<1>3. QED
  BY <1>1, <1>2 DEF Counted

LEMMA AlwaysCounted == Spec => [](IndexInv /\ Counted)
<1>1. Init => Counted
  BY InitCounted
<1>2. ASSUME IndexInv, IndexInv', Counted, [Next]_vars PROVE Counted'
  <2>1. CASE AddKeypoint
    BY <1>2, <2>1, AddCounted
  <2>2. CASE ~AddKeypoint
    <3>1. UNCHANGED <<packet_size, keypoints, index_bytes, keypoints_cutoff>>
      <4>1. CASE AddVideo \/ AddAudio \/ AddKate
        BY <4>1 DEF AddVideo, AddAudio, AddKate, Packet, search
      <4>2. CASE WritePage
        BY <4>2 DEF WritePage, search
      <4>3. CASE StartIndex \/ WriteIndex \/ Done \/ UNCHANGED vars
        BY <4>3 DEF StartIndex, WriteIndex, Done, vars, encoded, search
      <4>4. CASE NextPage
        BY <4>4 DEF NextPage, encoded
      <4>5. CASE SkipPacket
        BY <4>5 DEF SkipPacket, Considered, encoded
      <4>6. QED
        BY <1>2, <2>2, <4>1, <4>2, <4>3, <4>4, <4>5 DEF Next
    <3>2. QED
      BY <1>2, <3>1, OtherCounted
  <2>3. QED
    BY <2>1, <2>2
<1>3. QED
  BY <1>1, <1>2, Invariant, PTL DEF Spec

(* As many bytes are counted as write_vl_int puts out: its own assertion, and  *)
(* the sum that decides what fits into the reserved space.                     *)
THEOREM BytesAgree == Spec => []BytesCounted
<1>1. Counted => BytesCounted
  BY DEF Counted
<1>2. QED
  BY <1>1, AlwaysCounted, PTL

(* The state has its types; at most as many keypoints are kept as there are.   *)
THEOREM TypesHold == Spec => []TypeOK
<1>1. IndexInv /\ Counted => TypeOK
  <2> SUFFICES ASSUME IndexInv, Counted PROVE TypeOK
    OBVIOUS
  <2>1. Typed
    BY DEF IndexInv
  <2>2. index_bytes \in Nat
    <3>1. keypoints \in Seq(Keypoint) /\ Growing(keypoints)
      BY <2>1, KeypointsGrow DEF IndexInv, Spaced, Typed
    <3>2. Deltas(keypoints) \in Seq(Nat)
      BY <3>1, PairsType
    <3>3. Len(AllBytes(Deltas(keypoints))) \in Nat
      BY <3>2, BytesAppend
    <3>4. QED
      BY <3>3 DEF Counted, BytesCounted
  <2>3. packet_size \in Nat /\ keypoints_cutoff \in 0 .. Len(keypoints)
    BY DEF Counted
  <2>4. QED
    BY <2>1, <2>2, <2>3 DEF Typed, TypeOK, Segment
<1>2. QED
  BY <1>1, AlwaysCounted, PTL

(* The index packet reads back as the keypoints that were kept: the space      *)
(* reserved never cuts a number off.                                           *)
THEOREM IndexReadable == Spec => []Readable
<1>1. IndexInv /\ Counted => Readable
  <2> SUFFICES ASSUME IndexInv, Counted PROVE Decoded(IndexData) = Deltas(Written)
    BY DEF Readable
  <2> DEFINE all == AllBytes(Deltas(Written))
  <2>1. keypoints \in Seq(Keypoint) /\ keypoints_cutoff \in 0 .. Len(keypoints)
    BY DEF IndexInv, Typed, Counted
  <2>2. Written \in Seq(Keypoint) /\ Growing(Written)
    BY <2>1, KeypointsGrow DEF IndexInv, Spaced, Written
  <2>3. Deltas(Written) \in Seq(Nat)
    BY <2>2, PairsType
  <2>4. all \in Seq(Byte) /\ Len(all) \in Nat
    <3>1. 0 \in Nat
      OBVIOUS
    <3>2. all \in Seq(Byte)
      BY <2>3, <3>1, AllBytesAppend
    <3>3. QED
      BY <3>2, LenProperties
  <2>5. Decoded(all) = Deltas(Written)
    BY <2>3, NumbersReadBack
  <2>6. IndexData = all
    <3>1. IndexData = SubSeq(all, 1, IF Len(all) < packet_size THEN Len(all) ELSE packet_size)
      BY DEF IndexData
    <3>2. CASE keypoints_cutoff > 0
      <4>1. Len(all) < packet_size
        BY <3>2 DEF Counted
      <4>2. SubSeq(all, 1, Len(all)) = all
        BY <2>4, SubSeqFull
      <4> HIDE DEF all
      <4>3. QED
        BY <3>1, <4>1, <4>2
    <3>3. CASE keypoints_cutoff = 0
      <4>1. Written = << >>
        BY <2>1, <3>3, SubSeqEmpty DEF Written
      <4>2. all = << >> /\ Len(all) = 0
        BY <4>1, NothingWritten
      <4>3. packet_size \in Nat
        BY DEF Counted
      <4>4. IndexData = SubSeq(all, 1, 0)
        <5> HIDE DEF all
        <5>1. CASE 0 < packet_size
          BY <3>1, <4>2, <5>1
        <5>2. CASE packet_size = 0
          BY <3>1, <4>2, <5>2
        <5>3. QED
          BY <4>3, <5>1, <5>2
      <4>5. SubSeq(all, 1, 0) = << >>
        BY SubSeqEmpty
      <4>6. QED
        BY <4>2, <4>4, <4>5
    <3>4. QED
      BY <2>1, <3>2, <3>3
  <2>7. QED
    BY <2>5, <2>6
<1>2. QED
  BY <1>1, AlwaysCounted, PTL
=============================================================================
