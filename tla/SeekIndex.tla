----------------------------- MODULE SeekIndex -----------------------------
(***************************************************************************)
(* The keyframe index of one logical stream (src/src/index.c and           *)
(* write_index_pages in src/src/theorautils.c). While the stream is        *)
(* encoded, seek_index_record_sample notes its keyframe packets and        *)
(* seek_index_record_page the offset of every page with the number of      *)
(* packets that start on it. At the end write_index_pages walks both lists *)
(* to find the page each keyframe starts on, picks the keypoints, and      *)
(* writes as many as fit into the space reserved in the file's header.     *)
(*                                                                         *)
(* A recorded page does not say which packets it holds: their numbers are  *)
(* recovered by counting. The history variable `starts` keeps the truth.   *)
(* libogg cuts packets into segments and pages at any segment (external).  *)
(***************************************************************************)
EXTENDS VlInt

CONSTANTS
    Kinds,          \* subset of {"theora", "vorbis", "kate"}
    Reserves,       \* --X-index-reserve values the user may give
    Interval,       \* index_interval, in ms
    Duration,       \* duration of the media, in ms
    ContentOffset,  \* file position of the first content page
    Steps,          \* possible distances in time between packets, in ms
    PageSteps,      \* possible distances in bytes to the stream's next page
    MaxPackets,     \* bound: packets of the stream
    MaxFragments    \* bound: segments of a packet

INT_MAX == 2147483647

ASSUME IndexAssumption ==
    /\ Kinds \subseteq {"theora", "vorbis", "kate"}
    /\ Reserves \subseteq Nat
    /\ Interval \in Nat /\ Duration \in Nat
    /\ Interval < INT_MAX
    /\ ContentOffset \in Nat
    /\ Steps \subseteq Nat
    /\ PageSteps \subseteq Nat \ {0}
    /\ MaxPackets \in Nat /\ MaxFragments \in Nat

VARIABLES
    kind,           \* codec of the stream
    packet_size,    \* bytes reserved for the keypoints
    pc,             \* "encode", "search" or "done"
    clock,          \* end time of the last packet; Kate: its show time
    last_end_time,  \* of a Kate stream, -1 before the first packet
    packetno,       \* libogg's number of the next packet
    queue,          \* segments that are on no written page yet
    filepos,        \* offset of the next page of the stream
    packets,        \* index->packets
    range,          \* index->start_time and end_time, << >> before a sample
    pages,          \* index->pages
    starts,         \* history: for every page the packets that start on it
    i, pageno, last_packetno, packet_in_page,
    prev_keyframe_pageno, prev_keyframe_start_time,
    keypoints, index_bytes, keypoints_cutoff

encoded == <<kind, packet_size, clock, last_end_time, packetno, queue, filepos,
             packets, range, pages, starts>>
search == <<i, pageno, last_packetno, packet_in_page, prev_keyframe_pageno,
            prev_keyframe_start_time, keypoints, index_bytes, keypoints_cutoff>>
vars == <<encoded, pc, search>>

-----------------------------------------------------------------------------
(* Three Theora or Vorbis headers; a Kate stream has the number libkate gives  *)
(* it (nine), and its packets are numbered after them alike.                   *)
NumHeaders == IF kind = "kate" THEN 9 ELSE 3

(* Vorbis: the time of a page is that of the second packet that starts on it.  *)
TargetPacket == IF kind = "vorbis" THEN 2 ELSE 1

(* Mutant: no spare keypoints, and rounded down.                               *)
KeypointsPerIndexTight(duration) ==
    IF Interval = 0 THEN 0 ELSE duration \div Interval

(* keypoints_per_index: ceil(duration / interval) + 2.                         *)
KeypointsPerIndex(duration) ==
    IF Interval = 0 THEN 0 ELSE (duration + Interval - 1) \div Interval + 2

MaxKeypoints == KeypointsPerIndex(Duration)

(* Mutant: the header packets are not counted.                                 *)
FirstPacketnoZero == 0

(* "Take into account header packets..."                                       *)
FirstPacketno == NumHeaders - 1

Init ==
    /\ kind \in Kinds
    /\ \E r \in Reserves \cup {-1} :
          packet_size = IF r = -1 THEN (MaxKeypoints * 51) \div 10 ELSE r
    /\ pc = "encode"
    /\ clock = 0 /\ last_end_time = -1
    /\ packetno = NumHeaders
    /\ queue = << >> /\ filepos = ContentOffset
    /\ packets = << >> /\ range = << >>
    /\ pages = << >> /\ starts = << >>
    /\ i = 1 /\ pageno = 1 /\ last_packetno = FirstPacketno
    /\ packet_in_page = 0 /\ prev_keyframe_pageno = -INT_MAX
    /\ prev_keyframe_start_time = -INT_MAX
    /\ keypoints = << >> /\ index_bytes = 0 /\ keypoints_cutoff = 0

-----------------------------------------------------------------------------
(* Encoding. *)

(* Mutant: the end of the range is that of the last sample.                    *)
WidenedToLast(start, end) ==
    [start_time |-> IF range = << >> \/ start < range.start_time THEN start
                    ELSE range.start_time,
     end_time |-> end]

(* seek_index_record_sample keeps the extremes of the indexed range.           *)
Widened(start, end) ==
    [start_time |-> IF range = << >> \/ start < range.start_time THEN start
                    ELSE range.start_time,
     end_time |-> IF range = << >> \/ end > range.end_time THEN end
                  ELSE range.end_time]

(* seek_index_record_sample, then ogg_stream_packetin in n segments.           *)
Packet(start, end, key) ==
    /\ pc = "encode"
    /\ packetno < NumHeaders + MaxPackets
    /\ range' = Widened(start, end)
    /\ packets' = IF key THEN Append(packets, [packetno |-> packetno, start_time |-> start])
                  ELSE packets
    /\ \E n \in 1 .. MaxFragments :
          queue' = queue \o [f \in 1 .. n |-> [no |-> packetno, first |-> f = 1, last |-> f = n]]
    /\ packetno' = packetno + 1
    /\ UNCHANGED <<kind, packet_size, filepos, pages, starts, pc, search>>

(* oggmux_add_video: the first frame is a keyframe, any other may be.          *)
AddVideo ==
    /\ kind = "theora"
    /\ \E d \in Steps, key \in BOOLEAN :
          /\ packetno = NumHeaders => key
          /\ Packet(clock, clock + d, key)
          /\ clock' = clock + d
    /\ UNCHANGED last_end_time

(* oggmux_add_audio: every packet is indexed. The first one has no samples of  *)
(* its own, and a start before the previous granulepos is moved up to it.      *)
AddAudio ==
    /\ kind = "vorbis"
    /\ \E d \in Steps \cup {0} :
          /\ packetno = NumHeaders => d = 0
          /\ Packet(clock, clock + d, TRUE)
          /\ clock' = clock + d
    /\ UNCHANGED last_end_time

(* Mutant: the first subtitle has no predecessor.                              *)
KateStartUnchecked(t0) == last_end_time

(* The start that is recorded: the end of the subtitle before, if any.         *)
KateStart(t0) == IF last_end_time >= 0 THEN last_end_time ELSE t0

(* oggmux_add_kate_text, _image and oggmux_record_kate_index: subtitles come   *)
(* in the order of their show times, but one may end before an earlier one     *)
(* does.                                                                       *)
AddKate ==
    /\ kind = "kate"
    /\ \E gap \in Steps \cup {0}, d \in Steps :
          LET t0 == clock + gap
          IN  /\ Packet(KateStart(t0), t0 + d, TRUE)
              /\ clock' = t0
              /\ last_end_time' = t0 + d

(* Mutant: packets that end on the page are counted, as ogg_page_packets does. *)
StartPacketsEnding(page) == Cardinality({f \in DOMAIN page : page[f].last})

(* ogg_page_start_packets                                                      *)
StartPackets(page) == Cardinality({f \in DOMAIN page : page[f].first})

(* write_X_page: a page with the first n segments goes to the file and is      *)
(* recorded (seek_index_record_page).                                          *)
WritePage ==
    /\ pc = "encode"
    /\ \E n \in 1 .. Len(queue), size \in PageSteps :
          LET page == SubSeq(queue, 1, n)
          IN  /\ pages' = Append(pages, [offset |-> filepos,
                                         packet_start_num |-> StartPackets(page)])
              /\ starts' = Append(starts, {page[f].no : f \in {g \in 1 .. n : page[g].first}})
              /\ queue' = SubSeq(queue, n + 1, Len(queue))
              /\ filepos' = filepos + size
    /\ UNCHANGED <<kind, packet_size, clock, last_end_time, packetno, packets, range, pc, search>>

-----------------------------------------------------------------------------
(* write_index_pages *)

(* The whole stream was flushed. "Must have indexed keypoints to go on".       *)
StartIndex ==
    /\ pc = "encode"
    /\ queue = << >>
    /\ pc' = IF MaxKeypoints = 0 \/ packets = << >> THEN "done" ELSE "search"
    /\ UNCHANGED <<encoded, search>>

Searching == pc = "search" /\ i <= Len(packets) /\ Len(keypoints) < MaxKeypoints

(* The keyframe packet does not start on this page, nor on an earlier one.     *)
Beyond ==
    /\ pageno <= Len(pages)
    /\ last_packetno + pages[pageno].packet_start_num < packets[i].packetno

NextPage ==
    /\ Searching
    /\ Beyond
    /\ last_packetno' = last_packetno + pages[pageno].packet_start_num
    /\ pageno' = pageno + 1
    /\ UNCHANGED <<encoded, pc, i, packet_in_page, prev_keyframe_pageno,
                   prev_keyframe_start_time, keypoints, index_bytes, keypoints_cutoff>>

(* Number of the keyframe among the indexed ones that start on its page.       *)
InPage == IF prev_keyframe_pageno # pageno THEN 1 ELSE packet_in_page + 1

(* Mutant: the interval is not looked at.                                      *)
TooCloseNever(time) == FALSE

(* "the keyframe occurs too close to the previously indexed one"               *)
TooClose(time) == time <= prev_keyframe_start_time + Interval

(* Both ways an iteration of the loop ends.                                    *)
Considered ==
    /\ Searching /\ ~Beyond /\ pageno <= Len(pages)
    /\ i' = i + 1
    /\ packet_in_page' = InPage
    /\ prev_keyframe_pageno' = pageno
    /\ UNCHANGED <<encoded, pc, pageno, last_packetno>>

(* Mutant: what was skipped counts as the previously indexed one.              *)
SkipRemembered(time) == time

(* A skipped keyframe leaves the previous keypoint's time alone.               *)
Skip(time) == prev_keyframe_start_time

SkipPacket ==
    /\ Considered
    /\ InPage # TargetPacket \/ TooClose(packets[i].start_time)
    /\ prev_keyframe_start_time' = Skip(packets[i].start_time)
    /\ UNCHANGED <<keypoints, index_bytes, keypoints_cutoff>>

PrevKeypoint == IF keypoints = << >> THEN [offset |-> 0, time |-> 0]
                ELSE keypoints[Len(keypoints)]

(* Mutant: every keypoint is kept.                                             *)
RoomForAll(bytes) == TRUE

(* "if (index_bytes < index->packet_size)": this keypoint is written.          *)
Room(bytes) == bytes < packet_size

AddKeypoint ==
    /\ Considered
    /\ InPage = TargetPacket /\ ~TooClose(packets[i].start_time)
    /\ LET kp == [offset |-> pages[pageno].offset, time |-> packets[i].start_time]
       IN  /\ keypoints' = Append(keypoints, kp)
           /\ index_bytes' = index_bytes + BytesRequired(kp.offset - PrevKeypoint.offset)
                                         + BytesRequired(kp.time - PrevKeypoint.time)
           /\ prev_keyframe_start_time' = kp.time
    /\ keypoints_cutoff' = IF Room(index_bytes') THEN Len(keypoints') ELSE keypoints_cutoff

(* The loop ends and the index packet replaces the placeholder.                *)
WriteIndex ==
    /\ pc = "search"
    /\ ~Searching
    /\ pc' = "done"
    /\ UNCHANGED <<encoded, search>>

Done == pc = "done" /\ UNCHANGED vars

Next ==
    \/ AddVideo \/ AddAudio \/ AddKate
    \/ WritePage
    \/ StartIndex \/ NextPage \/ SkipPacket \/ AddKeypoint \/ WriteIndex
    \/ Done

Spec == Init /\ [][Next]_vars

Written == SubSeq(keypoints, 1, keypoints_cutoff)

(* The differences of offset and time that are written for each keypoint.      *)
Deltas(kps) ==
    FlattenSeq([k \in DOMAIN kps |->
        IF k = 1 THEN <<kps[1].offset, kps[1].time>>
        ELSE <<kps[k].offset - kps[k - 1].offset, kps[k].time - kps[k - 1].time>>])

(* write_vl_int for one number after the other.                                *)
AllBytes(nums) == FlattenSeq([m \in DOMAIN nums |-> VlBytes(nums[m])])

(* The keypoint data of the index packet: write_vl_int stops at the limit.     *)
IndexData ==
    LET all == AllBytes(Deltas(Written))
    IN  SubSeq(all, 1, IF Len(all) < packet_size THEN Len(all) ELSE packet_size)

-----------------------------------------------------------------------------
Keyframe == [packetno : Nat, start_time : Nat]
Page == [offset : Nat, packet_start_num : Nat]
Keypoint == [offset : Nat, time : Nat]

TypeOK ==
    /\ kind \in Kinds
    /\ packet_size \in Nat
    /\ pc \in {"encode", "search", "done"}
    /\ clock \in Nat /\ last_end_time \in Nat \cup {-1}
    /\ packetno \in Nat /\ filepos \in Nat
    /\ queue \in Seq([no : Nat, first : BOOLEAN, last : BOOLEAN])
    /\ packets \in Seq(Keyframe)
    /\ range = << >> \/ range \in [start_time : Nat, end_time : Nat]
    /\ pages \in Seq(Page)
    /\ starts \in Seq(SUBSET Nat)
    /\ i \in Nat \ {0} /\ pageno \in Nat \ {0}
    /\ last_packetno \in Nat /\ packet_in_page \in Nat
    /\ prev_keyframe_pageno \in Nat \cup {-INT_MAX}
    /\ prev_keyframe_start_time \in Nat \cup {-INT_MAX}
    /\ keypoints \in Seq(Keypoint)
    /\ index_bytes \in Nat
    /\ keypoints_cutoff \in 0 .. Len(keypoints)

(* assert(pageno < index->pages_num), theorautils.c:569: the count of packet   *)
(* starts over the recorded pages reaches every recorded keyframe.             *)
PageExists == Searching /\ ~Beyond => pageno <= Len(pages)

(* A keypoint is exact: it has the time of a keyframe, the offset of the page  *)
(* on which that keyframe's packet really starts, and is the target packet     *)
(* among the keyframes that start there (first; second for Vorbis).            *)
KeypointsExact ==
    \A k \in DOMAIN keypoints : \E m \in DOMAIN packets, p \in DOMAIN pages :
        /\ packets[m].start_time = keypoints[k].time
        /\ pages[p].offset = keypoints[k].offset
        /\ packets[m].packetno \in starts[p]
        /\ Cardinality({j \in 1 .. m : packets[j].packetno \in starts[p]}) = TargetPacket

(* "Minimum time allowed between packets" (index.h:63): keypoints are more     *)
(* than the interval apart, and offsets and times grow, which bytes_required   *)
(* and write_vl_int assert of their differences.                               *)
Spaced ==
    \A k \in 2 .. Len(keypoints) :
        /\ keypoints[k].time > keypoints[k - 1].time + Interval
        /\ keypoints[k].offset > keypoints[k - 1].offset

(* Seeking finds a near keypoint: the target packet of a page is a keypoint or *)
(* starts at most the interval after one, as far as the loop got. Of a Kate    *)
(* stream, whose recorded times can go back, that is said of the packets that  *)
(* no earlier one starts after: another may lie before every keypoint near it. *)
Covers ==
    \A m \in 1 .. i - 1, p \in DOMAIN pages :
        (/\ packets[m].packetno \in starts[p]
         /\ Cardinality({j \in 1 .. m : packets[j].packetno \in starts[p]}) = TargetPacket
         /\ kind = "kate" => \A j \in 1 .. m : packets[j].start_time <= packets[m].start_time)
        => \E k \in DOMAIN keypoints :
              /\ keypoints[k].time <= packets[m].start_time
              /\ packets[m].start_time <= keypoints[k].time + Interval

(* The keypoints set aside for a media of this duration are enough: the loop   *)
(* never stops because they are used up while the media lasts.                 *)
EnoughKeypoints ==
    (pc = "done" /\ Interval > 0 /\ \A m \in DOMAIN packets : packets[m].start_time <= Duration)
        => i > Len(packets)

(* The index packet reads back as exactly the keypoints that were kept: none   *)
(* of the numbers was cut off at the end of the reserved space.                *)
Readable == pc = "done" => Decoded(IndexData) = Deltas(Written)

(* assert(x + bytes_required(n) == p), theorautils.c:500, and the sum of it    *)
(* that decides what fits: as many bytes are counted as are written.           *)
BytesCounted == index_bytes = Len(AllBytes(Deltas(keypoints)))

(* The time range written into the index packet holds every keypoint, also     *)
(* those of overlapping subtitles, whose recorded times go back and forth.     *)
RangeHolds ==
    \A k \in DOMAIN keypoints :
        range.start_time <= keypoints[k].time /\ keypoints[k].time <= range.end_time

(* "Rerun with --X-index-reserve N to ensure a complete index" (theorautils.c: *)
(* 606-609), N being index_bytes: with that much reserved nothing is dropped.  *)
ReserveSuffices ==
    (pc = "done" /\ index_bytes <= packet_size) => keypoints_cutoff = Len(keypoints)
=============================================================================
