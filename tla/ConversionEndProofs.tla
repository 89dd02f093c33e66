------------------------ MODULE ConversionEndProofs ------------------------
(***************************************************************************)
(* Proofs about what the conversion loop (ff2theora_output in              *)
(* src/src/ffmpeg2theora.c) gives the encoders in the end: every frame     *)
(* that was kept, in order, a flagged packet for every stream, and in the  *)
(* second pass what it gave in the first.                                  *)
(***************************************************************************)
EXTENDS ConversionLoopProofs

-----------------------------------------------------------------------------
(* Frames are numbered in the order of decoding. Those that were kept come     *)
(* before those the decoder still holds, the last of them is in the buffer.    *)

(* The frames of q follow each other in the order of decoding, after lo.       *)
Rising(q, lo, hi) ==
    /\ \A i \in 1 .. Len(q) : lo < q[i] /\ q[i] <= hi
    /\ \A i, j \in 1 .. Len(q) : i < j => q[i] < q[j]

FrameOrder ==
    /\ Rising(accepted, 0, buffered.frame)
    /\ Rising(decoder, buffered.frame, decoded.video)
    /\ buffered.frame <= decoded.video
    /\ IF accepted = << >> THEN buffered.frame = 0
       ELSE buffered.frame = accepted[Len(accepted)]
    /\ job.delay = 0 => decoder = << >>

(* A frame that is added at the end is later than all others.                  *)
LEMMA RisingAppend ==
    ASSUME NEW q \in Seq(Nat \ {0}), NEW lo \in Nat, NEW hi \in Nat, NEW x \in Nat \ {0},
           Rising(q, lo, hi), lo <= hi, hi < x
    PROVE  Rising(Append(q, x), lo, x)
<1>1. /\ Len(Append(q, x)) = Len(q) + 1 /\ Len(q) \in Nat
      /\ \A i \in 1 .. Len(q) : Append(q, x)[i] = q[i]
      /\ Append(q, x)[Len(q) + 1] = x
  BY AppendProperties, LenProperties
<1>2. \A i \in 1 .. Len(q) : q[i] \in Nat /\ lo < q[i] /\ q[i] <= hi
  BY ElementOfSeq DEF Rising
<1>3. ASSUME NEW i \in 1 .. Len(q) + 1
      PROVE  lo < Append(q, x)[i] /\ Append(q, x)[i] <= x
  <2>1. i \in 1 .. Len(q) \/ i = Len(q) + 1
    BY <1>1
  <2>2. QED
    BY <1>1, <1>2, <2>1
<1>4. ASSUME NEW i \in 1 .. Len(q) + 1, NEW j \in 1 .. Len(q) + 1, i < j
      PROVE  Append(q, x)[i] < Append(q, x)[j]
  <2>1. i \in 1 .. Len(q) /\ (j \in 1 .. Len(q) \/ j = Len(q) + 1)
    BY <1>1, <1>4
  <2>2. QED
    BY <1>1, <1>2, <1>4, <2>1 DEF Rising
<1>5. QED
  BY <1>1, <1>3, <1>4 DEF Rising

(* The first frame of a queue is earlier than the rest of it.                  *)
LEMMA RisingTail ==
    ASSUME NEW q \in Seq(Nat \ {0}), NEW lo \in Nat, NEW hi \in Nat,
           Rising(q, lo, hi), q # << >>
    PROVE  /\ Head(q) \in Nat \ {0} /\ lo < Head(q) /\ Head(q) <= hi
           /\ Rising(Tail(q), Head(q), hi)
           /\ Rising(Tail(q), lo, hi)
<1>1. Len(q) \in Nat /\ Len(q) >= 1 /\ Head(q) = q[1]
  BY EmptySeq, LenProperties
<1>2. /\ Len(Tail(q)) = Len(q) - 1
      /\ \A i \in 1 .. Len(q) - 1 : Tail(q)[i] = q[i + 1]
  BY <1>1, HeadTailProperties
<1>3. \A i \in 1 .. Len(q) : q[i] \in Nat \ {0} /\ lo < q[i] /\ q[i] <= hi
  BY ElementOfSeq DEF Rising
<1>4. ASSUME NEW i \in 1 .. Len(q) - 1
      PROVE  /\ Tail(q)[i] = q[i + 1] /\ q[1] < q[i + 1] /\ lo < q[i + 1] /\ q[i + 1] <= hi
  <2>1. i + 1 \in 1 .. Len(q) /\ 1 \in 1 .. Len(q) /\ 1 < i + 1
    BY <1>1
  <2>2. QED
    BY <1>2, <1>3, <2>1 DEF Rising
<1>5. ASSUME NEW i \in 1 .. Len(q) - 1, NEW j \in 1 .. Len(q) - 1, i < j
      PROVE  Tail(q)[i] < Tail(q)[j]
  <2>1. i + 1 \in 1 .. Len(q) /\ j + 1 \in 1 .. Len(q) /\ i + 1 < j + 1
    BY <1>1, <1>5
  <2>2. QED
    BY <1>2, <2>1 DEF Rising
<1>6. QED
  BY <1>1, <1>2, <1>3, <1>4, <1>5 DEF Rising

(* A queue that ends earlier or starts later is still in order.                *)
LEMMA RisingWider ==
    ASSUME NEW q \in Seq(Nat \ {0}), NEW lo \in Nat, NEW hi \in Nat,
           NEW lo2 \in Nat, NEW hi2 \in Nat, lo2 <= lo, hi <= hi2, Rising(q, lo, hi)
    PROVE  Rising(q, lo2, hi2)
<1>1. \A i \in 1 .. Len(q) : q[i] \in Nat
  BY ElementOfSeq
<1>2. QED
  BY <1>1 DEF Rising

(* What the decoder is left with after a packet, and the frame it returns: a   *)
(* frame later than those returned before and earlier than those still held.   *)
Decoded(d) ==
    /\ decoded.video <= d.count
    /\ Rising(d.queue, buffered.frame, d.count)
    /\ d.frame # 0 => /\ buffered.frame < d.frame /\ d.frame <= d.count
                      /\ Rising(d.queue, d.frame, d.count)
    /\ job.delay = 0 => d.queue = << >>

(* A new frame at the end of the queue, and the first one when it is full.     *)
LEMMA NewFrame ==
    ASSUME TypeOK, FrameOrder,
           NEW q, q = Append(decoder, decoded.video + 1)
    PROVE  /\ q \in Seq(Nat \ {0}) /\ q # << >>
           /\ Rising(q, buffered.frame, decoded.video + 1)
           /\ Head(q) \in Nat \ {0} /\ buffered.frame < Head(q) /\ Head(q) <= decoded.video + 1
           /\ Rising(Tail(q), Head(q), decoded.video + 1)
           /\ Rising(Tail(q), buffered.frame, decoded.video + 1)
           /\ job.delay = 0 => Len(q) > job.delay /\ Tail(q) = << >>
<1>1. /\ decoder \in Seq(Nat \ {0}) /\ decoded.video \in Nat /\ buffered.frame \in Nat
      /\ job.delay \in Nat
  BY DEF TypeOK, Job
<1>2. q \in Seq(Nat \ {0}) /\ q # << >> /\ Len(q) = Len(decoder) + 1 /\ Len(decoder) \in Nat
  BY <1>1, AppendProperties, LenProperties
<1>3. Rising(q, buffered.frame, decoded.video + 1)
  BY <1>1, RisingAppend DEF FrameOrder
<1>4. job.delay = 0 => Tail(q) = << >>
  <2>1. job.delay = 0 => Len(q) = 1
    BY <1>2, EmptySeq DEF FrameOrder
  <2>2. Len(q) = 1 => Len(Tail(q)) = 0 /\ Tail(q) \in Seq(Nat \ {0})
    BY <1>2, HeadTailProperties
  <2>3. QED
    BY <2>1, <2>2, EmptySeq
<1>5. /\ Head(q) \in Nat \ {0} /\ buffered.frame < Head(q) /\ Head(q) <= decoded.video + 1
      /\ Rising(Tail(q), Head(q), decoded.video + 1)
      /\ Rising(Tail(q), buffered.frame, decoded.video + 1)
  <2>1. decoded.video + 1 \in Nat
    BY <1>1
  <2>2. QED
    BY <1>1, <1>2, <1>3, <2>1, RisingTail
<1>6. job.delay = 0 => Len(q) > job.delay
  BY <1>1, <1>2
<1>7. QED
  BY <1>2, <1>3, <1>4, <1>5, <1>6

(* Whatever the packet.                                                        *)
LEMMA DecodeOrder ==
    ASSUME TypeOK, FrameOrder, NEW d \in DecodeVideo
    PROVE  Decoded(d)
<1>1. /\ decoder \in Seq(Nat \ {0}) /\ decoded.video \in Nat /\ buffered.frame \in Nat
      /\ job.delay \in Nat /\ pkt.units \in Nat
  BY DEF TypeOK, Job
<1>2. \A u : /\ NoFrame(u).frame = 0 /\ NoFrame(u).queue = decoder
             /\ NoFrame(u).count = decoded.video
  BY DEF NoFrame
<1>3. ASSUME NEW u, d = NoFrame(u) PROVE Decoded(d)
  BY <1>1, <1>2, <1>3 DEF Decoded, FrameOrder
<1>4. CASE pkt.units = 0 /\ job.delay > 0 /\ decoder # << >>
  <2>1. d = [NoFrame(0) EXCEPT !.frame = Head(decoder), !.queue = Tail(decoder)]
    BY <1>4 DEF DecodeVideo
  <2>2. d.frame = Head(decoder) /\ d.queue = Tail(decoder) /\ d.count = decoded.video
    BY <2>1 DEF NoFrame
  <2>3. QED
    BY <1>1, <1>4, <2>2, RisingTail DEF Decoded, FrameOrder
<1>5. CASE pkt.units > 0 /\ ~pkt.bad /\ pkt.stream = "video"
  <2> DEFINE q == Append(decoder, decoded.video + 1)
             full == Len(q) > job.delay
  <2>0. d = [frame |-> IF full THEN Head(q) ELSE 0, queue |-> IF full THEN Tail(q) ELSE q,
             units |-> pkt.units - 1, count |-> decoded.video + 1]
    BY <1>5 DEF DecodeVideo
  <2>1. /\ d.frame = IF full THEN Head(q) ELSE 0
        /\ d.queue = IF full THEN Tail(q) ELSE q
        /\ d.count = decoded.video + 1
    BY <2>0
  <2>2. /\ Rising(q, buffered.frame, decoded.video + 1)
        /\ Head(q) \in Nat \ {0} /\ buffered.frame < Head(q) /\ Head(q) <= decoded.video + 1
        /\ Rising(Tail(q), Head(q), decoded.video + 1)
        /\ Rising(Tail(q), buffered.frame, decoded.video + 1)
        /\ job.delay = 0 => full /\ Tail(q) = << >>
    BY NewFrame
  <2> HIDE DEF q, full
  <2>3. QED
    BY <1>1, <2>1, <2>2 DEF Decoded
<1>6. QED
  BY <1>1, <1>3, <1>4, <1>5 DEF DecodeVideo

(* One turn of the loop over the packet, for the frame it decodes.             *)
EncodeStep(d) ==
    /\ VideoOpen /\ ~Late(d)
    /\ decoder' = d.queue /\ decoded' = [decoded EXCEPT !.video = d.count]
    /\ pkt' = [pkt EXCEPT !.units = d.units]
    /\ IF buffered.frame # 0 /\ (d.frame # 0 \/ eos.video)
       THEN /\ video' = video \o Calls(d)
            /\ done' = [done EXCEPT !.video = @ \/ eos.video]
       ELSE UNCHANGED <<video, done>>
    /\ IF d.frame # 0
       THEN /\ buffered' = [frame |-> d.frame, dts |-> pkt.dts]
            /\ accepted' = Append(accepted, d.frame)
       ELSE UNCHANGED <<buffered, accepted>>
    /\ pc' = IF d.frame = 0 THEN Section2 ELSE "video"
    /\ UNCHANGED <<job, passno, input, eos, sample_count, audio>>

(* A turn of the video decoder does this.                                      *)
LEMMA EncodeTurnIs == EncodeTurn => \E d \in DecodeVideo : EncodeStep(d)
BY DEF EncodeTurn, EncodeStep, Breaks, fixed, source, sounded

(* The frame that is taken into the buffer is the latest.                      *)
LEMMA EncodeFrames ==
    ASSUME TypeOK, FrameOrder, NEW d \in DecodeVideo, EncodeStep(d)
    PROVE  FrameOrder'
<1>1. Decoded(d) /\ d \in Decoding
  BY DecodeOrder, DecodeTypes
<1>2. /\ accepted \in Seq(Nat \ {0}) /\ buffered.frame \in Nat /\ decoded.video \in Nat
      /\ d.frame \in Nat /\ d.count \in Nat
  BY <1>1 DEF TypeOK, Decoding
<1>3. decoder' = d.queue /\ decoded'.video = d.count /\ job' = job
  BY DEF EncodeStep, TypeOK
<1>4. CASE d.frame = 0
  <2>1. UNCHANGED <<buffered, accepted>>
    BY <1>4 DEF EncodeStep
  <2>2. QED
    BY <1>1, <1>2, <1>3, <2>1 DEF FrameOrder, Decoded
<1>5. CASE d.frame # 0
  <2>1. buffered'.frame = d.frame /\ accepted' = Append(accepted, d.frame)
    BY <1>5 DEF EncodeStep
  <2>2. Rising(accepted', 0, buffered'.frame)
    BY <1>1, <1>2, <1>5, <2>1, RisingAppend DEF FrameOrder, Decoded
  <2>3. accepted' # << >> /\ buffered'.frame = accepted'[Len(accepted')]
    BY <1>2, <2>1, AppendProperties
  <2>4. QED
    BY <1>1, <1>3, <1>5, <2>1, <2>2, <2>3 DEF FrameOrder, Decoded
<1>6. QED
  BY <1>4, <1>5

(* What leaves the decoder and the kept frames alone.                          *)
LEMMA FramesKept ==
    ASSUME FrameOrder, UNCHANGED <<job, buffered, accepted, decoder>>, decoded'.video = decoded.video
    PROVE  FrameOrder'
BY DEF FrameOrder

(* A frame that is decoded and not used: before the start time or to keep the  *)
(* sync.                                                                       *)
LEMMA FrameLost ==
    ASSUME TypeOK, FrameOrder, UNCHANGED <<job, buffered, accepted>>,
           NEW q, NEW n \in Nat, decoder' = q, decoded'.video = n,
           Rising(q, buffered.frame, n), decoded.video <= n, job.delay = 0 => q = << >>
    PROVE  FrameOrder'
<1>1. buffered.frame \in Nat /\ decoded.video \in Nat
  BY DEF TypeOK
<1>2. QED
  BY <1>1 DEF FrameOrder

(* Every step keeps the frames in the order of decoding.                       *)
LEMMA StepFrames == TypeInv /\ FrameOrder /\ [Next]_vars => FrameOrder'
<1> SUFFICES ASSUME TypeInv, FrameOrder, [Next]_vars PROVE FrameOrder'
  OBVIOUS
<1> USE DEF fixed, coded
<1>0. TypeOK
  BY DEF TypeInv
<1>1. CASE ReadEarly
  <2>1. UNCHANGED <<job, buffered, accepted>>
    BY <1>1 DEF ReadEarly
  <2>2. CASE UNCHANGED <<decoded, decoder>>
    BY <2>1, <2>2, FramesKept
  <2> DEFINE q == Append(decoder, decoded.video + 1)
  <2>3. CASE /\ decoded' = [decoded EXCEPT !.video = @ + 1]
             /\ decoder' = IF Len(q) > job.delay THEN Tail(q) ELSE q
    <3>1. /\ Rising(q, buffered.frame, decoded.video + 1)
          /\ Rising(Tail(q), buffered.frame, decoded.video + 1)
          /\ job.delay = 0 => Len(q) > job.delay /\ Tail(q) = << >>
      BY <1>0, NewFrame
    <3>2. decoded'.video = decoded.video + 1 /\ decoded.video \in Nat
      BY <1>0, <2>3 DEF TypeOK
    <3> HIDE DEF q
    <3>3. Rising(decoder', buffered.frame, decoded.video + 1) /\ (job.delay = 0 => decoder' = << >>)
      BY <2>3, <3>1
    <3>4. QED
      BY <1>0, <2>1, <3>2, <3>3, FrameLost
  <2>4. QED
    BY <1>1, <2>2, <2>3 DEF ReadEarly
<1>2. CASE DropFrame
  <2>1. PICK d \in DecodeVideo : decoder' = d.queue /\ decoded' = [decoded EXCEPT !.video = d.count]
    BY <1>2 DEF DropFrame
  <2>2. UNCHANGED <<job, buffered, accepted>>
    BY <1>2 DEF DropFrame
  <2>3. Decoded(d) /\ d.count \in Nat /\ decoded'.video = d.count
    BY <1>0, <2>1, DecodeOrder, DecodeTypes DEF Decoding, TypeOK
  <2>4. QED
    BY <1>0, <2>1, <2>2, <2>3, FrameLost DEF Decoded
<1>3. CASE EncodeTurn
  BY <1>0, <1>3, EncodeTurnIs, EncodeFrames
<1>4. CASE AudioTurn
  <2>1. UNCHANGED <<job, buffered, accepted, decoder>>
    BY <1>4 DEF AudioTurn
  <2>2. decoded'.video = decoded.video
    BY <1>0, <1>4, AudioTurnIs DEF AudioStep, TypeOK
  <2>3. QED
    BY <2>1, <2>2, FramesKept
<1>5. CASE NextPass
  <2>1. /\ decoder' = << >> /\ accepted' = << >> /\ buffered'.frame = 0 /\ decoded'.video = 0
    BY <1>5 DEF NextPass
  <2>2. Len(decoder') = 0 /\ Len(accepted') = 0
    BY <2>1, EmptySeq
  <2>3. Rising(accepted', 0, buffered'.frame) /\ Rising(decoder', buffered'.frame, decoded'.video)
    BY <2>2 DEF Rising
  <2>4. QED
    BY <2>1, <2>3 DEF FrameOrder
<1>6. CASE UNCHANGED <<job, buffered, accepted, decoder, decoded>>
  BY <1>6, FramesKept
<1>7. QED
  BY <1>1, <1>2, <1>3, <1>4, <1>5, <1>6
  DEF Next, Finished, vars, ReadPacket, ReadFails, LeaveVideo, AudioError, LeaveAudio, Flush

(* There is no frame at first.                                                 *)
LEMMA InitFrames == Init => FrameOrder
<1> SUFFICES ASSUME Init PROVE FrameOrder
  OBVIOUS
<1>1. /\ decoder = << >> /\ accepted = << >> /\ buffered.frame = 0 /\ decoded.video = 0
  BY DEF Init
<1>2. Len(decoder) = 0 /\ Len(accepted) = 0
  BY <1>1, EmptySeq
<1>3. Rising(accepted, 0, buffered.frame) /\ Rising(decoder, buffered.frame, decoded.video)
  BY <1>2 DEF Rising
<1>4. QED
  BY <1>1, <1>3 DEF FrameOrder

-----------------------------------------------------------------------------
(* The calls of oggmux_add_video: of the frames that were kept all have been   *)
(* given to it, but perhaps the one in the buffer, and none out of turn.       *)

CallOrder ==
    /\ \A i \in 1 .. Len(video) : video[i].frame <= buffered.frame
    /\ \A i, j \in 1 .. Len(video) : i < j => video[i].frame <= video[j].frame
    /\ \E n \in {Len(accepted) - 1, Len(accepted)} :
          FramesOf(video) = {accepted[i] : i \in 1 .. n}

AllGiven == FramesOf(video) = {accepted[i] : i \in 1 .. Len(accepted)}

(* The calls for a frame: all with the buffered frame and the flag of the      *)
(* moment; one call when there is nothing to repeat.                           *)
LEMMA CallsAre ==
    ASSUME TypeOK, NEW d \in DecodeVideo
    PROVE  /\ Len(Calls(d)) \in Nat \ {0} /\ DOMAIN Calls(d) = 1 .. Len(Calls(d))
           /\ \A i \in 1 .. Len(Calls(d)) : /\ Calls(d)[i].frame = buffered.frame
                                            /\ Calls(d)[i].e_o_s = eos.video
           /\ ~Timed(d) => Len(Calls(d)) = 1
<1>1. Dups(d) \in Nat /\ Keyint \in Nat \ {0}
  BY DeltaTypes, LoopAssumption
<1> DEFINE many == [i \in 1 .. Dups(d) + 1 |->
                       [frame |-> Submitted(d), shown |-> 1, e_o_s |-> eos.video]]
           one == <<[frame |-> Submitted(d), shown |-> Dups(d) + 1, e_o_s |-> eos.video]>>
<1>2. CASE Dups(d) >= Keyint
  <2>1. Calls(d) = many
    BY <1>2 DEF Calls
  <2>2. Len(many) = Dups(d) + 1 /\ DOMAIN many = 1 .. Dups(d) + 1
    BY <1>1
  <2>3. Timed(d)
    BY <1>1, <1>2 DEF Dups
  <2>4. \A i \in 1 .. Dups(d) + 1 : many[i].frame = buffered.frame /\ many[i].e_o_s = eos.video
    BY DEF Submitted
  <2> HIDE DEF many
  <2>5. QED
    BY <1>1, <2>1, <2>2, <2>3, <2>4
<1>3. CASE ~(Dups(d) >= Keyint)
  <2>1. Calls(d) = one
    BY <1>3 DEF Calls
  <2>2. Len(one) = 1 /\ DOMAIN one = 1 .. 1 /\ one[1].frame = buffered.frame /\ one[1].e_o_s = eos.video
    BY DEF Submitted
  <2> HIDE DEF one
  <2>3. QED
    BY <2>1, <2>2
<1>4. QED
  BY <1>2, <1>3

(* The history after the calls for a frame.                                    *)
LEMMA CallsAdded ==
    ASSUME TypeOK, NEW d \in DecodeVideo, buffered.frame # 0, NEW v, v = video \o Calls(d)
    PROVE  /\ Len(video) \in Nat /\ Len(Calls(d)) \in Nat \ {0}
           /\ Len(v) = Len(video) + Len(Calls(d)) /\ DOMAIN v = 1 .. Len(v)
           /\ \A i \in 1 .. Len(video) : v[i] = video[i] /\ v[i].frame \in Nat
           /\ \A i \in Len(video) + 1 .. Len(v) : v[i].frame = buffered.frame /\ v[i].e_o_s = eos.video
           /\ FramesOf(v) = FramesOf(video) \cup {buffered.frame}
<1>1. video \in Seq(Call) /\ Calls(d) \in Seq(Call)
  BY CallTypes DEF TypeOK
<1>2. /\ v \in Seq(Call)
      /\ Len(v) = Len(video) + Len(Calls(d)) /\ Len(video) \in Nat /\ Len(Calls(d)) \in Nat \ {0}
      /\ DOMAIN v = 1 .. Len(v) /\ DOMAIN video = 1 .. Len(video)
      /\ \A i \in 1 .. Len(video) : v[i] = video[i]
      /\ \A i \in 1 .. Len(Calls(d)) : v[Len(video) + i] = Calls(d)[i]
  BY <1>1, CallsAre, ConcatProperties, LenProperties
<1>3. ASSUME NEW i \in Len(video) + 1 .. Len(v)
      PROVE  v[i].frame = buffered.frame /\ v[i].e_o_s = eos.video
  <2>1. i - Len(video) \in 1 .. Len(Calls(d)) /\ i = Len(video) + (i - Len(video))
    BY <1>2
  <2>2. v[i] = Calls(d)[i - Len(video)]
    BY <1>2, <2>1
  <2>3. QED
    BY <2>1, <2>2, CallsAre
<1>4. \A i \in 1 .. Len(video) : v[i].frame \in Nat
  <2>1. \A i \in 1 .. Len(video) : video[i] \in Call
    BY <1>1, ElementOfSeq
  <2>2. QED
    BY <1>2, <2>1 DEF Call
<1>5. FramesOf(v) = FramesOf(video) \cup {buffered.frame}
  <2>1. \A i \in DOMAIN v : i \in 1 .. Len(video) \/ i \in Len(video) + 1 .. Len(v)
    BY <1>2
  <2>2. FramesOf(v) \subseteq FramesOf(video) \cup {buffered.frame}
    BY <1>2, <1>3, <2>1 DEF FramesOf
  <2>3. FramesOf(video) \subseteq FramesOf(v)
    <3>1. \A i \in DOMAIN video : i \in DOMAIN v /\ v[i] = video[i]
      BY <1>2
    <3>2. QED
      BY <3>1 DEF FramesOf
  <2>4. buffered.frame \in FramesOf(v)
    <3>1. Len(video) + 1 \in Len(video) + 1 .. Len(v) /\ Len(video) + 1 \in DOMAIN v
      BY <1>2
    <3>2. QED
      BY <1>3, <3>1 DEF FramesOf
  <2>5. QED
    BY <2>2, <2>3, <2>4
<1>6. QED
  BY <1>2, <1>3, <1>4, <1>5

(* No frame was kept while the buffer is empty.                                *)
LEMMA NoneKept ==
    ASSUME TypeOK, FrameOrder, buffered.frame = 0
    PROVE  accepted = << >> /\ Len(accepted) = 0
<1>1. accepted # << >> => accepted[Len(accepted)] \in Nat \ {0}
  BY EmptySeq, LenProperties, ElementOfSeq DEF TypeOK
<1>2. accepted = << >>
  BY <1>1 DEF FrameOrder
<1>3. QED
  BY <1>2, EmptySeq

(* Giving the buffered frame leaves nothing that was not given.                *)
LEMMA BufferGiven ==
    ASSUME TypeOK, FrameOrder, CallOrder, buffered.frame # 0
    PROVE  /\ FramesOf(video) \cup {buffered.frame} = {accepted[i] : i \in 1 .. Len(accepted)}
           /\ accepted # << >> /\ Len(accepted) \in Nat /\ Len(accepted) >= 1
<1>1. accepted \in Seq(Nat \ {0}) /\ accepted # << >> /\ buffered.frame = accepted[Len(accepted)]
  BY DEF TypeOK, FrameOrder
<1>2. Len(accepted) \in Nat /\ Len(accepted) >= 1
  BY <1>1, EmptySeq, LenProperties
<1>3. PICK n \in {Len(accepted) - 1, Len(accepted)} :
          FramesOf(video) = {accepted[i] : i \in 1 .. n}
  BY DEF CallOrder
<1>4. 1 .. Len(accepted) = 1 .. n \cup {Len(accepted)}
  BY <1>2, <1>3
<1>5. QED
  BY <1>1, <1>2, <1>3, <1>4

(* The frames of the calls are numbers.                                        *)
LEMMA CallsTyped ==
    ASSUME TypeOK
    PROVE  \A i \in 1 .. Len(video) : video[i].frame \in Nat
<1>1. video \in Seq(Call)
  BY DEF TypeOK
<1>2. \A i \in 1 .. Len(video) : video[i] \in Call
  BY <1>1, ElementOfSeq
<1>3. QED
  BY <1>2 DEF Call

(* A turn that decodes, repeats or ends keeps the calls in order.              *)
LEMMA EncodeCalls ==
    ASSUME TypeOK, FrameOrder, CallOrder, NEW d \in DecodeVideo, EncodeStep(d)
    PROVE  /\ CallOrder'
           /\ buffered.frame # 0 /\ d.frame = 0 /\ eos.video => AllGiven'
<1>1. /\ Decoded(d) /\ d.frame \in Nat /\ buffered.frame \in Nat
      /\ accepted \in Seq(Nat \ {0}) /\ Len(accepted) \in Nat
  BY DecodeOrder, DecodeTypes, LenProperties DEF TypeOK, Decoding
<1>2. /\ buffered.frame <= buffered'.frame /\ buffered'.frame \in Nat
      /\ d.frame # 0 => accepted' = Append(accepted, d.frame)
      /\ d.frame = 0 => accepted' = accepted
  BY <1>1 DEF EncodeStep, Decoded
<1>3. d.frame # 0 =>
        /\ Len(accepted') - 1 = Len(accepted)
        /\ {accepted'[i] : i \in 1 .. Len(accepted') - 1} = {accepted[i] : i \in 1 .. Len(accepted)}
  <2> SUFFICES ASSUME d.frame # 0
               PROVE  /\ Len(accepted') - 1 = Len(accepted)
                      /\ {accepted'[i] : i \in 1 .. Len(accepted') - 1}
                            = {accepted[i] : i \in 1 .. Len(accepted)}
    OBVIOUS
  <2>1. Len(accepted') = Len(accepted) + 1 /\ \A i \in 1 .. Len(accepted) : accepted'[i] = accepted[i]
    BY <1>1, <1>2, AppendProperties
  <2>2. QED
    BY <1>1, <2>1, SMTT(20)
<1>4. video \in Seq(Call) /\ Len(video) \in Nat /\ \A i \in 1 .. Len(video) : video[i].frame \in Nat
  <2>1. video \in Seq(Call)
    BY DEF TypeOK
  <2>2. \A i \in 1 .. Len(video) : video[i] \in Call
    BY <2>1, ElementOfSeq
  <2>3. QED
    BY <2>1, <2>2, LenProperties DEF Call
<1>5. CASE ~(buffered.frame # 0 /\ (d.frame # 0 \/ eos.video))
  <2>1. video' = video
    BY <1>5 DEF EncodeStep
  <2>2. \A i \in 1 .. Len(video) : video[i].frame <= buffered'.frame
    BY <1>1, <1>2, <1>4 DEF CallOrder
  <2>3. CASE d.frame = 0
    BY <1>2, <2>1, <2>2, <2>3, <1>5 DEF CallOrder
  <2>4. CASE d.frame # 0
    <3>1. buffered.frame = 0
      BY <1>5, <2>4
    <3>2. accepted = << >> /\ Len(accepted) = 0
      BY <3>1, NoneKept
    <3>3. FramesOf(video) = {accepted[i] : i \in 1 .. Len(accepted)}
      <4>1. PICK n \in {Len(accepted) - 1, Len(accepted)} :
              FramesOf(video) = {accepted[i] : i \in 1 .. n}
        BY DEF CallOrder
      <4>2. 1 .. n = {} /\ 1 .. Len(accepted) = {}
        BY <3>2
      <4>3. QED
        BY <4>1, <4>2
    <3>4. FramesOf(video') = {accepted'[i] : i \in 1 .. Len(accepted') - 1}
      BY <1>3, <2>1, <2>4, <3>3
    <3>5. QED
      BY <2>1, <2>2, <2>4, <3>4 DEF CallOrder
  <2>5. QED
    BY <1>5, <2>3, <2>4
<1>6. CASE buffered.frame # 0 /\ (d.frame # 0 \/ eos.video)
  <2>1. video' = video \o Calls(d)
    BY <1>6 DEF EncodeStep
  <2>2. /\ Len(video) \in Nat /\ Len(Calls(d)) \in Nat \ {0}
        /\ Len(video') = Len(video) + Len(Calls(d))
        /\ \A i \in 1 .. Len(video) : video'[i] = video[i]
        /\ \A i \in Len(video) + 1 .. Len(video') : video'[i].frame = buffered.frame
        /\ FramesOf(video') = FramesOf(video) \cup {buffered.frame}
    BY <1>6, <2>1, CallsAdded, ZenonT(30)
  <2>3. \A i \in 1 .. Len(video') : /\ i \in 1 .. Len(video) \/ i \in Len(video) + 1 .. Len(video')
                                    /\ video'[i].frame \in Nat /\ video'[i].frame <= buffered.frame
    <3>1. buffered.frame \in Nat
      BY <1>1 DEF TypeOK
    <3>2. \A i \in 1 .. Len(video') : i \in 1 .. Len(video) \/ i \in Len(video) + 1 .. Len(video')
      BY <2>2
    <3>3. \A i \in 1 .. Len(video) : video'[i].frame \in Nat /\ video'[i].frame <= buffered.frame
      <4>1. \A i \in 1 .. Len(video) : video[i].frame \in Nat
        BY CallsTyped
      <4>2. QED
        BY <2>2, <4>1 DEF CallOrder
    <3>4. \A i \in Len(video) + 1 .. Len(video') : video'[i].frame \in Nat /\ video'[i].frame <= buffered.frame
      BY <2>2, <3>1
    <3>5. QED
      BY <3>2, <3>3, <3>4
  <2>4. \A i \in 1 .. Len(video') : video'[i].frame <= buffered'.frame
    BY <1>1, <1>2, <2>3
  <2>5. ASSUME NEW i \in 1 .. Len(video'), NEW j \in 1 .. Len(video'), i < j
        PROVE  video'[i].frame <= video'[j].frame
    <3>1. CASE j \in 1 .. Len(video)
      <4>1. i \in 1 .. Len(video)
        BY <2>2, <2>5, <3>1
      <4>2. QED
        BY <2>2, <2>5, <3>1, <4>1 DEF CallOrder
    <3>2. CASE j \in Len(video) + 1 .. Len(video')
      BY <2>2, <2>3, <3>2
    <3>3. QED
      BY <2>3, <3>1, <3>2
  <2>6. FramesOf(video') = {accepted[i] : i \in 1 .. Len(accepted)}
    BY <1>6, <2>2, BufferGiven
  <2>7. \E n \in {Len(accepted') - 1, Len(accepted')} :
          FramesOf(video') = {accepted'[i] : i \in 1 .. n}
    <3>1. CASE d.frame = 0
      BY <1>2, <2>6, <3>1
    <3>2. CASE d.frame # 0
      BY <1>3, <2>6, <3>2
    <3>3. QED
      BY <3>1, <3>2
  <2>8. CallOrder'
    BY <2>4, <2>5, <2>7 DEF CallOrder
  <2>9. d.frame = 0 => AllGiven'
    BY <1>2, <2>6 DEF AllGiven
  <2>10. QED
    BY <2>8, <2>9
<1>7. QED
  BY <1>5, <1>6

-----------------------------------------------------------------------------
(* The end of the streams. The video section is entered once more when the     *)
(* input has ended, unless it was done before, and goes on until the decoder   *)
(* gives nothing more: by then the buffered frame has been given with the      *)
(* flag. Without an end time and with a decoder that delays nothing the flag   *)
(* is raised by the end of the input only, and that turn is the only one.      *)

Simple == NoEndTime /\ job.delay = 0

FlagsRight ==
    /\ done.video /\ HasVideo => \E i \in 1 .. Len(video) : video[i].e_o_s
    /\ Simple /\ ~done.video => \A i \in 1 .. Len(video) : ~video[i].e_o_s
    /\ Simple /\ done.video /\ HasVideo =>
          /\ eos.video
          /\ \A i \in 1 .. Len(video) : video[i].e_o_s <=> i = Len(video)
          /\ AllGiven

VideoControl ==
    /\ ~HasVideo => accepted = << >> /\ pc # "video" /\ pkt.stream # "video" /\ done.video
    /\ ~HasVideo => \A i \in 1 .. Len(input) : input[i].stream # "video"
    /\ pkt.stream = "eof" /\ pc # "read" => (HasVideo => eos.video) /\ (HasAudio => eos.audio)
    /\ pkt.stream = "eof" /\ pc \in {"audio", "flush", "done"} => done.video \/ accepted = << >>
    /\ Simple /\ eos.video => pkt.stream = "eof" /\ pc # "read"
    /\ Simple /\ done.video => pc # "video"
    /\ pc = "done" => pkt.stream = "eof" \/ (done.audio /\ done.video)

AudioEnd ==
    HasAudio /\ passno # 1 =>
        /\ done.audio => audio # << >> /\ audio[Len(audio)].e_o_s
        /\ pkt.stream = "eof" /\ pc \in {"flush", "done"} => done.audio \/ Full

EndInv == FrameOrder /\ CallOrder /\ FlagsRight /\ VideoControl /\ AudioEnd

(* All that is known of a state.                                               *)
LoopInv == TypeInv /\ SyncInv /\ AudioInv /\ EndInv

(* The first section that a packet or the end of the input leads to.           *)
LEMMA SectionIs ==
    ASSUME NEW p, NEW e
    PROVE  /\ Section(p, e) = "video" => EnterVideo(p, e.video)
           /\ Section(p, e) # "video" => ~EnterVideo(p, e.video)
           /\ Section(p, e) = "flush" => ~EnterAudio(p, e.audio)
<1>1. CASE EnterVideo(p, e.video)
  <2>1. Section(p, e) = "video"
    BY <1>1 DEF Section
  <2>2. QED
    BY <1>1, <2>1
<1>2. CASE ~EnterVideo(p, e.video) /\ EnterAudio(p, e.audio)
  <2>1. Section(p, e) = "audio"
    BY <1>2 DEF Section
  <2>2. QED
    BY <1>2, <2>1
<1>3. CASE ~EnterVideo(p, e.video) /\ ~EnterAudio(p, e.audio)
  <2>1. Section(p, e) = "flush"
    BY <1>3 DEF Section
  <2>2. QED
    BY <1>3, <2>1
<1>4. QED
  BY <1>1, <1>2, <1>3

(* The turn at the end of the input, when nothing is delayed: no frame.        *)
LEMMA LastTurn ==
    ASSUME LoopInv, Simple, eos.video, NEW d \in DecodeVideo
    PROVE  d.frame = 0 /\ ~Timed(d)
<1>1. pkt.units = 0 /\ decoder = << >> /\ ~(job.delay > 0)
  BY DEF LoopInv, EndInv, VideoControl, SyncInv, FrameOrder, Simple
<1>2. d = NoFrame(0)
  BY <1>1 DEF DecodeVideo
<1>3. d.frame = 0
  BY <1>2 DEF NoFrame
<1>4. QED
  BY <1>3 DEF Timed

(* What leaves the calls alone.                                                *)
LEMMA FlagsKept ==
    ASSUME FlagsRight, UNCHANGED <<job, video, accepted>>, done'.video = done.video,
           eos.video => eos'.video
    PROVE  FlagsRight'
<1>1. /\ video' = video
      /\ Simple' <=> Simple
      /\ HasVideo' <=> HasVideo
      /\ AllGiven' <=> AllGiven
  BY DEF Simple, NoEndTime, HasVideo, AllGiven
<1>2. (done.video /\ HasVideo => \E i \in 1 .. Len(video) : video[i].e_o_s)'
  BY <1>1 DEF FlagsRight
<1>3. (Simple /\ ~done.video => \A i \in 1 .. Len(video) : ~video[i].e_o_s)'
  BY <1>1 DEF FlagsRight
<1>4. (Simple /\ done.video /\ HasVideo =>
          /\ eos.video
          /\ \A i \in 1 .. Len(video) : video[i].e_o_s <=> i = Len(video)
          /\ AllGiven)'
  BY <1>1 DEF FlagsRight
<1>5. QED
  BY <1>2, <1>3, <1>4, Zenon DEF FlagsRight

(* A turn of the video decoder.                                                *)
LEMMA EncodeFlags ==
    ASSUME LoopInv, NEW d \in DecodeVideo, EncodeStep(d)
    PROVE  FlagsRight'
<1>1. /\ TypeOK /\ FrameOrder /\ CallOrder /\ FlagsRight /\ VideoControl /\ pc = "video"
      /\ job' = job /\ eos' = eos
      /\ done.video \in BOOLEAN /\ eos.video \in BOOLEAN
  BY DEF LoopInv, EndInv, EncodeStep, VideoOpen, TypeInv, TypeOK
<1>2. (Simple' <=> Simple) /\ (HasVideo' <=> HasVideo) /\ (Simple => ~done.video)
  BY <1>1 DEF Simple, NoEndTime, HasVideo, VideoControl
<1>3. CASE ~(buffered.frame # 0 /\ (d.frame # 0 \/ eos.video))
  <2>1. video' = video /\ done' = done
    BY <1>3 DEF EncodeStep
  <2>2. (done.video /\ HasVideo => \E i \in 1 .. Len(video) : video[i].e_o_s)'
    BY <1>1, <1>2, <2>1 DEF FlagsRight
  <2>3. (Simple /\ ~done.video => \A i \in 1 .. Len(video) : ~video[i].e_o_s)'
    BY <1>1, <1>2, <2>1 DEF FlagsRight
  <2>4. ~(Simple' /\ done'.video)
    BY <1>2, <2>1
  <2>5. QED
    BY <2>2, <2>3, <2>4, Zenon DEF FlagsRight
<1>4. CASE buffered.frame # 0 /\ (d.frame # 0 \/ eos.video)
  <2>1. video' = video \o Calls(d) /\ done'.video = (done.video \/ eos.video)
    BY <1>1, <1>4 DEF EncodeStep, TypeOK
  <2>2. /\ Len(video) \in Nat /\ Len(Calls(d)) \in Nat \ {0}
        /\ Len(video') = Len(video) + Len(Calls(d))
        /\ \A i \in 1 .. Len(video) : video'[i] = video[i]
        /\ \A i \in Len(video) + 1 .. Len(video') : video'[i].e_o_s = eos.video
    BY <1>1, <1>4, <2>1, CallsAdded
  <2>3. \A i \in 1 .. Len(video') : i \in 1 .. Len(video) \/ i \in Len(video) + 1 .. Len(video')
    BY <2>2
  <2>4. done'.video /\ HasVideo => \E i \in 1 .. Len(video') : video'[i].e_o_s
    <3>1. CASE eos.video
      <4>1. Len(video) + 1 \in 1 .. Len(video') /\ Len(video) + 1 \in Len(video) + 1 .. Len(video')
        BY <2>2
      <4>2. QED
        BY <2>2, <3>1, <4>1
    <3>2. CASE ~eos.video
      <4>1. done'.video /\ HasVideo => \E i \in 1 .. Len(video) : video[i].e_o_s
        BY <1>1, <2>1, <3>2 DEF FlagsRight
      <4>2. \A i \in 1 .. Len(video) : i \in 1 .. Len(video') /\ video'[i] = video[i]
        BY <2>2
      <4>3. QED
        BY <4>1, <4>2
    <3>3. QED
      BY <3>1, <3>2
  <2>5. Simple /\ ~done'.video => \A i \in 1 .. Len(video') : ~video'[i].e_o_s
    BY <1>1, <2>1, <2>2, <2>3 DEF FlagsRight
  <2>6. ASSUME Simple, done'.video, HasVideo
        PROVE  /\ eos.video
               /\ \A i \in 1 .. Len(video') : video'[i].e_o_s <=> i = Len(video')
               /\ AllGiven'
    <3>1. ~done.video /\ eos.video
      BY <1>2, <2>1, <2>6
    <3>2. d.frame = 0 /\ ~Timed(d)
      BY <2>6, <3>1, LastTurn
    <3>3. Len(Calls(d)) = 1
      BY <1>1, <3>2, CallsAre
    <3>4. \A i \in 1 .. Len(video) : ~video[i].e_o_s
      BY <1>1, <2>6, <3>1 DEF FlagsRight
    <3>5. \A i \in 1 .. Len(video') : video'[i].e_o_s <=> i = Len(video')
      <4>1. ASSUME NEW i \in 1 .. Len(video) PROVE ~video'[i].e_o_s /\ i # Len(video')
        BY <2>2, <3>4
      <4>2. Len(video') \in Len(video) + 1 .. Len(video') /\ video'[Len(video')].e_o_s
        <5>1. Len(video') \in Len(video) + 1 .. Len(video')
          BY <2>2
        <5>2. video'[Len(video')].e_o_s = eos.video
          BY <2>2, <5>1
        <5>3. QED
          BY <3>1, <5>1, <5>2
      <4>3. ASSUME NEW i \in Len(video) + 1 .. Len(video') PROVE i = Len(video')
        BY <2>2, <3>3
      <4>4. QED
        BY <2>3, <4>1, <4>2, <4>3
    <3>6. AllGiven'
      BY <1>1, <1>4, <3>1, <3>2, EncodeCalls
    <3>7. QED
      BY <3>1, <3>5, <3>6
  <2>7. QED
    BY <1>1, <1>2, <2>4, <2>5, <2>6 DEF FlagsRight
<1>5. QED
  BY <1>3, <1>4

(* What a packet is: the streams that are not converted bring none.            *)
LEMMA ArrivalStream ==
    ASSUME LoopInv, NEW a \in Arrivals, Read(a)
    PROVE  /\ a.stream \in {"video", "audio", "other"}
           /\ ~HasVideo => a.stream # "video"
           /\ ~HasVideo => \A i \in 1 .. Len(input') : input'[i].stream # "video"
<1>1. TypeOK /\ input \in Seq(Arrival) /\ Len(input) \in Nat /\ read \in Nat
  BY LenProperties DEF LoopInv, TypeInv, TypeOK
<1>2. a \in Arrival
  BY <1>1, ReadTypes
<1>3. a.stream \in {"video", "audio", "other"}
  BY <1>2 DEF Arrival
<1>4. ~HasVideo => a.stream # "video"
  <2>1. CASE read < Len(input)
    <3>1. a = input[read + 1] /\ read + 1 \in 1 .. Len(input)
      BY <1>1, <2>1 DEF Arrivals
    <3>2. QED
      BY <3>1 DEF LoopInv, EndInv, VideoControl
  <2>2. CASE ~(read < Len(input))
    BY <2>2 DEF Arrivals, Packets
  <2>3. QED
    BY <2>1, <2>2
<1>5. ~HasVideo => \A i \in 1 .. Len(input') : input'[i].stream # "video"
  <2>1. CASE passno = 1
    <3>1. input' = Append(input, a)
      BY <2>1 DEF Read
    <3>2. /\ Len(input') = Len(input) + 1 /\ input'[Len(input) + 1] = a
          /\ \A i \in 1 .. Len(input) : input'[i] = input[i]
      BY <1>1, <1>2, <3>1, AppendProperties
    <3>3. \A i \in 1 .. Len(input') : i \in 1 .. Len(input) \/ i = Len(input) + 1
      BY <1>1, <3>2
    <3>4. QED
      BY <1>4, <3>2, <3>3 DEF LoopInv, EndInv, VideoControl
  <2>2. CASE passno # 1
    BY <2>2 DEF Read, LoopInv, EndInv, VideoControl
  <2>3. QED
    BY <2>1, <2>2
<1>6. QED
  BY <1>3, <1>4, <1>5

(* Between packets, in the simple case, video is not done unless there is none.*)
LEMMA NotDoneYet ==
    ASSUME LoopInv, pc = "read", Simple
    PROVE  ~eos.video /\ (done.video => ~HasVideo)
BY DEF LoopInv, EndInv, VideoControl, FlagsRight

(* A packet begins a turn.                                                     *)
LEMMA ReadControl ==
    ASSUME LoopInv, SyncInv', ReadPacket
    PROVE  VideoControl'
<1>1. PICK a \in Arrivals :
          /\ Read(a)
          /\ pkt' = Packet(a)
          /\ eos' = [eos EXCEPT !.video = @ \/ EndReached]
          /\ pc' = Section(pkt', eos')
  BY DEF ReadPacket
<1>2. UNCHANGED <<job, passno, done, accepted>> /\ pc = "read"
  BY DEF ReadPacket, fixed, coded
<1>3. /\ pkt'.stream = a.stream /\ a.stream \in {"video", "audio", "other"}
      /\ ~HasVideo => a.stream # "video"
      /\ ~HasVideo => \A i \in 1 .. Len(input') : input'[i].stream # "video"
  BY <1>1, ArrivalStream DEF Packet
<1>4. /\ pc' \in {"video", "audio", "flush"}
      /\ pc' = "video" => EnterVideo(pkt', eos'.video)
  BY <1>1, SectionTypes, SectionIs
<1>5. eos'.video => HasVideo
  BY <1>2 DEF SyncInv, HasVideo
<1>6. pc' = "video" => HasVideo
  BY <1>3, <1>4, <1>5 DEF EnterVideo
<1>7. Simple => ~eos'.video /\ (done.video => ~HasVideo)
  <2>1. eos'.video <=> eos.video \/ EndReached
    BY <1>1 DEF LoopInv, TypeInv, TypeOK
  <2>2. Simple => ~EndReached
    BY DEF Simple, NoEndTime, EndReached, LoopInv, TypeInv, TypeOK, Job
  <2>3. QED
    BY <1>2, <2>1, <2>2, NotDoneYet
<1>8. ~HasVideo => accepted = << >> /\ done.video
  BY DEF LoopInv, EndInv, VideoControl
<1>9. (HasVideo' <=> HasVideo) /\ (Simple' <=> Simple)
  BY <1>2 DEF HasVideo, Simple, NoEndTime
<1>10. QED
  BY <1>2, <1>3, <1>4, <1>6, <1>7, <1>8, <1>9 DEF VideoControl

(* The end of the input begins the last turn.                                  *)
LEMMA FailsControl ==
    ASSUME LoopInv, ReadFails
    PROVE  VideoControl'
<1>1. /\ UNCHANGED <<job, passno, done, accepted, input>> /\ pc = "read"
      /\ pkt'.stream = "eof" /\ eos'.video = HasVideo /\ eos'.audio = HasAudio
      /\ pc' = Section(pkt', eos')
  BY DEF ReadFails, fixed, coded, EndOfFile
<1>2. /\ pc' \in {"video", "audio", "flush"}
      /\ pc' = "video" => EnterVideo(pkt', eos'.video)
      /\ pc' # "video" => ~EnterVideo(pkt', eos'.video)
  BY <1>1, SectionTypes, SectionIs
<1>3. pc' = "video" => HasVideo /\ ~done.video
  BY <1>1, <1>2 DEF EnterVideo
<1>4. pc' # "video" => ~HasVideo \/ done.video
  BY <1>1, <1>2 DEF EnterVideo
<1>5. /\ ~HasVideo => accepted = << >> /\ done.video
      /\ ~HasVideo => \A i \in 1 .. Len(input) : input[i].stream # "video"
  BY DEF LoopInv, EndInv, VideoControl
<1>6. /\ HasVideo' <=> HasVideo
      /\ HasAudio' <=> HasAudio
      /\ Simple' <=> Simple
  BY <1>1 DEF HasVideo, HasAudio, Simple, NoEndTime
<1>7. QED
  BY <1>1, <1>2, <1>3, <1>4, <1>5, <1>6 DEF VideoControl

(* The video section is left only when it has nothing to give, at the end of   *)
(* the input with everything given.                                            *)
LEMMA EncodeControl ==
    ASSUME LoopInv, NEW d \in DecodeVideo, EncodeStep(d)
    PROVE  VideoControl'
<1>1. /\ TypeOK /\ FrameOrder /\ VideoControl /\ pc = "video" /\ HasVideo
      /\ UNCHANGED <<job, eos, input>> /\ pkt'.stream = pkt.stream
      /\ done.video \in BOOLEAN /\ eos.video \in BOOLEAN
  BY DEF LoopInv, EndInv, EncodeStep, VideoOpen, VideoControl, TypeInv, TypeOK
<1>2. pc' = IF d.frame = 0 THEN Section2 ELSE "video"
  BY DEF EncodeStep
<1>3. Section2 \in {"audio", "flush"}
  BY DEF Section2
<1>4. done'.video = done.video \/ (done'.video = (done.video \/ eos.video) /\ buffered.frame # 0)
  BY <1>1 DEF EncodeStep, TypeOK
<1>5. ASSUME pkt.stream = "eof", pc' # "video" PROVE done'.video \/ accepted' = << >>
  <2>1. d.frame = 0 /\ eos.video
    BY <1>1, <1>2, <1>5 DEF VideoControl
  <2>2. CASE buffered.frame # 0
    BY <1>1, <2>1, <2>2 DEF EncodeStep, TypeOK
  <2>3. CASE buffered.frame = 0
    <3>1. accepted = << >> /\ accepted' = accepted
      BY <1>1, <2>1, <2>3, NoneKept DEF EncodeStep
    <3>2. QED
      BY <3>1
  <2>4. QED
    BY <2>2, <2>3
<1>6. ASSUME Simple, done'.video PROVE pc' # "video"
  <2>1. ~done.video /\ eos.video
    BY <1>1, <1>4, <1>6 DEF VideoControl
  <2>2. d.frame = 0
    BY <1>6, <2>1, LastTurn
  <2>3. QED
    BY <1>2, <1>3, <2>2
<1>7. (HasVideo' <=> HasVideo) /\ (HasAudio' <=> HasAudio) /\ (Simple' <=> Simple)
  BY <1>1 DEF HasVideo, HasAudio, Simple, NoEndTime
<1>8. pc' \in {"video", "audio", "flush"}
  BY <1>2, <1>3
<1>9. QED
  BY <1>1, <1>5, <1>6, <1>7, <1>8 DEF VideoControl

(* Steps inside a turn that decode no video.                                   *)
LEMMA TurnKept ==
    ASSUME VideoControl, UNCHANGED <<job, input, accepted>>, pkt'.stream = pkt.stream,
           done'.video = done.video, eos'.video = eos.video, eos.audio => eos'.audio,
           pc \in {"video", "audio"}, pc' \in {"audio", "flush"},
           pc = "video" => pkt.stream # "eof"
    PROVE  VideoControl'
<1>1. (HasVideo' <=> HasVideo) /\ (HasAudio' <=> HasAudio) /\ (Simple' <=> Simple)
  BY DEF HasVideo, HasAudio, Simple, NoEndTime
<1>2. pkt.stream = "eof" => done.video \/ accepted = << >>
  BY DEF VideoControl
<1>3. QED
  BY <1>1, <1>2 DEF VideoControl

(* The audio section is left with audio done or full, when the input has       *)
(* ended; a turn that is thrown away is one behind the end time.               *)
LEMMA TurnEnd ==
    ASSUME LoopInv, AudioTurn, NEW d \in DecodeAudio, AudioStep(d)
    PROVE  AudioEnd'
<1>1. /\ TypeInv /\ TypeOK /\ WithinEnd /\ AudioInv /\ AudioEnd /\ VideoControl /\ pc = "audio"
      /\ audio \in Seq(Chunk) /\ done.audio \in BOOLEAN /\ sample_count \in Nat
  BY DEF LoopInv, EndInv, TypeInv, TypeOK, AudioTurn, AudioOpen
<1>2. UNCHANGED <<job, passno>> /\ pkt'.stream = pkt.stream
  BY <1>1 DEF AudioTurn, AudioStep, fixed, TypeOK
<1>3. SUFFICES ASSUME HasAudio, passno # 1
               PROVE  /\ done'.audio => audio' # << >> /\ audio'[Len(audio')].e_o_s
                      /\ pkt'.stream = "eof" => done'.audio \/ Full'
  BY <1>2 DEF AudioEnd, HasAudio
<1>4. done'.audio <=> done.audio \/ (Ends(d) /\ ~Gone(d))
  BY <1>1 DEF AudioStep, TypeOK
<1>5. CASE done.audio
  <2>1. Gone(d)
    BY <1>1, <1>5, TurnWhenDone
  <2>2. audio' = audio
    BY <2>1 DEF AudioStep
  <2>3. QED
    BY <1>1, <1>3, <1>4, <1>5, <2>2 DEF AudioEnd
<1>6. CASE ~done.audio /\ Gone(d)
  <2>1. ~done'.audio
    BY <1>4, <1>6
  <2>2. Clip(d) /\ job.samples - sample_count <= 0
    BY <1>6 DEF Gone, Clipped
  <2>3. job.samples > 0
    BY <2>2 DEF Clip, BeyondEnd
  <2>4. Full
    BY <1>1, <2>2, <2>3, SMTT(20) DEF WithinEnd, Full, TypeOK, Job
  <2>5. sample_count' = sample_count
    BY <1>6 DEF AudioStep
  <2>6. QED
    BY <1>2, <2>1, <2>4, <2>5 DEF Full
<1>7. CASE ~done.audio /\ ~Gone(d) /\ Ends(d)
  <2> DEFINE c == [chunk |-> audio_p', samples |-> Clipped(d), e_o_s |-> Ends(d)]
  <2>1. Used(d)
    BY <1>7 DEF Ends, Used, Clip
  <2>2. audio' = Append(audio, c)
    BY <1>7, <2>1 DEF AudioStep
  <2>3. c.e_o_s
    BY <1>7
  <2> HIDE DEF c
  <2>4. Len(audio') = Len(audio) + 1 /\ audio'[Len(audio) + 1] = c /\ audio' # << >>
    <3>2. Len(audio) \in Nat
      BY <1>1, LenProperties
    <3>3. Len(audio') = Len(audio) + 1
      BY <1>1, <2>2
    <3>4. QED
      BY <1>1, <2>2, <3>2, <3>3, EmptySeq
  <2>5. QED
    BY <1>4, <1>7, <2>3, <2>4
<1>8. CASE ~done.audio /\ ~Gone(d) /\ ~Ends(d)
  <2>1. ~done'.audio
    BY <1>4, <1>8
  <2>2. pkt.stream # "eof"
    BY <1>1, <1>3, <1>8 DEF Ends, VideoControl
  <2>3. QED
    BY <1>2, <2>1, <2>2
<1>9. QED
  BY <1>5, <1>6, <1>7, <1>8

(* What leaves audio alone.                                                    *)
LEMMA EndKept ==
    ASSUME AudioEnd, UNCHANGED <<job, passno, sample_count, audio>>, done'.audio = done.audio,
           pkt'.stream = "eof" /\ pc' \in {"flush", "done"} =>
              \/ pkt.stream = "eof" /\ pc \in {"flush", "done"}
              \/ done.audio \/ ~HasAudio \/ passno = 1
    PROVE  AudioEnd'
BY DEF AudioEnd, HasAudio, Full

(* The audio section is passed by only when audio is done.                     *)
LEMMA SectionPassed ==
    ASSUME NEW p, NEW e, ~EnterAudio(p, e), e
    PROVE  done.audio \/ passno = 1
BY DEF EnterAudio

(* What leaves the frames and the calls alone.                                 *)
LEMMA CallsKept ==
    ASSUME CallOrder, UNCHANGED <<buffered, accepted, video>>
    PROVE  CallOrder'
<1>1. video' = video /\ accepted' = accepted /\ buffered' = buffered
  OBVIOUS
<1>2. (\A i \in 1 .. Len(video) : video[i].frame <= buffered.frame)'
  BY <1>1 DEF CallOrder
<1>3. (\A i, j \in 1 .. Len(video) : i < j => video[i].frame <= video[j].frame)'
  BY <1>1 DEF CallOrder
<1>4. (\E n \in {Len(accepted) - 1, Len(accepted)} :
          FramesOf(video) = {accepted[i] : i \in 1 .. n})'
  BY <1>1 DEF CallOrder
<1>5. QED
  BY <1>2, <1>3, <1>4, Zenon DEF CallOrder

(* Without a frame there is nothing to say.                                    *)
LEMMA NothingYet ==
    ASSUME TypeOK, job \in Job, pc = "read", pkt = EndOfFile,
           eos = [video |-> FALSE, audio |-> FALSE], done = DoneAtStart(passno),
           accepted = << >>, video = << >>, audio = << >>,
           ~HasVideo => \A i \in 1 .. Len(input) : input[i].stream # "video"
    PROVE  CallOrder /\ FlagsRight /\ VideoControl /\ AudioEnd
<1>1. Len(video) = 0 /\ Len(accepted) = 0 /\ DOMAIN video = {}
  BY EmptySeq
<1>2. /\ ~eos.video /\ ~eos.audio /\ pkt.stream = "eof"
      /\ done.video = ~HasVideo /\ done.audio = (~HasAudio \/ passno = 1)
  BY DEF EndOfFile, DoneAtStart
<1>3. CallOrder
  <2>1. FramesOf(video) = {} /\ {accepted[i] : i \in 1 .. Len(accepted)} = {}
    BY <1>1 DEF FramesOf
  <2>2. QED
    BY <1>1, <2>1 DEF CallOrder
<1>4. FlagsRight
  <2>1. \A i \in 1 .. Len(video) : ~video[i].e_o_s
    BY <1>1
  <2>2. ~(done.video /\ HasVideo)
    BY <1>2
  <2>3. QED
    BY <2>1, <2>2 DEF FlagsRight
<1>5. VideoControl
  BY <1>2 DEF VideoControl
<1>6. AudioEnd
  BY <1>2 DEF AudioEnd
<1>7. QED
  BY <1>3, <1>4, <1>5, <1>6

(* The initial state.                                                          *)
LEMMA InitEnd == Init => EndInv
<1> SUFFICES ASSUME Init PROVE EndInv
  OBVIOUS
<1>1. TypeOK /\ FrameOrder
  BY InitTypes, InitFrames DEF TypeInv
<1>2. Len(input) = 0
  BY EmptySeq DEF Init
<1>3. job \in Job
  BY <1>1 DEF TypeOK
<1>4. QED
  BY <1>1, <1>2, <1>3, NothingYet DEF Init, EndInv

(* The second pass begins as the first did.                                    *)
LEMMA NextPassEnd ==
    ASSUME LoopInv, TypeInv', NextPass
    PROVE  (CallOrder /\ FlagsRight /\ VideoControl /\ AudioEnd)'
<1>1. (TypeOK /\ job \in Job)'
  BY DEF TypeInv, TypeOK
<1>2. (/\ pc = "read" /\ pkt = EndOfFile
       /\ eos = [video |-> FALSE, audio |-> FALSE] /\ done = DoneAtStart(passno)
       /\ accepted = << >> /\ video = << >> /\ audio = << >>)'
  BY DEF NextPass, DoneAtStart, HasVideo, HasAudio, EndOfFile
<1>3. (~HasVideo => \A i \in 1 .. Len(input) : input[i].stream # "video")'
  BY DEF NextPass, HasVideo, LoopInv, EndInv, VideoControl
<1>4. QED
  BY <1>1, <1>2, <1>3, NothingYet, PTL

(* Every step keeps what is known about the end of the streams.                *)
LEMMA StepEnd == LoopInv /\ TypeInv' /\ SyncInv' /\ [Next]_vars => EndInv'
<1> SUFFICES ASSUME LoopInv, TypeInv', SyncInv', [Next]_vars PROVE EndInv'
  OBVIOUS
<1> USE DEF fixed, coded, sounded
<1>0. /\ TypeInv /\ TypeOK /\ SyncInv /\ AudioInv /\ FrameOrder /\ CallOrder /\ FlagsRight
      /\ VideoControl /\ AudioEnd
  BY DEF LoopInv, EndInv, TypeInv
<1>1. FrameOrder'
  BY <1>0, StepFrames
<1>2. CASE ReadEarly
  <2>1. /\ UNCHANGED <<job, passno, pc, pkt, eos, done, buffered, accepted, video, audio, sample_count>>
        /\ pc = "read"
    BY <1>2 DEF ReadEarly
  <2>2. ~HasVideo => \A i \in 1 .. Len(input') : input'[i].stream # "video"
    <3>1. PICK a \in Arrivals : Read(a)
      BY <1>2 DEF ReadEarly
    <3>2. QED
      BY <3>1, ArrivalStream
  <2>3. CallOrder' /\ AudioEnd'
    BY <1>0, <2>1, CallsKept DEF AudioEnd, HasAudio, Full
  <2>4. FlagsRight'
    BY <1>0, <2>1, FlagsKept
  <2>5. VideoControl'
    BY <1>0, <2>1, <2>2 DEF VideoControl, HasVideo, HasAudio, Simple, NoEndTime
  <2>6. QED
    BY <1>1, <2>3, <2>4, <2>5 DEF EndInv
<1>3. CASE ReadPacket
  <2>1. UNCHANGED <<job, passno, done, buffered, accepted, video, audio, sample_count>>
    BY <1>3 DEF ReadPacket
  <2>2. eos.video => eos'.video
    BY <1>0, <1>3 DEF ReadPacket, TypeOK
  <2>3. pkt'.stream # "eof"
    <3>1. PICK a \in Arrivals : Read(a) /\ pkt' = Packet(a)
      BY <1>3 DEF ReadPacket
    <3>2. QED
      BY <3>1, ArrivalStream DEF Packet
  <2>4. CallOrder'
    BY <1>0, <2>1, CallsKept
  <2>5. FlagsRight' /\ AudioEnd'
    BY <1>0, <2>1, <2>2, <2>3, FlagsKept, EndKept
  <2>6. VideoControl'
    BY <1>3, ReadControl
  <2>7. QED
    BY <1>1, <2>4, <2>5, <2>6 DEF EndInv
<1>4. CASE ReadFails
  <2>1. /\ UNCHANGED <<job, passno, done, buffered, accepted, video, audio, sample_count>>
        /\ eos' = [video |-> HasVideo, audio |-> HasAudio]
        /\ pc' = Section(pkt', eos')
    BY <1>4 DEF ReadFails
  <2>2. eos.video => eos'.video
    BY <1>0, <2>1 DEF SyncInv
  <2>3. CallOrder'
    BY <1>0, <2>1, CallsKept
  <2>4. FlagsRight'
    BY <1>0, <2>1, <2>2, FlagsKept
  <2>5. pc' \in {"flush", "done"} => done.audio \/ ~HasAudio \/ passno = 1
    <3>1. pc' # "done"
      BY <2>1, SectionTypes
    <3>2. pc' = "flush" => ~EnterAudio(pkt', eos'.audio)
      BY <2>1, SectionIs
    <3>3. eos'.audio = HasAudio
      BY <2>1
    <3>4. QED
      BY <3>1, <3>2, <3>3, SectionPassed
  <2>6. AudioEnd'
    BY <1>0, <2>1, <2>5, EndKept
  <2>7. VideoControl'
    BY <1>4, FailsControl
  <2>8. QED
    BY <1>1, <2>3, <2>4, <2>6, <2>7 DEF EndInv
<1>5. ASSUME pkt.stream = "eof", pc # "read", Section2 # "audio"
      PROVE  done.audio \/ ~HasAudio \/ passno = 1
  <2>1. HasAudio => eos.audio
    BY <1>0, <1>5 DEF VideoControl
  <2>2. ~EnterAudio(pkt, eos.audio)
    BY <1>5 DEF Section2
  <2>3. QED
    BY <2>1, <2>2, SectionPassed
<1>6. CASE EncodeTurn
  <2>1. PICK d \in DecodeVideo : EncodeStep(d)
    BY <1>6, EncodeTurnIs
  <2>2. CallOrder' /\ FlagsRight' /\ VideoControl'
    BY <1>0, <2>1, EncodeCalls, EncodeFlags, EncodeControl
  <2>3. /\ UNCHANGED <<job, passno, sample_count, audio>>
        /\ pkt'.stream = pkt.stream /\ done'.audio = done.audio /\ pc = "video"
        /\ pc' = IF d.frame = 0 THEN Section2 ELSE "video"
    BY <1>0, <2>1 DEF EncodeStep, VideoOpen, TypeOK
  <2>4. Section2 \in {"audio", "flush"}
    BY DEF Section2
  <2>5. AudioEnd'
    BY <1>0, <1>5, <2>3, <2>4, EndKept
  <2>6. QED
    BY <1>1, <2>2, <2>5 DEF EndInv
<1>7. CASE DropFrame \/ LeaveVideo \/ AudioError \/ LeaveAudio
  <2>1. /\ UNCHANGED <<job, passno, input, eos, done, pkt, buffered, accepted, video, audio,
                       sample_count>>
        /\ pc \in {"video", "audio"} /\ pc' \in {"audio", "flush"}
    BY <1>7 DEF DropFrame, VideoOpen, LeaveVideo, AudioError, AudioOpen, LeaveAudio, Section2, source
  <2>2. pc = "video" => pkt.stream # "eof"
    <3>1. CASE DropFrame
      BY <3>1 DEF DropFrame, Late, Timed
    <3>2. CASE LeaveVideo
      BY <1>0, <3>2 DEF LeaveVideo, VideoOpen, VideoControl
    <3>3. QED
      BY <1>7, <3>1, <3>2 DEF AudioError, AudioOpen, LeaveAudio
  <2>3. CallOrder'
    BY <1>0, <2>1, CallsKept
  <2>4. FlagsRight' /\ VideoControl'
    BY <1>0, <2>1, <2>2, FlagsKept, TurnKept
  <2>5. pkt.stream = "eof" => done.audio \/ ~HasAudio \/ passno = 1
    <3>1. CASE AudioError
      BY <1>0, <3>1 DEF AudioError, SyncInv
    <3>2. CASE LeaveAudio
      BY <1>0, <3>2 DEF LeaveAudio, AudioOpen, VideoControl
    <3>3. QED
      BY <1>7, <2>2, <3>1, <3>2 DEF DropFrame, VideoOpen, LeaveVideo
  <2>6. AudioEnd'
    BY <1>0, <2>1, <2>5, EndKept
  <2>7. QED
    BY <1>1, <2>3, <2>4, <2>6 DEF EndInv
<1>8. CASE AudioTurn
  <2>1. PICK d \in DecodeAudio : AudioStep(d)
    BY <1>8, AudioTurnIs
  <2>2. /\ UNCHANGED <<job, input, buffered, accepted, video>> /\ pc = "audio"
    BY <1>8 DEF AudioTurn, AudioOpen, source
  <2>3. /\ pkt'.stream = pkt.stream /\ done'.video = done.video /\ eos'.video = eos.video
        /\ eos'.audio = Ends(d) /\ pc' \in {"audio", "flush"}
    BY <1>0, <2>1 DEF AudioStep, TypeOK
  <2>4. CallOrder'
    BY <1>0, <2>2, CallsKept
  <2>5. FlagsRight'
    BY <1>0, <2>2, <2>3, FlagsKept
  <2>6. VideoControl'
    BY <1>0, <2>2, <2>3, TurnKept DEF Ends
  <2>7. AudioEnd'
    BY <1>8, <2>1, TurnEnd
  <2>8. QED
    BY <1>1, <2>4, <2>5, <2>6, <2>7 DEF EndInv
<1>9. CASE Flush
  <2>1. /\ UNCHANGED <<job, passno, input, eos, done, pkt, buffered, accepted, video, audio,
                       sample_count>>
        /\ pc = "flush"
        /\ pc' = IF pkt.stream # "eof" /\ ~(done.audio /\ done.video) THEN "read" ELSE "done"
    BY <1>9 DEF Flush, source
  <2>2. CallOrder'
    BY <1>0, <2>1, CallsKept
  <2>3. FlagsRight'
    BY <1>0, <2>1, FlagsKept
  <2>4. VideoControl'
    BY <1>0, <2>1 DEF VideoControl, HasVideo, HasAudio, Simple, NoEndTime
  <2>5. AudioEnd'
    BY <1>0, <2>1, EndKept
  <2>6. QED
    BY <1>1, <2>2, <2>3, <2>4, <2>5 DEF EndInv
<1>10. CASE NextPass
  BY <1>1, <1>10, NextPassEnd DEF EndInv
<1>11. CASE UNCHANGED vars
  <2>1. UNCHANGED <<job, passno, pc, input, pkt, eos, done, buffered, accepted, video, audio,
                    sample_count>>
    BY <1>11 DEF vars, source
  <2>2. CallOrder' /\ VideoControl'
    BY <1>0, <2>1, CallsKept DEF VideoControl, HasVideo, HasAudio, Simple, NoEndTime
  <2>3. FlagsRight' /\ AudioEnd'
    BY <1>0, <2>1, FlagsKept, EndKept
  <2>4. QED
    BY <1>1, <2>2, <2>3 DEF EndInv
<1>12. QED
  BY <1>2, <1>3, <1>4, <1>6, <1>7, <1>8, <1>9, <1>10, <1>11 DEF Next, Finished

(* The invariant of the whole loop.                                            *)
LEMMA LoopInvariant == Spec => []LoopInv
<1>1. Init => LoopInv
  BY InitTypes, InitSync, InitAudio, InitEnd DEF LoopInv
<1>2. LoopInv /\ [Next]_vars => LoopInv'
  BY StepTypes, StepSync, StepAudio, StepEnd DEF LoopInv
<1>3. QED
  BY <1>1, <1>2, PTL DEF Spec

(* When the loop is left after the end of the input, or when both streams are  *)
(* done, video has been given, if there was any.                               *)
LEMMA DoneMeansGiven ==
    ASSUME LoopInv, pc = "done"
    PROVE  \/ HasVideo /\ done.video
           \/ accepted = << >> /\ FramesOf(video) = {} /\ Len(video) = 0
<1>1. accepted = << >> => FramesOf(video) = {} /\ Len(video) = 0
  <2> SUFFICES ASSUME accepted = << >> PROVE FramesOf(video) = {} /\ Len(video) = 0
    OBVIOUS
  <2>1. PICK n \in {Len(accepted) - 1, Len(accepted)} :
          FramesOf(video) = {accepted[i] : i \in 1 .. n}
    BY DEF LoopInv, EndInv, CallOrder
  <2>2. 1 .. n = {}
    BY <2>1, EmptySeq
  <2>3. FramesOf(video) = {}
    BY <2>1, <2>2
  <2>4. DOMAIN video = {} /\ video \in Seq(Call)
    <3>1. \A i \in DOMAIN video : video[i].frame \in FramesOf(video)
      BY DEF FramesOf
    <3>2. QED
      BY <2>3, <3>1 DEF LoopInv, TypeInv, TypeOK
  <2>5. Len(video) \in Nat /\ 1 .. Len(video) = {}
    BY <2>4, LenProperties
  <2>6. QED
    BY <2>3, <2>5
<1>2. HasVideo => done.video \/ accepted = << >>
  BY DEF LoopInv, EndInv, VideoControl
<1>3. ~HasVideo => accepted = << >>
  BY DEF LoopInv, EndInv, VideoControl
<1>4. QED
  BY <1>1, <1>2, <1>3

(* Holding a frame back loses, repeats and reorders none, whatever the packets *)
(* of the input, the delay of the decoder and the corrections for the sync.    *)
THEOREM FramesKeepOrder == Spec => []FramesInOrder
<1>1. LoopInv => FramesInOrder
  <2> SUFFICES ASSUME LoopInv PROVE FramesInOrder
    OBVIOUS
  <2>1. DOMAIN accepted = 1 .. Len(accepted) /\ DOMAIN video = 1 .. Len(video)
    BY LenProperties DEF LoopInv, TypeInv, TypeOK
  <2>2. \A i, j \in DOMAIN accepted : i < j => accepted[i] < accepted[j]
    BY <2>1 DEF LoopInv, EndInv, FrameOrder, Rising
  <2>3. \A i, j \in DOMAIN video : i < j => video[i].frame <= video[j].frame
    BY <2>1 DEF LoopInv, EndInv, CallOrder
  <2>4. \E n \in {Len(accepted) - 1, Len(accepted)} :
          FramesOf(video) = {accepted[i] : i \in 1 .. n}
    BY DEF LoopInv, EndInv, CallOrder
  <2>5. ASSUME pc = "done", NoEndTime, job.delay = 0
        PROVE  FramesOf(video) = {accepted[i] : i \in DOMAIN accepted}
    <3>1. CASE HasVideo /\ done.video
      BY <2>1, <2>5, <3>1 DEF LoopInv, EndInv, FlagsRight, Simple, AllGiven
    <3>2. CASE accepted = << >> /\ FramesOf(video) = {}
      <4>1. DOMAIN accepted = {}
        BY <3>2, EmptySeq
      <4>2. QED
        BY <3>2, <4>1
    <3>3. QED
      BY <2>5, <3>1, <3>2, DoneMeansGiven
  <2>6. QED
    BY <2>2, <2>3, <2>4, <2>5 DEF FramesInOrder
<1>2. QED
  BY <1>1, LoopInvariant, PTL

(* No stream is left without its end: the video encoder gets a flagged frame,  *)
(* in the plain case exactly one and as the last, the audio encoder a flagged  *)
(* chunk unless it had exactly as much as was asked for.                       *)
THEOREM EveryStreamEnds == Spec => []StreamsEnded
<1>1. LoopInv => StreamsEnded
  <2> SUFFICES ASSUME LoopInv, pc = "done" 
               PROVE  /\ accepted # << >> => \E i \in DOMAIN video : video[i].e_o_s
                      /\ NoEndTime /\ job.delay = 0 =>
                            \A i \in DOMAIN video : video[i].e_o_s <=> i = Len(video)
                      /\ HasAudio /\ passno # 1 =>
                            \/ audio # << >> /\ audio[Len(audio)].e_o_s
                            \/ job.samples > 0 /\ sample_count = job.samples
    BY DEF StreamsEnded
  <2>1. DOMAIN video = 1 .. Len(video)
    BY LenProperties DEF LoopInv, TypeInv, TypeOK
  <2>2. accepted # << >> => \E i \in DOMAIN video : video[i].e_o_s
    BY <2>1, DoneMeansGiven DEF LoopInv, EndInv, FlagsRight
  <2>3. Simple => \A i \in DOMAIN video : video[i].e_o_s <=> i = Len(video)
    <3>1. CASE HasVideo /\ done.video
      BY <2>1, <3>1 DEF LoopInv, EndInv, FlagsRight
    <3>2. CASE Len(video) = 0
      BY <2>1, <3>2
    <3>3. QED
      BY <3>1, <3>2, DoneMeansGiven
  <2>4. HasAudio /\ passno # 1 => (audio # << >> /\ audio[Len(audio)].e_o_s) \/ Full
    BY DEF LoopInv, EndInv, VideoControl, AudioEnd
  <2>5. QED
    BY <2>2, <2>3, <2>4 DEF Simple, Full
<1>2. QED
  BY <1>1, LoopInvariant, PTL

-----------------------------------------------------------------------------
(* Until the end both passes give the video encoder the same. What a turn does *)
(* to video depends on a part of the state only, the view, and on the input,   *)
(* and audio touches none of that. The first pass leaves a trace of its views, *)
(* and the second goes along it from the start.                                *)

View ==
    [at |-> IF pc = "video" THEN "video" ELSE "between",
     pkt |-> IF pc = "video" THEN pkt ELSE EndOfFile,
     read |-> read, clock |-> clock, synced |-> synced,
     decoder |-> decoder, count |-> decoded.video,
     buffered |-> buffered, frame_count |-> frame_count, pts_offset |-> pts_offset,
     calls |-> video]

(* The view at the start of a pass, for the options j.                         *)
Begin(j) ==
    [at |-> "between", pkt |-> EndOfFile,
     read |-> 0, clock |-> 0, synced |-> ~j.start,
     decoder |-> << >>, count |-> 0,
     buffered |-> [frame |-> 0, dts |-> 0], frame_count |-> 0, pts_offset |-> << >>,
     calls |-> << >>]

(* The last view of a trace: video_eos is set.                                 *)
End(s) == [s EXCEPT !.at = "end"]

(* The view after a packet a.                                                  *)
ClockOf(s, a) == IF a.stream = "video" THEN s.clock + a.step ELSE s.clock

AfterEarly(j, s, a) ==
    LET q    == Append(s.decoder, s.count + 1)
        used == a.stream = "video" /\ ~a.bad
    IN  [at |-> s.at, pkt |-> s.pkt,
         read |-> s.read + 1, clock |-> ClockOf(s, a), synced |-> s.synced,
         decoder |-> IF used THEN IF Len(q) > j.delay THEN Tail(q) ELSE q ELSE s.decoder,
         count |-> IF used THEN s.count + 1 ELSE s.count,
         buffered |-> s.buffered, frame_count |-> s.frame_count, pts_offset |-> s.pts_offset,
         calls |-> s.calls]

AfterPacket(s, a) ==
    [at |-> IF a.stream = "video" THEN "video" ELSE "between",
     pkt |-> IF a.stream = "video"
             THEN [stream |-> a.stream, units |-> a.units, dts |-> s.clock + a.step, bad |-> a.bad]
             ELSE EndOfFile,
     read |-> s.read + 1, clock |-> ClockOf(s, a), synced |-> TRUE,
     decoder |-> s.decoder, count |-> s.count,
     buffered |-> s.buffered, frame_count |-> s.frame_count, pts_offset |-> s.pts_offset,
     calls |-> s.calls]

AfterRead(j, s, a) ==
    IF ~s.synced /\ a.early THEN AfterEarly(j, s, a)
    ELSE IF j.frames > 0 /\ s.frame_count = j.frames THEN End(s)
    ELSE AfterPacket(s, a)

(* What the decoder returns for a packet of video.                             *)
DecodeOf(j, s) ==
    IF s.pkt.bad
    THEN [frame |-> 0, queue |-> s.decoder, units |-> s.pkt.units, count |-> s.count]
    ELSE LET q == Append(s.decoder, s.count + 1)
             full == Len(q) > j.delay
         IN  [frame |-> IF full THEN Head(q) ELSE 0, queue |-> IF full THEN Tail(q) ELSE q,
              units |-> s.pkt.units - 1, count |-> s.count + 1]

(* Timed, Offset, Delta, Late, Dups and Calls in a view.                       *)
TimedOf(j, d) == j.sync /\ d.frame # 0

OffsetOf(j, s, d) ==
    IF TimedOf(j, d) /\ s.pts_offset = << >> THEN <<s.pkt.dts, s.frame_count>> ELSE s.pts_offset

DeltaOf(j, s, d) ==
    (s.pkt.dts - OffsetOf(j, s, d)[1]) - FrameTime * (s.frame_count - OffsetOf(j, s, d)[2])

LateOf(j, s, d) == TimedOf(j, d) /\ 5 * DeltaOf(j, s, d) < -3 * FrameTime

DupsOf(j, s, d) ==
    IF TimedOf(j, d) /\ 2 * DeltaOf(j, s, d) >= 3 * FrameTime
    THEN Rounded(DeltaOf(j, s, d)) - 1 ELSE 0

CallsOf(j, s, d) ==
    IF DupsOf(j, s, d) >= Keyint
    THEN [i \in 1 .. DupsOf(j, s, d) + 1 |->
             [frame |-> s.buffered.frame, shown |-> 1, e_o_s |-> FALSE]]
    ELSE <<[frame |-> s.buffered.frame, shown |-> DupsOf(j, s, d) + 1, e_o_s |-> FALSE]>>

LeftOf(s) ==
    [at |-> "between", pkt |-> EndOfFile,
     read |-> s.read, clock |-> s.clock, synced |-> s.synced,
     decoder |-> s.decoder, count |-> s.count,
     buffered |-> s.buffered, frame_count |-> s.frame_count, pts_offset |-> s.pts_offset,
     calls |-> s.calls]

DroppedOf(s, d) ==
    [at |-> "between", pkt |-> EndOfFile,
     read |-> s.read, clock |-> s.clock, synced |-> s.synced,
     decoder |-> d.queue, count |-> d.count,
     buffered |-> s.buffered, frame_count |-> s.frame_count, pts_offset |-> s.pts_offset,
     calls |-> s.calls]

EncodedOf(j, s, d) ==
    LET given == s.buffered.frame # 0 /\ d.frame # 0
    IN  [at |-> IF d.frame = 0 THEN "between" ELSE "video",
         pkt |-> IF d.frame = 0 THEN EndOfFile ELSE [s.pkt EXCEPT !.units = d.units],
         read |-> s.read, clock |-> s.clock, synced |-> s.synced,
         decoder |-> d.queue, count |-> d.count,
         buffered |-> IF d.frame # 0 THEN [frame |-> d.frame, dts |-> s.pkt.dts] ELSE s.buffered,
         frame_count |-> IF given THEN s.frame_count + DupsOf(j, s, d) + 1 ELSE s.frame_count,
         pts_offset |-> OffsetOf(j, s, d),
         calls |-> IF given THEN s.calls \o CallsOf(j, s, d) ELSE s.calls]

AfterTurn(j, s) ==
    IF s.pkt.units = 0 THEN LeftOf(s)
    ELSE IF LateOf(j, s, DecodeOf(j, s)) THEN DroppedOf(s, DecodeOf(j, s))
    ELSE EncodedOf(j, s, DecodeOf(j, s))

(* The view after s, for the packets that in is known to have.                 *)
After(j, in, s) ==
    IF s.at = "video" THEN AfterTurn(j, s)
    ELSE IF s.read < Len(in) THEN AfterRead(j, s, in[s.read + 1])
    ELSE End(s)

-----------------------------------------------------------------------------
(* Video is not done before its end, and a pass reads what the input has.      *)
Unended(calls) == \A k \in 1 .. Len(calls) : ~calls[k].e_o_s

PassControl ==
    passno # 0 =>
        /\ HasVideo
        /\ passno = 1 => read = Len(input)
        /\ ~eos.video => /\ ~done.video
                         /\ pc # "done"
                         /\ pc = "video" => pkt.stream = "video"
                         /\ Unended(video)

(* The parts of the view.                                                      *)
LEMMA ViewIs ==
    /\ View.at = IF pc = "video" THEN "video" ELSE "between"
    /\ View.pkt = IF pc = "video" THEN pkt ELSE EndOfFile
    /\ View.read = read /\ View.clock = clock /\ View.synced = synced
    /\ View.decoder = decoder /\ View.count = decoded.video
    /\ View.buffered = buffered /\ View.frame_count = frame_count
    /\ View.pts_offset = pts_offset /\ View.calls = video
BY DEF View

(* The decoder returns for a packet of video what the view says.               *)
LEMMA DecodeIs ==
    ASSUME TypeOK, pc = "video", pkt.stream = "video", pkt.units # 0, NEW d \in DecodeVideo
    PROVE  d = DecodeOf(job, View)
<1>1. pkt.units \in Nat /\ pkt.bad \in BOOLEAN
  BY DEF TypeOK
<1>2. View.pkt = pkt /\ View.decoder = decoder /\ View.count = decoded.video
  BY DEF View
<1>3. CASE pkt.bad
  <2>1. d = NoFrame(pkt.units)
    BY <1>1, <1>3 DEF DecodeVideo
  <2>2. QED
    BY <1>2, <1>3, <2>1 DEF NoFrame, DecodeOf
<1>4. CASE ~pkt.bad
  <2> DEFINE q == Append(decoder, decoded.video + 1)
             full == Len(q) > job.delay
  <2>1. d = [frame |-> IF full THEN Head(q) ELSE 0, queue |-> IF full THEN Tail(q) ELSE q,
             units |-> pkt.units - 1, count |-> decoded.video + 1]
    BY <1>1, <1>4 DEF DecodeVideo
  <2>2. QED
    BY <1>2, <1>4, <2>1 DEF DecodeOf
<1>5. QED
  BY <1>3, <1>4

(* So do the corrections for the sync.                                         *)
LEMMA TimesAre ==
    ASSUME TypeOK, pc = "video", pkt.stream = "video", ~eos.video, NEW d
    PROVE  /\ Late(d) <=> LateOf(job, View, d)
           /\ Offset(d) = OffsetOf(job, View, d)
           /\ Dups(d) = DupsOf(job, View, d)
           /\ Calls(d) = CallsOf(job, View, d)
<1>1. /\ View.pkt = pkt /\ View.frame_count = frame_count /\ View.pts_offset = pts_offset
      /\ View.buffered = buffered
  BY DEF View
<1>2. Timed(d) <=> TimedOf(job, d)
  BY DEF Timed, TimedOf
<1>3. Offset(d) = OffsetOf(job, View, d)
  BY <1>1, <1>2 DEF Offset, OffsetOf
<1>4. Delta(d) = DeltaOf(job, View, d)
  BY <1>1, <1>3 DEF Delta, DeltaOf
<1>5. Late(d) <=> LateOf(job, View, d)
  BY <1>2, <1>4 DEF Late, LateOf
<1>6. Dups(d) = DupsOf(job, View, d)
  BY <1>2, <1>4 DEF Dups, DupsOf
<1>7. eos.video = FALSE
  BY DEF TypeOK
<1>8. Calls(d) = CallsOf(job, View, d)
  BY <1>1, <1>6, <1>7 DEF Calls, CallsOf, Submitted
<1>9. QED
  BY <1>3, <1>5, <1>6, <1>8

(* The turns of the video section: there is nothing left in the packet,        *)
LEMMA LeaveIs ==
    ASSUME TypeOK, ~eos.video, LeaveVideo
    PROVE  View' = After(job, input, View)
<1>1. pc = "video" /\ pkt.units = 0 /\ pc' \in {"audio", "flush"}
  BY DEF LeaveVideo, VideoOpen, Section2, TypeOK
<1>2. /\ UNCHANGED <<read, clock, synced, decoder, buffered, frame_count, pts_offset, video>>
      /\ decoded'.video = decoded.video
  BY DEF LeaveVideo, source, coded
<1>3. View' = LeftOf(View)
  BY <1>1, <1>2, ViewIs DEF View, LeftOf
<1>4. View.at = "video" /\ View.pkt = pkt
  BY <1>1 DEF View
<1>5. QED
  BY <1>1, <1>3, <1>4 DEF After, AfterTurn

(* a frame is dropped,                                                         *)
LEMMA DropIs ==
    ASSUME TypeOK, ~eos.video, pkt.stream = "video", DropFrame
    PROVE  View' = After(job, input, View)
<1>1. PICK d \in DecodeVideo :
          Late(d) /\ decoder' = d.queue /\ decoded' = [decoded EXCEPT !.video = d.count]
  BY DEF DropFrame
<1>2. pc = "video" /\ pkt.units # 0 /\ pc' \in {"audio", "flush"}
  BY DEF DropFrame, VideoOpen, Section2, TypeOK
<1>3. UNCHANGED <<read, clock, synced, buffered, frame_count, pts_offset, video>>
  BY DEF DropFrame, source, coded
<1>4. decoded'.video = d.count
  BY <1>1 DEF TypeOK
<1>5. View' = DroppedOf(View, d)
  BY <1>1, <1>2, <1>3, <1>4, ViewIs DEF View, DroppedOf
<1>6. View.at = "video" /\ View.pkt = pkt
  BY <1>2 DEF View
<1>7. d = DecodeOf(job, View) /\ LateOf(job, View, d)
  BY <1>1, <1>2, DecodeIs, TimesAre
<1>8. QED
  BY <1>2, <1>5, <1>6, <1>7 DEF After, AfterTurn

(* or one is held back or encoded.                                             *)
LEMMA EncodeIs ==
    ASSUME TypeOK, ~eos.video, pkt.stream = "video", EncodeTurn
    PROVE  View' = After(job, input, View)
<1>1. PICK d \in DecodeVideo :
          /\ ~Late(d)
          /\ decoder' = d.queue /\ decoded' = [decoded EXCEPT !.video = d.count]
          /\ pkt' = [pkt EXCEPT !.units = d.units]
          /\ pts_offset' = Offset(d)
          /\ IF buffered.frame # 0 /\ (d.frame # 0 \/ eos.video)
             THEN /\ video' = video \o Calls(d)
                  /\ frame_count' = frame_count + Dups(d) + 1
             ELSE UNCHANGED <<video, frame_count>>
          /\ IF d.frame # 0 THEN buffered' = [frame |-> d.frame, dts |-> pkt.dts]
             ELSE UNCHANGED buffered
          /\ pc' = IF d.frame = 0 THEN Section2 ELSE "video"
  BY DEF EncodeTurn, Breaks
<1>2. /\ pc = "video" /\ pkt.units # 0
      /\ pc' = "video" <=> d.frame # 0
  <2>1. VideoOpen
    BY DEF EncodeTurn
  <2>2. pc = "video" /\ pkt.units # 0
    BY <2>1 DEF VideoOpen, TypeOK
  <2>3. Section2 # "video"
    BY DEF Section2
  <2>4. QED
    BY <1>1, <2>2, <2>3
<1>3. UNCHANGED <<read, clock, synced>>
  BY DEF EncodeTurn, source
<1>4. decoded'.video = d.count
  BY <1>1 DEF TypeOK
<1>5. View.at = "video" /\ View.pkt = pkt /\ View.buffered = buffered
  BY <1>2 DEF View
<1>6. /\ d = DecodeOf(job, View) /\ ~LateOf(job, View, d)
      /\ pts_offset' = OffsetOf(job, View, d)
      /\ Dups(d) = DupsOf(job, View, d) /\ Calls(d) = CallsOf(job, View, d)
  BY <1>1, <1>2, DecodeIs, TimesAre
<1>7. /\ frame_count' = IF buffered.frame # 0 /\ d.frame # 0
                        THEN frame_count + DupsOf(job, View, d) + 1 ELSE frame_count
      /\ video' = IF buffered.frame # 0 /\ d.frame # 0
                  THEN video \o CallsOf(job, View, d) ELSE video
      /\ buffered' = IF d.frame # 0 THEN [frame |-> d.frame, dts |-> pkt.dts] ELSE buffered
  BY <1>1, <1>6
<1>8. View' = EncodedOf(job, View, d)
  <2>1. View' = [at |-> IF d.frame = 0 THEN "between" ELSE "video",
                 pkt |-> IF d.frame = 0 THEN EndOfFile ELSE [pkt EXCEPT !.units = d.units],
                 read |-> read, clock |-> clock, synced |-> synced,
                 decoder |-> d.queue, count |-> d.count,
                 buffered |-> buffered', frame_count |-> frame_count', pts_offset |-> pts_offset',
                 calls |-> video']
    BY <1>1, <1>2, <1>3, <1>4 DEF View
  <2>2. QED
    BY <1>2, <1>5, <1>6, <1>7, <2>1, ViewIs DEF EncodedOf
<1>9. QED
  BY <1>2, <1>5, <1>6, <1>8 DEF After, AfterTurn

(* The input after a step: what was known of it stays, and nothing is added    *)
(* once its end was seen.                                                      *)
Longer(in, out) == Len(in) <= Len(out) /\ \A i \in 1 .. Len(in) : out[i] = in[i]

Grows == Longer(input, input') /\ (whole => whole' /\ input' = input)

(* What begins the beginning begins the whole.                                 *)
LEMMA LongerThan ==
    ASSUME NEW a \in Seq(Call), NEW b \in Seq(Call), NEW c \in Seq(Call), Longer(a, b), Longer(b, c)
    PROVE  Longer(a, c)
<1>1. Len(a) \in Nat /\ Len(b) \in Nat /\ Len(c) \in Nat
  BY LenProperties
<1>2. \A i \in 1 .. Len(a) : i \in 1 .. Len(b)
  BY <1>1 DEF Longer
<1>3. QED
  BY <1>1, <1>2 DEF Longer

(* A packet, as it stands in the input afterwards.                             *)
LEMMA PacketRead ==
    ASSUME TypeOK, PassControl, passno # 0, NEW a \in Arrivals, Read(a),
           passno = 2 => read < Len(input)
    PROVE  /\ read < Len(input') /\ input'[read + 1] = a
           /\ Grows
           /\ passno = 1 => read' = Len(input')
<1>1. input \in Seq(Arrival) /\ Len(input) \in Nat /\ read \in Nat /\ passno \in {1, 2}
  BY LenProperties DEF TypeOK
<1>2. a \in Arrival
  BY ReadTypes
<1>3. CASE passno = 1
  <2>1. read = Len(input) /\ input' = Append(input, a) /\ read' = read + 1
    BY <1>3 DEF PassControl, Read
  <2>2. /\ Len(input') = Len(input) + 1 /\ input'[Len(input) + 1] = a
        /\ \A i \in 1 .. Len(input) : input'[i] = input[i]
    BY <1>1, <1>2, <2>1, AppendProperties
  <2>3. ~whole
    BY <1>1, <2>1 DEF Arrivals
  <2>4. QED
    BY <1>1, <1>3, <2>1, <2>2, <2>3 DEF Longer, Grows
<1>4. CASE passno = 2
  <2>1. input' = input /\ whole' = whole /\ read < Len(input) /\ a = input[read + 1]
    BY <1>4 DEF Read, Arrivals
  <2>2. QED
    BY <1>1, <1>4, <2>1 DEF Longer, Grows
<1>5. QED
  BY <1>1, <1>3, <1>4

(* The view moves on, or video_eos is set.                                     *)
Moves ==
    /\ IF eos'.video THEN After(job, input', View) = End(View) /\ video' = video
       ELSE View' = After(job, input', View)
    /\ View.at = "between" => read < Len(input') \/ whole'

(* A packet before the start time.                                             *)
LEMMA EarlyMoves ==
    ASSUME TypeOK, PassControl, passno # 0, ~eos.video, ReadEarly,
           passno = 2 => read < Len(input)
    PROVE  Moves
<1>1. PICK a \in Arrivals :
          /\ ~synced /\ a.early
          /\ Read(a)
          /\ IF a.stream = "video" /\ ~a.bad
             THEN /\ decoded' = [decoded EXCEPT !.video = @ + 1]
                  /\ LET q == Append(decoder, decoded.video + 1)
                     IN  decoder' = IF Len(q) > job.delay THEN Tail(q) ELSE q
             ELSE UNCHANGED <<decoded, decoder>>
  BY DEF ReadEarly
<1>2. /\ pc = "read" /\ pc' = "read" /\ eos' = eos
      /\ UNCHANGED <<synced, buffered, frame_count, pts_offset, video>>
  BY DEF ReadEarly, coded
<1>3. read < Len(input') /\ input'[read + 1] = a
  BY <1>1, PacketRead
<1>4. read' = read + 1 /\ clock' = ClockOf(View, a)
  BY <1>1, ViewIs DEF Read, ClockOf
<1>5. /\ decoded'.video = IF a.stream = "video" /\ ~a.bad THEN decoded.video + 1 ELSE decoded.video
      /\ LET q == Append(decoder, decoded.video + 1)
         IN  decoder' = IF a.stream = "video" /\ ~a.bad
                        THEN IF Len(q) > job.delay THEN Tail(q) ELSE q ELSE decoder
  BY <1>1 DEF TypeOK
<1>6. View' = AfterEarly(job, View, a)
  <2>1. View' = [at |-> "between", pkt |-> EndOfFile,
                 read |-> read + 1, clock |-> clock', synced |-> synced,
                 decoder |-> decoder', count |-> decoded'.video,
                 buffered |-> buffered, frame_count |-> frame_count, pts_offset |-> pts_offset,
                 calls |-> video]
    BY <1>2, <1>4 DEF View
  <2>2. View.at = "between" /\ View.pkt = EndOfFile
    BY <1>2, ViewIs
  <2>3. QED
    BY <1>4, <1>5, <2>1, <2>2, ViewIs DEF AfterEarly
<1>7. After(job, input', View) = AfterEarly(job, View, a)
  BY <1>1, <1>2, <1>3, ViewIs DEF After, AfterRead
<1>8. QED
  BY <1>2, <1>3, <1>4, <1>6, <1>7 DEF Moves

(* A packet; the end time is looked at first.                                  *)
LEMMA PacketMoves ==
    ASSUME TypeOK, PassControl, passno # 0, ~eos.video, ReadPacket,
           passno = 2 => read < Len(input)
    PROVE  Moves
<1>1. PICK a \in Arrivals :
          /\ synced \/ ~a.early
          /\ Read(a)
          /\ pkt' = Packet(a)
          /\ eos' = [eos EXCEPT !.video = @ \/ EndReached]
          /\ pc' = Section(pkt', eos')
  BY DEF ReadPacket
<1>2. /\ pc = "read" /\ synced' = TRUE
      /\ UNCHANGED <<decoder, decoded, buffered, frame_count, pts_offset, video>>
  BY DEF ReadPacket, coded
<1>3. read < Len(input') /\ input'[read + 1] = a
  BY <1>1, PacketRead
<1>4. read' = read + 1 /\ clock' = ClockOf(View, a)
  BY <1>1, ViewIs DEF Read, ClockOf
<1>5. eos'.video <=> EndReached
  BY <1>1 DEF TypeOK
<1>6. After(job, input', View) = AfterRead(job, View, a)
  BY <1>2, <1>3, ViewIs DEF After
<1>7. ~(~View.synced /\ a.early) /\ View.frame_count = frame_count
  BY <1>1, ViewIs
<1>8. CASE EndReached
  <2>1. After(job, input', View) = End(View)
    BY <1>6, <1>7, <1>8 DEF AfterRead, EndReached
  <2>2. QED
    BY <1>2, <1>3, <1>4, <1>5, <1>8, <2>1 DEF Moves
<1>9. CASE ~EndReached
  <2>1. After(job, input', View) = AfterPacket(View, a)
    BY <1>6, <1>7, <1>9 DEF AfterRead, EndReached
  <2>2. pc' = "video" <=> a.stream = "video"
    <3>1. pkt'.stream = a.stream
      BY <1>1 DEF Packet
    <3>2. EnterVideo(pkt', eos'.video) <=> a.stream = "video"
      BY <1>5, <1>9, <3>1 DEF EnterVideo
    <3>3. QED
      BY <1>1, <3>2, SectionIs
  <2>3. View' = [at |-> IF a.stream = "video" THEN "video" ELSE "between",
                 pkt |-> IF a.stream = "video" THEN Packet(a) ELSE EndOfFile,
                 read |-> read + 1, clock |-> clock', synced |-> TRUE,
                 decoder |-> decoder, count |-> decoded.video,
                 buffered |-> buffered, frame_count |-> frame_count, pts_offset |-> pts_offset,
                 calls |-> video]
    BY <1>1, <1>2, <1>4, <2>2 DEF View
  <2>4. View' = AfterPacket(View, a)
    BY <1>4, <2>3, ViewIs DEF AfterPacket, Packet
  <2>5. QED
    BY <1>3, <1>4, <1>5, <1>9, <2>1, <2>4 DEF Moves
<1>10. QED
  BY <1>8, <1>9

(* The end of the input.                                                       *)
LEMMA FailMoves ==
    ASSUME TypeOK, PassControl, passno # 0, ReadFails
    PROVE  Moves
<1>1. /\ pc = "read" /\ read >= Len(input) /\ whole' = TRUE /\ eos'.video = HasVideo
      /\ input' = input /\ video' = video
  BY DEF ReadFails, coded
<1>2. HasVideo
  BY DEF PassControl
<1>3. View.at = "between" /\ View.read = read
  BY <1>1, ViewIs
<1>4. ~(read < Len(input))
  <2>1. read \in Nat /\ Len(input) \in Nat
    BY LenProperties DEF TypeOK
  <2>2. QED
    BY <1>1, <2>1
<1>5. After(job, input', View) = End(View)
  BY <1>1, <1>3, <1>4 DEF After
<1>6. QED
  BY <1>1, <1>2, <1>5 DEF Moves

(* The input only grows, until its end is seen.                                *)
LEMMA StepGrows ==
    ASSUME TypeOK, PassControl, passno # 0, [Next]_vars
    PROVE  Grows
<1>1. /\ input \in Seq(Arrival) /\ Len(input) \in Nat /\ read \in Nat
      /\ passno \in {1, 2} /\ whole \in BOOLEAN
  BY LenProperties DEF TypeOK
<1>2. ASSUME input' = input, whole => whole' PROVE Grows
  BY <1>1, <1>2 DEF Grows, Longer
<1>3. ASSUME NEW a \in Arrivals, Read(a) PROVE Grows
  <2>1. CASE passno = 1
    BY <1>3, <2>1, PacketRead
  <2>2. CASE passno = 2
    BY <1>2, <1>3, <2>2 DEF Read
  <2>3. QED
    BY <1>1, <2>1, <2>2
<1>4. CASE ReadEarly \/ ReadPacket
  BY <1>3, <1>4 DEF ReadEarly, ReadPacket
<1>5. CASE ReadFails
  BY <1>2, <1>5 DEF ReadFails
<1>6. CASE DropFrame \/ EncodeTurn \/ LeaveVideo \/ AudioError \/ AudioTurn \/ LeaveAudio \/ Flush
  <2>1. UNCHANGED source
    BY <1>6 DEF DropFrame, EncodeTurn, LeaveVideo, AudioError, AudioTurn, LeaveAudio, Flush
  <2>2. QED
    BY <1>2, <2>1 DEF source
<1>7. CASE NextPass
  BY <1>2, <1>7 DEF NextPass
<1>8. CASE UNCHANGED vars
  BY <1>2, <1>8 DEF vars, source
<1>9. QED
  BY <1>4, <1>5, <1>6, <1>7, <1>8 DEF Next, Finished

(* Within a pass calls are only added, with video_eos as the flag.             *)
LEMMA CallsGrow ==
    ASSUME TypeOK, [Next]_vars, ~NextPass
    PROVE  Longer(video, video') /\ \A k \in Len(video) + 1 .. Len(video') : video'[k].e_o_s = eos.video
<1>1. video \in Seq(Call) /\ Len(video) \in Nat
  BY LenProperties DEF TypeOK
<1>2. CASE video' = video
  BY <1>1, <1>2 DEF Longer
<1>3. CASE EncodeTurn
  <2>1. PICK d \in DecodeVideo : EncodeStep(d)
    BY <1>3, EncodeTurnIs
  <2>2. CASE buffered.frame # 0 /\ (d.frame # 0 \/ eos.video)
    <3>1. video' = video \o Calls(d)
      BY <2>1, <2>2 DEF EncodeStep
    <3>2. /\ Len(video) \in Nat /\ Len(Calls(d)) \in Nat
          /\ Len(video') = Len(video) + Len(Calls(d))
          /\ \A i \in 1 .. Len(video) : video'[i] = video[i]
          /\ \A i \in Len(video) + 1 .. Len(video') : video'[i].e_o_s = eos.video
      BY <2>2, <3>1, CallsAdded
    <3>3. QED
      BY <3>2 DEF Longer
  <2>3. CASE ~(buffered.frame # 0 /\ (d.frame # 0 \/ eos.video))
    BY <1>2, <2>1, <2>3 DEF EncodeStep
  <2>4. QED
    BY <2>2, <2>3
<1>4. CASE ReadEarly \/ ReadPacket \/ ReadFails
  BY <1>2, <1>4 DEF ReadEarly, ReadPacket, ReadFails, coded
<1>5. CASE DropFrame \/ LeaveVideo \/ AudioError \/ AudioTurn \/ LeaveAudio \/ Flush
  <2>1. UNCHANGED coded
    BY <1>5 DEF DropFrame, LeaveVideo, AudioError, AudioTurn, LeaveAudio, Flush
  <2>2. QED
    BY <1>2, <2>1 DEF coded
<1>6. CASE UNCHANGED vars
  BY <1>2, <1>6 DEF vars, coded
<1>7. QED
  BY <1>3, <1>4, <1>5, <1>6 DEF Next, Finished

(* Until its end a step does nothing to video, or what follows from the view.  *)
LEMMA StepMoves ==
    ASSUME LoopInv, PassControl, passno # 0, ~eos.video, [Next]_vars,
           passno = 2 /\ pc = "read" => read < Len(input) \/ whole
    PROVE  /\ UNCHANGED <<job, passno, pass1>>
           /\ Moves \/ (View' = View /\ ~eos'.video)
<1>1. TypeOK /\ read \in Nat /\ Len(input) \in Nat /\ passno \in {1, 2}
  BY LenProperties DEF LoopInv, TypeInv, TypeOK
<1>2. pc # "done" /\ (pc = "video" => pkt.stream = "video")
  BY DEF PassControl
<1>3. ASSUME ReadEarly \/ ReadPacket PROVE passno = 2 => read < Len(input)
  <2>1. pc = "read" /\ Arrivals # {}
    BY <1>3 DEF ReadEarly, ReadPacket
  <2>2. QED
    BY <2>1 DEF Arrivals
<1>4. CASE ReadEarly
  BY <1>1, <1>3, <1>4, EarlyMoves DEF ReadEarly, fixed
<1>5. CASE ReadPacket
  BY <1>1, <1>3, <1>5, PacketMoves DEF ReadPacket, fixed
<1>6. CASE ReadFails
  BY <1>1, <1>6, FailMoves DEF ReadFails, fixed
<1>7. CASE DropFrame \/ EncodeTurn \/ LeaveVideo
  <2>1. pc = "video" /\ UNCHANGED <<fixed, source, eos>>
    BY <1>7 DEF DropFrame, EncodeTurn, LeaveVideo, VideoOpen
  <2>2. View' = After(job, input, View)
    BY <1>1, <1>2, <1>7, <2>1, DropIs, EncodeIs, LeaveIs
  <2>3. View.at = "video"
    BY <2>1, ViewIs
  <2>4. QED
    BY <2>1, <2>2, <2>3 DEF Moves, fixed, source
<1>8. CASE AudioError \/ AudioTurn \/ LeaveAudio \/ Flush
  <2>1. /\ pc # "video" /\ pc' # "video"
        /\ UNCHANGED <<fixed, source, synced, decoder, coded>>
        /\ decoded'.video = decoded.video /\ eos'.video = eos.video
    <3>1. CASE AudioTurn
      <4>1. PICK d \in DecodeAudio : AudioStep(d)
        BY <3>1, AudioTurnIs
      <4>2. decoded'.video = decoded.video /\ eos'.video = eos.video
        BY <1>1, <3>1, <4>1 DEF AudioTurn, AudioStep, TypeOK
      <4>3. pc' # "video"
        BY <4>1 DEF AudioStep
      <4>4. QED
        BY <3>1, <4>2, <4>3 DEF AudioTurn, AudioOpen
    <3>2. CASE AudioError \/ LeaveAudio
      BY <3>2 DEF AudioError, LeaveAudio, AudioOpen
    <3>3. CASE Flush
      BY <3>3 DEF Flush
    <3>4. QED
      BY <1>8, <3>1, <3>2, <3>3
  <2>2. View' = View
    BY <2>1 DEF View, source, coded
  <2>3. QED
    BY <2>1, <2>2 DEF fixed
<1>9. CASE NextPass
  BY <1>2, <1>9 DEF NextPass
<1>10. CASE UNCHANGED vars
  <2>1. View' = View
    BY <1>10 DEF vars, View, source, coded
  <2>2. QED
    BY <1>10, <2>1 DEF vars, fixed
<1>11. QED
  BY <1>4, <1>5, <1>6, <1>7, <1>8, <1>9, <1>10 DEF Next, Finished

(* Before the end of video it is not done, and the loop is not left.           *)
LEMMA InitPass == Init => PassControl
<1> SUFFICES ASSUME Init, passno # 0 PROVE PassControl
  BY DEF PassControl
<1>1. passno = 1 /\ HasVideo
  BY LoopAssumption DEF Init
<1>2. Len(input) = 0 /\ Len(video) = 0 /\ read = 0 /\ ~done.video /\ pc = "read"
  BY <1>1, EmptySeq DEF Init, DoneAtStart
<1>3. QED
  BY <1>1, <1>2 DEF PassControl, Unended

(* What the passes are about stays the same within them.                       *)
LEMMA WithinPass ==
    ASSUME [Next]_vars, ~NextPass
    PROVE  UNCHANGED <<job, passno, pass1>>
<1>1. UNCHANGED fixed
  BY DEF Next, Finished, vars, ReadEarly, ReadPacket, ReadFails, DropFrame, EncodeTurn, LeaveVideo,
         AudioError, AudioTurn, LeaveAudio, Flush
<1>2. QED
  BY <1>1 DEF fixed

(* The end of video is not taken back.                                         *)
LEMMA EosStays ==
    ASSUME TypeOK, HasVideo, [Next]_vars, ~NextPass, eos.video
    PROVE  eos'.video
<1>1. CASE AudioTurn
  <2>1. PICK d \in DecodeAudio : AudioStep(d)
    BY <1>1, AudioTurnIs
  <2>2. eos' = [eos EXCEPT !.audio = Ends(d)]
    BY <2>1 DEF AudioStep
  <2>3. QED
    BY <2>2 DEF TypeOK
<1>2. CASE ReadPacket
  BY <1>2 DEF ReadPacket, TypeOK
<1>3. CASE ReadFails
  BY <1>3 DEF ReadFails
<1>4. CASE ~(AudioTurn \/ ReadPacket \/ ReadFails)
  <2>1. eos' = eos
    BY <1>4 DEF Next, Finished, vars, ReadEarly, DropFrame, EncodeTurn, LeaveVideo, AudioError,
                LeaveAudio, Flush
  <2>2. QED
    BY <2>1
<1>5. QED
  BY <1>1, <1>2, <1>3, <1>4

(* Every step keeps that.                                                      *)
LEMMA StepPass == LoopInv /\ TypeOK' /\ PassControl /\ [Next]_vars => PassControl'
<1> SUFFICES ASSUME LoopInv, TypeOK', PassControl, [Next]_vars, passno' # 0
             PROVE  PassControl'
  BY DEF PassControl
<1>1. TypeOK /\ VideoControl
  BY DEF LoopInv, EndInv, TypeInv
<1>2. CASE NextPass
  <2>1. passno' = 2 /\ ~done'.video /\ pc' = "read" /\ Len(video') = 0 /\ HasVideo'
    BY <1>2, EmptySeq DEF NextPass, DoneAtStart, PassControl, HasVideo
  <2>2. QED
    BY <2>1 DEF PassControl, Unended
<1>3. CASE ~NextPass
  <2>1. job' = job /\ passno' = passno /\ passno # 0 /\ HasVideo /\ HasVideo'
    <3>1. UNCHANGED <<job, passno>>
      BY <1>3, WithinPass
    <3>2. QED
      BY <3>1 DEF PassControl, HasVideo
  <2>2. ASSUME passno = 1 PROVE read' = Len(input')
    <3>1. CASE ReadEarly \/ ReadPacket
      <4>1. PICK a \in Arrivals : Read(a)
        BY <3>1 DEF ReadEarly, ReadPacket
      <4>2. QED
        BY <1>1, <2>1, <2>2, <4>1, PacketRead
    <3>2. CASE ~(ReadEarly \/ ReadPacket)
      <4>1. read' = read /\ input' = input
        BY <1>3, <3>2 DEF Next, Finished, vars, source, ReadFails, DropFrame, EncodeTurn,
                  LeaveVideo, AudioError, AudioTurn, LeaveAudio, Flush
      <4>2. QED
        BY <2>1, <2>2, <4>1 DEF PassControl
    <3>3. QED
      BY <3>1, <3>2
  <2>3. ASSUME ~eos'.video
        PROVE  /\ ~done'.video /\ pc' # "done" /\ Unended(video')
               /\ pc' = "video" => pkt'.stream = "video"
    <3>1. ~eos.video
      BY <1>1, <1>3, <2>1, <2>3, EosStays
    <3>2. /\ ~done.video /\ pc # "done" /\ Unended(video)
          /\ pc = "video" => pkt.stream = "video"
      BY <2>1, <3>1 DEF PassControl
    <3>3. Unended(video')
      <4>1. /\ Longer(video, video')
            /\ \A k \in Len(video) + 1 .. Len(video') : video'[k].e_o_s = eos.video
        BY <1>1, <1>3, CallsGrow
      <4>2. Len(video) \in Nat
        BY <1>1, LenProperties DEF TypeOK
      <4>3. \A k \in 1 .. Len(video') : k \in 1 .. Len(video) \/ k \in Len(video) + 1 .. Len(video')
        BY <4>2, LenProperties DEF TypeOK
      <4>4. QED
        BY <3>1, <3>2, <4>1, <4>3 DEF Longer, Unended
    <3>4. CASE ReadPacket
      <4>1. done' = done /\ pc' = Section(pkt', eos')
        BY <3>4 DEF ReadPacket
      <4>2. pc' \in {"video", "audio", "flush"} /\ (pc' = "video" => EnterVideo(pkt', eos'.video))
        BY <4>1, SectionTypes, SectionIs
      <4>3. QED
        BY <2>3, <3>2, <3>3, <4>1, <4>2 DEF EnterVideo
    <3>5. CASE ReadFails
      BY <2>1, <2>3, <3>5 DEF ReadFails
    <3>6. CASE EncodeTurn
      <4>1. PICK d \in DecodeVideo : EncodeStep(d)
        BY <3>6, EncodeTurnIs
      <4>2. pc = "video" /\ pkt'.stream = pkt.stream
        BY <1>1, <4>1 DEF EncodeStep, VideoOpen, TypeOK
      <4>3. ~done'.video
        BY <1>1, <3>1, <3>2, <4>1 DEF EncodeStep, TypeOK
      <4>4. pc' # "done"
        BY <4>1 DEF EncodeStep, Section2
      <4>5. QED
        BY <3>2, <3>3, <4>2, <4>3, <4>4
    <3>7. CASE AudioTurn
      <4>1. PICK d \in DecodeAudio : AudioStep(d)
        BY <3>7, AudioTurnIs
      <4>2. done'.video = done.video /\ pc' \in {"flush", "audio"}
        BY <1>1, <4>1 DEF AudioStep, TypeOK
      <4>3. QED
        BY <3>2, <3>3, <4>2
    <3>8. CASE DropFrame \/ LeaveVideo \/ AudioError \/ LeaveAudio
      <4>1. done' = done /\ pc' \in {"flush", "audio"}
        BY <3>8 DEF DropFrame, LeaveVideo, AudioError, LeaveAudio, Section2
      <4>2. QED
        BY <3>2, <3>3, <4>1
    <3>9. CASE Flush
      <4>1. done' = done /\ pc' = "read"
        BY <2>1, <3>1, <3>2, <3>9, <1>1 DEF Flush, VideoControl
      <4>2. QED
        BY <3>2, <3>3, <4>1
    <3>10. CASE ReadEarly \/ UNCHANGED vars
      <4>1. UNCHANGED <<done, pc, pkt>>
        BY <3>10 DEF ReadEarly, vars
      <4>2. QED
        BY <3>2, <3>3, <4>1
    <3>11. QED
      BY <1>3, <3>4, <3>5, <3>6, <3>7, <3>8, <3>9, <3>10 DEF Next, Finished
  <2>4. QED
    BY <2>1, <2>2, <2>3 DEF PassControl
<1>4. QED
  BY <1>2, <1>3

-----------------------------------------------------------------------------
(* The views tr[1] to tr[n] follow each other on the input as far as it is     *)
(* known, and the calls of all of them begin those of the last.                *)
Chain(tr, n) ==
    /\ tr[1] = Begin(job)
    /\ \A i \in 1 .. n : /\ tr[i].read \in Nat /\ tr[i].calls \in Seq(Call)
                         /\ Longer(tr[i].calls, tr[n].calls)
    /\ \A i \in 1 .. n - 1 :
          /\ tr[i].at \in {"video", "between"}
          /\ tr[i].at = "between" => tr[i].read < Len(input) \/ whole
          /\ tr[i + 1] = After(job, input, tr[i])

(* calls, up to the end: b.                                                    *)
Ended(calls, b) ==
    /\ Unended(b)
    /\ Longer(b, calls)
    /\ \A k \in Len(b) + 1 .. Len(calls) : calls[k].e_o_s

Agreed(tr, n) ==
    IF passno = 1
    THEN IF eos.video THEN tr[n].at = "end" /\ Ended(video, tr[n].calls) ELSE tr[n] = View
    ELSE /\ tr[n].at = "end" /\ Ended(pass1, tr[n].calls)
         /\ IF eos.video THEN Ended(video, tr[n].calls) ELSE \E m \in 1 .. n : tr[m] = View

Agree == passno # 0 => \E n \in Nat \ {0} : \E tr : Chain(tr, n) /\ Agreed(tr, n)

(* The next view does not depend on what else becomes known of the input.      *)
LEMMA AfterLonger ==
    ASSUME NEW j, NEW in \in Seq(Arrival), NEW out \in Seq(Arrival), NEW s, s.read \in Nat,
           Longer(in, out), s.at \in {"video", "between"},
           s.at = "between" => s.read < Len(in) \/ out = in
    PROVE  After(j, out, s) = After(j, in, s)
<1>1. CASE s.at = "video"
  BY <1>1 DEF After
<1>2. CASE s.at = "between" /\ s.read < Len(in)
  <2>1. Len(in) \in Nat /\ Len(out) \in Nat
    BY LenProperties
  <2>2. s.read < Len(out) /\ s.read + 1 \in 1 .. Len(in) /\ out[s.read + 1] = in[s.read + 1]
    BY <1>2, <2>1 DEF Longer
  <2>3. QED
    BY <1>2, <2>2 DEF After
<1>3. CASE s.at = "between" /\ out = in
  BY <1>3
<1>4. QED
  BY <1>1, <1>2, <1>3

(* So a trace stays one.                                                       *)
LEMMA ChainGrows ==
    ASSUME TypeOK, TypeOK', job' = job, Grows, NEW n \in Nat \ {0}, NEW tr, Chain(tr, n)
    PROVE  Chain(tr, n)'
<1>1. /\ input \in Seq(Arrival) /\ input' \in Seq(Arrival)
      /\ Len(input) \in Nat /\ Len(input') \in Nat
  BY LenProperties DEF TypeOK
<1>2. ASSUME NEW i \in 1 .. n - 1
      PROVE  /\ tr[i].at = "between" => tr[i].read < Len(input') \/ whole'
             /\ tr[i + 1] = After(job, input', tr[i])
  <2>1. /\ tr[i].at \in {"video", "between"} /\ tr[i].read \in Nat
        /\ tr[i].at = "between" => tr[i].read < Len(input) \/ whole
        /\ tr[i + 1] = After(job, input, tr[i])
    BY DEF Chain
  <2>2. /\ tr[i].at = "between" => tr[i].read < Len(input') \/ whole'
        /\ tr[i].at = "between" => tr[i].read < Len(input) \/ input' = input
    BY <1>1, <2>1 DEF Grows, Longer
  <2>3. After(job, input', tr[i]) = After(job, input, tr[i])
    BY <1>1, <2>1, <2>2, AfterLonger DEF Grows
  <2>4. QED
    BY <2>1, <2>2, <2>3
<1>3. QED
  BY <1>2 DEF Chain

(* In the first pass the next view is added to the trace.                      *)
LEMMA ChainMoves ==
    ASSUME TypeOK, TypeOK', job' = job, Grows, Moves, Longer(video, video'),
           NEW n \in Nat \ {0}, NEW tr, Chain(tr, n), tr[n] = View
    PROVE  \E n2 \in Nat \ {0} : \E tr2 :
              Chain(tr2, n2)' /\ tr2[n2] = IF eos'.video THEN End(View) ELSE View'
<1>s. PICK s : s = IF eos'.video THEN End(View) ELSE View'
  OBVIOUS
<1>t. PICK tr2 : tr2 = [i \in 1 .. n + 1 |-> IF i \in 1 .. n THEN tr[i] ELSE s]
  OBVIOUS
<1>1. Chain(tr, n)'
  BY ChainGrows
<1>2. /\ \A i \in 1 .. n : tr2[i] = tr[i]
      /\ tr2[n + 1] = s
  BY <1>t
<1>3. s.read \in Nat /\ s.calls \in Seq(Call) /\ s.calls = video'
  <2>1. CASE eos'.video
    <3>1. s.read = read /\ s.calls = video /\ video' = video
      BY <1>s, <2>1 DEF End, View, Moves
    <3>2. QED
      BY <3>1 DEF TypeOK
  <2>2. CASE ~eos'.video
    <3>1. s.read = read' /\ s.calls = video'
      BY <1>s, <2>2 DEF View
    <3>2. QED
      BY <3>1 DEF TypeOK
  <2>3. QED
    BY <2>1, <2>2
<1>4. s = After(job, input', View)
  BY <1>s DEF Moves
<1>5. View.at \in {"video", "between"} /\ View.calls = video /\ View.read = read
  BY ViewIs
<1>6. tr2[1] = Begin(job)
  BY <1>2 DEF Chain
<1>7. ASSUME NEW i \in 1 .. n + 1
      PROVE  /\ tr2[i].read \in Nat /\ tr2[i].calls \in Seq(Call)
             /\ Longer(tr2[i].calls, tr2[n + 1].calls)
  <2>1. CASE i \in 1 .. n
    <3>1. /\ tr2[i] = tr[i] /\ tr[i].read \in Nat /\ tr[i].calls \in Seq(Call)
          /\ Longer(tr[i].calls, video)
      BY <1>2, <1>5, <2>1 DEF Chain
    <3>2. Longer(tr[i].calls, video')
      BY <3>1, LongerThan DEF TypeOK
    <3>3. QED
      BY <1>2, <1>3, <3>1, <3>2
  <2>2. CASE i = n + 1
    <3>1. Len(video') \in Nat
      BY LenProperties DEF TypeOK
    <3>2. QED
      BY <1>2, <1>3, <2>2, <3>1 DEF Longer
  <2>3. QED
    BY <2>1, <2>2
<1>8. ASSUME NEW i \in 1 .. n
      PROVE  /\ tr2[i].at \in {"video", "between"}
             /\ tr2[i].at = "between" => tr2[i].read < Len(input') \/ whole'
             /\ tr2[i + 1] = After(job, input', tr2[i])
  <2>1. CASE i \in 1 .. n - 1
    <3>1. tr2[i] = tr[i] /\ tr2[i + 1] = tr[i + 1]
      BY <1>2, <2>1
    <3>2. QED
      BY <1>1, <2>1, <3>1 DEF Chain
  <2>2. CASE i = n
    <3>1. tr2[i] = View /\ tr2[i + 1] = s
      BY <1>2, <2>2
    <3>2. QED
      BY <1>4, <1>5, <3>1 DEF Moves
  <2>3. QED
    BY <2>1, <2>2
<1>9. Chain(tr2, n + 1)'
  <2>1. \A i \in 1 .. (n + 1) - 1 : i \in 1 .. n
    OBVIOUS
  <2>2. QED
    BY <1>6, <1>7, <1>8, <2>1 DEF Chain
<1>10. n + 1 \in Nat \ {0} /\ tr2[n + 1] = IF eos'.video THEN End(View) ELSE View'
  BY <1>2, <1>s
<1>11. QED
  BY <1>9, <1>10

(* After the end only flagged calls follow.                                    *)
LEMMA EndedGrows ==
    ASSUME TypeOK, TypeOK', eos.video, NEW b \in Seq(Call), Ended(video, b), Longer(video, video'),
           \A k \in Len(video) + 1 .. Len(video') : video'[k].e_o_s = eos.video
    PROVE  Ended(video', b)
<1>1. Len(video) \in Nat /\ Len(video') \in Nat /\ Len(b) \in Nat
  BY LenProperties DEF TypeOK
<1>2. Longer(b, video')
  BY <1>1 DEF Ended, Longer
<1>3. ASSUME NEW k \in Len(b) + 1 .. Len(video') PROVE video'[k].e_o_s
  <2>1. k \in Len(b) + 1 .. Len(video) \/ k \in Len(video) + 1 .. Len(video')
    BY <1>1
  <2>2. CASE k \in Len(b) + 1 .. Len(video)
    <3>1. video'[k] = video[k]
      BY <1>1, <2>2 DEF Longer
    <3>2. QED
      BY <2>2, <3>1 DEF Ended
  <2>3. QED
    BY <2>1, <2>2
<1>4. QED
  BY <1>2, <1>3 DEF Ended

(* What was given when video_eos is set.                                       *)
LEMMA EndedNow ==
    ASSUME TypeOK, Unended(video)
    PROVE  Ended(video, video)
<1>1. Len(video) \in Nat
  BY LenProperties DEF TypeOK
<1>2. QED
  BY <1>1 DEF Ended, Longer

(* The trace of the first view.                                                *)
LEMMA InitAgree == Init => Agree
<1> SUFFICES ASSUME Init, passno # 0 PROVE Agree
  BY DEF Agree
<1>1. passno = 1 /\ ~eos.video
  BY LoopAssumption DEF Init
<1>2. View = Begin(job)
  BY DEF Init, View, Begin
<1> DEFINE tr == [i \in {1} |-> Begin(job)]
<1>3. Chain(tr, 1)
  <2>1. tr[1] = Begin(job) /\ Begin(job).read = 0 /\ Begin(job).calls = << >>
    BY DEF Begin
  <2>2. << >> \in Seq(Call) /\ Len(<< >>) = 0
    OBVIOUS
  <2>3. \A i \in 1 .. 1 : i = 1
    OBVIOUS
  <2>4. 1 .. (1 - 1) = {}
    OBVIOUS
  <2> HIDE DEF tr
  <2>5. Longer(tr[1].calls, tr[1].calls)
    BY <2>1, <2>2 DEF Longer
  <2>6. ASSUME NEW i \in 1 .. 1
        PROVE  /\ tr[i].read \in Nat /\ tr[i].calls \in Seq(Call)
               /\ Longer(tr[i].calls, tr[1].calls)
    <3>1. tr[1].read \in Nat /\ tr[1].calls \in Seq(Call) /\ Longer(tr[1].calls, tr[1].calls)
      BY <2>1, <2>2, <2>5
    <3>2. i = 1
      BY <2>3
    <3>3. QED
      BY <3>1, <3>2
  <2>7. QED
    BY <2>1, <2>4, <2>6 DEF Chain
<1>4. Agreed(tr, 1)
  BY <1>1, <1>2 DEF Agreed
<1>5. QED
  BY <1>3, <1>4 DEF Agree

(* The second pass starts where the trace does.                                *)
LEMMA NextAgree ==
    ASSUME LoopInv, TypeOK', PassControl, Agree, NextPass
    PROVE  Agree'
<1>1. /\ passno = 1 /\ passno' = 2 /\ pc = "done" /\ ~eos'.video /\ pass1' = video
      /\ UNCHANGED <<job, input, whole>>
  BY DEF NextPass
<1>2. TypeOK /\ eos.video
  BY <1>1 DEF LoopInv, TypeInv, PassControl
<1>3. PICK n \in Nat \ {0} : \E tr : Chain(tr, n) /\ Agreed(tr, n)
  BY <1>1 DEF Agree
<1>4. PICK tr : Chain(tr, n) /\ Agreed(tr, n)
  BY <1>3
<1>5. tr[n].at = "end" /\ Ended(video, tr[n].calls)
  BY <1>1, <1>2, <1>4 DEF Agreed
<1>6. Chain(tr, n)'
  <2>1. Len(input) \in Nat
    BY <1>2, LenProperties DEF TypeOK
  <2>2. Grows
    BY <1>1, <2>1 DEF Grows, Longer
  <2>3. QED
    BY <1>1, <1>2, <1>4, <2>2, ChainGrows
<1>7. View' = Begin(job)
  <2>1. /\ pc' = "read" /\ read' = 0 /\ clock' = 0 /\ synced' = ~job.start
        /\ decoder' = << >> /\ decoded'.video = 0 /\ buffered' = [frame |-> 0, dts |-> 0]
        /\ frame_count' = 0 /\ pts_offset' = << >> /\ video' = << >>
    BY DEF NextPass, FramesOfPass
  <2>2. QED
    BY <2>1 DEF View, Begin
<1>8. tr[1] = Begin(job)
  BY <1>4 DEF Chain
<1>9. Agreed(tr, n)'
  <2>1. 1 \in 1 .. n
    OBVIOUS
  <2>2. QED
    BY <1>1, <1>5, <1>7, <1>8, <2>1 DEF Agreed
<1>10. QED
  BY <1>6, <1>9 DEF Agree

(* Every step goes along the trace, or adds to it, or comes after its end.     *)
LEMMA StepAgree == LoopInv /\ TypeOK' /\ PassControl /\ Agree /\ [Next]_vars => Agree'
<1> SUFFICES ASSUME LoopInv, TypeOK', PassControl, Agree, [Next]_vars, passno' # 0
             PROVE  Agree'
  BY DEF Agree
<1> SUFFICES ASSUME ~NextPass PROVE Agree'
  BY NextAgree
<1>1. job' = job /\ passno' = passno /\ pass1' = pass1 /\ passno # 0
  BY WithinPass
<1>2. /\ TypeOK /\ Grows /\ Longer(video, video')
      /\ \A k \in Len(video) + 1 .. Len(video') : video'[k].e_o_s = eos.video
  BY <1>1, StepGrows, CallsGrow DEF LoopInv, TypeInv
<1>3. PICK n \in Nat \ {0} : \E tr : Chain(tr, n) /\ Agreed(tr, n)
  BY <1>1 DEF Agree
<1>4. PICK tr : Chain(tr, n) /\ Agreed(tr, n)
  BY <1>3
<1>5. Chain(tr, n)'
  BY <1>1, <1>2, <1>4, ChainGrows
<1>6. n \in 1 .. n /\ tr[n].calls \in Seq(Call)
  BY <1>4 DEF Chain
<1>7. CASE eos.video
  <2>1. eos'.video
    BY <1>1, <1>2, <1>7, EosStays DEF PassControl
  <2>2. Ended(video', tr[n].calls)
    BY <1>2, <1>4, <1>6, <1>7, EndedGrows DEF Agreed
  <2>3. Agreed(tr, n)'
    BY <1>1, <1>4, <1>7, <2>1, <2>2 DEF Agreed
  <2>4. QED
    BY <1>5, <2>3 DEF Agree
<1>8. CASE passno = 1 /\ ~eos.video
  <2>1. tr[n] = View
    BY <1>4, <1>8 DEF Agreed
  <2>2. CASE View' = View /\ ~eos'.video
    <3>1. Agreed(tr, n)'
      BY <1>1, <1>8, <2>1, <2>2 DEF Agreed
    <3>2. QED
      BY <1>5, <3>1 DEF Agree
  <2>3. CASE Moves
    <3>1. PICK n2 \in Nat \ {0} : \E tr2 :
              Chain(tr2, n2)' /\ tr2[n2] = IF eos'.video THEN End(View) ELSE View'
      BY <1>1, <1>2, <1>4, <2>1, <2>3, ChainMoves
    <3>2. PICK tr2 : Chain(tr2, n2)' /\ tr2[n2] = IF eos'.video THEN End(View) ELSE View'
      BY <3>1
    <3>3. CASE eos'.video
      <4>1. tr2[n2].at = "end" /\ tr2[n2].calls = video /\ video' = video
        BY <2>3, <3>2, <3>3 DEF End, View, Moves
      <4>2. Ended(video, video)
        BY <1>1, <1>2, <1>8, EndedNow DEF PassControl
      <4>3. Agreed(tr2, n2)'
        BY <1>1, <1>8, <3>3, <4>1, <4>2 DEF Agreed
      <4>4. QED
        BY <3>2, <4>3 DEF Agree
    <3>4. CASE ~eos'.video
      <4>1. Agreed(tr2, n2)'
        BY <1>1, <1>8, <3>2, <3>4 DEF Agreed
      <4>2. QED
        BY <3>2, <4>1 DEF Agree
    <3>5. QED
      BY <3>3, <3>4
  <2>4. QED
    BY <1>1, <1>8, <2>2, <2>3, StepMoves
<1>9. CASE passno # 1 /\ ~eos.video
  <2>1. PICK m \in 1 .. n : tr[m] = View
    BY <1>4, <1>9 DEF Agreed
  <2>2. tr[n].at = "end" /\ Ended(pass1, tr[n].calls)
    BY <1>4, <1>9 DEF Agreed
  <2>3. View.at # "end" /\ View.read = read /\ View.calls = video
    BY ViewIs
  <2>4. m \in 1 .. n - 1 /\ m + 1 \in 1 .. n
    BY <2>1, <2>2, <2>3
  <2>5. /\ View.at = "between" => read < Len(input) \/ whole
        /\ tr[m + 1] = After(job', input', View)
    <3>1. View.at = "between" => read < Len(input) \/ whole
      BY <1>4, <2>1, <2>3, <2>4 DEF Chain
    <3>2. tr[m + 1] = After(job', input', tr[m])
      BY <1>5, <2>4 DEF Chain
    <3>3. QED
      BY <2>1, <3>1, <3>2
  <2>6. (View' = View /\ ~eos'.video) \/ Moves
    <3>1. pc = "read" => View.at = "between"
      BY ViewIs
    <3>2. QED
      BY <1>1, <1>9, <2>5, <3>1, StepMoves
  <2>7. CASE View' = View /\ ~eos'.video
    <3>1. Agreed(tr, n)'
      BY <1>1, <1>9, <2>1, <2>2, <2>7 DEF Agreed
    <3>2. QED
      BY <1>5, <3>1 DEF Agree
  <2>8. CASE Moves /\ ~eos'.video
    <3>1. tr[m + 1] = View'
      BY <1>1, <2>5, <2>8 DEF Moves
    <3>2. Agreed(tr, n)'
      BY <1>1, <1>9, <2>2, <2>4, <2>8, <3>1 DEF Agreed
    <3>3. QED
      BY <1>5, <3>2 DEF Agree
  <2>9. CASE Moves /\ eos'.video
    <3>1. tr[m + 1] = End(View) /\ video' = video
      BY <1>1, <2>5, <2>9 DEF Moves
    <3>2. tr[m + 1].at = "end" /\ tr[m + 1].calls = video
      BY <3>1 DEF End, View
    <3>3. m + 1 = n
      <4>1. m + 1 \in 1 .. n - 1 => tr[m + 1].at # "end"
        BY <1>4 DEF Chain
      <4>2. QED
        BY <2>4, <3>2, <4>1
    <3>4. Ended(video, video)
      BY <1>1, <1>2, <1>9, EndedNow DEF PassControl
    <3>5. Agreed(tr, n)'
      BY <1>1, <1>9, <2>2, <2>9, <3>1, <3>2, <3>3, <3>4 DEF Agreed
    <3>6. QED
      BY <1>5, <3>5 DEF Agree
  <2>10. QED
    BY <2>6, <2>7, <2>8, <2>9
<1>10. QED
  BY <1>7, <1>8, <1>9

(* Whatever the input, the decoder and the options are: until the end, both    *)
(* passes give the video encoder the same frames, shown equally long.          *)
THEOREM SecondPassAgrees == Spec => []PassesAgree
<1> DEFINE Inv == LoopInv /\ PassControl /\ Agree
<1>1. Spec => []Inv
  <2>1. Init => PassControl /\ Agree
    BY InitPass, InitAgree
  <2>2. LoopInv /\ LoopInv' /\ (PassControl /\ Agree) /\ [Next]_vars => (PassControl /\ Agree)'
    <3>1. LoopInv' => TypeOK'
      BY DEF LoopInv, TypeInv
    <3>2. QED
      BY <3>1, StepPass, StepAgree
  <2>3. QED
    BY <2>1, <2>2, LoopInvariant, PTL DEF Spec
<1>2. Inv => PassesAgree
  <2> SUFFICES ASSUME LoopInv, PassControl, Agree, passno = 2
               PROVE  StandIn(video, pass1) /\ (pc = "done" => StandIn(pass1, video))
    BY DEF PassesAgree
  <2>1. PICK n \in Nat \ {0} : \E tr : Chain(tr, n) /\ Agreed(tr, n)
    BY DEF Agree
  <2>2. PICK tr : Chain(tr, n) /\ Agreed(tr, n)
    BY <2>1
  <2>3. PICK b : b = tr[n].calls
    OBVIOUS
  <2>4. b \in Seq(Call) /\ Ended(pass1, b)
    BY <2>2, <2>3 DEF Chain, Agreed
  <2>5. /\ DOMAIN video = 1 .. Len(video) /\ Len(video) \in Nat
        /\ DOMAIN pass1 = 1 .. Len(pass1) /\ Len(pass1) \in Nat
        /\ Len(b) \in Nat
    BY <2>4, LenProperties DEF LoopInv, TypeInv, TypeOK
  <2>6. CASE eos.video
    <3>1. Ended(video, b)
      BY <2>2, <2>3, <2>6 DEF Agreed
    <3>2. QED
      BY <2>4, <2>5, <3>1 DEF Ended, Longer, StandIn
  <2>7. CASE ~eos.video
    <3>1. PICK m \in 1 .. n : tr[m] = View
      BY <2>2, <2>7 DEF Agreed
    <3>2. Longer(video, b)
      BY <2>2, <2>3, <3>1, ViewIs DEF Chain
    <3>3. pc # "done"
      BY <2>7 DEF PassControl
    <3>4. QED
      BY <2>4, <2>5, <3>2, <3>3 DEF Ended, Longer, StandIn
  <2>8. QED
    BY <2>6, <2>7
<1>3. QED
  BY <1>1, <1>2, PTL
=============================================================================
