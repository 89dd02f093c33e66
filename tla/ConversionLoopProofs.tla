------------------------ MODULE ConversionLoopProofs ------------------------
(***************************************************************************)
(* Proofs about the conversion loop for inputs of any length, any options  *)
(* and any number of frames the video decoder holds back.                  *)
(***************************************************************************)
EXTENDS ConversionLoop, SequenceTheorems, TLAPS

-----------------------------------------------------------------------------
(* Types. *)

(* Clipping never leaves a negative number of samples, because no more than    *)
(* asked for have been counted.                                                *)
WithinEnd == job.samples > 0 => sample_count <= job.samples

TypeInv == TypeOK /\ WithinEnd

Decoding == [frame : Nat, queue : Seq(Nat \ {0}), units : Nat, count : Nat]

(* A queue of frames and what is left behind its first one.                    *)
LEMMA QueueTypes ==
    ASSUME NEW q \in Seq(Nat \ {0}), q # << >>
    PROVE  Head(q) \in Nat \ {0} /\ Tail(q) \in Seq(Nat \ {0})
BY HeadTailProperties

(* What the video decoder returns has its type.                                *)
LEMMA DecodeTypes ==
    ASSUME TypeOK, NEW d \in DecodeVideo
    PROVE  d \in Decoding
<1>1. /\ decoder \in Seq(Nat \ {0}) /\ pkt.units \in Nat /\ decoded.video \in Nat
      /\ job.delay \in Nat /\ pkt.bad \in BOOLEAN
  BY DEF TypeOK, Job
<1>2. \A u \in Nat : NoFrame(u) \in Decoding
  BY <1>1 DEF NoFrame, Decoding
<1>3. CASE pkt.units = 0
  <2>1. CASE job.delay > 0 /\ decoder # << >>
    <3>1. d = [NoFrame(0) EXCEPT !.frame = Head(decoder), !.queue = Tail(decoder)]
      BY <1>3, <2>1 DEF DecodeVideo
    <3>2. Head(decoder) \in Nat \ {0} /\ Tail(decoder) \in Seq(Nat \ {0})
      BY <1>1, <2>1, QueueTypes
    <3>3. QED
      BY <1>1, <3>1, <3>2 DEF NoFrame, Decoding
  <2>2. CASE ~(job.delay > 0 /\ decoder # << >>)
    <3>1. d = NoFrame(0)
      BY <1>3, <2>2 DEF DecodeVideo
    <3>2. QED
      BY <1>2, <3>1
  <2>3. QED
    BY <2>1, <2>2
<1>4. CASE pkt.units > 0 /\ pkt.bad
  <2>1. d = NoFrame(pkt.units)
    BY <1>4 DEF DecodeVideo
  <2>2. QED
    BY <1>1, <1>2, <2>1
<1>5. CASE pkt.units > 0 /\ ~pkt.bad /\ pkt.stream = "video"
  <2> DEFINE q == Append(decoder, decoded.video + 1)
             full == Len(q) > job.delay
  <2>1. q \in Seq(Nat \ {0}) /\ q # << >>
    BY <1>1, AppendProperties
  <2>2. Head(q) \in Nat \ {0} /\ Tail(q) \in Seq(Nat \ {0})
    BY <2>1, QueueTypes
  <2>3. d = [frame |-> IF full THEN Head(q) ELSE 0, queue |-> IF full THEN Tail(q) ELSE q,
             units |-> pkt.units - 1, count |-> decoded.video + 1]
    BY <1>5 DEF DecodeVideo
  <2> HIDE DEF q, full
  <2>4. QED
    BY <1>1, <1>5, <2>1, <2>2, <2>3, SMTT(20) DEF Decoding
<1>6. CASE pkt.units > 0 /\ ~pkt.bad /\ pkt.stream # "video"
  <2>1. d = NoFrame(pkt.units) \/ d = NoFrame(0)
    BY <1>6 DEF DecodeVideo
  <2>2. QED
    BY <1>1, <1>2, <2>1
<1>7. QED
  BY <1>1, <1>3, <1>4, <1>5, <1>6

(* Division of integers is rounded down.                                       *)
LEMMA Quotient ==
    ASSUME NEW a \in Int, NEW b \in Nat \ {0}
    PROVE  /\ a \div b \in Int
           /\ b * (a \div b) <= a /\ a < b * (a \div b) + b
OBVIOUS

(* A time in frames is at most half a frame off.                               *)
LEMMA RoundedIs ==
    ASSUME NEW time \in Int
    PROVE  /\ Rounded(time) \in Int
           /\ 2 * (FrameTime * Rounded(time)) <= 2 * time + FrameTime
           /\ 2 * time < 2 * (FrameTime * Rounded(time)) + FrameTime
<1>1. FrameTime \in Nat \ {0}
  BY LoopAssumption
<1>2. 2 * time + FrameTime \in Int /\ 2 * FrameTime \in Nat \ {0}
  BY <1>1
<1>3. /\ Rounded(time) \in Int
      /\ (2 * FrameTime) * Rounded(time) <= 2 * time + FrameTime
      /\ 2 * time + FrameTime < (2 * FrameTime) * Rounded(time) + 2 * FrameTime
  BY <1>2, Quotient DEF Rounded
<1>4. \A n \in Int : FrameTime * n \in Int /\ (2 * FrameTime) * n = 2 * (FrameTime * n)
  BY <1>1
<1> DEFINE x == FrameTime * Rounded(time)
<1>5. x \in Int /\ (2 * FrameTime) * Rounded(time) = 2 * x
  BY <1>3, <1>4
<1> HIDE DEF x
<1>6. 2 * x <= 2 * time + FrameTime /\ 2 * time < 2 * x + FrameTime
  BY <1>1, <1>3, <1>5
<1>7. QED
  BY <1>3, <1>6 DEF x

(* A difference of a frame and a half or more is at least one frame.           *)
LEMMA RoundedGap ==
    ASSUME NEW time \in Int, 2 * time >= 3 * FrameTime
    PROVE  Rounded(time) - 1 \in Nat
<1>1. FrameTime \in Nat \ {0}
  BY LoopAssumption
<1>2. Rounded(time) \in Int /\ 2 * time < 2 * (FrameTime * Rounded(time)) + FrameTime
  BY RoundedIs
<1>3. Rounded(time) >= 1
  <2> SUFFICES ASSUME Rounded(time) <= 0 PROVE FALSE
    BY <1>2
  <2>1. FrameTime * Rounded(time) \in Int /\ FrameTime * Rounded(time) <= 0
    BY <1>1, <1>2
  <2> DEFINE x == FrameTime * Rounded(time)
  <2>2. x \in Int /\ x <= 0 /\ 2 * time < 2 * x + FrameTime
    BY <1>2, <2>1
  <2> HIDE DEF x
  <2>3. QED
    BY <1>1, <2>2
<1>4. QED
  BY <1>2, <1>3

(* The times that dropping and repeating frames compares are numbers.          *)
LEMMA DeltaTypes ==
    ASSUME TypeOK, NEW d \in DecodeVideo
    PROVE  /\ Timed(d) => Offset(d) \in Nat \X Nat /\ Delta(d) \in Int
           /\ Offset(d) = << >> \/ Offset(d) \in Nat \X Nat
           /\ Dups(d) \in Nat
<1>1. /\ pkt.dts \in Nat /\ frame_count \in Nat
      /\ pts_offset = << >> \/ pts_offset \in Nat \X Nat
  BY DEF TypeOK
<1>2. Offset(d) = << >> \/ Offset(d) \in Nat \X Nat
  BY <1>1 DEF Offset
<1>3. Timed(d) => Offset(d) \in Nat \X Nat
  BY <1>1 DEF Offset
<1>4. Timed(d) => Offset(d)[1] \in Nat /\ Offset(d)[2] \in Nat
  BY <1>3
<1>5. Timed(d) => Delta(d) \in Int
  BY <1>1, <1>4, LoopAssumption DEF Delta
<1>6. Dups(d) \in Nat
  <2>1. CASE Timed(d) /\ 2 * Delta(d) >= 3 * FrameTime
    <3>1. Delta(d) \in Int /\ Dups(d) = Rounded(Delta(d)) - 1
      BY <1>5, <2>1 DEF Dups
    <3>2. QED
      BY <2>1, <3>1, RoundedGap
  <2>2. CASE ~(Timed(d) /\ 2 * Delta(d) >= 3 * FrameTime)
    BY <2>2 DEF Dups
  <2>3. QED
    BY <2>1, <2>2
<1>7. QED
  BY <1>2, <1>3, <1>5, <1>6

(* The calls a turn makes, one or one per duplicate.                           *)
LEMMA CallTypes ==
    ASSUME TypeOK, NEW d \in DecodeVideo, buffered.frame # 0
    PROVE  Calls(d) \in Seq(Call)
<1>1. buffered.frame \in Nat \ {0} /\ eos.video \in BOOLEAN
  BY DEF TypeOK
<1>2. Dups(d) \in Nat
  BY DeltaTypes
<1>3. \A n \in Nat \ {0} : [frame |-> Submitted(d), shown |-> n, e_o_s |-> eos.video] \in Call
  BY <1>1 DEF Submitted, Call
<1>4. CASE Dups(d) >= Keyint
  <2>1. Calls(d) \in [1 .. Dups(d) + 1 -> Call]
    BY <1>3, <1>4 DEF Calls
  <2>2. Dups(d) + 1 \in Nat
    BY <1>2
  <2>3. QED
    BY <2>1, <2>2
<1>5. CASE ~(Dups(d) >= Keyint)
  <2>1. Calls(d) = <<[frame |-> Submitted(d), shown |-> Dups(d) + 1, e_o_s |-> eos.video]>>
    BY <1>5 DEF Calls
  <2>2. [frame |-> Submitted(d), shown |-> Dups(d) + 1, e_o_s |-> eos.video] \in Call
    BY <1>2, <1>3
  <2>3. QED
    BY <2>1, <2>2
<1>6. QED
  BY <1>4, <1>5

-----------------------------------------------------------------------------
(* Every step preserves the types and the bound on the samples. *)

(* Nothing has been read, decoded or counted at first.                         *)
LEMMA InitTypes == Init => TypeInv
<1> SUFFICES ASSUME Init PROVE TypeInv
  OBVIOUS
<1>1. job \in Job /\ passno \in {0, 1}
  BY LoopAssumption DEF Init
<1>2. WithinEnd
  BY <1>1 DEF Init, WithinEnd, Job
<1>3. dst_nb_samples \in Nat
  BY LoopAssumption DEF Init
<1>4. job.start \in BOOLEAN /\ HasVideo \in BOOLEAN /\ HasAudio \in BOOLEAN
  BY <1>1 DEF Job, HasVideo, HasAudio
<1>5. synced \in BOOLEAN /\ done \in [video : BOOLEAN, audio : BOOLEAN]
  BY <1>4 DEF Init, DoneAtStart
<1>6. pkt \in [stream : {"video", "audio", "other", "eof"}, units : Nat, dts : Nat, bad : BOOLEAN]
  BY DEF Init, EndOfFile
<1>7. /\ input \in Seq(Arrival) /\ decoder \in Seq(Nat \ {0}) /\ accepted \in Seq(Nat \ {0})
      /\ video \in Seq(Call) /\ pass1 \in Seq(Call) /\ audio \in Seq(Chunk)
  <2>1. \A S : << >> \in Seq(S)
    BY EmptySeq
  <2>2. QED
    BY <2>1 DEF Init
<1>8. /\ pc \in {"read", "video", "audio", "flush", "done"}
      /\ whole \in BOOLEAN /\ read \in Nat /\ clock \in Nat
      /\ passno \in 0 .. 2
  <2>1. pc = "read" /\ read = 0 /\ clock = 0
    BY DEF Init
  <2>2. whole \in BOOLEAN
    BY DEF Init
  <2>3. passno \in 0 .. 2
    BY <1>1
  <2>4. QED
    BY <2>1, <2>2, <2>3
<1>9. /\ eos \in [video : BOOLEAN, audio : BOOLEAN]
      /\ decoded \in [video : Nat, audio : Nat] /\ buffered \in [frame : Nat, dts : Nat]
      /\ frame_count \in Nat /\ sample_count \in Nat /\ audio_p \in Nat
  BY <1>1 DEF Init
<1>10. TypeOK
  <2>1. pts_offset = << >>
    BY DEF Init
  <2>2. QED
    BY <1>1, <1>3, <1>5, <1>6, <1>7, <1>8, <1>9, <2>1 DEF TypeOK
<1>11. QED
  BY <1>2, <1>10 DEF TypeInv

(* A packet of the file, new or as the first pass read it.                     *)
LEMMA ReadTypes ==
    ASSUME TypeOK, NEW a \in Arrivals, Read(a)
    PROVE  /\ a \in Arrival
           /\ Packet(a) \in [stream : {"video", "audio", "other", "eof"}, units : Nat,
                             dts : Nat, bad : BOOLEAN]
           /\ read' \in Nat /\ clock' \in Nat /\ input' \in Seq(Arrival) /\ whole' \in BOOLEAN
<1>1. input \in Seq(Arrival) /\ read \in Nat /\ clock \in Nat /\ whole \in BOOLEAN
  BY DEF TypeOK
<1>2. a \in Arrival
  <2>1. CASE read < Len(input)
    <3>1. Len(input) \in Nat /\ read + 1 \in 1 .. Len(input)
      BY <1>1, <2>1, LenProperties
    <3>2. a = input[read + 1]
      BY <2>1 DEF Arrivals
    <3>3. QED
      BY <1>1, <3>1, <3>2, ElementOfSeq
  <2>2. CASE ~(read < Len(input))
    <3>1. a \in InputPackets
      BY <2>2 DEF Arrivals, Packets
    <3>2. QED
      BY <3>1, LoopAssumption
  <2>3. QED
    BY <2>1, <2>2
<1>3. a.step \in Nat /\ a.units \in Nat /\ a.bad \in BOOLEAN
      /\ a.stream \in {"video", "audio", "other"}
  BY <1>2 DEF Arrival
<1>4. Packet(a) \in [stream : {"video", "audio", "other", "eof"}, units : Nat,
                     dts : Nat, bad : BOOLEAN]
  BY <1>1, <1>3 DEF Packet
<1>5. input' \in Seq(Arrival)
  BY <1>1, <1>2, AppendProperties DEF Read
<1>6. QED
  BY <1>1, <1>2, <1>3, <1>4, <1>5 DEF Read

(* What an audio turn leaves of the packet and whether it gets a chunk.        *)
LEMMA AudioTypes ==
    ASSUME TypeOK, NEW d \in DecodeAudio
    PROVE  /\ d \in [got : BOOLEAN, units : Nat]
           /\ \/ /\ d = [got |-> TRUE, units |-> d.units]
                 /\ pkt.stream = "audio" /\ pkt.units > 0
              \/ /\ d = [got |-> FALSE, units |-> 0]
                 /\ ~(pkt.stream = "audio" /\ pkt.units > 0)
<1>1. pkt.units \in Nat
  BY DEF TypeOK
<1>2. CASE pkt.units = 0
  <2>1. d = [got |-> FALSE, units |-> 0]
    BY <1>1, <1>2 DEF DecodeAudio
  <2>2. QED
    BY <1>2, <2>1
<1>3. CASE pkt.units > 0 /\ pkt.stream = "audio" /\ ~pkt.bad
  <2>1. d = [got |-> TRUE, units |-> pkt.units - 1]
    BY <1>3 DEF DecodeAudio
  <2>2. pkt.units - 1 \in Nat
    BY <1>1, <1>3
  <2>3. QED
    BY <1>3, <2>1, <2>2
<1>4. CASE pkt.units > 0 /\ pkt.stream # "audio" /\ ~pkt.bad
  <2>1. d = [got |-> FALSE, units |-> 0]
    BY <1>1, <1>4 DEF DecodeAudio
  <2>2. QED
    BY <1>4, <2>1
<1>5. CASE pkt.units > 0 /\ pkt.bad
  <2>1. DecodeAudio = {}
    BY <1>1, <1>5 DEF DecodeAudio
  <2>2. QED
    BY <2>1
<1>6. QED
  BY <1>1, <1>2, <1>3, <1>4, <1>5

(* Where a turn goes on.                                                       *)
LEMMA SectionTypes ==
    ASSUME NEW p, NEW e
    PROVE  Section(p, e) \in {"video", "audio", "flush"}
<1>1. CASE EnterVideo(p, e.video)
  BY <1>1 DEF Section
<1>2. CASE ~EnterVideo(p, e.video) /\ EnterAudio(p, e.audio)
  BY <1>2 DEF Section
<1>3. CASE ~EnterVideo(p, e.video) /\ ~EnterAudio(p, e.audio)
  BY <1>3 DEF Section
<1>4. QED
  BY <1>1, <1>2, <1>3

(* The names AudioTurn gives to what it computes.                              *)
Samples(d) == IF d.got THEN ChunkSamples ELSE dst_nb_samples
Used(d) == d.got \/ eos.audio
Clip(d) == Used(d) /\ BeyondEnd(Samples(d))
Clipped(d) == IF Clip(d) THEN job.samples - sample_count ELSE Samples(d)
Ends(d) == eos.audio \/ Clip(d)
Gone(d) == Clip(d) /\ Clipped(d) <= 0

AudioStep(d) ==
    /\ decoded' = [decoded EXCEPT !.audio = IF d.got THEN @ + 1 ELSE @]
    /\ pkt' = [pkt EXCEPT !.units = d.units]
    /\ dst_nb_samples' = Clipped(d)
    /\ audio_p' = IF d.got THEN decoded'.audio ELSE audio_p
    /\ eos' = [eos EXCEPT !.audio = Ends(d)]
    /\ IF Used(d) /\ ~Gone(d)
       THEN /\ audio' = Append(audio, [chunk |-> audio_p', samples |-> Clipped(d), e_o_s |-> Ends(d)])
            /\ sample_count' = sample_count + Clipped(d)
       ELSE UNCHANGED <<audio, sample_count>>
    /\ done' = [done EXCEPT !.audio = @ \/ (Ends(d) /\ ~Gone(d))]
    /\ pc' = IF Gone(d) \/ (Ends(d) /\ d.units = 0) THEN "flush" ELSE "audio"

(* A turn of the audio decoder does what these names say.                      *)
LEMMA AudioTurnIs == AudioTurn => \E d \in DecodeAudio : AudioStep(d)
BY DEF AudioTurn, AudioStep, Samples, Used, Clip, Clipped, Ends, Gone

(* A clipped chunk has what is missing to the end time, and nothing is written *)
(* beyond it.                                                                  *)
ClipFacts(d) ==
    /\ Clipped(d) \in Nat
    /\ Clip(d) => Clipped(d) = job.samples - sample_count /\ job.samples > 0
    /\ ~Clip(d) => Clipped(d) = Samples(d)
    /\ Used(d) /\ job.samples > 0 => sample_count + Clipped(d) <= job.samples

(* Clipping takes no more away than there is.                                  *)
LEMMA ClipNat ==
    ASSUME TypeOK, WithinEnd, NEW d \in DecodeAudio
    PROVE  ClipFacts(d)
<1>1. /\ job.samples \in Nat /\ sample_count \in Nat /\ dst_nb_samples \in Nat
      /\ ChunkSamples \in Nat
  BY LoopAssumption DEF TypeOK, Job
<1>2. Samples(d) \in Nat
  BY <1>1 DEF Samples
<1>3. CASE Clip(d)
  <2>1. job.samples > 0 /\ sample_count + Samples(d) > job.samples
    BY <1>3 DEF Clip, BeyondEnd
  <2>2. Clipped(d) = job.samples - sample_count
    BY <1>3 DEF Clipped
  <2>3. QED
    BY <1>1, <1>3, <2>1, <2>2 DEF ClipFacts, WithinEnd
<1>4. CASE ~Clip(d)
  <2>1. Clipped(d) = Samples(d)
    BY <1>4 DEF Clipped
  <2>2. Used(d) /\ job.samples > 0 => ~(sample_count + Samples(d) > job.samples)
    BY <1>4 DEF Clip, BeyondEnd
  <2>3. QED
    BY <1>1, <1>2, <1>4, <2>1, <2>2 DEF ClipFacts
<1>5. QED
  BY <1>3, <1>4

(* Every action keeps the types.                                               *)
LEMMA StepTypes == TypeInv /\ [Next]_vars => TypeInv'
<1> SUFFICES ASSUME TypeInv, [Next]_vars PROVE TypeInv'
  OBVIOUS
<1> USE DEF fixed, source, coded, sounded
<1>0. TypeOK /\ WithinEnd
  BY DEF TypeInv
<1>1. CASE ReadEarly
  <2>1. PICK a \in Arrivals :
          /\ Read(a)
          /\ IF a.stream = "video" /\ ~a.bad
             THEN /\ decoded' = [decoded EXCEPT !.video = @ + 1]
                  /\ LET q == Append(decoder, decoded.video + 1)
                     IN  decoder' = IF Len(q) > job.delay THEN Tail(q) ELSE q
             ELSE UNCHANGED <<decoded, decoder>>
    BY <1>1 DEF ReadEarly
  <2>2. read' \in Nat /\ clock' \in Nat /\ input' \in Seq(Arrival) /\ whole' \in BOOLEAN
    BY <1>0, <2>1, ReadTypes
  <2>3. decoded' \in [video : Nat, audio : Nat] /\ decoder' \in Seq(Nat \ {0})
    <3> DEFINE q == Append(decoder, decoded.video + 1)
    <3>1. decoder \in Seq(Nat \ {0}) /\ decoded \in [video : Nat, audio : Nat]
      BY <1>0 DEF TypeOK
    <3>2. q \in Seq(Nat \ {0}) /\ q # << >>
      BY <3>1, AppendProperties
    <3>3. Tail(q) \in Seq(Nat \ {0})
      BY <3>2, QueueTypes
    <3>4. decoder' \in {q, Tail(q), decoder}
      BY <2>1
    <3>5. decoded' \in [video : Nat, audio : Nat]
      BY <2>1, <3>1
    <3> HIDE DEF q
    <3>6. QED
      BY <3>1, <3>2, <3>3, <3>4, <3>5
  <2>4. QED
    BY <1>0, <1>1, <2>2, <2>3 DEF ReadEarly, TypeInv, TypeOK, WithinEnd
<1>2. CASE ReadPacket
  <2>1. PICK a \in Arrivals :
          /\ Read(a)
          /\ pkt' = Packet(a)
          /\ eos' = [eos EXCEPT !.video = @ \/ EndReached]
          /\ pc' = Section(pkt', eos')
    BY <1>2 DEF ReadPacket
  <2>2. /\ read' \in Nat /\ clock' \in Nat /\ input' \in Seq(Arrival) /\ whole' \in BOOLEAN
        /\ pkt' \in [stream : {"video", "audio", "other", "eof"}, units : Nat, dts : Nat, bad : BOOLEAN]
    BY <1>0, <2>1, ReadTypes
  <2>3. pc' \in {"read", "video", "audio", "flush", "done"}
    BY <2>1, SectionTypes
  <2>4. eos' \in [video : BOOLEAN, audio : BOOLEAN]
    <3>1. eos \in [video : BOOLEAN, audio : BOOLEAN]
      BY <1>0 DEF TypeOK
    <3>2. eos' = [video |-> eos.video \/ EndReached, audio |-> eos.audio]
      BY <2>1, <3>1
    <3>3. QED
      BY <3>1, <3>2
  <2>5. QED
    BY <1>0, <1>2, <2>2, <2>3, <2>4 DEF ReadPacket, TypeInv, TypeOK, WithinEnd
<1>3. CASE ReadFails
  <2>1. pc' \in {"read", "video", "audio", "flush", "done"}
    BY <1>3, SectionTypes DEF ReadFails
  <2>2. pkt' \in [stream : {"video", "audio", "other", "eof"}, units : Nat, dts : Nat, bad : BOOLEAN]
    BY <1>3 DEF ReadFails, EndOfFile
  <2>3. eos' \in [video : BOOLEAN, audio : BOOLEAN]
    BY <1>3 DEF ReadFails, HasVideo, HasAudio
  <2>4. QED
    BY <1>0, <1>3, <2>1, <2>2, <2>3 DEF ReadFails, TypeInv, TypeOK, WithinEnd
<1>4. CASE DropFrame
  <2>1. PICK d \in DecodeVideo : decoder' = d.queue /\ decoded' = [decoded EXCEPT !.video = d.count]
    BY <1>4 DEF DropFrame
  <2>2. d \in Decoding
    BY <1>0, DecodeTypes
  <2>3. decoder' \in Seq(Nat \ {0}) /\ decoded' \in [video : Nat, audio : Nat]
    BY <1>0, <2>1, <2>2 DEF Decoding, TypeOK
  <2>4. QED
    BY <1>0, <1>4, <2>3 DEF DropFrame, Section2, TypeInv, TypeOK, WithinEnd
<1>5. CASE EncodeTurn
  <2>1. PICK d \in DecodeVideo :
          /\ decoder' = d.queue /\ decoded' = [decoded EXCEPT !.video = d.count]
          /\ pkt' = [pkt EXCEPT !.units = d.units]
          /\ pts_offset' = Offset(d)
          /\ IF buffered.frame # 0 /\ (d.frame # 0 \/ eos.video)
             THEN /\ video' = video \o Calls(d)
                  /\ frame_count' = frame_count + Dups(d) + 1
                  /\ done' = [done EXCEPT !.video = @ \/ eos.video]
             ELSE UNCHANGED <<video, frame_count, done>>
          /\ IF d.frame # 0
             THEN /\ buffered' = [frame |-> d.frame, dts |-> pkt.dts]
                  /\ accepted' = Append(accepted, d.frame)
             ELSE UNCHANGED <<buffered, accepted>>
          /\ pc' = IF Breaks(d) THEN Section2 ELSE "video"
    BY <1>5 DEF EncodeTurn
  <2>2. d \in Decoding
    BY <1>0, DecodeTypes
  <2>3. decoder' \in Seq(Nat \ {0}) /\ decoded' \in [video : Nat, audio : Nat]
    BY <1>0, <2>1, <2>2 DEF Decoding, TypeOK
  <2>4. pkt' \in [stream : {"video", "audio", "other", "eof"}, units : Nat, dts : Nat, bad : BOOLEAN]
    BY <1>0, <2>1, <2>2 DEF Decoding, TypeOK
  <2>5. pts_offset' = << >> \/ pts_offset' \in Nat \X Nat
    BY <1>0, <2>1, DeltaTypes
  <2>6. video' \in Seq(Call) /\ frame_count' \in Nat
    <3>1. video \in Seq(Call) /\ frame_count \in Nat /\ Dups(d) \in Nat
      BY <1>0, DeltaTypes DEF TypeOK
    <3>2. CASE buffered.frame # 0 /\ (d.frame # 0 \/ eos.video)
      <4>1. Calls(d) \in Seq(Call)
        BY <1>0, <3>2, CallTypes
      <4>2. video' = video \o Calls(d) /\ frame_count' = frame_count + Dups(d) + 1
        BY <2>1, <3>2
      <4>3. video \o Calls(d) \in Seq(Call)
        BY <3>1, <4>1, ConcatProperties
      <4>4. QED
        BY <3>1, <4>2, <4>3
    <3>3. CASE ~(buffered.frame # 0 /\ (d.frame # 0 \/ eos.video))
      BY <2>1, <3>1, <3>3
    <3>4. QED
      BY <3>2, <3>3
  <2>7. done' \in [video : BOOLEAN, audio : BOOLEAN]
    <3>1. done \in [video : BOOLEAN, audio : BOOLEAN] /\ eos \in [video : BOOLEAN, audio : BOOLEAN]
      BY <1>0 DEF TypeOK
    <3>2. done' = [video |-> done.video \/ eos.video, audio |-> done.audio] \/ done' = done
      BY <2>1, <3>1
    <3>3. QED
      BY <3>1, <3>2
  <2>8. buffered' \in [frame : Nat, dts : Nat] /\ accepted' \in Seq(Nat \ {0})
    <3>1. /\ buffered \in [frame : Nat, dts : Nat] /\ accepted \in Seq(Nat \ {0})
          /\ d.frame \in Nat /\ pkt.dts \in Nat
      BY <1>0, <2>2 DEF TypeOK, Decoding
    <3>2. d.frame # 0 => Append(accepted, d.frame) \in Seq(Nat \ {0})
      BY <3>1, AppendProperties
    <3>3. accepted' \in Seq(Nat \ {0})
      BY <2>1, <3>1, <3>2
    <3>4. buffered' \in [frame : Nat, dts : Nat]
      BY <2>1, <3>1
    <3>5. QED
      BY <3>3, <3>4
  <2>9. pc' \in {"read", "video", "audio", "flush", "done"}
    BY <2>1 DEF Section2
  <2>10. QED
    BY <1>0, <1>5, <2>3, <2>4, <2>5, <2>6, <2>7, <2>8, <2>9 DEF EncodeTurn, TypeInv, TypeOK, WithinEnd
<1>6. CASE LeaveVideo
  BY <1>0, <1>6 DEF LeaveVideo, Section2, TypeInv, TypeOK, WithinEnd
<1>7. CASE AudioError
  BY <1>0, <1>7 DEF AudioError, TypeInv, TypeOK, WithinEnd
<1>8. CASE AudioTurn
  <2>1. PICK d \in DecodeAudio : AudioStep(d)
    BY <1>8, AudioTurnIs
  <2>2. ClipFacts(d)
    BY <1>0, <2>1, ClipNat
  <2>3. decoded' \in [video : Nat, audio : Nat]
    <3>1. decoded' = [decoded EXCEPT !.audio = @ + 1] \/ decoded' = [decoded EXCEPT !.audio = @]
      BY <2>1 DEF AudioStep
    <3>2. decoded \in [video : Nat, audio : Nat]
      BY <1>0 DEF TypeOK
    <3>3. QED
      BY <3>1, <3>2
  <2>4. pkt' \in [stream : {"video", "audio", "other", "eof"}, units : Nat, dts : Nat, bad : BOOLEAN]
    <3>1. d.units \in Nat
      BY <1>0, AudioTypes
    <3>2. QED
      BY <1>0, <2>1, <3>1 DEF AudioStep, TypeOK
  <2>5. audio_p' \in Nat
    <3>1. audio_p' = decoded'.audio \/ audio_p' = audio_p
      BY <2>1 DEF AudioStep
    <3>2. QED
      BY <1>0, <2>3, <3>1 DEF TypeOK
  <2>6. Ends(d) \in BOOLEAN
    BY <1>0 DEF TypeOK, Ends, Clip
  <2>7. eos' \in [video : BOOLEAN, audio : BOOLEAN]
    BY <1>0, <2>1, <2>6 DEF AudioStep, TypeOK
  <2>8. done' \in [video : BOOLEAN, audio : BOOLEAN]
    <3>1. done' = [video |-> done.video, audio |-> done.audio \/ (Ends(d) /\ ~Gone(d))]
      BY <1>0, <2>1 DEF AudioStep, TypeOK
    <3>2. done.video \in BOOLEAN
      BY <1>0 DEF TypeOK
    <3>3. QED
      BY <3>1, <3>2
  <2>9. audio' \in Seq(Chunk)
    <3>1. CASE Used(d) /\ ~Gone(d)
      <4>1. [chunk |-> audio_p', samples |-> Clipped(d), e_o_s |-> Ends(d)] \in Chunk
        BY <2>2, <2>5, <2>6 DEF Chunk, ClipFacts
      <4>2. audio \in Seq(Chunk)
        BY <1>0 DEF TypeOK
      <4>3. QED
        BY <2>1, <3>1, <4>1, <4>2, AppendProperties, SMTT(20) DEF AudioStep
    <3>2. CASE ~(Used(d) /\ ~Gone(d))
      BY <1>0, <2>1, <3>2 DEF AudioStep, TypeOK
    <3>3. QED
      BY <3>1, <3>2
  <2>10. sample_count' \in Nat /\ WithinEnd' /\ dst_nb_samples' \in Nat
    <3>1. sample_count' = IF Used(d) /\ ~Gone(d) THEN sample_count + Clipped(d) ELSE sample_count
      BY <2>1 DEF AudioStep
    <3>2. job' = job /\ dst_nb_samples' = Clipped(d) /\ sample_count \in Nat /\ job.samples \in Nat
      BY <1>0, <1>8, <2>1 DEF AudioTurn, AudioStep, TypeOK, Job
    <3>3. QED
      BY <1>0, <2>2, <3>1, <3>2 DEF ClipFacts, WithinEnd
  <2>11. pc' \in {"read", "video", "audio", "flush", "done"}
    BY <2>1 DEF AudioStep
  <2>12. QED
    BY <1>0, <1>8, <2>3, <2>4, <2>5, <2>7, <2>8, <2>9, <2>10, <2>11 DEF AudioTurn, TypeInv, TypeOK
<1>9. CASE LeaveAudio
  BY <1>0, <1>9 DEF LeaveAudio, TypeInv, TypeOK, WithinEnd
<1>10. CASE Flush
  BY <1>0, <1>10 DEF Flush, TypeInv, TypeOK, WithinEnd
<1>11. CASE NextPass
  <2>1. \A S : << >> \in Seq(S)
    BY EmptySeq
  <2>2. /\ passno' \in 0 .. 2 /\ pass1' \in Seq(Call) /\ frame_count' \in Nat
        /\ pc' \in {"read", "video", "audio", "flush", "done"} /\ read' \in Nat /\ clock' \in Nat
        /\ synced' \in BOOLEAN
    BY <1>0, <1>11 DEF NextPass, TypeOK, Job, FramesOfPass
  <2>3. pkt' \in [stream : {"video", "audio", "other", "eof"}, units : Nat, dts : Nat, bad : BOOLEAN]
    BY <1>11 DEF NextPass, EndOfFile
  <2>4. /\ eos' \in [video : BOOLEAN, audio : BOOLEAN] /\ done' \in [video : BOOLEAN, audio : BOOLEAN]
        /\ decoded' \in [video : Nat, audio : Nat] /\ buffered' \in [frame : Nat, dts : Nat]
    BY <1>11 DEF NextPass, DoneAtStart, HasVideo, HasAudio
  <2>5. dst_nb_samples' \in Nat /\ audio_p' \in Nat
    BY <1>11, LoopAssumption DEF NextPass
  <2>6. /\ decoder' \in Seq(Nat \ {0}) /\ accepted' \in Seq(Nat \ {0})
        /\ video' \in Seq(Call) /\ audio' \in Seq(Chunk) /\ pts_offset' = << >>
    BY <1>11, <2>1 DEF NextPass
  <2>7. job' = job /\ input' = input /\ whole' = whole /\ sample_count' = sample_count
    BY <1>11 DEF NextPass
  <2>8. WithinEnd'
    BY <1>0, <2>7 DEF WithinEnd
  <2>9. TypeOK'
    BY <1>0, <2>2, <2>3, <2>4, <2>5, <2>6, <2>7 DEF TypeOK
  <2>10. QED
    BY <2>8, <2>9 DEF TypeInv
<1>12. CASE UNCHANGED vars
  BY <1>0, <1>12 DEF vars, TypeInv, TypeOK, WithinEnd
<1>14. QED
  BY <1>1, <1>2, <1>3, <1>4, <1>5, <1>6, <1>7, <1>8, <1>9, <1>10, <1>11, <1>12 DEF Next, Finished

(* No state of the loop leaves its types: what the decoders return, what the   *)
(* sync code repeats and what the clipping at the end time leaves are numbers  *)
(* the encoders can be given.                                                  *)
THEOREM TypeCorrect == Spec => []TypeOK
<1>1. TypeInv => TypeOK
  BY DEF TypeInv
<1>2. QED
  BY InitTypes, StepTypes, <1>1, PTL DEF Spec

-----------------------------------------------------------------------------
(* Sync. A frame is in the buffer once the reference time is taken from one,   *)
(* so frame_count is always about the frame that is being held.                *)
SyncInv ==
    /\ pkt.stream = "eof" => pkt.units = 0
    /\ pts_offset # << >> => buffered.frame # 0
    /\ eos.video => HasVideo
    /\ InSync

(* A frame that starts b late starts in time.                                  *)
InTime(b) == -FrameTime < 2 * b /\ 5 * b <= 8 * FrameTime

(* Without a packet the decoder leaves no packet.                              *)
LEMMA DecodeEmpty ==
    ASSUME TypeOK, NEW d \in DecodeVideo, pkt.units = 0
    PROVE  d.units = 0
<1>1. /\ decoder \in Seq(Nat \ {0}) /\ pkt.units \in Nat /\ decoded.video \in Nat
  BY DEF TypeOK
<1>2. CASE job.delay > 0 /\ decoder # << >>
  <2>1. d = [NoFrame(0) EXCEPT !.frame = Head(decoder), !.queue = Tail(decoder)]
    BY <1>2 DEF DecodeVideo
  <2>2. QED
    BY <2>1 DEF NoFrame
<1>3. CASE ~(job.delay > 0 /\ decoder # << >>)
  <2>1. d = NoFrame(0)
    BY <1>3 DEF DecodeVideo
  <2>2. QED
    BY <2>1 DEF NoFrame
<1>4. QED
  BY <1>2, <1>3

(* A difference of -0.6 to 1.5 frames takes one frame off; a larger one as     *)
(* many as fit.                                                                *)
LEMMA Corrected ==
    ASSUME NEW D \in Int, ~(5 * D < -3 * FrameTime),
           NEW n \in Nat, n = IF 2 * D >= 3 * FrameTime THEN Rounded(D) - 1 ELSE 0
    PROVE  InTime(FrameTime * (n + 1) - D)
<1>1. FrameTime \in Nat \ {0}
  BY LoopAssumption
<1>2. CASE 2 * D >= 3 * FrameTime
  <2>1. n + 1 = Rounded(D)
    BY <1>2, RoundedIs
  <2> DEFINE x == FrameTime * Rounded(D)
  <2>2. /\ x \in Int /\ FrameTime * (n + 1) = x
        /\ 2 * x <= 2 * D + FrameTime /\ 2 * D < 2 * x + FrameTime
    BY <1>1, <2>1, RoundedIs
  <2> HIDE DEF x
  <2>3. InTime(x - D)
    BY <1>1, <2>2 DEF InTime
  <2>4. QED
    BY <2>2, <2>3
<1>3. CASE ~(2 * D >= 3 * FrameTime)
  <2>1. FrameTime * (n + 1) = FrameTime
    BY <1>1, <1>3
  <2>2. InTime(FrameTime - D)
    BY <1>1, <1>3 DEF InTime
  <2>3. QED
    BY <2>1, <2>2
<1>4. QED
  BY <1>2, <1>3

(* n + 1 more frames in the output bring it that many frames on.               *)
LEMMA Counting ==
    ASSUME NEW t \in Nat, NEW t0 \in Nat, NEW c \in Nat, NEW c0 \in Nat, NEW n \in Nat,
           NEW F \in Nat
    PROVE  F * (c + n + 1 - c0) - (t - t0) = F * (n + 1) - ((t - t0) - F * (c - c0))
<1>1. F * (c + n + 1 - c0) = F * (n + 1) + F * (c - c0)
  OBVIOUS
<1>2. QED
  BY <1>1

(* There is no frame in the buffer at first.                                   *)
LEMMA InitSync == Init => SyncInv
<1>1. SUFFICES ASSUME Init PROVE SyncInv
  OBVIOUS
<1>2. ~eos.video /\ pkt.units = 0 /\ pts_offset = << >>
  BY <1>1 DEF Init, EndOfFile
<1>3. QED
  BY <1>2 DEF SyncInv, InSync

(* What leaves the frames and the reference time alone leaves them in sync.    *)
LEMMA SyncKept ==
    ASSUME SyncInv, job' = job, UNCHANGED coded, eos.video => eos'.video, eos'.video => HasVideo,
           pkt'.stream = "eof" => pkt'.units = 0
    PROVE  SyncInv'
BY DEF SyncInv, InSync, Behind, HasVideo, coded

(* The frame that is taken into the buffer is in sync.                         *)
LEMMA EncodeSync ==
    ASSUME TypeInv, SyncInv, EncodeTurn
    PROVE  SyncInv'
<1>0. TypeOK
  BY DEF TypeInv
<1>1. PICK d \in DecodeVideo :
          /\ ~Late(d)
          /\ pkt' = [pkt EXCEPT !.units = d.units]
          /\ pts_offset' = Offset(d)
          /\ IF buffered.frame # 0 /\ (d.frame # 0 \/ eos.video)
             THEN /\ video' = video \o Calls(d)
                  /\ frame_count' = frame_count + Dups(d) + 1
                  /\ done' = [done EXCEPT !.video = @ \/ eos.video]
             ELSE UNCHANGED <<video, frame_count, done>>
          /\ IF d.frame # 0
             THEN /\ buffered' = [frame |-> d.frame, dts |-> pkt.dts]
                  /\ accepted' = Append(accepted, d.frame)
             ELSE UNCHANGED <<buffered, accepted>>
  BY DEF EncodeTurn
<1>2. VideoOpen /\ job' = job /\ eos' = eos
  BY DEF EncodeTurn, fixed
<1>3. d \in Decoding /\ Dups(d) \in Nat
  BY <1>0, DecodeTypes, DeltaTypes
<1>4. pkt'.stream = "eof" => pkt'.units = 0
  <2>1. pkt'.stream = pkt.stream /\ pkt'.units = d.units
    BY <1>0, <1>1 DEF TypeOK
  <2>2. QED
    BY <1>0, <2>1, DecodeEmpty DEF SyncInv
<1>5. pts_offset' # << >> => buffered'.frame # 0
  <2>1. CASE d.frame = 0
    BY <1>1, <2>1 DEF SyncInv, Offset, Timed
  <2>2. CASE d.frame # 0
    BY <1>1, <2>2
  <2>3. QED
    BY <2>1, <2>2
<1>6. InSync'
  <2> SUFFICES ASSUME job.sync, pts_offset' # << >>, ~eos.video
               PROVE  InTime(Behind')
    BY <1>2 DEF InSync, InTime
  <2>1. CASE d.frame = 0
    <3>1. UNCHANGED <<frame_count, buffered, pts_offset>>
      BY <1>1, <2>1 DEF Offset, Timed
    <3>2. buffered.frame # 0
      BY <3>1 DEF SyncInv
    <3>3. QED
      BY <3>1, <3>2 DEF SyncInv, InSync, InTime, Behind
  <2>2. CASE d.frame # 0
    <3>1. pkt.units > 0 /\ pkt.stream # "eof"
      BY <1>0, <1>2 DEF VideoOpen, SyncInv, TypeOK
    <3>2. Timed(d) /\ Delta(d) \in Int /\ Offset(d) \in Nat \X Nat
      BY <1>0, <2>2, <3>1, DeltaTypes DEF Timed
    <3>3. ~(5 * Delta(d) < -3 * FrameTime)
      BY <1>1, <3>2 DEF Late
    <3>4. Dups(d) = IF 2 * Delta(d) >= 3 * FrameTime THEN Rounded(Delta(d)) - 1 ELSE 0
      BY <3>2 DEF Dups
    <3>5. buffered'.dts = pkt.dts /\ pts_offset' = Offset(d)
      BY <1>1, <2>2
    <3>6. /\ pkt.dts \in Nat /\ frame_count \in Nat
          /\ Offset(d)[1] \in Nat /\ Offset(d)[2] \in Nat
      BY <1>0, <3>2 DEF TypeOK
    <3>7. Delta(d) = (pkt.dts - Offset(d)[1]) - FrameTime * (frame_count - Offset(d)[2])
      BY DEF Delta
    <3>8. Behind' = FrameTime * (frame_count' - Offset(d)[2]) - (pkt.dts - Offset(d)[1])
      BY <3>5 DEF Behind
    <3>9. CASE buffered.frame # 0
      <4>1. frame_count' = frame_count + Dups(d) + 1
        BY <1>1, <2>2, <3>9
      <4>2. Behind' = FrameTime * (Dups(d) + 1) - Delta(d)
        <5> DEFINE n == Dups(d)
                   t0 == Offset(d)[1]
                   c0 == Offset(d)[2]
        <5>1. frame_count' = frame_count + n + 1
          BY <4>1
        <5>2. Delta(d) = (pkt.dts - t0) - FrameTime * (frame_count - c0)
          BY <3>7
        <5>3. Behind' = FrameTime * (frame_count' - c0) - (pkt.dts - t0)
          BY <3>8
        <5>4. /\ n \in Nat /\ t0 \in Nat /\ c0 \in Nat /\ pkt.dts \in Nat /\ frame_count \in Nat
              /\ FrameTime \in Nat
          BY <1>3, <3>6, LoopAssumption
        <5> HIDE DEF n, t0, c0
        <5>5. \A x \in Nat : frame_count' = x => Behind' = FrameTime * (x - c0) - (pkt.dts - t0)
          BY <5>3
        <5>6. Behind' = FrameTime * (frame_count + n + 1 - c0) - (pkt.dts - t0)
          BY <5>1, <5>4, <5>5
        <5>7. FrameTime * (frame_count + n + 1 - c0) - (pkt.dts - t0)
                = FrameTime * (n + 1) - ((pkt.dts - t0) - FrameTime * (frame_count - c0))
          BY <5>4, Counting
        <5>8. Behind' = FrameTime * (n + 1) - Delta(d)
          BY <5>2, <5>6, <5>7, Zenon
        <5>9. QED
          BY <5>8 DEF n
      <4>3. InTime(FrameTime * (Dups(d) + 1) - Delta(d))
        BY <1>3, <3>2, <3>3, <3>4, Corrected
      <4>4. QED
        BY <4>2, <4>3
    <3>10. CASE buffered.frame = 0
      <4>1. pts_offset = << >>
        BY <3>10 DEF SyncInv
      <4>2. Offset(d) = <<pkt.dts, frame_count>>
        BY <3>2, <4>1 DEF Offset
      <4>3. frame_count' = frame_count
        BY <1>1, <3>10
      <4>4. Behind' = 0
        <5>1. frame_count' - Offset(d)[2] = 0 /\ pkt.dts - Offset(d)[1] = 0
          BY <3>6, <4>2, <4>3
        <5>2. FrameTime * 0 - 0 = 0
          BY LoopAssumption
        <5>3. QED
          BY <3>8, <5>1, <5>2
      <4>5. QED
        BY <4>4, LoopAssumption DEF InTime
    <3>11. QED
      BY <3>9, <3>10
  <2>3. QED
    BY <2>1, <2>2
<1>7. eos'.video => HasVideo'
  BY <1>2 DEF SyncInv, HasVideo
<1>8. QED
  BY <1>4, <1>5, <1>6, <1>7 DEF SyncInv

(* Every step keeps the frames in sync.                                        *)
LEMMA StepSync == TypeInv /\ SyncInv /\ [Next]_vars => SyncInv'
<1> SUFFICES ASSUME TypeInv, SyncInv, [Next]_vars PROVE SyncInv'
  OBVIOUS
<1> USE DEF fixed
<1>0. TypeOK
  BY DEF TypeInv
<1>1. CASE ReadEarly
  BY <1>1, SyncKept DEF ReadEarly, SyncInv
<1>2. CASE ReadPacket
  <2>1. PICK a \in Arrivals : Read(a) /\ pkt' = Packet(a) /\ eos' = [eos EXCEPT !.video = @ \/ EndReached]
    BY <1>2 DEF ReadPacket
  <2>2. pkt'.stream # "eof"
    <3>1. a \in Arrival
      BY <1>0, <2>1, ReadTypes
    <3>2. QED
      BY <2>1, <3>1 DEF Packet, Arrival
  <2>3. (eos.video => eos'.video) /\ (eos'.video => HasVideo)
    <3>1. job.frames > 0 => HasVideo
      BY <1>0 DEF TypeOK, Job, HasVideo
    <3>2. eos'.video <=> eos.video \/ EndReached
      BY <1>0, <2>1 DEF TypeOK
    <3>3. QED
      BY <3>1, <3>2 DEF EndReached, SyncInv
  <2>4. QED
    BY <1>2, <2>2, <2>3, SyncKept DEF ReadPacket
<1>3. CASE ReadFails
  <2>1. pkt'.units = 0 /\ job' = job /\ UNCHANGED coded /\ eos'.video = HasVideo
    BY <1>3 DEF ReadFails, EndOfFile
  <2>2. QED
    BY <2>1, SyncKept DEF SyncInv
<1>4. CASE DropFrame
  BY <1>4, SyncKept DEF DropFrame, SyncInv
<1>5. CASE EncodeTurn
  BY <1>5, EncodeSync
<1>6. CASE LeaveVideo
  BY <1>6, SyncKept DEF LeaveVideo, SyncInv
<1>7. CASE AudioError
  BY <1>7, SyncKept DEF AudioError, SyncInv
<1>8. CASE AudioTurn
  <2>1. PICK d \in DecodeAudio : AudioStep(d)
    BY <1>8, AudioTurnIs
  <2>2. eos'.video = eos.video /\ pkt'.stream = pkt.stream /\ pkt'.units = d.units
    BY <1>0, <2>1 DEF AudioStep, TypeOK
  <2>3. d.units = 0 \/ pkt.stream = "audio"
    BY <1>0, AudioTypes
  <2>4. QED
    BY <1>8, <2>2, <2>3, SyncKept DEF AudioTurn, SyncInv
<1>9. CASE LeaveAudio
  BY <1>9, SyncKept DEF LeaveAudio, SyncInv
<1>10. CASE Flush
  BY <1>10, SyncKept DEF Flush, SyncInv
<1>11. CASE NextPass
  <2>1. ~eos'.video /\ pkt'.units = 0 /\ pts_offset' = << >>
    BY <1>11 DEF NextPass, EndOfFile
  <2>2. QED
    BY <2>1 DEF SyncInv, InSync
<1>12. CASE UNCHANGED vars
  BY <1>12, SyncKept DEF vars, SyncInv, coded
<1>13. QED
  BY <1>1, <1>2, <1>3, <1>4, <1>5, <1>6, <1>7, <1>8, <1>9, <1>10, <1>11, <1>12 DEF Next, Finished

(* However the decoding times of the input run, and however many frames the    *)
(* decoder holds back, the frame in the buffer starts in the output less than  *)
(* half a frame before its own time and at most 1.6 frames after it.           *)
THEOREM StaysInSync == Spec => []InSync
<1>1. SyncInv => InSync
  BY DEF SyncInv
<1>2. QED
  BY InitTypes, StepTypes, InitSync, StepSync, <1>1, PTL DEF Spec

-----------------------------------------------------------------------------
(* Audio. *)

Full == job.samples > 0 /\ sample_count = job.samples

(* Why audio is over: as many samples as asked for, or no more input.          *)
AudioOver == Full \/ (pkt.stream = "eof" /\ pc # "read")

Unflagged(calls) ==
    \A i \in 1 .. Len(calls) : calls[i].e_o_s = FALSE /\ calls[i].samples = ChunkSamples

(* What has been given to the encoder, the newest of it in audio_p.            *)
AudioHistory ==
    /\ audio_p = decoded.audio
    /\ \A i \in 1 .. Len(audio) : audio[i].chunk <= audio_p
    /\ done.audio = FALSE => Unflagged(audio)
    /\ AudioOnce

(* When the audio section is entered, and why audio is over once it is done:   *)
(* a section that was entered for another stream is left by its first turn.    *)
AudioControl ==
    /\ pc = "audio" => passno # 1
    /\ pc = "audio" /\ done.audio => pkt.stream = "audio"
    /\ pkt.stream = "audio" => HasAudio
    /\ \A i \in 1 .. Len(input) : input[i].stream = "audio" => HasAudio
    /\ passno # 1 /\ HasAudio /\ done.audio => AudioOver
    /\ eos.audio => AudioOver

AudioInv == AudioHistory /\ AudioControl

(* No chunk has been decoded at first.                                         *)
LEMMA InitAudio == Init => AudioInv
<1> SUFFICES ASSUME Init PROVE AudioInv
  OBVIOUS
<1>1. Len(audio) = 0 /\ Len(input) = 0
  BY EmptySeq DEF Init
<1>2. AudioHistory
  <2>1. sample_count = 0 /\ audio_p = 0 /\ decoded.audio = 0
    BY DEF Init
  <2>2. AudioOnce
    <3>1. job \in Job
      BY LoopAssumption DEF Init
    <3>2. QED
      BY <1>1, <2>1, <3>1 DEF AudioOnce, Job
  <2>3. QED
    BY <1>1, <2>1, <2>2 DEF AudioHistory, Unflagged
<1>3. AudioControl
  <2>1. pc = "read" /\ pkt.stream = "eof" /\ ~eos.audio /\ done = DoneAtStart(passno)
    BY DEF Init, EndOfFile
  <2>2. passno # 1 /\ HasAudio => ~done.audio
    BY <2>1 DEF DoneAtStart
  <2>3. QED
    BY <1>1, <2>1, <2>2 DEF AudioControl
<1>4. QED
  BY <1>2, <1>3 DEF AudioInv

(* What leaves the chunks and done.audio alone leaves the history right.       *)
LEMMA HistoryKept ==
    ASSUME AudioHistory, UNCHANGED <<sample_count, audio_p, audio, job>>,
           done'.audio = done.audio, decoded'.audio = decoded.audio
    PROVE  AudioHistory'
BY DEF AudioHistory, Unflagged, AudioOnce

(* The audio section is entered, or the section is left, with the packet that  *)
(* there is.                                                                   *)
LEMMA SectionEntered ==
    ASSUME NEW p, NEW e, Section(p, e) = "audio"
    PROVE  passno # 1 /\ ((e.audio /\ ~done.audio) \/ p.stream = "audio")
<1>1. EnterAudio(p, e.audio)
  <2>1. ~EnterVideo(p, e.video)
    BY DEF Section
  <2>2. CASE ~EnterAudio(p, e.audio)
    BY <2>1, <2>2 DEF Section
  <2>3. QED
    BY <2>2
<1>2. QED
  BY <1>1 DEF EnterAudio

(* Steps inside a turn, which leave what is known about the end of the audio.  *)
LEMMA ControlKept ==
    ASSUME AudioControl, UNCHANGED <<job, passno, input, sample_count>>, pc # "read", pc' # "read",
           pkt'.stream = pkt.stream, eos' = eos, done'.audio = done.audio,
           pc' = "audio" => pc = "audio" \/ Section2 = "audio"
    PROVE  AudioControl'
<1>1. Section2 = "audio" => passno # 1 /\ ((eos.audio /\ ~done.audio) \/ pkt.stream = "audio")
  BY DEF Section2, EnterAudio
<1>2. AudioOver => AudioOver'
  BY DEF AudioOver, Full
<1>3. HasAudio' = HasAudio
  BY DEF HasAudio
<1>4. pc' = "audio" => passno # 1 /\ (done.audio => pkt.stream = "audio")
  BY <1>1 DEF AudioControl
<1>5. QED
  BY <1>2, <1>3, <1>4 DEF AudioControl

(* A turn of the audio decoder when audio is over: what is decoded lies        *)
(* behind the end time and is thrown away.                                     *)
LEMMA TurnWhenDone ==
    ASSUME TypeInv, AudioInv, AudioTurn, NEW d \in DecodeAudio, done.audio
    PROVE  Full /\ Gone(d)
<1>1. pc = "audio" /\ pkt.units > 0 /\ pkt.stream = "audio" /\ AudioOver /\ HasAudio /\ passno # 1
  BY DEF AudioTurn, AudioOpen, AudioInv, AudioControl
<1>2. Full
  BY <1>1 DEF AudioOver
<1>3. d = [got |-> TRUE, units |-> d.units]
  BY <1>1, AudioTypes DEF TypeInv
<1>4. d.got = TRUE
  BY <1>3
<1>5. Samples(d) = ChunkSamples /\ Used(d)
  BY <1>4 DEF Samples, Used
<1>6. /\ sample_count \in Nat /\ ChunkSamples \in Nat \ {0} /\ job.samples \in Nat
  BY LoopAssumption DEF TypeInv, TypeOK, Job
<1>7. BeyondEnd(Samples(d))
  BY <1>2, <1>5, <1>6 DEF BeyondEnd, Full
<1>8. Clip(d)
  BY <1>5, <1>7 DEF Clip
<1>9. Clipped(d) = 0
  BY <1>2, <1>6, <1>8 DEF Clipped, Full
<1>10. QED
  BY <1>2, <1>8, <1>9 DEF Gone

(* A turn while audio is not over appends at most one call, behind chunks that *)
(* were encoded before.                                                        *)
LEMMA TurnHistory ==
    ASSUME TypeInv, AudioInv, AudioTurn, NEW d \in DecodeAudio, AudioStep(d)
    PROVE  AudioHistory'
<1>0. TypeOK /\ WithinEnd /\ AudioHistory
  BY DEF TypeInv, AudioInv
<1>1. decoded' = [decoded EXCEPT !.audio = IF d.got THEN @ + 1 ELSE @]
      /\ audio_p' = IF d.got THEN decoded'.audio ELSE audio_p
  BY DEF AudioStep
<1>2. /\ decoded.audio \in Nat /\ audio_p \in Nat /\ decoded.audio = audio_p
      /\ audio \in Seq(Chunk) /\ Len(audio) \in Nat /\ decoded \in [video : Nat, audio : Nat]
  BY <1>0, LenProperties DEF TypeOK, AudioHistory
<1>3. audio_p' = decoded'.audio /\ audio_p' \in Nat /\ audio_p <= audio_p'
      /\ (d.got => audio_p' = audio_p + 1) /\ (~d.got => audio_p' = audio_p)
  <2>1. CASE d.got
    <3>1. decoded' = [decoded EXCEPT !.audio = @ + 1] /\ audio_p' = decoded'.audio
      BY <1>1, <2>1
    <3>2. QED
      BY <1>2, <2>1, <3>1
  <2>2. CASE ~d.got
    <3>1. decoded' = [decoded EXCEPT !.audio = @] /\ audio_p' = audio_p
      BY <1>1, <2>2
    <3>2. QED
      BY <1>2, <2>2, <3>1
  <2>3. QED
    BY <2>1, <2>2
<1>4. \A i \in 1 .. Len(audio) : audio[i].chunk \in Nat /\ audio[i].chunk <= audio_p
  <2>1. \A i \in 1 .. Len(audio) : audio[i] \in Chunk
    BY <1>2, ElementOfSeq
  <2>2. QED
    BY <1>0, <2>1 DEF AudioHistory, Chunk
<1>5. WithinEnd' /\ job' = job
  <2>1. TypeInv'
    BY StepTypes DEF Next
  <2>2. QED
    BY <2>1 DEF TypeInv, AudioTurn, fixed
<1>6. done'.audio = (done.audio \/ (Ends(d) /\ ~Gone(d)))
  BY <1>0 DEF AudioStep, TypeOK
<1>7. CASE ~(Used(d) /\ ~Gone(d))
  <2>1. audio' = audio /\ sample_count' = sample_count
    BY <1>7 DEF AudioStep
  <2>2. \A i \in 1 .. Len(audio') : audio'[i].chunk <= audio_p'
    BY <1>2, <1>3, <1>4, <2>1
  <2>3. done'.audio = FALSE => Unflagged(audio')
    <3>1. done'.audio = FALSE => done.audio = FALSE
      <4>1. done.audio \in BOOLEAN
        BY <1>0 DEF TypeOK
      <4>2. QED
        BY <1>6, <4>1
    <3>2. done.audio = FALSE => Unflagged(audio)
      BY <1>0 DEF AudioHistory
    <3>3. QED
      BY <2>1, <3>1, <3>2
  <2>4. AudioOnce'
    BY <1>0, <1>5, <2>1 DEF AudioHistory, AudioOnce
  <2>5. QED
    BY <1>3, <2>2, <2>3, <2>4 DEF AudioHistory, Unflagged
<1>8. CASE Used(d) /\ ~Gone(d)
  <2> DEFINE c == [chunk |-> audio_p', samples |-> Clipped(d), e_o_s |-> Ends(d)]
             n == Len(audio)
  <2>1. audio' = Append(audio, c)
    BY <1>8 DEF AudioStep
  <2>2. ~done.audio
    BY <1>8, TurnWhenDone
  <2>3. Unflagged(audio)
    BY <1>0, <2>2 DEF AudioHistory
  <2>4. c \in Chunk
    <3>1. Clipped(d) \in Nat
      BY <1>0, ClipNat DEF ClipFacts
    <3>2. Ends(d) \in BOOLEAN
      BY DEF Ends
    <3>3. QED
      BY <1>3, <3>1, <3>2 DEF Chunk
  <2>5. Len(audio') = n + 1 /\ audio'[n + 1] = c /\ \A i \in 1 .. n : audio'[i] = audio[i]
    BY <1>2, <2>1, <2>4, AppendProperties
  <2>6. c.chunk = audio_p' /\ c.samples = Clipped(d) /\ c.e_o_s = Ends(d)
    OBVIOUS
  <2> HIDE DEF c
  <2>7. \A i \in 1 .. n + 1 : i \in 1 .. n \/ i = n + 1
    BY <1>2
  <2>8. \A i \in 1 .. Len(audio') : audio'[i].chunk <= audio_p'
    BY <1>2, <1>3, <1>4, <2>5, <2>6, <2>7
  <2>9. d.got \/ Ends(d)
    BY <1>8 DEF Used, Ends
  <2>10. ~Ends(d) => Clipped(d) = ChunkSamples
    <3>1. ~Ends(d) => ~Clip(d) /\ d.got
      BY <2>9 DEF Ends
    <3>2. QED
      BY <3>1 DEF Clipped, Samples
  <2>11. done'.audio = FALSE => Unflagged(audio')
    <3>1. done'.audio = FALSE => c.e_o_s = FALSE /\ c.samples = ChunkSamples
      <4> SUFFICES ASSUME done'.audio = FALSE PROVE c.e_o_s = FALSE /\ c.samples = ChunkSamples
        OBVIOUS
      <4>1. ~Ends(d)
        BY <1>6, <1>8
      <4>2. Ends(d) = FALSE
        BY <4>1 DEF Ends
      <4>3. QED
        BY <2>6, <2>10, <4>1, <4>2
    <3>2. QED
      BY <2>3, <2>5, <2>7, <3>1 DEF Unflagged
  <2>12. AudioOnce'
    <3>1. \A i \in 1 .. n : audio'[i].e_o_s = FALSE /\ audio'[i].samples = ChunkSamples
      BY <2>3, <2>5 DEF Unflagged
    <3>2. ASSUME NEW i \in 1 .. n
          PROVE  \/ audio'[i].chunk < audio'[i + 1].chunk
                 \/ audio'[i + 1].e_o_s /\ audio'[i].chunk = audio'[i + 1].chunk
      <4>1. CASE i < n
        <5>1. i \in 1 .. n - 1 /\ i + 1 \in 1 .. n
          BY <1>2, <4>1
        <5>2. \/ audio[i].chunk < audio[i + 1].chunk
              \/ audio[i + 1].e_o_s /\ audio[i].chunk = audio[i + 1].chunk
          BY <1>0, <5>1 DEF AudioHistory, AudioOnce
        <5>3. QED
          BY <2>5, <5>1, <5>2
      <4>2. CASE i = n
        <5>1. audio'[i].chunk \in Nat /\ audio'[i].chunk <= audio_p /\ audio'[i + 1] = c
          BY <1>4, <2>5, <4>2
        <5>2. CASE d.got
          BY <1>2, <1>3, <2>6, <5>1, <5>2
        <5>3. CASE ~d.got
          <6>1. c.e_o_s
            BY <2>6, <2>9, <5>3
          <6>2. audio'[i].chunk < c.chunk \/ audio'[i].chunk = c.chunk
            BY <1>2, <1>3, <2>6, <5>1, <5>3
          <6>3. QED
            BY <5>1, <6>1, <6>2
        <5>4. QED
          BY <5>2, <5>3
      <4>3. QED
        BY <1>2, <4>1, <4>2
    <3>3. Len(audio') - 1 = n
      BY <1>2, <2>5
    <3>4. QED
      BY <1>5, <3>1, <3>2, <3>3 DEF AudioOnce, WithinEnd
  <2>13. QED
    BY <1>3, <2>8, <2>11, <2>12 DEF AudioHistory, Unflagged
<1>9. QED
  BY <1>7, <1>8

(* Audio is over after the turn that says so, and stays over.                  *)
LEMMA TurnControl ==
    ASSUME TypeInv, AudioInv, AudioTurn, NEW d \in DecodeAudio, AudioStep(d)
    PROVE  AudioControl'
<1>0. TypeOK /\ WithinEnd /\ AudioControl
  BY DEF TypeInv, AudioInv
<1>1. /\ UNCHANGED <<job, passno, input>> /\ pc = "audio" /\ pc' # "read"
      /\ HasAudio' = HasAudio
  BY DEF AudioTurn, AudioOpen, AudioStep, fixed, source, HasAudio
<1>2. pkt'.stream = pkt.stream
  BY <1>0 DEF AudioStep, TypeOK
<1>3. eos'.audio = Ends(d) /\ done'.audio = (done.audio \/ (Ends(d) /\ ~Gone(d)))
  BY <1>0 DEF AudioStep, TypeOK
<1>4. /\ sample_count \in Nat /\ job.samples \in Nat
  BY <1>0 DEF TypeOK, Job
<1>5. sample_count' = IF Used(d) /\ ~Gone(d) THEN sample_count + Clipped(d) ELSE sample_count
  BY DEF AudioStep
<1>6. ClipFacts(d)
  BY <1>0, ClipNat
<1>7. Clip(d) => Full'
  <2> SUFFICES ASSUME Clip(d) PROVE Full'
    OBVIOUS
  <2>1. Used(d) /\ Clipped(d) = job.samples - sample_count /\ job.samples > 0 /\ Clipped(d) \in Nat
    BY <1>6 DEF Clip, ClipFacts
  <2>2. CASE Gone(d)
    <3>1. Clipped(d) <= 0 /\ sample_count' = sample_count
      BY <1>5, <2>2 DEF Gone
    <3>2. QED
      BY <1>1, <1>4, <2>1, <3>1 DEF Full
  <2>3. CASE ~Gone(d)
    <3>1. sample_count' = sample_count + Clipped(d)
      BY <1>5, <2>1, <2>3
    <3>2. QED
      BY <1>1, <1>4, <2>1, <3>1 DEF Full
  <2>4. QED
    BY <2>2, <2>3
<1>8. AudioOver => AudioOver'
  <2>1. CASE Full
    <3>1. CASE Used(d) /\ ~Gone(d)
      <4>1. sample_count' = sample_count + Clipped(d) /\ Clipped(d) \in Nat
        BY <1>5, <1>6, <3>1 DEF ClipFacts
      <4>2. sample_count + Clipped(d) <= job.samples /\ sample_count = job.samples
        BY <1>6, <2>1, <3>1 DEF ClipFacts, Full
      <4>3. QED
        BY <1>1, <1>4, <2>1, <4>1, <4>2 DEF Full, AudioOver
    <3>2. CASE ~(Used(d) /\ ~Gone(d))
      BY <1>1, <1>5, <2>1, <3>2 DEF Full, AudioOver
    <3>3. QED
      BY <3>1, <3>2
  <2>2. CASE ~Full
    BY <1>1, <1>2, <2>2 DEF AudioOver
  <2>3. QED
    BY <2>1, <2>2
<1>9. Ends(d) => AudioOver'
  BY <1>0, <1>7, <1>8 DEF Ends, AudioControl, AudioOver
<1>10. pc' = "audio" /\ done'.audio => pkt.stream = "audio"
  <2> SUFFICES ASSUME pc' = "audio", done'.audio, pkt.stream # "audio" PROVE FALSE
    OBVIOUS
  <2>1. ~done.audio
    BY <1>0, <1>1 DEF AudioControl
  <2>2. Ends(d)
    BY <1>3, <2>1
  <2>3. d = [got |-> FALSE, units |-> 0]
    BY <1>0, AudioTypes
  <2>4. d.units = 0
    BY <2>3
  <2>5. pc' = "flush"
    BY <2>2, <2>4 DEF AudioStep
  <2>6. QED
    BY <2>5
<1>11. passno # 1 /\ HasAudio /\ done'.audio => AudioOver'
  BY <1>0, <1>3, <1>8, <1>9 DEF AudioControl
<1>12. QED
  BY <1>0, <1>1, <1>2, <1>3, <1>9, <1>10, <1>11 DEF AudioControl

(* Every step keeps what is known about audio.                                 *)
LEMMA StepAudio == TypeInv /\ AudioInv /\ [Next]_vars => AudioInv'
<1> SUFFICES ASSUME TypeInv, AudioInv, [Next]_vars PROVE AudioInv'
  OBVIOUS
<1> USE DEF fixed, source, sounded
<1>0. TypeOK /\ AudioHistory /\ AudioControl
  BY DEF TypeInv, AudioInv
<1>1. ASSUME ReadEarly \/ ReadPacket, NEW a \in Arrivals, Read(a)
      PROVE  /\ a.stream = "audio" => HasAudio
             /\ \A i \in 1 .. Len(input') : input'[i].stream = "audio" => HasAudio
  <2>1. input \in Seq(Arrival) /\ Len(input) \in Nat /\ read \in Nat /\ a \in Arrival
    BY <1>0, <1>1, ReadTypes, LenProperties DEF TypeOK
  <2>2. a.stream = "audio" => HasAudio
    <3>1. CASE read < Len(input)
      <4>1. a = input[read + 1] /\ read + 1 \in 1 .. Len(input)
        BY <1>1, <2>1, <3>1 DEF Arrivals
      <4>2. QED
        BY <1>0, <4>1 DEF AudioControl
    <3>2. CASE ~(read < Len(input))
      <4>1. a \in Packets
        BY <1>1, <3>2 DEF Arrivals
      <4>2. QED
        BY <4>1 DEF Packets
    <3>3. QED
      BY <3>1, <3>2
  <2>3. CASE passno = 1
    <3>1. input' = Append(input, a)
      BY <1>1, <2>3 DEF Read
    <3>2. Len(input') = Len(input) + 1 /\ input'[Len(input) + 1] = a
          /\ \A i \in 1 .. Len(input) : input'[i] = input[i]
      BY <2>1, <3>1, AppendProperties
    <3>3. \A i \in 1 .. Len(input') : i \in 1 .. Len(input) \/ i = Len(input) + 1
      BY <2>1, <3>2
    <3>4. QED
      BY <1>0, <2>2, <3>2, <3>3 DEF AudioControl
  <2>4. CASE passno # 1
    <3>1. input' = input
      BY <1>1, <2>4 DEF Read
    <3>2. QED
      BY <1>0, <2>2, <3>1 DEF AudioControl
  <2>5. QED
    BY <2>3, <2>4
<1>2. CASE ReadEarly
  <2>1. PICK a \in Arrivals :
          /\ Read(a)
          /\ decoded' = [decoded EXCEPT !.video = @ + 1] \/ decoded' = decoded
    BY <1>2 DEF ReadEarly
  <2>2. decoded'.audio = decoded.audio
    BY <1>0, <2>1 DEF TypeOK
  <2>3. UNCHANGED <<job, passno, sample_count, audio_p, audio, pc, pkt, eos, done>>
    BY <1>2 DEF ReadEarly
  <2>4. AudioHistory'
    BY <1>0, <2>2, <2>3, HistoryKept
  <2>5. \A i \in 1 .. Len(input') : input'[i].stream = "audio" => HasAudio
    BY <1>1, <1>2, <2>1
  <2>6. AudioControl'
    BY <1>0, <2>3, <2>5 DEF AudioControl, AudioOver, Full, HasAudio
  <2>7. QED
    BY <2>4, <2>6 DEF AudioInv
<1>3. CASE ReadPacket
  <2>1. PICK a \in Arrivals :
          /\ Read(a)
          /\ pkt' = Packet(a)
          /\ eos' = [eos EXCEPT !.video = @ \/ EndReached]
          /\ pc' = Section(pkt', eos')
    BY <1>3 DEF ReadPacket
  <2>2. UNCHANGED <<job, passno, sample_count, audio_p, audio, done, decoded>> /\ pc = "read"
    BY <1>3 DEF ReadPacket
  <2>3. AudioHistory'
    BY <1>0, <2>2, HistoryKept
  <2>4. a.stream = "audio" => HasAudio
    BY <1>1, <1>3, <2>1
  <2>5. \A i \in 1 .. Len(input') : input'[i].stream = "audio" => HasAudio
    BY <1>1, <1>3, <2>1
  <2>6. pkt'.stream = a.stream
    BY <2>1 DEF Packet
  <2>7. eos'.audio = eos.audio
    BY <1>0, <2>1 DEF TypeOK
  <2>8. AudioOver => Full
    BY <2>2 DEF AudioOver
  <2>9. pc' = "audio" => passno # 1 /\ ((eos'.audio /\ ~done.audio) \/ pkt'.stream = "audio")
    BY <2>1, SectionEntered
  <2>10. AudioControl'
    BY <1>0, <2>2, <2>4, <2>5, <2>6, <2>7, <2>8, <2>9 DEF AudioControl, AudioOver, Full, HasAudio
  <2>11. QED
    BY <2>3, <2>10 DEF AudioInv
<1>4. CASE ReadFails
  <2>1. UNCHANGED <<job, passno, input, sample_count, audio_p, audio, done, decoded>> /\ pc = "read"
    BY <1>4 DEF ReadFails
  <2>2. pkt'.stream = "eof" /\ pc' = Section(pkt', eos')
    BY <1>4 DEF ReadFails, EndOfFile
  <2>3. AudioHistory'
    BY <1>0, <2>1, HistoryKept
  <2>4. pc' # "read"
    BY <2>2, SectionTypes
  <2>5. AudioOver'
    BY <2>2, <2>4 DEF AudioOver
  <2>6. pc' = "audio" => passno # 1 /\ ((eos'.audio /\ ~done.audio) \/ pkt'.stream = "audio")
    BY <2>2, SectionEntered
  <2>7. AudioControl'
    BY <1>0, <2>1, <2>2, <2>5, <2>6 DEF AudioControl, HasAudio
  <2>8. QED
    BY <2>3, <2>7 DEF AudioInv
<1>5. CASE DropFrame \/ EncodeTurn
  <2>1. PICK n : decoded' = [decoded EXCEPT !.video = n]
    BY <1>5 DEF DropFrame, EncodeTurn
  <2>2. decoded'.audio = decoded.audio
    BY <1>0, <2>1 DEF TypeOK
  <2>3. UNCHANGED <<job, passno, input, sample_count, audio_p, audio, eos>>
        /\ pc = "video" /\ pc' # "read"
    BY <1>5 DEF DropFrame, EncodeTurn, VideoOpen, Section2
  <2>4. done'.audio = done.audio
    <3>1. done' = done \/ done' = [done EXCEPT !.video = @ \/ eos.video]
      BY <1>5 DEF DropFrame, EncodeTurn
    <3>2. QED
      BY <1>0, <3>1 DEF TypeOK
  <2>5. pkt'.stream = pkt.stream
    BY <1>0, <1>5 DEF DropFrame, EncodeTurn, TypeOK
  <2>6. pc' = "audio" => Section2 = "audio"
    BY <1>5 DEF DropFrame, EncodeTurn
  <2>7. QED
    BY <1>0, <2>2, <2>3, <2>4, <2>5, <2>6, HistoryKept, ControlKept DEF AudioInv
<1>6. CASE LeaveVideo \/ AudioError \/ LeaveAudio
  <2>1. /\ UNCHANGED <<job, passno, input, sample_count, audio_p, audio, eos, done, pkt, decoded>>
        /\ pc # "read" /\ pc' # "read"
        /\ pc' = "audio" => Section2 = "audio"
    BY <1>6 DEF LeaveVideo, AudioError, LeaveAudio, AudioOpen, Section2
  <2>2. QED
    BY <1>0, <2>1, HistoryKept, ControlKept DEF AudioInv
<1>7. CASE AudioTurn
  <2>1. PICK d \in DecodeAudio : AudioStep(d)
    BY <1>7, AudioTurnIs
  <2>2. QED
    BY <1>7, <2>1, TurnHistory, TurnControl DEF AudioInv
<1>8. CASE Flush
  <2>1. UNCHANGED <<job, passno, input, sample_count, audio_p, audio, eos, done, pkt, decoded>>
    BY <1>8 DEF Flush
  <2>2. pc' # "audio" /\ (pc' = "read" => pkt.stream # "eof")
    BY <1>8 DEF Flush
  <2>3. AudioHistory'
    BY <1>0, <2>1, HistoryKept
  <2>4. AudioOver => AudioOver'
    BY <2>1, <2>2 DEF AudioOver, Full
  <2>5. AudioControl'
    BY <1>0, <2>1, <2>2, <2>4 DEF AudioControl, HasAudio
  <2>6. QED
    BY <2>3, <2>5 DEF AudioInv
<1>9. CASE NextPass
  <2>1. /\ passno' = 2 /\ pc' = "read" /\ pkt'.stream = "eof" /\ ~eos'.audio
        /\ done' = DoneAtStart(2) /\ decoded'.audio = 0 /\ audio_p' = 0 /\ audio' = << >>
        /\ UNCHANGED <<job, input, sample_count>>
    BY <1>9 DEF NextPass, EndOfFile
  <2>2. Len(audio') = 0
    BY <2>1, EmptySeq
  <2>3. AudioHistory'
    BY <1>0, <2>1, <2>2 DEF AudioHistory, AudioOnce, Unflagged
  <2>4. HasAudio => ~done'.audio
    <3>1. 2 # 1
      OBVIOUS
    <3>2. done'.audio = (~HasAudio \/ 2 = 1)
      BY <2>1 DEF DoneAtStart
    <3>3. QED
      BY <3>1, <3>2
  <2>5. AudioControl'
    BY <1>0, <2>1, <2>4 DEF AudioControl, HasAudio
  <2>6. QED
    BY <2>3, <2>5 DEF AudioInv
<1>10. CASE UNCHANGED vars
  BY <1>0, <1>10 DEF vars, AudioInv, AudioHistory, AudioControl, AudioOver, Full, Unflagged,
                     AudioOnce, HasAudio
<1>11. QED
  BY <1>2, <1>3, <1>4, <1>5, <1>6, <1>7, <1>8, <1>9, <1>10 DEF Next, Finished

(* Audio is encoded once and in order, in whole chunks but for the last call,  *)
(* and no longer than to the end time: whatever is decoded after it, from the  *)
(* packets that were still to come or at the end of the input, is thrown away. *)
THEOREM AudioInOrder == Spec => []AudioOnce
<1>1. AudioInv => AudioOnce
  BY DEF AudioInv, AudioHistory
<1>2. QED
  BY InitTypes, StepTypes, InitAudio, StepAudio, <1>1, PTL DEF Spec

=============================================================================
