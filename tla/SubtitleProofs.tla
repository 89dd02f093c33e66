--------------------------- MODULE SubtitleProofs ---------------------------
(***************************************************************************)
(* Proofs about the subtitles for any command line, any files and any      *)
(* embedded streams: every file has the language, the category and the     *)
(* encoding that were given for it, however many streams are taken out of  *)
(* the array; every subtitle is given to the multiplexer once, in order,   *)
(* and none is late; and every file is read as the records it holds.       *)
(***************************************************************************)
EXTENDS SubtitleFeed, FiniteSetTheorems, SequenceTheorems, WellFoundedInduction, TLAPS

-----------------------------------------------------------------------------
(* Numbers. *)

(* The order of the natural numbers is well founded.                           *)
LEMMA NatLess == \E R : IsWellFoundedOn(R, Nat) /\ \A x, y \in Nat : x < y => <<x, y>> \in R
<1>1. \A x, y \in Nat : x < y => <<x, y>> \in OpToRel(<, Nat)
  BY DEF OpToRel
<1>2. QED
  BY <1>1, NatLessThanWellFounded

(* A set of natural numbers has a least one: NextFree takes it.                *)
LEMMA Least ==
    ASSUME NEW S, S \subseteq Nat, S # {}
    PROVE  Min(S) \in S /\ \A y \in S : Min(S) <= y
<1>1. PICK R : IsWellFoundedOn(R, Nat) /\ \A x, y \in Nat : x < y => <<x, y>> \in R
  BY NatLess
<1>2. IsWellFoundedOn(R, Nat)
  BY <1>1
<1>3. PICK x \in S : \A y \in S : ~(<<y, x>> \in R)
  BY <1>2, WFMin, Zenon
<1>4. ASSUME NEW y \in S PROVE x <= y
  <2>1. x \in Nat /\ y \in Nat
    OBVIOUS
  <2>2. y < x => <<y, x>> \in R
    BY <1>1, <2>1
  <2>3. ~(<<y, x>> \in R)
    BY <1>3
  <2>4. QED
    BY <2>1, <2>2, <2>3
<1>5. QED
  BY <1>4 DEF Min

(* A bounded one has a greatest one: its least bound.                          *)
LEMMA Greatest ==
    ASSUME NEW n \in Nat, NEW S, S \subseteq 0 .. n, S # {}
    PROVE  Max(S) \in S /\ \A y \in S : Max(S) >= y
<1> DEFINE Bounds == {m \in Nat : \A y \in S : y <= m}
           b == Min(Bounds)
<1>1. n \in Bounds /\ Bounds \subseteq Nat
  OBVIOUS
<1>2. b \in Bounds /\ \A m \in Bounds : b <= m
  BY <1>1, Least
<1>3. b \in Nat /\ \A y \in S : y <= b
  BY <1>2
<1> HIDE DEF b
<1>4. b \in S
  <2> SUFFICES ASSUME b \notin S PROVE FALSE
    OBVIOUS
  <2>1. \A y \in S : y \in Nat /\ y < b
    BY <1>3
  <2>2. PICK z : z \in S
    OBVIOUS
  <2>3. b - 1 \in Nat /\ \A y \in S : y <= b - 1
    BY <1>3, <2>1, <2>2
  <2>4. b - 1 \in Bounds
    BY <2>3
  <2>5. QED
    BY <1>2, <1>3, <2>4
<1>5. \A y \in S : b >= y
  BY <1>3
<1>6. QED
  BY <1>4, <1>5 DEF Max

(* Run counts the numbers of S that follow n without a gap: they are in S, and *)
(* the next one is not.                                                        *)
LEMMA RunIs ==
    ASSUME NEW L \in Nat, NEW S, S \subseteq 1 .. L, NEW n \in 0 .. L
    PROVE  /\ Run(n, S) \in Nat /\ n + Run(n, S) <= L
           /\ \A m \in n + 1 .. n + Run(n, S) : m \in S
           /\ n + Run(n, S) + 1 \notin S
<1> DEFINE c == Cardinality(S)
           M == {m \in 0 .. c : n + 1 .. n + m \subseteq S}
           r == Max(M)
<1>1. IsFiniteSet(S) /\ c \in Nat
  <2>1. 1 \in Int /\ L \in Int
    OBVIOUS
  <2>2. IsFiniteSet(1 .. L)
    BY <2>1, FS_Interval, Zenon
  <2>3. IsFiniteSet(S)
    BY <2>2, FS_Subset
  <2>4. QED
    BY <2>3, FS_CardinalityType
<1> HIDE DEF c
<1>2. 0 \in M /\ M \subseteq 0 .. c
  BY <1>1
<1>3. r \in M /\ \A m \in M : r >= m
  BY <1>1, <1>2, Greatest
<1>4. Run(n, S) = r
  BY DEF Run, c
<1> HIDE DEF r
<1>5. r \in 0 .. c /\ r \in Nat /\ \A m \in n + 1 .. n + r : m \in S
  BY <1>1, <1>3
<1>6. n + r <= L
  <2>1. CASE r = 0
    BY <2>1
  <2>2. CASE r # 0
    <3>1. n + r \in n + 1 .. n + r
      BY <1>5, <2>2
    <3>2. n + r \in 1 .. L
      BY <1>5, <3>1
    <3>3. QED
      BY <3>2
  <2>3. QED
    BY <2>1, <2>2
<1>7. n + r + 1 \notin S
  <2> SUFFICES ASSUME n + r + 1 \in S PROVE FALSE
    OBVIOUS
  <2> DEFINE T == n + 1 .. n + (r + 1)
  <2>1. \A m \in T : m \in S
    <3> TAKE m \in T
    <3>1. m \in n + 1 .. n + r \/ m = n + r + 1
      BY <1>5
    <3>2. QED
      BY <3>1, <1>5
  <2>2. T \in SUBSET S
    BY <2>1
  <2>3. Cardinality(T) <= Cardinality(S)
    BY <1>1, <2>2, FS_Subset
  <2>4. Cardinality(T) = r + 1
    <3>1. n + 1 \in Int /\ n + (r + 1) \in Int /\ ~(n + 1 > n + (r + 1))
      BY <1>5
    <3>2. Cardinality(T) = (n + (r + 1)) - (n + 1) + 1
      BY <3>1, FS_Interval
    <3>3. QED
      BY <3>2, <1>5
  <2>5. r + 1 \in 0 .. c
    BY <1>1, <1>5, <2>3, <2>4 DEF c
  <2>6. r + 1 \in M
    BY <2>2, <2>5
  <2>7. QED
    BY <1>3, <1>5, <2>6
<1>8. QED
  BY <1>4, <1>5, <1>6, <1>7

(* Taking an element out moves those behind it one to the front.               *)
LEMMA RemoveAtIs ==
    ASSUME NEW T, NEW s \in Seq(T), NEW j \in 1 .. Len(s)
    PROVE  /\ RemoveAt(s, j) \in Seq(T) /\ Len(RemoveAt(s, j)) = Len(s) - 1
           /\ \A n \in 1 .. Len(s) - 1 : RemoveAt(s, j)[n] = IF n < j THEN s[n] ELSE s[n + 1]
<1> DEFINE a == SubSeq(s, 1, j - 1)
           b == SubSeq(s, j + 1, Len(s))
<1>1. Len(s) \in Nat /\ \A n \in 1 .. Len(s) : s[n] \in T
  OBVIOUS
<1>2. /\ a \in Seq(T) /\ Len(a) = j - 1
      /\ \A n \in 1 .. j - 1 : a[n] = s[n]
  BY <1>1
<1>3. /\ b \in Seq(T) /\ Len(b) = Len(s) - j
      /\ \A n \in 1 .. Len(s) - j : b[n] = s[n + j]
  BY <1>1
<1> HIDE DEF a, b
<1>4. /\ a \o b \in Seq(T) /\ Len(a \o b) = Len(s) - 1
      /\ \A n \in 1 .. Len(s) - 1 : (a \o b)[n] = IF n < j THEN a[n] ELSE b[n - (j - 1)]
  <2>1. /\ a \o b \in Seq(T) /\ Len(a \o b) = Len(a) + Len(b)
        /\ \A n \in 1 .. Len(a) + Len(b) : (a \o b)[n] = IF n <= Len(a) THEN a[n] ELSE b[n - Len(a)]
    BY <1>2, <1>3, ConcatProperties
  <2>2. Len(a) + Len(b) = Len(s) - 1 /\ \A n \in 1 .. Len(s) - 1 : n <= Len(a) <=> n < j
    BY <1>1, <1>2, <1>3
  <2>3. QED
    BY <1>2, <2>1, <2>2
<1>5. RemoveAt(s, j) = a \o b
  BY DEF RemoveAt, a, b
<1>6. ASSUME NEW n \in 1 .. Len(s) - 1
      PROVE  (a \o b)[n] = IF n < j THEN s[n] ELSE s[n + 1]
  <2>1. CASE n < j
    BY <2>1, <1>1, <1>2, <1>4
  <2>2. CASE ~(n < j)
    <3>1. n - (j - 1) \in 1 .. Len(s) - j /\ (n - (j - 1)) + j = n + 1
      BY <2>2, <1>1
    <3>2. b[n - (j - 1)] = s[n + 1]
      BY <3>1, <1>3
    <3>3. QED
      BY <2>2, <3>2, <1>1, <1>4
  <2>3. QED
    BY <2>1, <2>2
<1>7. QED
  BY <1>4, <1>5, <1>6

(* A function on the first numbers is a sequence.                              *)
LEMMA FunctionIsSeq ==
    ASSUME NEW T, NEW n \in Nat, NEW f \in [1 .. n -> T]
    PROVE  f \in Seq(T) /\ Len(f) = n
OBVIOUS

(* What two sequences joined are.                                              *)
LEMMA Joined ==
    ASSUME NEW T, NEW s \in Seq(T), NEW e \in Seq(T), NEW k, Len(e) = k,
           NEW r, r = s \o e
    PROVE  /\ r \in Seq(T) /\ Len(r) = Len(s) + k
           /\ \A m \in 1 .. Len(s) + k :
                 r[m] = IF m <= Len(s) THEN s[m] ELSE e[m - Len(s)]
BY ConcatProperties

-----------------------------------------------------------------------------
(* The invariant of the types. *)

(* What a list of streams is: each counts no more subtitles than it has.       *)
StreamsOK(s) ==
    /\ s \in Seq(KateStream)
    /\ \A n \in DOMAIN s : s[n].subtitles_count <= Len(s[n].subtitles)

(* The streams of files before the j-th have subtitles.                        *)
Filled(s, j) == \A n \in DOMAIN s : n < j /\ ~Embedded(s[n]) => s[n].subtitles # << >>

Turning == pc \in {"packet", "feed", "flush"}

(* While a file is read its stream is one of a file there is; the loop over    *)
(* the streams ends behind the last one.                                       *)
FileShape ==
    /\ job \in Job /\ used \in 0 .. Len(job.options)
    /\ StreamsOK(streams) /\ Filled(streams, i)
    /\ i \in 1 .. Len(streams) + 1 /\ line \in Nat \ {0}
    /\ need \in {"id", "timing", "text"} /\ text \in Seq(Nat) /\ t0 \in Nat /\ t1 \in Nat
    /\ pc = "options" => i = 1
    /\ pc # "options" => used = Len(job.options)
    /\ pc = "read" => /\ i <= Len(streams) /\ ~Embedded(streams[i])
                      /\ streams[i].filename \in DOMAIN job.files
    /\ Turning => i = Len(streams) + 1

FeedShape ==
    /\ pc \in {"options", "load", "read", "packet", "feed", "flush"}
    /\ round \in 0 .. job.rounds /\ audiotime \in Nat /\ videotime \in Nat
    /\ seen \in [before : Nat, now : Nat]
    /\ first \in Seq(Nat) /\ Len(fed) = Len(first)
    /\ ~Turning => round = 0
    /\ Turning => Len(first) = Len(streams)
    /\ pc \in {"feed", "flush"} => round < job.rounds

(* When all streams were looked at, those of files that are left have          *)
(* subtitles.                                                                  *)
LEMMA ShapeIsTypeOK == FileShape /\ FeedShape => TypeOK
<1> SUFFICES ASSUME FileShape, FeedShape PROVE TypeOK
  OBVIOUS
<1>1. Loaded => i = Len(streams) + 1
  BY DEF FileShape, FeedShape, Loaded, Turning, StreamsOK
<1>2. \A n \in DOMAIN streams :
          /\ streams[n].subtitles_count <= Len(streams[n].subtitles)
          /\ Loaded /\ ~Embedded(streams[n]) => streams[n].subtitles # << >>
  BY <1>1 DEF FileShape, StreamsOK, Filled
<1>3. QED
  BY <1>2 DEF FileShape, FeedShape, TypeOK, FileTypeOK, StreamsOK

-----------------------------------------------------------------------------
(* Streams. *)

(* The names a stream was given, and where it comes from.                      *)
Same(a, b) ==
    /\ a.filename = b.filename /\ a.language = b.language
    /\ a.category = b.category /\ a.encoding = b.encoding
    /\ a.stream_index = b.stream_index

(* Other subtitles leave the names.                                            *)
LEMMA WithSubtitles ==
    ASSUME NEW ks \in KateStream, NEW q \in Seq(Subtitle)
    PROVE  /\ [ks EXCEPT !.subtitles = q] \in KateStream
           /\ [ks EXCEPT !.subtitles = q].subtitles = q
           /\ [ks EXCEPT !.subtitles = q].subtitles_count = ks.subtitles_count
           /\ Same([ks EXCEPT !.subtitles = q], ks)
BY DEF KateStream, Same

(* So does another count.                                                      *)
LEMMA WithCount ==
    ASSUME NEW ks \in KateStream, NEW c \in Nat
    PROVE  /\ [ks EXCEPT !.subtitles_count = c] \in KateStream
           /\ [ks EXCEPT !.subtitles_count = c].subtitles = ks.subtitles
           /\ [ks EXCEPT !.subtitles_count = c].subtitles_count = c
           /\ Same([ks EXCEPT !.subtitles_count = c], ks)
BY DEF KateStream, Same

(* An option of the command line leaves the other fields.                      *)
LEMMA WithField ==
    ASSUME NEW ks \in KateStream, NEW field \in Fields, NEW v \in Nat
    PROVE  /\ [ks EXCEPT ![field] = v] \in KateStream
           /\ [ks EXCEPT ![field] = v].subtitles = ks.subtitles
           /\ [ks EXCEPT ![field] = v].subtitles_count = ks.subtitles_count
           /\ [ks EXCEPT ![field] = v].stream_index = ks.stream_index
           /\ \A f \in Fields : [ks EXCEPT ![field] = v][f] = IF f = field THEN v ELSE ks[f]
<1>1. CASE field = "filename"
  BY <1>1 DEF KateStream, Fields
<1>2. CASE field = "language"
  BY <1>2 DEF KateStream, Fields
<1>3. CASE field = "category"
  BY <1>3 DEF KateStream, Fields
<1>4. CASE field = "encoding"
  BY <1>4 DEF KateStream, Fields
<1>5. QED
  BY <1>1, <1>2, <1>3, <1>4 DEF Fields

(* A stream that was just added has nothing.                                   *)
LEMMA NewStreamIs ==
    /\ NewStream \in KateStream
    /\ NewStream.stream_index = -1 /\ NewStream.subtitles = << >> /\ NewStream.subtitles_count = 0
    /\ \A field \in Fields : NewStream[field] = 0
BY DEF NewStream, KateStream, Fields

(* The stream for the k-th embedded one (AddEmbedded).                         *)
EmbeddedAs(k) == [NewStream EXCEPT !.stream_index = k, !.language = -k, !.category = -k]

(* What is embedded is no file's.                                              *)
LEMMA EmbeddedStream ==
    ASSUME NEW k \in Nat \ {0}
    PROVE  LET ks == EmbeddedAs(k)
           IN  /\ ks \in KateStream /\ Embedded(ks)
               /\ ks.subtitles = << >> /\ ks.subtitles_count = 0
               /\ ks.filename = 0 /\ ks.encoding = 0 /\ ks.stream_index = k
               /\ ks.language = -k /\ ks.category = -k
<1> DEFINE ks == EmbeddedAs(k)
<1>1. -k \in Int /\ k \in {-1} \cup Nat
  OBVIOUS
<1>2. ASSUME NEW m \in Int
      PROVE  LET w == [NewStream EXCEPT !.stream_index = k, !.language = m, !.category = m]
             IN  /\ w.filename = 0 /\ w.language = m /\ w.category = m /\ w.encoding = 0
                 /\ w.stream_index = k /\ w.subtitles = << >> /\ w.subtitles_count = 0
  BY DEF NewStream
<1>3. ASSUME NEW m \in Int
      PROVE  [NewStream EXCEPT !.stream_index = k, !.language = m, !.category = m] \in KateStream
  BY <1>1, NewStreamIs DEF KateStream
<1>4. /\ ks \in KateStream
      /\ ks.filename = 0 /\ ks.language = -k /\ ks.category = -k /\ ks.encoding = 0
      /\ ks.stream_index = k /\ ks.subtitles = << >> /\ ks.subtitles_count = 0
  BY <1>1, <1>2, <1>3, Zenon DEF EmbeddedAs
<1> HIDE DEF ks
<1>5. Embedded(ks)
  BY <1>4 DEF Embedded
<1>6. QED
  BY <1>4, <1>5 DEF ks

-----------------------------------------------------------------------------
(* The loop over the streams. *)

(* An option goes to one stream, which may be a new one at the end.            *)
LEMMA FieldSet ==
    ASSUME FileShape, SetField, NEW field, field = job.options[used + 1],
           NEW n, n = NextFree(field)
    PROVE  /\ field \in Fields /\ Name(field) \in Nat \ {0} /\ n \in 1 .. Len(streams) + 1
           /\ streams' \in Seq(KateStream)
           /\ Len(streams') = IF n > Len(streams) THEN Len(streams) + 1 ELSE Len(streams)
           /\ \A m \in 1 .. Len(streams') :
                 LET ks == IF m > Len(streams) THEN NewStream ELSE streams[m]
                 IN  /\ ks \in KateStream
                     /\ streams'[m] = IF m = n THEN [ks EXCEPT ![field] = Name(field)] ELSE ks
<1>1. /\ streams \in Seq(KateStream) /\ Len(streams) \in Nat
      /\ job \in Job /\ used \in Nat /\ used < Len(job.options)
  BY DEF FileShape, StreamsOK, SetField, Job
<1>2. field \in Fields
  <2>1. job.options \in Seq(Fields \cup {"refused"}) /\ used + 1 \in 1 .. Len(job.options)
    BY <1>1 DEF Job
  <2>2. field \in Fields \cup {"refused"}
    BY <2>1
  <2>3. QED
    BY <2>2 DEF SetField
<1>3. Name(field) \in Nat \ {0}
  <2> DEFINE S == {m \in 1 .. used : job.options[m] = field}
  <2>1. S \in SUBSET (1 .. used) /\ IsFiniteSet(1 .. used)
    BY <1>1, FS_Interval, SMTT(20)
  <2>2. Cardinality(S) \in Nat
    BY <2>1, FS_Subset, FS_CardinalityType
  <2>3. QED
    BY <2>2 DEF Name
<1>4. n \in 1 .. Len(streams) + 1
  <2> DEFINE free == {m \in DOMAIN streams : streams[m].stream_index = -1 /\ streams[m][field] = 0}
  <2>1. free \subseteq 1 .. Len(streams) /\ free \subseteq Nat
    BY <1>1
  <2>2. n = IF free = {} THEN Len(streams) + 1 ELSE Min(free)
    BY DEF NextFree
  <2> HIDE DEF free
  <2>3. free # {} => Min(free) \in free
    BY <2>1, Least
  <2>4. CASE free = {}
    BY <1>1, <2>2, <2>4
  <2>5. CASE free # {}
    <3>1. n \in free
      BY <2>2, <2>3, <2>5, Zenon
    <3>2. n \in 1 .. Len(streams)
      BY <2>1, <3>1, Zenon
    <3>3. QED
      BY <1>1, <3>2
  <2>6. QED
    BY <2>4, <2>5
<1> DEFINE longer == IF n > Len(streams) THEN Append(streams, NewStream) ELSE streams
<1>5. /\ longer \in Seq(KateStream)
      /\ Len(longer) = IF n > Len(streams) THEN Len(streams) + 1 ELSE Len(streams)
      /\ \A m \in 1 .. Len(longer) :
            longer[m] = IF m > Len(streams) THEN NewStream ELSE streams[m]
  BY <1>1, <1>4, NewStreamIs, AppendProperties
<1>6. streams' = [longer EXCEPT ![n][field] = Name(field)]
  BY DEF SetField
<1> HIDE DEF longer
<1>7. n \in 1 .. Len(longer) /\ Len(longer) \in Nat
      /\ \A m \in 1 .. Len(longer) : longer[m] \in KateStream
  BY <1>1, <1>4, <1>5
<1> DEFINE ks == [longer[n] EXCEPT ![field] = Name(field)]
<1>8. ks \in KateStream
  BY <1>2, <1>3, <1>7, WithField
<1>9. streams' = [longer EXCEPT ![n] = ks]
  BY <1>6
<1> HIDE DEF ks
<1>10. /\ streams' \in Seq(KateStream) /\ Len(streams') = Len(longer)
       /\ \A m \in 1 .. Len(longer) : streams'[m] = IF m = n THEN ks ELSE longer[m]
  BY <1>5, <1>7, <1>8, <1>9, ExceptSeq
<1>11. QED
  BY <1>2, <1>3, <1>4, <1>5, <1>7, <1>10 DEF ks

(* The embedded streams come behind those of the files.                        *)
LEMMA EmbeddedAdded ==
    ASSUME FileShape, AddEmbedded
    PROVE  /\ streams' \in Seq(KateStream) /\ Len(streams') = Len(streams) + job.embedded
           /\ \A m \in 1 .. Len(streams) : streams'[m] = streams[m]
           /\ \A m \in 1 .. Len(streams) + job.embedded : m > Len(streams) =>
                 /\ m - Len(streams) \in 1 .. job.embedded
                 /\ streams'[m] = EmbeddedAs(m - Len(streams))
<1> DEFINE new == [k \in 1 .. job.embedded |-> EmbeddedAs(k)]
<1>1. streams \in Seq(KateStream) /\ Len(streams) \in Nat /\ job.embedded \in Nat
  BY DEF FileShape, StreamsOK, Job
<1>2. \A k \in 1 .. job.embedded : new[k] = EmbeddedAs(k) /\ new[k] \in KateStream
  BY <1>1, EmbeddedStream
<1>3. streams' = streams \o new
  BY Zenon DEF AddEmbedded, EmbeddedAs
<1>4. new \in Seq(KateStream) /\ Len(new) = job.embedded
  BY <1>1, <1>2, IsASeq
<1> HIDE DEF new
<1>5. /\ streams' \in Seq(KateStream) /\ Len(streams') = Len(streams) + job.embedded
      /\ \A m \in 1 .. Len(streams) + job.embedded :
            streams'[m] = IF m <= Len(streams) THEN streams[m] ELSE new[m - Len(streams)]
  <2>1. streams \in Seq(KateStream)
    BY <1>1
  <2>2. QED
    BY <1>3, <1>4, <2>1, Joined
<1>6. ASSUME NEW m \in 1 .. Len(streams) + job.embedded, m > Len(streams)
      PROVE  /\ m - Len(streams) \in 1 .. job.embedded
             /\ streams'[m] = EmbeddedAs(m - Len(streams))
  <2>1. m - Len(streams) \in 1 .. job.embedded
    BY <1>1, <1>6
  <2>2. streams'[m] = new[m - Len(streams)]
    BY <1>1, <1>5, <1>6
  <2>3. QED
    BY <1>2, <2>1, <2>2
<1>7. ASSUME NEW m \in 1 .. Len(streams)
      PROVE  streams'[m] = streams[m]
  <2>1. m \in 1 .. Len(streams) + job.embedded /\ m <= Len(streams)
    BY <1>1
  <2>2. QED
    BY <1>5, <2>1
<1>8. QED
  BY <1>5, <1>6, <1>7

(* What is stored goes to the stream whose file is read.                       *)
LEMMA StoredIs ==
    ASSUME FileShape, pc = "read"
    PROVE  /\ StreamsOK(Stored) /\ Len(Stored) = Len(streams)
           /\ \A n \in 1 .. Len(streams) : /\ Same(Stored[n], streams[n])
                                           /\ n # i => Stored[n] = streams[n]
<1>1. /\ streams \in Seq(KateStream) /\ i \in 1 .. Len(streams) /\ Len(streams) \in Nat
      /\ \A n \in 1 .. Len(streams) : /\ streams[n] \in KateStream
                                      /\ streams[n].subtitles_count <= Len(streams[n].subtitles)
      /\ t0 \in Nat /\ t1 \in Nat /\ text \in Seq(Nat)
  BY DEF FileShape, StreamsOK
<1>2. CASE ~ValidUTF8(text, streams[i])
  BY <1>1, <1>2 DEF Stored, FileShape, Same
<1>3. CASE ValidUTF8(text, streams[i])
  <2> DEFINE sub == [t0 |-> t0, t1 |-> t1, text |-> text]
             old == streams[i].subtitles
             q == Append(old, sub)
             ks == [streams[i] EXCEPT !.subtitles = q]
  <2>1. sub \in Subtitle
    BY <1>1 DEF Subtitle
  <2>2. old \in Seq(Subtitle) /\ streams[i].subtitles_count \in Nat
    BY <1>1 DEF KateStream
  <2>3. Stored = [streams EXCEPT ![i] = ks]
    BY <1>3 DEF Stored
  <2> HIDE DEF sub, old
  <2>4. q \in Seq(Subtitle) /\ Len(q) = Len(old) + 1 /\ Len(old) \in Nat
    BY <2>1, <2>2, AppendProperties
  <2> HIDE DEF q
  <2>5. /\ ks \in KateStream /\ ks.subtitles = q /\ Same(ks, streams[i])
        /\ ks.subtitles_count = streams[i].subtitles_count
    BY <1>1, <2>4, WithSubtitles
  <2> HIDE DEF ks
  <2>6. /\ Stored \in Seq(KateStream) /\ Len(Stored) = Len(streams)
        /\ \A n \in 1 .. Len(streams) : Stored[n] = IF n = i THEN ks ELSE streams[n]
    BY <1>1, <2>3, <2>5, ExceptSeq
  <2>7. ks.subtitles_count <= Len(ks.subtitles)
    BY <1>1, <2>2, <2>4, <2>5 DEF old
  <2>8. StreamsOK(Stored)
    BY <1>1, <2>6, <2>7, SMTT(20) DEF StreamsOK
  <2>9. \A n \in 1 .. Len(streams) : Same(Stored[n], streams[n])
    BY <2>5, <2>6 DEF Same
  <2>10. QED
    BY <2>6, <2>8, <2>9
<1>4. QED
  BY <1>2, <1>3

(* A stream taken out is gone, and the loop goes on with the one that took its *)
(* place.                                                                      *)
LEMMA TakenOut ==
    ASSUME FileShape, i <= Len(streams), TakeOut
    PROVE  /\ StreamsOK(streams') /\ Filled(streams', i') /\ i' = i
           /\ Len(streams') = Len(streams) - 1
           /\ \A n \in 1 .. Len(streams') : streams'[n] = streams[IF n < i THEN n ELSE n + 1]
<1>1. /\ streams \in Seq(KateStream) /\ i \in 1 .. Len(streams) /\ Len(streams) \in Nat
      /\ \A n \in 1 .. Len(streams) : streams[n].subtitles_count <= Len(streams[n].subtitles)
      /\ \A n \in 1 .. Len(streams) : n < i /\ ~Embedded(streams[n]) => streams[n].subtitles # << >>
  BY DEF FileShape, StreamsOK, Filled
<1>2. streams' = RemoveAt(streams, i) /\ i' = i
  BY DEF TakeOut, IndexAfterRemoval
<1>3. /\ streams' \in Seq(KateStream) /\ Len(streams') = Len(streams) - 1
      /\ \A n \in 1 .. Len(streams) - 1 : streams'[n] = IF n < i THEN streams[n] ELSE streams[n + 1]
  BY <1>1, <1>2, RemoveAtIs
<1>4. StreamsOK(streams')
  BY <1>1, <1>3, SMTT(20) DEF StreamsOK
<1>5. Filled(streams', i')
  BY <1>1, <1>2, <1>3 DEF Filled
<1>6. QED
  BY <1>1, <1>2, <1>3, <1>4, <1>5

(* Every step of options and files keeps the types.                            *)
LEMMA LoadShape ==
    ASSUME FileShape, FeedShape, LoadNext
    PROVE  FileShape' /\ pc' \in {"options", "load", "read"}
<1>1. /\ streams \in Seq(KateStream) /\ Len(streams) \in Nat
      /\ i \in 1 .. Len(streams) + 1 /\ line \in Nat \ {0}
      /\ used \in Nat /\ job \in Job /\ Len(job.options) \in Nat
  BY DEF FileShape, StreamsOK, Job
<1>2. CASE SetField
  <2> DEFINE field == job.options[used + 1]
             n == NextFree(field)
  <2>1. /\ field \in Fields /\ Name(field) \in Nat
        /\ streams' \in Seq(KateStream) /\ Len(streams') \in Nat
        /\ \A m \in 1 .. Len(streams') :
              LET ks == IF m > Len(streams) THEN NewStream ELSE streams[m]
              IN  /\ ks \in KateStream
                  /\ streams'[m] = IF m = n THEN [ks EXCEPT ![field] = Name(field)] ELSE ks
    BY <1>1, <1>2, FieldSet
  <2> HIDE DEF n, field
  <2>2. ASSUME NEW m \in 1 .. Len(streams')
        PROVE  streams'[m].subtitles_count <= Len(streams'[m].subtitles)
    <3> DEFINE ks == IF m > Len(streams) THEN NewStream ELSE streams[m]
    <3>1. ks \in KateStream
      BY <2>1
    <3>2. ks.subtitles_count <= Len(ks.subtitles)
      BY <1>1, NewStreamIs DEF FileShape, StreamsOK
    <3>3. streams'[m] = IF m = n THEN [ks EXCEPT ![field] = Name(field)] ELSE ks
      BY <2>1
    <3> HIDE DEF ks
    <3>4. QED
      BY <2>1, <3>1, <3>2, <3>3, WithField
  <2>3. StreamsOK(streams')
    BY <2>1, <2>2 DEF StreamsOK
  <2>4. i = 1 /\ i' = 1 /\ pc = "options" /\ pc' = "options"
    BY <1>2 DEF FileShape, SetField, parser
  <2>5. Filled(streams', i')
    BY <2>1, <2>4 DEF Filled
  <2>6. used' \in 0 .. Len(job'.options)
    BY <1>1, <1>2 DEF SetField
  <2>7. i' \in 1 .. Len(streams') + 1
    BY <2>1, <2>4
  <2>8. UNCHANGED <<job, line, need, text, t0, t1>>
    BY <1>2 DEF SetField, parser
  <2>9. QED
    BY <2>3, <2>4, <2>5, <2>6, <2>7, <2>8 DEF FileShape, Turning
<1>3. CASE RefuseEncoding
  BY <1>1, <1>3 DEF FileShape, RefuseEncoding, parser, Turning
<1>4. CASE AddEmbedded
  <2>1. job.embedded \in Nat
    BY <1>1 DEF Job
  <2>2. /\ streams' \in Seq(KateStream) /\ Len(streams') = Len(streams) + job.embedded
        /\ \A m \in 1 .. Len(streams) : streams'[m] = streams[m]
        /\ \A m \in 1 .. Len(streams) + job.embedded : m > Len(streams) =>
              /\ m - Len(streams) \in 1 .. job.embedded
              /\ streams'[m] = EmbeddedAs(m - Len(streams))
    BY <1>4, EmbeddedAdded
  <2>3. StreamsOK(streams')
    <3> SUFFICES ASSUME NEW m \in 1 .. Len(streams')
                 PROVE  streams'[m].subtitles_count <= Len(streams'[m].subtitles)
      BY <2>2 DEF StreamsOK
    <3>1. CASE m <= Len(streams)
      <4>1. m \in 1 .. Len(streams) /\ streams'[m] = streams[m]
        BY <1>1, <2>1, <2>2, <3>1
      <4>2. streams[m].subtitles_count <= Len(streams[m].subtitles)
        BY <4>1 DEF StreamsOK, FileShape
      <4>3. QED
        BY <4>1, <4>2
    <3>2. CASE m > Len(streams)
      <4>1. /\ m - Len(streams) \in 1 .. job.embedded /\ m - Len(streams) \in Nat \ {0}
            /\ streams'[m] = EmbeddedAs(m - Len(streams))
        BY <1>1, <2>1, <2>2, <3>2
      <4>2. streams'[m].subtitles_count = 0 /\ streams'[m].subtitles = << >>
        BY <4>1, EmbeddedStream
      <4>3. QED
        BY <4>2
    <3>3. QED
      BY <1>1, <2>1, <2>2, <3>1, <3>2
  <2>4. i = 1 /\ i' = 1 /\ pc' = "load" /\ used = Len(job.options)
    BY <1>4 DEF FileShape, AddEmbedded, parser
  <2>5. Filled(streams', i')
    BY <2>2, <2>4 DEF Filled
  <2>6. i' \in 1 .. Len(streams') + 1
    BY <1>1, <2>1, <2>2, <2>4
  <2>7. UNCHANGED <<job, used, line, need, text, t0, t1>>
    BY <1>4 DEF AddEmbedded, parser
  <2>8. QED
    BY <2>3, <2>4, <2>5, <2>6, <2>7 DEF FileShape, Turning
<1>5. CASE SkipEmbedded
  BY <1>1, <1>5 DEF FileShape, SkipEmbedded, Loading, Filled, Turning
<1>6. CASE OpenFile
  BY <1>1, <1>6 DEF FileShape, OpenFile, Loading, Turning
<1>7. ASSUME i <= Len(streams), used = Len(job.options), TakeOut
      PROVE  FileShape' /\ pc' = "load"
  <2>1. /\ StreamsOK(streams') /\ Filled(streams', i') /\ i' = i
        /\ Len(streams') = Len(streams) - 1
    BY <1>7, TakenOut
  <2>2. QED
    BY <1>1, <1>7, <2>1 DEF FileShape, TakeOut, Turning
<1>8. CASE OpenFails
  BY <1>7, <1>8 DEF OpenFails, Loading, FileShape
<1>9. pc = "read" => i <= Len(streams) /\ used = Len(job.options)
  BY DEF FileShape
<1>10. CASE IgnoreEmpty
  BY <1>1, <1>10 DEF FileShape, IgnoreEmpty, Reading, NextLine, Turning
<1>11. CASE ReadId
  BY <1>1, <1>11 DEF FileShape, ReadId, Reading, NextLine, Turning, TextAtId
<1>12. CASE ReadTiming
  <2>1. File[line].t0 \in Nat /\ File[line].t1 \in Nat
    <3>1. /\ streams[i].filename \in DOMAIN job.files /\ line \in 1 .. Len(File)
      BY <1>1, <1>12 DEF ReadTiming, Reading, FileShape
    <3>2. File \in Seq(Lines)
      BY <1>1, <3>1 DEF File, Job
    <3>3. File[line] \in Lines
      BY <3>1, <3>2
    <3>4. QED
      BY <3>3 DEF Lines
  <2>2. QED
    BY <1>1, <1>12, <2>1 DEF FileShape, ReadTiming, Reading, NextLine, Turning
<1>13. CASE ReadText
  <2>1. Append(text, line) \in Seq(Nat)
    BY <1>1, AppendProperties DEF FileShape
  <2>2. QED
    BY <1>1, <1>13, <2>1 DEF FileShape, ReadText, Reading, NextLine, Turning
<1>14. ASSUME pc = "read" PROVE Filled(Stored, i)
  BY <1>1, <1>14, StoredIs DEF FileShape, Filled, Same, Embedded, StreamsOK
<1>15. CASE EndOfText
  <2>1. /\ pc = "read" /\ streams' = Stored /\ pc' = pc /\ i' = i
    BY <1>15 DEF EndOfText, Reading, NextLine
  <2>2. /\ StreamsOK(streams') /\ Len(streams') = Len(streams) /\ Filled(streams', i')
        /\ Same(streams'[i], streams[i])
    BY <1>1, <1>9, <1>14, <2>1, StoredIs
  <2>3. QED
    BY <1>1, <1>15, <2>1, <2>2 DEF FileShape, EndOfText, NextLine, Turning, Same, Embedded
<1>16. CASE SyntaxError
  BY <1>7, <1>9, <1>16 DEF SyntaxError, Reading
<1>17. CASE EndOfFile
  <2> DEFINE loaded == IF Leftover THEN Stored ELSE streams
  <2>1. pc = "read" /\ i \in 1 .. Len(streams)
    BY <1>1, <1>9, <1>17 DEF EndOfFile
  <2>2. StreamsOK(loaded) /\ Len(loaded) = Len(streams) /\ Filled(loaded, i)
    BY <1>14, <2>1, StoredIs DEF FileShape
  <2>3. CASE loaded[i].subtitles = << >>
    BY <1>7, <1>9, <1>17, <2>1, <2>3 DEF EndOfFile
  <2>4. CASE loaded[i].subtitles # << >>
    <3>1. /\ streams' = loaded /\ i' = i + 1 /\ pc' = "load"
          /\ UNCHANGED <<job, used, line, need, text, t0, t1>>
      BY <1>17, <2>4 DEF EndOfFile
    <3> HIDE DEF loaded
    <3>2. Filled(streams', i')
      BY <2>1, <2>2, <2>4, <3>1 DEF Filled, StreamsOK
    <3>3. QED
      BY <1>1, <1>9, <2>1, <2>2, <3>1, <3>2 DEF FileShape, Turning
  <2>5. QED
    BY <2>3, <2>4
<1>18. QED
  BY <1>2, <1>3, <1>4, <1>5, <1>6, <1>8, <1>10, <1>11, <1>12, <1>13, <1>15, <1>16, <1>17
  DEF LoadNext, SetField, RefuseEncoding, AddEmbedded, SkipEmbedded, OpenFile, IgnoreEmpty, ReadId,
      ReadTiming, ReadText, EndOfText, Loading, Reading, NextLine, TakeOut

-----------------------------------------------------------------------------
(* The turns of the loop. *)

(* What is skipped, or fed at once, is there; behind it is one that is not     *)
(* over, or not due.                                                           *)
LEMMA RunOf ==
    ASSUME NEW ks \in KateStream, ks.subtitles_count <= Len(ks.subtitles), NEW P,
           P \subseteq DOMAIN ks.subtitles, NEW n \in {0, ks.subtitles_count}
    PROVE  /\ Run(n, P) \in Nat /\ n + Run(n, P) <= Len(ks.subtitles)
           /\ \A m \in n + 1 .. n + Run(n, P) : m \in P
           /\ n + Run(n, P) + 1 \notin P
<1>1. ks.subtitles_count \in Nat /\ ks.subtitles \in Seq(Subtitle)
  BY DEF KateStream
<1>2. Len(ks.subtitles) \in Nat /\ P \subseteq 1 .. Len(ks.subtitles) /\ n \in 0 .. Len(ks.subtitles)
  BY <1>1
<1>3. QED
  BY <1>2, RunIs

(* How many subtitles the seek skips, and how many a turn feeds.               *)
Skipped(ks) ==
    IF job.start = 0 THEN 0 ELSE Run(0, {k \in DOMAIN ks.subtitles : Over(ks.subtitles[k])})

More(ks) == Run(ks.subtitles_count, {k \in DOMAIN ks.subtitles : Due(ks.subtitles[k])})

(* Only what is over is skipped.                                               *)
LEMMA SkippedIs ==
    ASSUME NEW ks \in KateStream, ks.subtitles_count <= Len(ks.subtitles)
    PROVE  /\ Skipped(ks) \in Nat /\ Skipped(ks) <= Len(ks.subtitles)
           /\ \A k \in 1 .. Skipped(ks) : ks.subtitles[k].t1 <= job.start
<1> DEFINE P == {k \in DOMAIN ks.subtitles : Over(ks.subtitles[k])}
<1>1. ks.subtitles \in Seq(Subtitle) /\ Len(ks.subtitles) \in Nat
  BY DEF KateStream
<1>2. CASE job.start = 0
  BY <1>1, <1>2 DEF Skipped
<1>3. CASE job.start # 0
  <2>1. P \subseteq DOMAIN ks.subtitles /\ \A k \in P : Over(ks.subtitles[k])
    OBVIOUS
  <2>2. Skipped(ks) = Run(0, P)
    BY <1>3 DEF Skipped
  <2> HIDE DEF P
  <2>3. /\ Run(0, P) \in Nat /\ 0 + Run(0, P) <= Len(ks.subtitles)
        /\ \A k \in 0 + 1 .. 0 + Run(0, P) : k \in P
    BY <2>1, RunOf
  <2>4. QED
    BY <2>1, <2>2, <2>3 DEF Over
<1>4. QED
  BY <1>2, <1>3

(* All that is fed is due, and the next one is not.                            *)
LEMMA MoreIs ==
    ASSUME NEW ks \in KateStream, ks.subtitles_count <= Len(ks.subtitles)
    PROVE  LET to == ks.subtitles_count + More(ks)
           IN  /\ More(ks) \in Nat /\ to \in Nat /\ to <= Len(ks.subtitles)
               /\ to = Len(ks.subtitles) \/ ~Due(ks.subtitles[to + 1])
<1> DEFINE P == {k \in DOMAIN ks.subtitles : Due(ks.subtitles[k])}
           c == ks.subtitles_count
<1>1. ks.subtitles \in Seq(Subtitle) /\ Len(ks.subtitles) \in Nat /\ c \in Nat
  BY DEF KateStream
<1>2. /\ P \subseteq DOMAIN ks.subtitles
      /\ \A k \in 1 .. Len(ks.subtitles) : k \notin P => ~Due(ks.subtitles[k])
  BY <1>1
<1>3. More(ks) = Run(c, P)
  BY DEF More
<1> HIDE DEF P
<1>4. /\ Run(c, P) \in Nat /\ c + Run(c, P) <= Len(ks.subtitles)
      /\ c + Run(c, P) + 1 \notin P
  BY <1>2, RunOf
<1>5. QED
  BY <1>1, <1>2, <1>3, <1>4

(* The seek and the turns, stream by stream.                                   *)
LEMMA SeekIs ==
    ASSUME Seek
    PROVE  /\ first' = [n \in DOMAIN streams |-> Skipped(streams[n])]
           /\ streams' = [n \in DOMAIN streams |->
                             [streams[n] EXCEPT !.subtitles_count = Skipped(streams[n])]]
<1> DEFINE skipped == [n \in DOMAIN streams |-> Skipped(streams[n])]
<1>1. /\ first' = skipped
      /\ streams' = [n \in DOMAIN streams |-> [streams[n] EXCEPT !.subtitles_count = skipped[n]]]
  BY DEF Seek, Skipped
<1>2. \A n \in DOMAIN streams : skipped[n] = Skipped(streams[n])
  OBVIOUS
<1> HIDE DEF skipped
<1>3. QED
  BY <1>1, <1>2 DEF skipped

(* An entry of what was fed.                                                   *)
Entry(ks, k) == [sub |-> ks.subtitles[ks.subtitles_count + k], round |-> round,
                 before |-> seen.now, now |-> AVTime]

LEMMA FeedIs ==
    ASSUME Feed
    PROVE  /\ seen' = [before |-> seen.now, now |-> AVTime]
           /\ streams' = [n \in DOMAIN streams |-> [streams[n] EXCEPT
                             !.subtitles_count = streams[n].subtitles_count + More(streams[n])]]
           /\ fed' = [n \in DOMAIN streams |->
                         fed[n] \o [k \in 1 .. More(streams[n]) |-> Entry(streams[n], k)]]
BY Zenon DEF Feed, More, Entry

(* What a command line says.                                                   *)
LEMMA JobIs ==
    FileShape => /\ job.start \in Nat /\ job.rounds \in Nat /\ job.embedded \in Nat
                 /\ job.mode \in {"av", "audio_only", "video_only"}
BY DEF FileShape, Job

(* The time written so far is one of the two.                                  *)
LEMMA AVTimeIs ==
    ASSUME FileShape, FeedShape
    PROVE  AVTime \in Nat
<1>1. audiotime \in Nat /\ videotime \in Nat
  BY DEF FeedShape
<1>2. Min({audiotime, videotime}) \in Nat
  <2>1. {audiotime, videotime} \subseteq Nat /\ {audiotime, videotime} # {}
    BY <1>1
  <2>2. QED
    BY <2>1, Least
<1>3. QED
  BY <1>1, <1>2, JobIs DEF AVTime

(* A seek sets the counts and nothing else.                                    *)
LEMMA SeekStreams ==
    ASSUME FileShape, Seek
    PROVE  /\ StreamsOK(streams') /\ Len(streams') = Len(streams)
           /\ first' \in Seq(Nat) /\ Len(first') = Len(streams)
           /\ \A n \in 1 .. Len(streams) :
                 /\ Same(streams'[n], streams[n])
                 /\ streams'[n].subtitles = streams[n].subtitles
                 /\ streams'[n].subtitles_count = Skipped(streams[n])
                 /\ first'[n] = Skipped(streams[n])
<1>1. /\ streams \in Seq(KateStream) /\ Len(streams) \in Nat /\ DOMAIN streams = 1 .. Len(streams)
      /\ \A n \in 1 .. Len(streams) : /\ streams[n] \in KateStream
                                      /\ streams[n].subtitles_count <= Len(streams[n].subtitles)
  BY DEF FileShape, StreamsOK
<1>2. \A n \in 1 .. Len(streams) : /\ Skipped(streams[n]) \in Nat
                                   /\ Skipped(streams[n]) <= Len(streams[n].subtitles)
  BY <1>1, SkippedIs
<1>3. /\ first' = [n \in 1 .. Len(streams) |-> Skipped(streams[n])]
      /\ streams' = [n \in 1 .. Len(streams) |->
                        [streams[n] EXCEPT !.subtitles_count = Skipped(streams[n])]]
  BY <1>1, SeekIs
<1>4. ASSUME NEW n \in 1 .. Len(streams)
      PROVE  /\ streams'[n] \in KateStream
             /\ Same(streams'[n], streams[n])
             /\ streams'[n].subtitles = streams[n].subtitles
             /\ streams'[n].subtitles_count = Skipped(streams[n])
  <2>1. streams'[n] = [streams[n] EXCEPT !.subtitles_count = Skipped(streams[n])]
    BY <1>3
  <2>2. QED
    BY <1>1, <1>2, <2>1, WithCount
<1>5. streams' \in Seq(KateStream) /\ Len(streams') = Len(streams)
  <2>1. streams' \in [1 .. Len(streams) -> KateStream]
    BY <1>3, <1>4
  <2>2. QED
    BY <1>1, <2>1, FunctionIsSeq
<1>6. first' \in Seq(Nat) /\ Len(first') = Len(streams)
  BY <1>1, <1>2, <1>3, IsASeq
<1>7. \A n \in 1 .. Len(streams) : first'[n] = Skipped(streams[n])
  BY <1>3
<1>8. StreamsOK(streams')
  BY <1>2, <1>4, <1>5 DEF StreamsOK
<1>9. QED
  BY <1>4, <1>5, <1>6, <1>7, <1>8

(* So does a turn.                                                             *)
LEMMA FeedStreams ==
    ASSUME FileShape, Feed
    PROVE  /\ StreamsOK(streams') /\ Len(streams') = Len(streams)
           /\ \A n \in 1 .. Len(streams) :
                 /\ Same(streams'[n], streams[n])
                 /\ streams'[n].subtitles = streams[n].subtitles
                 /\ streams'[n].subtitles_count = streams[n].subtitles_count + More(streams[n])
<1>1. /\ streams \in Seq(KateStream) /\ Len(streams) \in Nat /\ DOMAIN streams = 1 .. Len(streams)
      /\ \A n \in 1 .. Len(streams) : /\ streams[n] \in KateStream
                                      /\ streams[n].subtitles_count <= Len(streams[n].subtitles)
  BY DEF FileShape, StreamsOK
<1> DEFINE to(n) == streams[n].subtitles_count + More(streams[n])
<1>2. \A n \in 1 .. Len(streams) : to(n) \in Nat /\ to(n) <= Len(streams[n].subtitles)
  BY <1>1, MoreIs
<1>3. streams' = [n \in 1 .. Len(streams) |-> [streams[n] EXCEPT !.subtitles_count = to(n)]]
  BY <1>1, FeedIs
<1>4. \A n \in 1 .. Len(streams) : to(n) = streams[n].subtitles_count + More(streams[n])
  OBVIOUS
<1> HIDE DEF to
<1>5. ASSUME NEW n \in 1 .. Len(streams)
      PROVE  /\ streams'[n] \in KateStream
             /\ Same(streams'[n], streams[n])
             /\ streams'[n].subtitles = streams[n].subtitles
             /\ streams'[n].subtitles_count = to(n)
  <2>1. streams'[n] = [streams[n] EXCEPT !.subtitles_count = to(n)]
    BY <1>3
  <2>2. QED
    BY <1>1, <1>2, <2>1, WithCount
<1>6. streams' \in Seq(KateStream) /\ Len(streams') = Len(streams)
  <2>1. streams' \in [1 .. Len(streams) -> KateStream]
    BY <1>3, <1>5
  <2>2. QED
    BY <1>1, <2>1, FunctionIsSeq
<1>7. StreamsOK(streams')
  BY <1>2, <1>5, <1>6 DEF StreamsOK
<1>8. QED
  BY <1>4, <1>5, <1>6, <1>7

(* A packet is left out, or brings one subtitle to the streams of its index.   *)
LEMMA PacketIs ==
    ASSUME FileShape, ReadEmbedded
    PROVE  UNCHANGED streams \/ \E k \in 1 .. job.embedded, sub \in Subtitle : Add(k, sub)
<1>1. PICK k \in 1 .. job.embedded, a \in Arrivals :
          LET t == a.pts - job.start
              begun == t < 0 /\ t + a.duration > 0
          IN  CASE a.kind = "image" -> Add(k, [t0 |-> t, t1 |-> t + a.duration, text |-> << >>])
                [] a.kind = "text" /\ t >= 0 ->
                     Add(k, [t0 |-> t, t1 |-> t + a.duration, text |-> << >>])
                [] a.kind = "text" /\ begun ->
                     Add(k, [t0 |-> 0, t1 |-> t + a.duration, text |-> << >>])
                [] OTHER -> UNCHANGED streams
  BY Zenon DEF ReadEmbedded
<1> DEFINE t == a.pts - job.start
<1>2. t \in Int /\ t + a.duration \in Int /\ a.kind \in {"text", "image", "invalid"}
  BY JobIs, SubtitleFeedAssumption
<1> HIDE DEF t
<1>3. /\ [t0 |-> t, t1 |-> t + a.duration, text |-> << >>] \in Subtitle
      /\ [t0 |-> 0, t1 |-> t + a.duration, text |-> << >>] \in Subtitle
  BY <1>2 DEF Subtitle
<1>4. CASE a.kind = "image"
  BY <1>1, <1>3, <1>4 DEF t
<1>5. CASE a.kind = "text" /\ t >= 0
  BY <1>1, <1>3, <1>5 DEF t
<1>6. CASE a.kind = "text" /\ ~(t >= 0) /\ t < 0 /\ t + a.duration > 0
  BY <1>1, <1>3, <1>6 DEF t
<1>7. CASE a.kind # "image" /\ ~(a.kind = "text" /\ t >= 0)
           /\ ~(a.kind = "text" /\ t < 0 /\ t + a.duration > 0)
  BY <1>1, <1>7 DEF t
<1>8. QED
  BY <1>2, <1>4, <1>5, <1>6, <1>7

(* It goes behind the others, and only to embedded streams.                    *)
LEMMA PacketStreams ==
    ASSUME FileShape, ReadEmbedded
    PROVE  /\ StreamsOK(streams') /\ Len(streams') = Len(streams)
           /\ \A n \in 1 .. Len(streams) :
                 /\ Same(streams'[n], streams[n])
                 /\ streams'[n].subtitles_count = streams[n].subtitles_count
                 /\ \/ streams'[n].subtitles = streams[n].subtitles
                    \/ /\ Embedded(streams[n])
                       /\ \E sub \in Subtitle :
                             streams'[n].subtitles = Append(streams[n].subtitles, sub)
<1>1. /\ streams \in Seq(KateStream) /\ Len(streams) \in Nat /\ DOMAIN streams = 1 .. Len(streams)
      /\ \A n \in 1 .. Len(streams) :
            /\ streams[n] \in KateStream
            /\ streams[n].subtitles_count <= Len(streams[n].subtitles)
            /\ streams[n].subtitles \in Seq(Subtitle) /\ streams[n].subtitles_count \in Nat
  <2>1. /\ streams \in Seq(KateStream) /\ Len(streams) \in Nat /\ DOMAIN streams = 1 .. Len(streams)
        /\ \A n \in 1 .. Len(streams) : /\ streams[n] \in KateStream
                                        /\ streams[n].subtitles_count <= Len(streams[n].subtitles)
    BY DEF FileShape, StreamsOK
  <2>2. \A ks \in KateStream : ks.subtitles \in Seq(Subtitle) /\ ks.subtitles_count \in Nat
    BY DEF KateStream
  <2>3. QED
    BY <2>1, <2>2
<1>2. CASE UNCHANGED streams
  BY <1>1, <1>2 DEF FileShape, Same
<1>3. CASE \E k \in 1 .. job.embedded, sub \in Subtitle : Add(k, sub)
  <2>1. PICK k \in 1 .. job.embedded, sub \in Subtitle : Add(k, sub)
    BY <1>3
  <2> DEFINE q(n) == Append(streams[n].subtitles, sub)
  <2>2. \A n \in 1 .. Len(streams) : /\ q(n) \in Seq(Subtitle)
                                     /\ Len(q(n)) = Len(streams[n].subtitles) + 1
                                     /\ Len(streams[n].subtitles) \in Nat
    BY <1>1, AppendProperties
  <2>3. streams' = [n \in 1 .. Len(streams) |->
                       IF streams[n].stream_index = k
                       THEN [streams[n] EXCEPT !.subtitles = q(n)] ELSE streams[n]]
    BY <1>1, <2>1 DEF Add
  <2>4. \A n \in 1 .. Len(streams) : q(n) = Append(streams[n].subtitles, sub)
    OBVIOUS
  <2> HIDE DEF q
  <2>5. ASSUME NEW n \in 1 .. Len(streams)
        PROVE  /\ streams'[n] \in KateStream
               /\ streams'[n].subtitles_count <= Len(streams'[n].subtitles)
               /\ Same(streams'[n], streams[n])
               /\ streams'[n].subtitles_count = streams[n].subtitles_count
               /\ \/ streams'[n].subtitles = streams[n].subtitles
                  \/ Embedded(streams[n]) /\ streams'[n].subtitles = q(n)
    <3>1. CASE streams[n].stream_index = k
      <4>1. streams'[n] = [streams[n] EXCEPT !.subtitles = q(n)]
        BY <2>3, <3>1
      <4>2. /\ streams'[n] \in KateStream /\ streams'[n].subtitles = q(n)
            /\ Same(streams'[n], streams[n])
            /\ streams'[n].subtitles_count = streams[n].subtitles_count
        BY <1>1, <2>2, <4>1, WithSubtitles
      <4>3. Embedded(streams[n])
        BY <3>1, JobIs DEF Embedded
      <4>4. streams'[n].subtitles_count <= Len(streams'[n].subtitles)
        BY <1>1, <2>2, <4>2
      <4>5. QED
        BY <4>2, <4>3, <4>4
    <3>2. CASE streams[n].stream_index # k
      <4>1. streams'[n] = streams[n]
        BY <2>3, <3>2
      <4>2. QED
        BY <1>1, <4>1 DEF Same
    <3>3. QED
      BY <3>1, <3>2
  <2>6. streams' \in Seq(KateStream) /\ Len(streams') = Len(streams)
    <3>1. streams' \in [1 .. Len(streams) -> KateStream]
      BY <2>3, <2>5
    <3>2. QED
      BY <1>1, <3>1, FunctionIsSeq
  <2>7. StreamsOK(streams')
    BY <2>5, <2>6 DEF StreamsOK
  <2>8. QED
    BY <2>4, <2>5, <2>6, <2>7
<1>4. QED
  BY <1>2, <1>3, PacketIs

(* Streams of files keep their subtitles in all this.                          *)
LEMMA StaysFilled ==
    ASSUME FileShape, NEW s, Len(s) = Len(streams), StreamsOK(s),
           \A n \in 1 .. Len(streams) : /\ Same(s[n], streams[n])
                                        /\ ~Embedded(streams[n]) => s[n].subtitles = streams[n].subtitles
    PROVE  Filled(s, i)
<1>1. streams \in Seq(KateStream) /\ s \in Seq(KateStream) /\ Filled(streams, i)
  BY DEF FileShape, StreamsOK
<1>2. DOMAIN streams = 1 .. Len(streams) /\ DOMAIN s = 1 .. Len(streams)
  BY <1>1
<1>3. \A n \in 1 .. Len(streams) : n < i /\ ~Embedded(streams[n]) => streams[n].subtitles # << >>
  BY <1>1, <1>2, Zenon DEF Filled
<1>4. \A n \in 1 .. Len(streams) : /\ Embedded(s[n]) <=> Embedded(streams[n])
                                   /\ ~Embedded(streams[n]) => s[n].subtitles = streams[n].subtitles
  BY DEF Same, Embedded
<1>5. ASSUME NEW n \in DOMAIN s, n < i, ~Embedded(s[n]) PROVE s[n].subtitles # << >>
  BY <1>2, <1>3, <1>4, <1>5
<1>6. QED
  BY <1>5 DEF Filled

(* Every step of the seek and the turns keeps the types.                       *)
LEMMA TurnShape ==
    ASSUME FileShape, FeedShape, Seek \/ ReadEmbedded \/ ReadOther \/ Feed \/ Flush
    PROVE  FileShape' /\ FeedShape'
<1>1. /\ job \in Job /\ Len(streams) \in Nat /\ job.rounds \in Nat
      /\ round \in 0 .. job.rounds /\ round \in Nat
  BY JobIs DEF FileShape, StreamsOK, FeedShape
<1>2. ASSUME Turning \/ Seek,
             StreamsOK(streams'), Len(streams') = Len(streams), Filled(streams', i),
             Turning', UNCHANGED <<job, used, parser>>
      PROVE  FileShape'
  <2>1. i = Len(streams) + 1 /\ used = Len(job.options)
    BY <1>2 DEF FileShape, Seek, Turning
  <2>2. QED
    BY <1>2, <2>1 DEF FileShape, Turning, parser
<1>3. CASE Seek
  <2>1. /\ StreamsOK(streams') /\ Len(streams') = Len(streams) /\ Filled(streams', i)
        /\ first' \in Seq(Nat) /\ Len(first') = Len(streams)
    BY <1>3, SeekStreams, StaysFilled
  <2>2. Turning' /\ pc' = "packet" /\ UNCHANGED <<job, used, parser, round, times, seen>>
    BY <1>3 DEF Seek, Turning
  <2>3. Len(fed') = Len(streams)
    BY <1>1, <1>3 DEF Seek, FileShape, StreamsOK
  <2>4. FileShape'
    BY <1>2, <1>3, <2>1, <2>2
  <2>5. FeedShape'
    BY <2>1, <2>2, <2>3 DEF FeedShape, times, Turning
  <2>6. QED
    BY <2>4, <2>5
<1>4. CASE ReadEmbedded
  <2>1. StreamsOK(streams') /\ Len(streams') = Len(streams) /\ Filled(streams', i)
    BY <1>4, PacketStreams, StaysFilled
  <2>2. /\ pc = "packet" /\ round < job.rounds /\ pc' = "feed"
        /\ UNCHANGED <<job, used, parser, feedVars>>
    BY <1>4 DEF ReadEmbedded
  <2>3. FileShape'
    BY <1>2, <2>1, <2>2 DEF Turning
  <2>4. FeedShape'
    BY <2>1, <2>2 DEF FeedShape, feedVars, times, Turning
  <2>5. QED
    BY <2>3, <2>4
<1>5. CASE ReadOther
  <2>1. /\ pc = "packet" /\ round < job.rounds /\ pc' = "feed"
        /\ UNCHANGED <<job, used, streams, parser, feedVars>>
    BY <1>5 DEF ReadOther
  <2>2. FileShape'
    BY <1>2, <2>1 DEF Turning, FileShape, parser
  <2>3. FeedShape'
    BY <2>1 DEF FeedShape, feedVars, times, Turning
  <2>4. QED
    BY <2>2, <2>3
<1>6. CASE Feed
  <2>1. StreamsOK(streams') /\ Len(streams') = Len(streams) /\ Filled(streams', i)
    BY <1>6, FeedStreams, StaysFilled
  <2>2. /\ pc = "feed" /\ pc' = "flush"
        /\ UNCHANGED <<job, used, parser, round, times, first>>
    BY <1>6 DEF Feed
  <2>3. seen' \in [before : Nat, now : Nat]
    BY <1>6, FeedIs, AVTimeIs DEF FeedShape
  <2>4. FileShape'
    BY <1>2, <2>1, <2>2 DEF Turning
  <2>5. Len(fed') = Len(streams) /\ Len(first) = Len(streams)
    <3>1. \E f : fed' = [n \in 1 .. Len(streams) |-> f[n]]
      <4>1. DOMAIN streams = 1 .. Len(streams)
        BY DEF FileShape, StreamsOK
      <4>2. fed' = [n \in DOMAIN streams |-> fed'[n]]
        BY <1>6, FeedIs
      <4>3. QED
        BY <4>1, <4>2
    <3>2. QED
      BY <1>1, <2>2, <3>1 DEF FeedShape, Turning
  <2>6. FeedShape'
    BY <2>1, <2>2, <2>3, <2>5 DEF FeedShape, times, Turning
  <2>7. QED
    BY <2>4, <2>6
<1>7. CASE Flush
  <2>1. /\ pc = "flush" /\ pc' = "packet" /\ round' = round + 1
        /\ UNCHANGED <<job, used, streams, parser, seen, first, fed>>
    BY <1>7 DEF Flush
  <2>2. audiotime' \in Nat /\ videotime' \in Nat
    BY <1>7, SubtitleFeedAssumption DEF Flush, FeedShape
  <2>3. FileShape'
    BY <1>2, <2>1 DEF Turning, FileShape, parser
  <2>4. FeedShape'
    BY <1>1, <2>1, <2>2 DEF FeedShape, Turning
  <2>5. QED
    BY <2>3, <2>4
<1>8. QED
  BY <1>3, <1>4, <1>5, <1>6, <1>7

Shape == FileShape /\ FeedShape

(* No step leaves the types.                                                   *)
LEMMA StepShape == Shape /\ [Next]_vars => Shape'
<1> SUFFICES ASSUME FileShape, FeedShape, [Next]_vars PROVE FileShape' /\ FeedShape'
  BY DEF Shape
<1>1. CASE Load
  <2>1. /\ FileShape' /\ pc' \in {"options", "load", "read"} /\ UNCHANGED feedVars
    BY <1>1, LoadShape DEF Load
  <2>2. pc \in {"options", "load", "read"}
    BY <1>1 DEF Load, LoadNext, SetField, RefuseEncoding, AddEmbedded, SkipEmbedded, OpenFile,
                OpenFails, Loading, IgnoreEmpty, ReadId, ReadTiming, ReadText, EndOfText,
                SyntaxError, EndOfFile, Reading
  <2>3. job' = job
    BY <1>1 DEF Load, LoadNext, SetField, RefuseEncoding, AddEmbedded, SkipEmbedded, OpenFile,
                OpenFails, TakeOut, IgnoreEmpty, ReadId, ReadTiming, ReadText, EndOfText,
                SyntaxError, EndOfFile, NextLine
  <2>4. FeedShape'
    BY <2>1, <2>2, <2>3 DEF FeedShape, feedVars, times, Turning
  <2>5. QED
    BY <2>1, <2>4
<1>2. CASE Seek \/ ReadEmbedded \/ ReadOther \/ Feed \/ Flush
  BY <1>2, TurnShape
<1>3. CASE UNCHANGED vars
  BY <1>3 DEF FileShape, FeedShape, vars, fileVars, feedVars, parser, times, Turning
<1>4. CASE Done
  BY <1>3, <1>4 DEF Done
<1>5. QED
  BY <1>1, <1>2, <1>3, <1>4 DEF Next

(* The program starts within them.                                             *)
LEMMA InitShape == FeedInit => Shape
<1> SUFFICES ASSUME FeedInit PROVE FileShape /\ FeedShape
  BY DEF Shape
<1>1. job \in Job
  BY SubtitleFileAssumption DEF FeedInit, Init
<1>2. /\ Len(job.options) \in Nat /\ job.rounds \in Nat
  BY <1>1 DEF Job
<1>3. FileShape
  BY <1>1, <1>2 DEF FeedInit, Init, FileShape, StreamsOK, Filled, Turning
<1>4. FeedShape
  BY <1>2 DEF FeedInit, Init, FeedShape, Turning
<1>5. QED
  BY <1>3, <1>4

LEMMA ShapeHolds == Spec => []Shape
BY InitShape, StepShape, PTL DEF Spec

(* The parser, the array of streams and the turns of the loop keep to their    *)
(* types, for any command line, files and embedded streams: a stream of a file *)
(* is kept only with subtitles, and none is counted that is not there.         *)
THEOREM TypesHold == Spec => []TypeOK
<1>1. Shape => TypeOK
  BY ShapeIsTypeOK DEF Shape
<1>2. QED
  BY <1>1, ShapeHolds, PTL

-----------------------------------------------------------------------------
(* Options and their files. *)

(* How often a field was given so far.                                         *)
Count(field) == Cardinality({m \in 1 .. used : job.options[m] = field})

(* While options are read, the n-th stream is that of the n-th file: it has    *)
(* the n-th of each field, as far as that was given.                           *)
Numbered ==
    pc = "options" =>
        /\ \A field \in Fields : Count(field) <= Len(streams)
        /\ \A n \in DOMAIN streams :
              /\ streams[n].stream_index = -1
              /\ \A field \in Fields : streams[n][field] = IF n <= Count(field) THEN n ELSE 0

(* What is given is counted.                                                   *)
LEMMA CountIs ==
    ASSUME FileShape, NEW field
    PROVE  /\ Count(field) \in Nat
           /\ used' = used + 1 /\ job' = job =>
                 Count(field)' = IF job.options[used + 1] = field THEN Count(field) + 1 ELSE Count(field)
           /\ used' = used /\ job' = job => Count(field)' = Count(field)
<1> DEFINE S(u) == {m \in 1 .. u : job.options[m] = field}
<1>1. used \in Nat
  BY DEF FileShape, Job
<1>2. IsFiniteSet(S(used)) /\ Cardinality(S(used)) \in Nat
  <2>1. IsFiniteSet(1 .. used)
    <3>1. 1 \in Int /\ used \in Int
      BY <1>1
    <3>2. QED
      BY <3>1, FS_Interval, Zenon
  <2>2. S(used) \in SUBSET (1 .. used)
    OBVIOUS
  <2>3. IsFiniteSet(S(used))
    BY <2>1, <2>2, FS_Subset
  <2>4. QED
    BY <2>3, FS_CardinalityType
<1>3. Count(field) = Cardinality(S(used))
  BY DEF Count
<1>4. ASSUME used' = used + 1, job' = job
      PROVE  Count(field)' = IF job.options[used + 1] = field THEN Count(field) + 1 ELSE Count(field)
  <2>1. Count(field)' = Cardinality(S(used + 1))
    BY <1>4 DEF Count
  <2>2. CASE job.options[used + 1] = field
    <3>1. S(used + 1) = S(used) \cup {used + 1} /\ used + 1 \notin S(used)
      BY <1>1, <2>2
    <3> HIDE DEF S
    <3>2. Cardinality(S(used) \cup {used + 1}) = Cardinality(S(used)) + 1
      BY <1>2, <3>1, FS_AddElement
    <3>3. QED
      BY <1>3, <2>1, <2>2, <3>1, <3>2
  <2>3. CASE job.options[used + 1] # field
    <3>1. S(used + 1) = S(used)
      BY <1>1, <2>3
    <3> HIDE DEF S
    <3>2. QED
      BY <1>3, <2>1, <2>3, <3>1
  <2>4. QED
    BY <2>2, <2>3
<1>5. used' = used /\ job' = job => Count(field)' = Count(field)
  BY DEF Count
<1>6. QED
  BY <1>2, <1>3, <1>4, <1>5

(* So the next stream that lacks a field is the one that it is counted for.    *)
LEMMA NextFreeIs ==
    ASSUME FileShape, Numbered, pc = "options", NEW field \in Fields
    PROVE  NextFree(field) = Count(field) + 1
<1> DEFINE c == Count(field)
           free == {n \in DOMAIN streams : streams[n].stream_index = -1 /\ streams[n][field] = 0}
<1>1. /\ c \in Nat /\ Len(streams) \in Nat /\ c <= Len(streams) /\ DOMAIN streams = 1 .. Len(streams)
      /\ \A n \in 1 .. Len(streams) : /\ streams[n].stream_index = -1
                                      /\ streams[n][field] = IF n <= c THEN n ELSE 0
  BY CountIs DEF Numbered, FileShape, StreamsOK
<1> HIDE DEF c
<1>2. NextFree(field) = IF free = {} THEN Len(streams) + 1 ELSE Min(free)
  BY DEF NextFree
<1>3. \A n \in 1 .. Len(streams) : n \in free <=> n > c
  BY <1>1
<1>4. \A n \in free : n \in 1 .. Len(streams)
  BY <1>1
<1> HIDE DEF free
<1>5. CASE c = Len(streams)
  <2>1. free = {}
    BY <1>1, <1>3, <1>4, <1>5
  <2>2. QED
    BY <1>2, <1>5, <2>1 DEF c
<1>6. CASE c # Len(streams)
  <2>1. c + 1 \in free
    <3>1. c \in Nat /\ Len(streams) \in Nat /\ c <= Len(streams)
      BY <1>1
    <3>2. c + 1 \in 1 .. Len(streams) /\ c + 1 > c
      BY <1>6, <3>1
    <3>3. QED
      BY <1>3, <3>2
  <2>2. free \subseteq Nat /\ free # {}
    BY <1>4, <2>1
  <2>3. Min(free) \in free /\ \A y \in free : Min(free) <= y
    BY <2>2, Least
  <2>4. Min(free) <= c + 1 /\ Min(free) > c /\ Min(free) \in Nat
    BY <1>3, <1>4, <2>1, <2>3
  <2>5. Min(free) = c + 1
    BY <1>1, <2>4
  <2>6. QED
    BY <1>2, <2>2, <2>5 DEF c
<1>7. QED
  BY <1>5, <1>6

(* An option is the next one of its field, for the stream of that number.      *)
LEMMA FieldNumbered ==
    ASSUME FileShape, Numbered, SetField
    PROVE  Numbered'
<1> DEFINE field == job.options[used + 1]
           c == Count(field)
<1>1. /\ Len(streams) \in Nat /\ DOMAIN streams = 1 .. Len(streams) /\ pc = "options"
      /\ field \in Fields /\ c \in Nat /\ used' = used + 1 /\ job' = job
      /\ \A n \in 1 .. Len(streams) : streams[n] \in KateStream
  BY FieldSet, CountIs, SMTT(20) DEF FileShape, StreamsOK, SetField
<1>2. \A f \in Fields : Count(f)' = (IF f = field THEN c + 1 ELSE Count(f)) /\ Count(f) \in Nat
  BY <1>1, CountIs
<1>3. NextFree(field) = c + 1 /\ Name(field) = c + 1 /\ c <= Len(streams)
  BY <1>1, NextFreeIs DEF Name, Count, Numbered
<1>4. /\ streams' \in Seq(KateStream)
      /\ Len(streams') = IF c + 1 > Len(streams) THEN Len(streams) + 1 ELSE Len(streams)
      /\ \A m \in 1 .. Len(streams') :
            LET ks == IF m > Len(streams) THEN NewStream ELSE streams[m]
            IN  /\ ks \in KateStream
                /\ streams'[m] = IF m = c + 1 THEN [ks EXCEPT ![field] = c + 1] ELSE ks
  BY <1>1, <1>3, FieldSet
<1> HIDE DEF field, c
<1>5. /\ \A f \in Fields : Count(f) <= Len(streams)
      /\ \A n \in 1 .. Len(streams) :
            /\ streams[n].stream_index = -1
            /\ \A f \in Fields : streams[n][f] = IF n <= Count(f) THEN n ELSE 0
  BY <1>1 DEF Numbered
<1>6. \A f \in Fields : Count(f)' <= Len(streams')
  BY <1>1, <1>2, <1>3, <1>4, <1>5
<1>7. ASSUME NEW m \in 1 .. Len(streams')
      PROVE  /\ streams'[m].stream_index = -1
             /\ \A f \in Fields : streams'[m][f] = IF m <= Count(f)' THEN m ELSE 0
  <2> DEFINE ks == IF m > Len(streams) THEN NewStream ELSE streams[m]
  <2>1. m \in Nat \ {0} /\ m <= Len(streams) + 1
    BY <1>1, <1>4
  <2>2. /\ ks \in KateStream /\ ks.stream_index = -1
        /\ \A f \in Fields : ks[f] = IF m <= Count(f) THEN m ELSE 0
    <3>1. CASE m > Len(streams)
      <4>1. \A f \in Fields : ~(m <= Count(f))
        BY <1>1, <1>2, <1>5, <2>1, <3>1
      <4>2. QED
        BY <3>1, <4>1, NewStreamIs
    <3>2. CASE ~(m > Len(streams))
      BY <1>1, <1>5, <2>1, <3>2
    <3>3. QED
      BY <3>1, <3>2
  <2>3. streams'[m] = IF m = c + 1 THEN [ks EXCEPT ![field] = c + 1] ELSE ks
    BY <1>4
  <2> HIDE DEF ks
  <2>4. CASE m = c + 1
    <3>1. streams'[m] = [ks EXCEPT ![field] = m] /\ m \in Nat
      BY <2>1, <2>3, <2>4
    <3>2. /\ streams'[m].stream_index = -1
          /\ \A f \in Fields : streams'[m][f] = IF f = field THEN m ELSE ks[f]
      <4>1. field \in Fields /\ ks \in KateStream /\ ks.stream_index = -1
        BY <1>1, <2>2
      <4>2. QED
        BY <3>1, <4>1, WithField
    <3>3. QED
      BY <1>1, <1>2, <2>2, <2>4, <3>2
  <2>5. CASE m # c + 1
    <3>1. streams'[m] = ks
      BY <2>3, <2>5
    <3>2. \A f \in Fields : m <= Count(f)' <=> m <= Count(f)
      <4> TAKE f \in Fields
      <4>1. CASE f = field
        <5>1. Count(f)' = c + 1 /\ Count(f) = c
          BY <1>2, <4>1 DEF c
        <5>2. QED
          BY <1>1, <2>1, <2>5, <5>1
      <4>2. CASE f # field
        BY <1>2, <4>2
      <4>3. QED
        BY <4>1, <4>2
    <3>3. QED
      BY <2>2, <3>1, <3>2
  <2>6. QED
    BY <2>4, <2>5
<1>8. DOMAIN streams' = 1 .. Len(streams')
  BY <1>4
<1>9. QED
  BY <1>6, <1>7, <1>8 DEF Numbered

(* What a stream is called: an embedded one by its number, that of a file by   *)
(* the number of the file, as far as the field was given.                      *)
Label(ks) ==
    IF Embedded(ks)
    THEN /\ ks.filename = 0 /\ ks.encoding = 0
         /\ ks.language = -ks.stream_index /\ ks.category = -ks.stream_index
    ELSE ks.filename # 0 =>
           \A field \in Fields : ks[field] = IF ks.filename <= Count(field) THEN ks.filename ELSE 0

LEMMA LabelledIs == Labelled <=> \A n \in DOMAIN streams : Label(streams[n])
BY DEF Labelled, Label, Count

(* Streams with the same names have the same label.                            *)
LEMMA SameLabel ==
    ASSUME NEW a, NEW b, Same(a, b), Label(b)
    PROVE  Label(a)
<1>1. \A field \in Fields : a[field] = b[field]
  BY DEF Fields, Same
<1>2. Embedded(a) <=> Embedded(b)
  BY DEF Same, Embedded
<1>3. CASE Embedded(b)
  BY <1>2, <1>3 DEF Label, Same
<1>4. CASE ~Embedded(b)
  BY <1>1, <1>2, <1>4 DEF Label, Same
<1>5. QED
  BY <1>3, <1>4

(* The n-th file has the n-th of each field while options are read.            *)
LEMMA NumberedLabels == Shape /\ Numbered /\ pc = "options" => Labelled
<1> SUFFICES ASSUME FileShape, Numbered, pc = "options", NEW n \in DOMAIN streams
             PROVE  Label(streams[n])
  BY LabelledIs DEF Shape
<1>1. n \in Nat /\ n # 0
  BY DEF FileShape, StreamsOK
<1>2. /\ streams[n].stream_index = -1
      /\ \A field \in Fields : streams[n][field] = IF n <= Count(field) THEN n ELSE 0
  BY DEF Numbered
<1>3. ~Embedded(streams[n])
  BY <1>2 DEF Embedded
<1>4. ASSUME streams[n].filename # 0 PROVE streams[n].filename = n
  BY <1>2, <1>4 DEF Fields
<1>5. QED
  BY <1>2, <1>3, <1>4 DEF Label

(* Once they are read, every stream is one there was, or an embedded one that  *)
(* is added.                                                                   *)
LEMMA StreamsStay ==
    ASSUME Shape, [Next]_vars, pc' # "options"
    PROVE  /\ used' = used /\ job' = job
           /\ \A n \in DOMAIN streams' :
                 \/ \E m \in DOMAIN streams : Same(streams'[n], streams[m])
                 \/ \E k \in Nat \ {0} : streams'[n] = EmbeddedAs(k)
<1>1. /\ streams \in Seq(KateStream) /\ Len(streams) \in Nat /\ DOMAIN streams = 1 .. Len(streams)
      /\ StreamsOK(streams) /\ FileShape
  BY DEF Shape, FileShape, StreamsOK
<1>2. \A ks : Same(ks, ks)
  BY DEF Same
<1>3. ASSUME streams' = streams PROVE \A n \in DOMAIN streams' : \E m \in DOMAIN streams : Same(streams'[n], streams[m])
  BY <1>2, <1>3
<1>4. ASSUME NEW s, StreamsOK(s), Len(s) = Len(streams), streams' = s,
             \A n \in 1 .. Len(streams) : Same(s[n], streams[n])
      PROVE  \A n \in DOMAIN streams' : \E m \in DOMAIN streams : Same(streams'[n], streams[m])
  BY <1>1, <1>4 DEF StreamsOK
<1>5. ASSUME i <= Len(streams), TakeOut
      PROVE  \A n \in DOMAIN streams' : \E m \in DOMAIN streams : Same(streams'[n], streams[m])
  <2>1. /\ DOMAIN streams' = 1 .. Len(streams) - 1 /\ i \in Nat
        /\ \A n \in 1 .. Len(streams) - 1 : streams'[n] = streams[IF n < i THEN n ELSE n + 1]
    <3>1. /\ StreamsOK(streams') /\ Len(streams') = Len(streams) - 1
          /\ \A n \in 1 .. Len(streams') : streams'[n] = streams[IF n < i THEN n ELSE n + 1]
      BY <1>1, <1>5, TakenOut
    <3>2. DOMAIN streams' = 1 .. Len(streams')
      BY <3>1 DEF StreamsOK
    <3>3. i \in Nat
      BY <1>1 DEF FileShape
    <3>4. QED
      BY <3>1, <3>2, <3>3
  <2>2. TAKE n \in DOMAIN streams'
  <2>3. /\ (IF n < i THEN n ELSE n + 1) \in DOMAIN streams
        /\ streams'[n] = streams[IF n < i THEN n ELSE n + 1]
    BY <1>1, <2>1
  <2>4. QED
    BY <1>2, <2>3
<1>6. CASE AddEmbedded
  <2> DEFINE new == [k \in 1 .. job.embedded |-> EmbeddedAs(k)]
  <2>1. streams' = streams \o new /\ used' = used /\ job' = job
    BY <1>6, Zenon DEF AddEmbedded, EmbeddedAs
  <2>2. job.embedded \in Nat
    BY <1>1, JobIs
  <2>3. /\ new \in [1 .. job.embedded -> KateStream]
        /\ \A k \in 1 .. job.embedded : new[k] = EmbeddedAs(k)
    BY <2>2, EmbeddedStream
  <2> HIDE DEF new
  <2>4. new \in Seq(KateStream) /\ Len(new) = job.embedded
    BY <2>2, <2>3, FunctionIsSeq
  <2>5. /\ streams' \in Seq(KateStream) /\ Len(streams') = Len(streams) + job.embedded
        /\ \A m \in 1 .. Len(streams) + job.embedded :
              streams'[m] = IF m <= Len(streams) THEN streams[m] ELSE new[m - Len(streams)]
    <3>1. streams \in Seq(KateStream) /\ streams' = streams \o new
      BY <1>1, <2>1
    <3>2. QED
      BY <2>4, <3>1, Joined
  <2>6. ASSUME NEW n \in DOMAIN streams'
        PROVE  \/ \E m \in DOMAIN streams : Same(streams'[n], streams[m])
               \/ \E k \in Nat \ {0} : streams'[n] = EmbeddedAs(k)
    <3>1. n \in 1 .. Len(streams) + job.embedded
      BY <2>5
    <3>2. CASE n <= Len(streams)
      <4>1. n \in DOMAIN streams /\ streams'[n] = streams[n]
        BY <1>1, <2>2, <2>5, <3>1, <3>2
      <4>2. QED
        BY <1>2, <4>1
    <3>3. CASE ~(n <= Len(streams))
      <4>1. n - Len(streams) \in 1 .. job.embedded /\ streams'[n] = new[n - Len(streams)]
        BY <1>1, <2>2, <2>5, <3>1, <3>3
      <4>2. n - Len(streams) \in Nat \ {0} /\ streams'[n] = EmbeddedAs(n - Len(streams))
        BY <2>2, <2>3, <4>1
      <4>3. QED
        BY <4>2
    <3>4. QED
      BY <3>2, <3>3
  <2>7. QED
    BY <2>1, <2>6
<1>7. CASE Load /\ ~AddEmbedded
  <2>1. CASE SetField \/ RefuseEncoding
    BY <2>1 DEF SetField, RefuseEncoding
  <2>2. CASE SkipEmbedded \/ OpenFile \/ IgnoreEmpty \/ ReadId \/ ReadTiming \/ ReadText
    BY <1>3, <2>2 DEF SkipEmbedded, OpenFile, IgnoreEmpty, ReadId, ReadTiming, ReadText, NextLine
  <2>3. CASE OpenFails \/ SyntaxError
    <3>1. TakeOut /\ i <= Len(streams)
      BY <1>1, <2>3 DEF OpenFails, SyntaxError, Loading, Reading, FileShape
    <3>2. QED
      BY <1>5, <3>1 DEF TakeOut
  <2>4. CASE EndOfText
    <3>1. pc = "read" /\ streams' = Stored /\ used' = used /\ job' = job
      BY <2>4 DEF EndOfText, Reading, NextLine
    <3>2. QED
      BY <1>1, <1>4, <3>1, StoredIs
  <2>5. CASE EndOfFile
    <3> DEFINE loaded == IF Leftover THEN Stored ELSE streams
    <3>1. pc = "read" /\ i <= Len(streams)
      BY <1>1, <2>5 DEF EndOfFile, FileShape
    <3>2. CASE loaded[i].subtitles = << >>
      BY <1>5, <2>5, <3>1, <3>2 DEF EndOfFile, TakeOut
    <3>3. CASE loaded[i].subtitles # << >>
      <4>1. streams' = loaded /\ used' = used /\ job' = job
        BY <2>5, <3>3 DEF EndOfFile
      <4>2. CASE Leftover
        BY <1>1, <1>4, <3>1, <4>1, <4>2, StoredIs
      <4>3. CASE ~Leftover
        BY <1>3, <4>1, <4>3
      <4>4. QED
        BY <4>2, <4>3
    <3>4. QED
      BY <3>2, <3>3
  <2>6. QED
    BY <1>7, <2>1, <2>2, <2>3, <2>4, <2>5 DEF Load, LoadNext
<1>8. CASE Seek
  <2>1. used' = used /\ job' = job
    BY <1>8 DEF Seek
  <2>2. QED
    BY <1>1, <1>4, <1>8, <2>1, SeekStreams
<1>9. CASE ReadEmbedded
  <2>1. used' = used /\ job' = job
    BY <1>9 DEF ReadEmbedded
  <2>2. QED
    BY <1>1, <1>4, <1>9, <2>1, PacketStreams
<1>10. CASE Feed
  <2>1. used' = used /\ job' = job
    BY <1>10 DEF Feed
  <2>2. QED
    BY <1>1, <1>4, <1>10, <2>1, FeedStreams
<1>11. CASE ReadOther \/ Flush \/ UNCHANGED vars
  BY <1>3, <1>11 DEF ReadOther, Flush, vars, fileVars
<1>12. QED
  BY <1>6, <1>7, <1>8, <1>9, <1>10, <1>11 DEF Next, Load, Done

LabelInv == Shape /\ Numbered /\ Labelled

(* While options are read only SetField changes the streams, and it keeps them *)
(* numbered.                                                                   *)
LEMMA StepNumbered == Shape /\ Numbered /\ [Next]_vars => Numbered'
<1> SUFFICES ASSUME FileShape, FeedShape, Numbered, [Next]_vars, pc' = "options" PROVE Numbered'
  BY DEF Shape, Numbered
<1>1. SetField \/ RefuseEncoding \/ UNCHANGED vars
  BY DEF Next, Load, LoadNext, AddEmbedded, SkipEmbedded, OpenFile, OpenFails, TakeOut, Loading,
         IgnoreEmpty, ReadId, ReadTiming, ReadText, EndOfText, SyntaxError, EndOfFile, Reading,
         NextLine, Seek, ReadEmbedded, ReadOther, Feed, Flush, Done
<1>2. CASE SetField
  BY <1>2, FieldNumbered
<1>3. CASE RefuseEncoding
  <2>1. /\ pc = "options" /\ streams' = streams /\ job' = job /\ used' = used + 1
        /\ \A field \in Fields : job.options[used + 1] # field
    BY <1>3 DEF RefuseEncoding, Fields
  <2>2. \A field \in Fields : Count(field)' = Count(field)
    BY <2>1, CountIs
  <2>3. QED
    BY <2>1, <2>2 DEF Numbered
<1>4. CASE UNCHANGED vars
  <2>1. pc = "options" /\ streams' = streams /\ job' = job /\ used' = used
    BY <1>4 DEF vars, fileVars
  <2>2. \A field \in Fields : Count(field)' = Count(field)
    BY <2>1, CountIs
  <2>3. QED
    BY <2>1, <2>2 DEF Numbered
<1>5. QED
  BY <1>1, <1>2, <1>3, <1>4

(* Afterwards streams come with the label they had.                            *)
LEMMA LaterLabels == Shape /\ Labelled /\ [Next]_vars /\ pc' # "options" => Labelled'
<1> SUFFICES ASSUME Shape, Labelled, [Next]_vars, pc' # "options",
                    NEW n \in DOMAIN streams'
             PROVE  Label(streams[n])'
  <2>1. (Labelled <=> \A n \in DOMAIN streams : Label(streams[n]))'
    BY LabelledIs, PTL
  <2>2. QED
    BY <2>1
<1>1. /\ FileShape /\ used' = used /\ job' = job
      /\ \/ \E m \in DOMAIN streams : Same(streams'[n], streams[m])
         \/ \E k \in Nat \ {0} : streams'[n] = EmbeddedAs(k)
  BY StreamsStay DEF Shape
<1>2. Label(streams'[n])
  <2>1. CASE \E m \in DOMAIN streams : Same(streams'[n], streams[m])
    BY <2>1, LabelledIs, SameLabel
  <2>2. CASE \E k \in Nat \ {0} : streams'[n] = EmbeddedAs(k)
    BY <2>2, EmbeddedStream DEF Label
  <2>3. QED
    BY <1>1, <2>1, <2>2
<1>3. \A field \in Fields : Count(field)' = Count(field)
  BY <1>1, CountIs
<1>4. QED
  BY <1>2, <1>3 DEF Label, Embedded

LEMMA StepLabels == LabelInv /\ [Next]_vars => LabelInv'
<1>1. LabelInv /\ [Next]_vars => Shape' /\ Numbered'
  BY StepShape, StepNumbered DEF LabelInv
<1>2. (Shape /\ Numbered /\ pc = "options" => Labelled)'
  BY NumberedLabels, PTL
<1>3. LabelInv /\ [Next]_vars /\ pc' # "options" => Labelled'
  BY LaterLabels DEF LabelInv
<1>4. QED
  BY <1>1, <1>2, <1>3 DEF LabelInv

LEMMA InitLabels == FeedInit => LabelInv
<1> SUFFICES ASSUME FeedInit PROVE LabelInv
  OBVIOUS
<1>1. Shape
  BY InitShape
<1>2. used = 0 /\ streams = << >>
  BY DEF FeedInit, Init
<1>3. \A field \in Fields : Count(field) = 0
  <2> TAKE field \in Fields
  <2>1. {m \in 1 .. used : job.options[m] = field} = {}
    BY <1>2
  <2>2. QED
    BY <2>1, FS_EmptySet DEF Count
<1>4. Numbered /\ Labelled
  BY <1>2, <1>3 DEF Numbered, Labelled
<1>5. QED
  BY <1>1, <1>4 DEF LabelInv

(* "sets the language of the next subtitles file": for any command line, in    *)
(* whatever order files, languages, categories and encodings are given and     *)
(* whichever streams were taken out of the array, the n-th of each belongs to  *)
(* the n-th file, and none to an embedded stream.                              *)
THEOREM NamesBelong == Spec => []Labelled
<1>1. LabelInv => Labelled
  BY DEF LabelInv
<1>2. QED
  BY <1>1, InitLabels, StepLabels, PTL DEF Spec

-----------------------------------------------------------------------------
(* What is fed. *)

Fed == [sub : Subtitle, round : Nat, before : Nat, now : Nat]

(* Of a stream f subtitles were skipped, which were over, and fs was fed: all  *)
(* that it counts behind them.                                                 *)
Kept(ks, f, fs) ==
    /\ f <= ks.subtitles_count
    /\ fs \in Seq(Fed) /\ Len(fs) = ks.subtitles_count - f
    /\ \A k \in 1 .. Len(fs) : fs[k].sub = ks.subtitles[f + k]
    /\ \A k \in 1 .. f : ks.subtitles[k].t1 <= job.start

KeptInv ==
    /\ DOMAIN fed = 1 .. Len(fed)
    /\ Turning => \A n \in DOMAIN streams : Kept(streams[n], first[n], fed[n])
    /\ ~Turning => fed = << >>

(* When subtitles were fed at time t, the next one was not due.                *)
Stopped(ks, t) ==
    \/ ks.subtitles_count = Len(ks.subtitles)
    \/ ks.subtitles[ks.subtitles_count + 1].t0 - Lead > t + job.start

(* Until the next turn that is so; a packet brings a subtitle only to an       *)
(* embedded stream.                                                            *)
StoppedInv ==
    Turning /\ (round > 0 \/ pc = "flush") =>
        \A n \in DOMAIN streams :
            pc # "feed" \/ ~Embedded(streams[n]) => Stopped(streams[n], seen.now)

(* What a turn feeds to a stream.                                              *)
LEMMA FedNow ==
    ASSUME FileShape, FeedShape, Feed, KeptInv, NEW n \in 1 .. Len(streams)
    PROVE  LET ks == streams[n]
               m == More(ks)
               c == ks.subtitles_count
           IN  /\ ks \in KateStream /\ Len(ks.subtitles) \in Nat /\ c \in Nat /\ m \in Nat
               /\ c + m <= Len(ks.subtitles)
               /\ Kept(ks, first[n], fed[n]) /\ first[n] \in Nat
               /\ fed'[n] \in Seq(Fed) /\ Len(fed'[n]) = Len(fed[n]) + m
               /\ \A k \in 1 .. Len(fed[n]) : fed'[n][k] = fed[n][k]
               /\ \A k \in 1 .. m : fed'[n][Len(fed[n]) + k] = Entry(ks, k)
<1> DEFINE ks == streams[n]
           m == More(ks)
           c == ks.subtitles_count
           e == [k \in 1 .. m |-> Entry(ks, k)]
<1>1. /\ n \in DOMAIN streams /\ ks \in KateStream /\ c <= Len(ks.subtitles)
      /\ pc = "feed"
  BY DEF FileShape, StreamsOK, Feed
<1>2. ks.subtitles \in Seq(Subtitle) /\ c \in Nat /\ Len(ks.subtitles) \in Nat
  BY <1>1 DEF KateStream
<1>3. m \in Nat /\ c + m <= Len(ks.subtitles)
  BY <1>1, MoreIs
<1>4. Kept(ks, first[n], fed[n])
  BY <1>1 DEF KeptInv, Turning
<1>5. first[n] \in Nat
  BY <1>1 DEF FeedShape, Turning
<1>6. fed'[n] = fed[n] \o e
  BY <1>1, FeedIs
<1> HIDE DEF ks, m, c
<1>7. ASSUME NEW k \in 1 .. m PROVE Entry(ks, k) \in Fed
  <2>1. ks.subtitles[ks.subtitles_count + k] \in Subtitle
    <3>1. c + k \in 1 .. Len(ks.subtitles)
      BY <1>2, <1>3
    <3>2. QED
      BY <1>2, <3>1 DEF c
  <2>2. round \in Nat /\ seen.now \in Nat /\ AVTime \in Nat
    BY AVTimeIs, JobIs DEF FeedShape
  <2>3. QED
    BY <2>1, <2>2 DEF Entry, Fed
<1>8. /\ e \in [1 .. m -> Fed]
      /\ \A k \in 1 .. m : e[k] = Entry(ks, k)
  BY <1>7
<1> HIDE DEF e
<1>9. e \in Seq(Fed) /\ Len(e) = m
  BY <1>3, <1>8, FunctionIsSeq
<1>10. fed[n] \in Seq(Fed) /\ Len(fed[n]) \in Nat
  BY <1>4 DEF Kept
<1>11. /\ fed'[n] \in Seq(Fed) /\ Len(fed'[n]) = Len(fed[n]) + m
       /\ \A k \in 1 .. Len(fed[n]) + m :
             fed'[n][k] = IF k <= Len(fed[n]) THEN fed[n][k] ELSE e[k - Len(fed[n])]
  <2>1. /\ fed[n] \o e \in Seq(Fed) /\ Len(fed[n] \o e) = Len(fed[n]) + Len(e)
        /\ \A k \in 1 .. Len(fed[n]) + Len(e) :
              (fed[n] \o e)[k] = IF k <= Len(fed[n]) THEN fed[n][k] ELSE e[k - Len(fed[n])]
    BY <1>9, <1>10, ConcatProperties
  <2>2. QED
    BY <1>6, <1>9, <2>1
<1>12. \A k \in 1 .. Len(fed[n]) : fed'[n][k] = fed[n][k]
  BY <1>3, <1>10, <1>11, SMTT(20)
<1>13. \A k \in 1 .. m : fed'[n][Len(fed[n]) + k] = Entry(ks, k)
  <2> TAKE k \in 1 .. m
  <2>1. /\ Len(fed[n]) + k \in 1 .. Len(fed[n]) + m /\ ~(Len(fed[n]) + k <= Len(fed[n]))
        /\ (Len(fed[n]) + k) - Len(fed[n]) = k
    BY <1>3, <1>10
  <2>2. fed'[n][Len(fed[n]) + k] = e[k]
    BY <1>11, <2>1
  <2>3. QED
    BY <1>8, <2>2
<1>14. QED
  BY <1>1, <1>2, <1>3, <1>4, <1>5, <1>11, <1>12, <1>13 DEF ks, m, c

(* The steps that leave what was fed.                                          *)
LEMMA NothingFed ==
    ASSUME FileShape, FeedShape, ReadEmbedded \/ ReadOther \/ Flush, NEW n \in 1 .. Len(streams)
    PROVE  /\ Turning /\ Turning' /\ UNCHANGED <<job, first, fed, seen>>
           /\ Len(streams') = Len(streams) /\ DOMAIN streams' = 1 .. Len(streams)
           /\ Same(streams'[n], streams[n])
           /\ streams[n].subtitles_count \in Nat /\ Len(streams[n].subtitles) \in Nat
           /\ streams[n].subtitles_count <= Len(streams[n].subtitles)
           /\ streams'[n].subtitles_count = streams[n].subtitles_count
           /\ \A k \in 1 .. Len(streams[n].subtitles) :
                 streams'[n].subtitles[k] = streams[n].subtitles[k]
           /\ Flush \/ ~Embedded(streams[n]) =>
                 streams'[n].subtitles = streams[n].subtitles
<1>1. /\ Turning /\ Turning' /\ UNCHANGED <<job, first, fed, seen>>
  BY DEF ReadEmbedded, ReadOther, Flush, Turning, feedVars
<1>2. /\ streams[n] \in KateStream /\ streams[n].subtitles_count <= Len(streams[n].subtitles)
      /\ DOMAIN streams = 1 .. Len(streams)
  BY DEF FileShape, StreamsOK
<1>3. /\ streams[n].subtitles \in Seq(Subtitle) /\ Len(streams[n].subtitles) \in Nat
      /\ streams[n].subtitles_count \in Nat
  BY <1>2 DEF KateStream
<1>4. CASE ReadOther \/ Flush
  <2>1. streams' = streams
    BY <1>4 DEF ReadOther, Flush
  <2>2. QED
    BY <1>1, <1>2, <1>3, <2>1 DEF Same
<1>5. CASE ReadEmbedded
  <2>1. /\ StreamsOK(streams') /\ Len(streams') = Len(streams)
        /\ Same(streams'[n], streams[n])
        /\ streams'[n].subtitles_count = streams[n].subtitles_count
        /\ \/ streams'[n].subtitles = streams[n].subtitles
           \/ /\ Embedded(streams[n])
              /\ \E sub \in Subtitle : streams'[n].subtitles = Append(streams[n].subtitles, sub)
    BY <1>5, PacketStreams
  <2>2. DOMAIN streams' = 1 .. Len(streams)
    BY <2>1 DEF StreamsOK
  <2>3. \A k \in 1 .. Len(streams[n].subtitles) :
           streams'[n].subtitles[k] = streams[n].subtitles[k]
    BY <1>3, <2>1, AppendProperties
  <2>4. ~Flush
    BY <1>5 DEF ReadEmbedded, Flush
  <2>5. QED
    BY <1>1, <1>2, <1>3, <2>1, <2>2, <2>3, <2>4
<1>6. QED
  BY <1>4, <1>5

(* Every step keeps what was fed in line with the counts.                      *)
LEMMA StepKept == Shape /\ KeptInv /\ [Next]_vars => KeptInv'
<1> SUFFICES ASSUME FileShape, FeedShape, KeptInv, [Next]_vars PROVE KeptInv'
  BY DEF Shape
<1>1. Len(streams) \in Nat /\ DOMAIN streams = 1 .. Len(streams)
  BY DEF FileShape, StreamsOK
<1>2. CASE Load
  <2>1. pc' \in {"options", "load", "read"} /\ fed' = fed
    BY <1>2, LoadShape DEF Load, feedVars
  <2>2. ~Turning
    BY <1>2 DEF Load, LoadNext, SetField, RefuseEncoding, AddEmbedded, SkipEmbedded, OpenFile,
                OpenFails, Loading, IgnoreEmpty, ReadId, ReadTiming, ReadText, EndOfText,
                SyntaxError, EndOfFile, Reading, Turning
  <2>3. QED
    BY <2>1, <2>2 DEF KeptInv, Turning
<1>3. CASE Seek
  <2>1. /\ StreamsOK(streams') /\ Len(streams') = Len(streams) /\ Turning' /\ job' = job
        /\ fed' = [n \in 1 .. Len(streams) |-> << >>]
    BY <1>1, <1>3, SeekStreams DEF Seek, Turning
  <2>2. DOMAIN fed' = 1 .. Len(fed')
    BY <1>1, <2>1
  <2>3. ASSUME NEW n \in 1 .. Len(streams)
        PROVE  Kept(streams[n], first[n], fed[n])'
    <3> DEFINE f == Skipped(streams[n])
    <3>1. /\ streams'[n].subtitles = streams[n].subtitles
          /\ streams'[n].subtitles_count = f /\ first'[n] = f
      BY <1>3, SeekStreams
    <3>2. f \in Nat /\ \A k \in 1 .. f : streams[n].subtitles[k].t1 <= job.start
      BY SkippedIs DEF FileShape, StreamsOK
    <3>3. fed'[n] = << >>
      BY <2>1
    <3> HIDE DEF f
    <3>4. QED
      BY <2>1, <3>1, <3>2, <3>3 DEF Kept
  <2>4. QED
    BY <2>1, <2>2, <2>3 DEF KeptInv, StreamsOK
<1>4. CASE ReadEmbedded \/ ReadOther \/ Flush
  <2>1. /\ Turning /\ Turning' /\ fed' = fed /\ DOMAIN streams' = 1 .. Len(streams)
    <3>1. Turning /\ Turning' /\ fed' = fed
      BY <1>4 DEF ReadEmbedded, ReadOther, Flush, Turning, feedVars
    <3>2. StreamsOK(streams') /\ Len(streams') = Len(streams)
      BY <1>4, PacketStreams DEF ReadOther, Flush, FileShape
    <3>3. QED
      BY <3>1, <3>2 DEF StreamsOK
  <2>2. ASSUME NEW n \in 1 .. Len(streams)
        PROVE  Kept(streams[n], first[n], fed[n])'
    <3> DEFINE f == first[n]
               c == streams[n].subtitles_count
    <3>1. Kept(streams[n], f, fed[n])
      BY <1>1, <2>1 DEF KeptInv
    <3>2. /\ UNCHANGED <<job, first, fed>>
          /\ c \in Nat /\ Len(streams[n].subtitles) \in Nat /\ c <= Len(streams[n].subtitles)
          /\ streams'[n].subtitles_count = c
          /\ \A k \in 1 .. Len(streams[n].subtitles) :
                streams'[n].subtitles[k] = streams[n].subtitles[k]
      BY <1>4, NothingFed
    <3>3. f \in Nat /\ f <= c /\ Len(fed[n]) = c - f
      BY <1>1, <2>1, <3>1 DEF FeedShape, Kept
    <3>4. /\ \A k \in 1 .. Len(fed[n]) : f + k \in 1 .. Len(streams[n].subtitles)
          /\ \A k \in 1 .. f : k \in 1 .. Len(streams[n].subtitles)
      <4>1. ASSUME NEW a \in Nat, NEW b \in Nat, NEW l \in Nat, NEW m, a <= b, b <= l, m = b - a
            PROVE  (\A k \in 1 .. m : a + k \in 1 .. l) /\ \A k \in 1 .. a : k \in 1 .. l
        BY <4>1
      <4>2. c \in Nat /\ Len(streams[n].subtitles) \in Nat /\ c <= Len(streams[n].subtitles)
        BY <3>2
      <4> HIDE DEF f, c
      <4>3. QED
        BY <3>3, <4>1, <4>2
    <3> HIDE DEF f, c
    <3>5. Kept(streams'[n], f, fed[n])
      BY <3>1, <3>2, <3>3, <3>4 DEF Kept, c
    <3>6. QED
      BY <3>2, <3>5 DEF Kept, f
  <2>3. QED
    BY <2>1, <2>2 DEF KeptInv
<1>5. CASE Feed
  <2>1. /\ StreamsOK(streams') /\ Len(streams') = Len(streams) /\ Turning'
        /\ UNCHANGED <<job, first>>
        /\ DOMAIN fed' = 1 .. Len(streams)
    BY <1>1, <1>5, FeedStreams, FeedIs DEF Feed, Turning
  <2>2. DOMAIN fed' = 1 .. Len(fed')
    <3>1. fed' = [n \in 1 .. Len(streams) |-> fed'[n]]
      BY <1>1, <1>5, FeedIs
    <3>2. QED
      BY <1>1, <3>1
  <2>3. ASSUME NEW n \in 1 .. Len(streams)
        PROVE  Kept(streams[n], first[n], fed[n])'
    <3> DEFINE ks == streams[n]
               m == More(ks)
               c == ks.subtitles_count
               f == first[n]
    <3>1. /\ ks \in KateStream /\ Len(ks.subtitles) \in Nat /\ c \in Nat /\ m \in Nat
          /\ c + m <= Len(ks.subtitles)
          /\ Kept(ks, f, fed[n]) /\ f \in Nat
          /\ fed'[n] \in Seq(Fed) /\ Len(fed'[n]) = Len(fed[n]) + m
          /\ \A k \in 1 .. Len(fed[n]) : fed'[n][k] = fed[n][k]
          /\ \A k \in 1 .. m : fed'[n][Len(fed[n]) + k] = Entry(ks, k)
      BY <1>5, FedNow
    <3>2. streams'[n].subtitles = ks.subtitles /\ streams'[n].subtitles_count = c + m
      BY <1>5, FeedStreams
    <3> HIDE DEF ks, m
    <3>3. /\ f <= c /\ Len(fed[n]) = c - f
          /\ \A k \in 1 .. Len(fed[n]) : fed[n][k].sub = ks.subtitles[f + k]
          /\ \A k \in 1 .. f : ks.subtitles[k].t1 <= job.start
      BY <3>1 DEF Kept
    <3> HIDE DEF c, f
    <3>4. \A k \in 1 .. m : Entry(ks, k).sub = ks.subtitles[c + k]
      BY DEF Entry, c
    <3>5. ASSUME NEW k \in 1 .. Len(fed'[n])
          PROVE  fed'[n][k].sub = ks.subtitles[f + k]
      <4>1. CASE k <= Len(fed[n])
        <5>1. k \in 1 .. Len(fed[n])
          BY <3>1, <3>3, <4>1
        <5>2. QED
          BY <3>1, <3>3, <5>1
      <4>2. CASE ~(k <= Len(fed[n]))
        <5>1. /\ k - Len(fed[n]) \in 1 .. m /\ Len(fed[n]) + (k - Len(fed[n])) = k
              /\ c + (k - Len(fed[n])) = f + k
          BY <3>1, <3>3, <4>2
        <5>2. fed'[n][k] = Entry(ks, k - Len(fed[n]))
          BY <3>1, <5>1
        <5>3. QED
          BY <3>4, <5>1, <5>2
      <4>3. QED
        BY <4>1, <4>2
    <3>6. f <= c + m /\ Len(fed'[n]) = (c + m) - f
      BY <3>1, <3>3
    <3>7. Kept(streams'[n], f, fed'[n])
      BY <3>1, <3>2, <3>3, <3>5, <3>6 DEF Kept
    <3>8. QED
      BY <2>1, <3>7 DEF Kept, f
  <2>4. QED
    BY <2>1, <2>2, <2>3 DEF KeptInv, StreamsOK
<1>6. CASE UNCHANGED vars
  BY <1>6 DEF vars, fileVars, feedVars, KeptInv, Turning, Kept
<1>7. QED
  BY <1>2, <1>3, <1>4, <1>5, <1>6 DEF Next, Done

(* A turn leaves off at a subtitle that is not due, and until the next one     *)
(* nothing is added to a file.                                                 *)
LEMMA StepStopped == Shape /\ StoppedInv /\ [Next]_vars => StoppedInv'
<1> SUFFICES ASSUME FileShape, FeedShape, StoppedInv, [Next]_vars,
                    Turning', round' > 0 \/ pc' = "flush",
                    NEW n \in DOMAIN streams', pc' # "feed" \/ ~Embedded(streams'[n])
             PROVE  Stopped(streams[n], seen.now)'
  BY DEF Shape, StoppedInv
<1>1. Len(streams) \in Nat /\ DOMAIN streams = 1 .. Len(streams)
  BY DEF FileShape, StreamsOK
<1>2. ~Load
  BY LoadShape DEF Load, Turning
<1>3. ~Seek
  BY DEF Seek, Turning, FeedShape
<1>4. CASE ReadEmbedded \/ ReadOther
  <2>1. /\ pc = "packet" /\ pc' = "feed" /\ round' = round /\ Turning
    BY <1>4 DEF ReadEmbedded, ReadOther, feedVars, Turning
  <2>2. n \in 1 .. Len(streams)
    <3>1. CASE ReadEmbedded
      BY <3>1, PacketStreams DEF StreamsOK
    <3>2. CASE ReadOther
      BY <1>1, <3>2 DEF ReadOther
    <3>3. QED
      BY <1>4, <3>1, <3>2
  <2>3. /\ Same(streams'[n], streams[n]) /\ UNCHANGED <<job, seen>>
        /\ streams'[n].subtitles_count = streams[n].subtitles_count
        /\ ~Embedded(streams[n]) => streams'[n].subtitles = streams[n].subtitles
    BY <1>4, <2>2, NothingFed
  <2>4. ~Embedded(streams[n])
    BY <2>1, <2>3 DEF Same, Embedded
  <2>5. Stopped(streams[n], seen.now)
    BY <1>1, <2>1, <2>2, <2>4 DEF StoppedInv
  <2>6. QED
    BY <2>3, <2>4, <2>5 DEF Stopped
<1>5. CASE Feed
  <2>1. n \in 1 .. Len(streams)
    BY <1>5, FeedStreams DEF StreamsOK
  <2> DEFINE ks == streams[n]
             to == ks.subtitles_count + More(ks)
  <2>2. /\ streams'[n].subtitles = ks.subtitles /\ streams'[n].subtitles_count = to
        /\ job' = job /\ seen'.now = AVTime
    BY <1>5, <2>1, FeedStreams, FeedIs DEF Feed
  <2>3. ks \in KateStream /\ ks.subtitles_count <= Len(ks.subtitles)
    BY <1>1, <2>1 DEF FileShape, StreamsOK
  <2>4. /\ to \in Nat /\ to <= Len(ks.subtitles)
        /\ to = Len(ks.subtitles) \/ ~Due(ks.subtitles[to + 1])
    BY <2>3, MoreIs
  <2>5. ks.subtitles \in Seq(Subtitle) /\ Len(ks.subtitles) \in Nat
    BY <2>3 DEF KateStream
  <2> HIDE DEF ks, to
  <2>6. CASE to = Len(ks.subtitles)
    BY <2>2, <2>6 DEF Stopped
  <2>7. CASE to # Len(ks.subtitles)
    <3>1. to + 1 \in 1 .. Len(ks.subtitles)
      BY <2>4, <2>5, <2>7
    <3>2. ks.subtitles[to + 1].t0 \in Int
      <4>1. ks.subtitles[to + 1] \in Subtitle
        BY <2>5, <3>1
      <4>2. QED
        BY <4>1 DEF Subtitle
    <3>3. ks.subtitles[to + 1].t0 - Lead > AVTime + job.start
      BY <2>4, <2>7, <3>2, AVTimeIs, JobIs, SMTT(20) DEF Due, Lead
    <3>4. QED
      BY <2>2, <3>3 DEF Stopped
  <2>8. QED
    BY <2>6, <2>7
<1>6. CASE Flush
  <2>1. /\ pc = "flush" /\ streams' = streams /\ UNCHANGED <<job, seen>>
    BY <1>6 DEF Flush
  <2>2. Stopped(streams[n], seen.now)
    BY <2>1 DEF StoppedInv, Turning
  <2>3. QED
    BY <2>1, <2>2 DEF Stopped
<1>7. CASE UNCHANGED vars
  <2>1. UNCHANGED <<job, pc, streams, round, seen>>
    BY <1>7 DEF vars, fileVars, feedVars
  <2>2. Stopped(streams[n], seen.now)
    BY <2>1 DEF StoppedInv, Turning
  <2>3. QED
    BY <2>1, <2>2 DEF Stopped
<1>8. QED
  BY <1>2, <1>3, <1>4, <1>5, <1>6, <1>7 DEF Next, Done

(* In order, a subtitle of a stream does not start before the one that was     *)
(* not due.                                                                    *)
LEMMA BehindStopped ==
    ASSUME FileShape, NEW t \in Nat, NEW n \in 1 .. Len(streams), Stopped(streams[n], t),
           NEW k \in streams[n].subtitles_count + 1 .. Len(streams[n].subtitles),
           InOrder(streams[n].subtitles, k)
    PROVE  streams[n].subtitles[k].t0 \in Int /\ streams[n].subtitles[k].t0 > t + job.start + Lead
<1> DEFINE subs == streams[n].subtitles
           c == streams[n].subtitles_count
<1>1. streams[n] \in KateStream
  BY DEF FileShape, StreamsOK
<1>2. subs \in Seq(Subtitle) /\ Len(subs) \in Nat /\ c \in Nat
  BY <1>1 DEF KateStream
<1>3. c # Len(subs)
  BY <1>2
<1>4. subs[c + 1].t0 - Lead > t + job.start
  BY <1>3 DEF Stopped
<1>5. subs[k] \in Subtitle /\ subs[c + 1] \in Subtitle
  <2>1. k \in 1 .. Len(subs) /\ c + 1 \in 1 .. Len(subs)
    BY <1>2
  <2>2. QED
    BY <1>2, <2>1
<1>6. subs[k].t0 \in Int /\ subs[c + 1].t0 \in Int
  BY <1>5 DEF Subtitle
<1>7. subs[c + 1].t0 <= subs[k].t0
  <2>1. CASE k = c + 1
    BY <1>6, <2>1
  <2>2. CASE k # c + 1
    <3>1. c + 1 \in 1 .. k - 1
      BY <1>2, <2>2
    <3>2. QED
      BY <3>1 DEF InOrder
  <2>3. QED
    BY <2>1, <2>2
<1> HIDE DEF subs, c
<1>8. subs[k].t0 > t + job.start + Lead
  <2>1. t + job.start \in Int /\ Lead \in Int
    BY JobIs DEF Lead
  <2>2. ASSUME NEW a \in Int, NEW b \in Int, NEW d \in Int, NEW l \in Int, b <= a, b - l > d
        PROVE  a > d + l
    BY <2>2
  <2>3. QED
    BY <1>4, <1>6, <1>7, <2>1, <2>2
<1>9. QED
  BY <1>6, <1>8 DEF subs

(* What was fed is what the stream counts behind those skipped.                *)
LEMMA FedIsCounted ==
    ASSUME NEW ks \in KateStream, ks.subtitles_count <= Len(ks.subtitles),
           NEW f \in Nat, NEW fs, Kept(ks, f, fs)
    PROVE  [k \in DOMAIN fs |-> fs[k].sub] = SubSeq(ks.subtitles, f + 1, ks.subtitles_count)
<1> DEFINE subs == ks.subtitles
           c == ks.subtitles_count
           q == SubSeq(subs, f + 1, c)
           p == [k \in DOMAIN fs |-> fs[k].sub]
<1>1. subs \in Seq(Subtitle) /\ c \in Nat /\ Len(subs) \in Nat
  BY DEF KateStream
<1>2. /\ f <= c /\ Len(fs) = c - f /\ DOMAIN fs = 1 .. Len(fs)
      /\ \A k \in 1 .. Len(fs) : fs[k].sub = subs[f + k]
  BY DEF Kept
<1>3. \A k \in f + 1 .. c : subs[k] \in Subtitle
  <2> TAKE k \in f + 1 .. c
  <2>1. k \in 1 .. Len(subs)
    BY <1>1
  <2>2. QED
    BY <1>1, <2>1
<1> HIDE DEF subs, c
<1>4. f + 1 \in Int /\ c \in Int
  BY <1>1
<1>5. /\ q \in Seq(Subtitle) /\ Len(q) = IF f + 1 <= c THEN c - (f + 1) + 1 ELSE 0
      /\ \A k \in 1 .. c - (f + 1) + 1 : q[k] = subs[(f + 1) + k - 1]
  BY <1>3, <1>4, SubSeqProperties
<1> HIDE DEF q
<1>6. Len(q) = c - f /\ \A k \in 1 .. c - f : q[k] = subs[f + k]
  BY <1>1, <1>2, <1>5
<1>7. p \in [1 .. c - f -> Subtitle] /\ \A k \in 1 .. c - f : p[k] = q[k]
  <2>1. DOMAIN fs = 1 .. c - f
    BY <1>2
  <2>2. \A k \in 1 .. c - f : fs[k].sub = q[k] /\ q[k] \in Subtitle
    BY <1>2, <1>5, <1>6
  <2>3. QED
    BY <2>1, <2>2
<1> HIDE DEF p
<1>8. c - f \in Nat
  BY <1>1, <1>2
<1>9. p \in Seq(Subtitle) /\ Len(p) = c - f
  BY <1>7, <1>8, FunctionIsSeq
<1>10. p = q
  BY <1>5, <1>6, <1>7, <1>9, SeqEqual
<1>11. QED
  BY <1>10 DEF p, q, subs, c

(* So every subtitle is fed once and in order, and none that should be there   *)
(* by now is missing.                                                          *)
LEMMA KeptIsNoneLost == Shape /\ KeptInv /\ StoppedInv => NoneLost
<1> SUFFICES ASSUME FileShape, FeedShape, KeptInv, StoppedInv, Turning,
                    NEW n \in 1 .. Len(streams)
             PROVE  LET subs == streams[n].subtitles
                        count == streams[n].subtitles_count
                    IN  /\ [k \in DOMAIN fed[n] |-> fed[n][k].sub] = SubSeq(subs, first[n] + 1, count)
                        /\ \A k \in 1 .. first[n] : subs[k].t1 <= job.start
                        /\ pc = "packet" /\ round > 0 /\ AVTime - seen.now <= Lead =>
                              \A k \in first[n] + 1 .. Len(subs) :
                                  InOrder(subs, k) /\ subs[k].t0 <= AVTime + job.start => k <= count
  <2>1. DOMAIN streams = 1 .. Len(streams) \/ ~FileShape
    BY DEF FileShape, StreamsOK
  <2>2. QED
    BY <2>1 DEF Shape, NoneLost, Turning
<1>1. /\ streams[n] \in KateStream /\ streams[n].subtitles_count <= Len(streams[n].subtitles)
      /\ DOMAIN streams = 1 .. Len(streams)
  BY DEF FileShape, StreamsOK
<1>2. first[n] \in Nat /\ Kept(streams[n], first[n], fed[n])
  BY <1>1, SMTT(20) DEF FeedShape, KeptInv
<1>3. [k \in DOMAIN fed[n] |-> fed[n][k].sub] =
         SubSeq(streams[n].subtitles, first[n] + 1, streams[n].subtitles_count)
  BY <1>1, <1>2, FedIsCounted
<1>4. \A k \in 1 .. first[n] : streams[n].subtitles[k].t1 <= job.start
  BY <1>2 DEF Kept
<1>5. ASSUME pc = "packet", round > 0, AVTime - seen.now <= Lead,
             NEW k \in first[n] + 1 .. Len(streams[n].subtitles),
             InOrder(streams[n].subtitles, k),
             streams[n].subtitles[k].t0 <= AVTime + job.start
      PROVE  k <= streams[n].subtitles_count
  <2> SUFFICES ASSUME ~(k <= streams[n].subtitles_count) PROVE FALSE
    OBVIOUS
  <2>1. streams[n].subtitles_count \in Nat /\ Len(streams[n].subtitles) \in Nat
    BY <1>1 DEF KateStream
  <2>2. k \in streams[n].subtitles_count + 1 .. Len(streams[n].subtitles)
    BY <1>2, <2>1
  <2>3. Stopped(streams[n], seen.now) /\ seen.now \in Nat
    BY <1>1, <1>5 DEF StoppedInv, FeedShape
  <2>4. /\ streams[n].subtitles[k].t0 \in Int
        /\ streams[n].subtitles[k].t0 > seen.now + job.start + Lead
    BY <1>5, <2>2, <2>3, BehindStopped
  <2>5. AVTime \in Nat /\ job.start \in Nat /\ Lead \in Nat
    BY AVTimeIs, JobIs DEF Lead
  <2>6. AVTime - seen.now <= Lead /\ streams[n].subtitles[k].t0 <= AVTime + job.start
    BY <1>5
  <2>7. ASSUME NEW t \in Int, NEW a \in Int, NEW b \in Int, NEW s \in Int, NEW l \in Int,
               t > b + s + l, t <= a + s, a - b <= l
        PROVE  FALSE
    BY <2>7
  <2>8. seen.now \in Int /\ AVTime \in Int /\ job.start \in Int /\ Lead \in Int
    BY <2>3, <2>5
  <2>9. QED
    BY <2>4, <2>6, <2>7, <2>8
<1>6. QED
  BY <1>3, <1>4, <1>5

(* What a turn feeds to a file's stream is not late: had it been due the turn  *)
(* before, it would have been fed then.                                        *)
LEMMA EntryInTime ==
    ASSUME FileShape, FeedShape, KeptInv, StoppedInv, pc = "feed",
           NEW n \in 1 .. Len(streams), ~Embedded(streams[n]), round # 0,
           NEW j \in Nat \ {0}, streams[n].subtitles_count + j <= Len(streams[n].subtitles),
           InOrder(streams[n].subtitles, streams[n].subtitles_count + j),
           AVTime - seen.now <= Lead
    PROVE  Entry(streams[n], j).sub.t0 > AVTime + job.start
<1> DEFINE k == streams[n].subtitles_count + j
<1>1. streams[n] \in KateStream /\ DOMAIN streams = 1 .. Len(streams)
  BY DEF FileShape, StreamsOK
<1>2. streams[n].subtitles_count \in Nat /\ Len(streams[n].subtitles) \in Nat
  BY <1>1 DEF KateStream
<1>3. k \in streams[n].subtitles_count + 1 .. Len(streams[n].subtitles)
  BY <1>2
<1>4. round > 0 /\ seen.now \in Nat
  BY JobIs DEF FeedShape
<1>5. Stopped(streams[n], seen.now)
  BY <1>1, <1>4 DEF StoppedInv, Turning
<1>6. /\ streams[n].subtitles[k].t0 \in Int
      /\ streams[n].subtitles[k].t0 > seen.now + job.start + Lead
  BY <1>3, <1>4, <1>5, BehindStopped
<1>7. Entry(streams[n], j).sub = streams[n].subtitles[k]
  BY DEF Entry
<1>8. AVTime \in Nat /\ job.start \in Nat /\ Lead \in Nat
  BY AVTimeIs, JobIs DEF Lead
<1> HIDE DEF k
<1>9. streams[n].subtitles[k].t0 > AVTime + job.start
  <2>1. ASSUME NEW t \in Int, NEW a \in Int, NEW b \in Int, NEW s \in Int, NEW l \in Int,
               t > b + s + l, a - b <= l
        PROVE  t > a + s
    BY <2>1
  <2>2. seen.now \in Int /\ AVTime \in Int /\ job.start \in Int /\ Lead \in Int
    BY <1>4, <1>8
  <2>3. AVTime - seen.now <= Lead
    OBVIOUS
  <2>4. QED
    BY <1>6, <2>1, <2>2, <2>3
<1>10. QED
  BY <1>7, <1>9

FeedInv == Shape /\ KeptInv /\ StoppedInv /\ FedInTime

(* No step feeds late.                                                         *)
LEMMA StepInTime == FeedInv /\ [Next]_vars => FedInTime'
<1> SUFFICES ASSUME FileShape, FeedShape, KeptInv, StoppedInv, FedInTime, [Next]_vars,
                    NEW n \in DOMAIN fed', NEW k \in DOMAIN fed'[n], ~Embedded(streams'[n])
             PROVE  \/ fed'[n][k].sub.t0 > fed'[n][k].now + job'.start
                    \/ fed'[n][k].round = 0
                    \/ fed'[n][k].now - fed'[n][k].before > Lead
                    \/ ~InOrder(streams'[n].subtitles, first'[n] + k)
  BY DEF FeedInv, Shape, FedInTime
<1>1. Len(streams) \in Nat /\ DOMAIN streams = 1 .. Len(streams)
  BY DEF FileShape, StreamsOK
<1>2. Turning => DOMAIN fed = 1 .. Len(streams)
  BY DEF KeptInv, FeedShape
<1>3. CASE Load
  <2>1. ~Turning /\ fed' = fed
    BY <1>3 DEF Load, LoadNext, SetField, RefuseEncoding, AddEmbedded, SkipEmbedded, OpenFile,
                OpenFails, Loading, IgnoreEmpty, ReadId, ReadTiming, ReadText, EndOfText,
                SyntaxError, EndOfFile, Reading, Turning, feedVars
  <2>2. QED
    BY <2>1 DEF KeptInv
<1>4. CASE Seek
  BY <1>4 DEF Seek
<1>5. CASE ReadEmbedded \/ ReadOther \/ Flush
  <2>1. Turning /\ fed' = fed
    BY <1>5 DEF ReadEmbedded, ReadOther, Flush, Turning, feedVars
  <2>2. n \in 1 .. Len(streams)
    BY <1>2, <2>1
  <2>3. /\ UNCHANGED <<job, first>> /\ Same(streams'[n], streams[n])
        /\ ~Embedded(streams[n]) => streams'[n].subtitles = streams[n].subtitles
    BY <1>5, <2>2, NothingFed
  <2>4. ~Embedded(streams[n])
    BY <2>3 DEF Same, Embedded
  <2>5. \/ fed[n][k].sub.t0 > fed[n][k].now + job.start
        \/ fed[n][k].round = 0
        \/ fed[n][k].now - fed[n][k].before > Lead
        \/ ~InOrder(streams[n].subtitles, first[n] + k)
    BY <2>1, <2>4 DEF FedInTime
  <2>6. QED
    BY <2>1, <2>3, <2>4, <2>5
<1>6. CASE Feed
  <2>1. n \in 1 .. Len(streams) /\ pc = "feed"
    BY <1>1, <1>6, FeedIs DEF Feed
  <2> DEFINE ks == streams[n]
             m == More(ks)
             c == ks.subtitles_count
             f == first[n]
  <2>2. /\ Len(ks.subtitles) \in Nat /\ c \in Nat /\ m \in Nat
        /\ c + m <= Len(ks.subtitles) /\ f \in Nat
        /\ Kept(ks, f, fed[n])
        /\ fed'[n] \in Seq(Fed) /\ Len(fed'[n]) = Len(fed[n]) + m
        /\ \A l \in 1 .. Len(fed[n]) : fed'[n][l] = fed[n][l]
        /\ \A l \in 1 .. m : fed'[n][Len(fed[n]) + l] = Entry(ks, l)
    BY <1>6, <2>1, FedNow
  <2>3. /\ Same(streams'[n], ks) /\ streams'[n].subtitles = ks.subtitles
        /\ UNCHANGED <<job, first>>
    BY <1>6, <2>1, FeedStreams DEF Feed
  <2>4. ~Embedded(ks)
    BY <2>3 DEF Same, Embedded
  <2>5. f <= c /\ Len(fed[n]) = c - f /\ DOMAIN fed[n] = 1 .. Len(fed[n])
    BY <2>2 DEF Kept
  <2>6. k \in 1 .. Len(fed[n]) + m
    BY <2>2
  <2>7. CASE k \in 1 .. Len(fed[n])
    <3>1. n \in DOMAIN fed /\ k \in DOMAIN fed[n] /\ fed'[n][k] = fed[n][k]
      BY <1>2, <2>1, <2>2, <2>5, <2>7 DEF Turning
    <3>2. \/ fed[n][k].sub.t0 > fed[n][k].now + job.start
          \/ fed[n][k].round = 0
          \/ fed[n][k].now - fed[n][k].before > Lead
          \/ ~InOrder(ks.subtitles, first[n] + k)
      BY <2>4, <3>1 DEF FedInTime
    <3>3. QED
      BY <2>3, <3>1, <3>2
  <2>8. CASE k \notin 1 .. Len(fed[n])
    <3> DEFINE j == k - Len(fed[n])
    <3>1. /\ j \in 1 .. m /\ j \in Nat \ {0} /\ Len(fed[n]) + j = k
          /\ c + j <= Len(ks.subtitles) /\ f + k = c + j
      <4>1. /\ c \in Nat /\ m \in Nat /\ f \in Nat /\ c + m <= Len(ks.subtitles)
            /\ f <= c /\ Len(fed[n]) = c - f /\ Len(ks.subtitles) \in Nat
        BY <2>2, <2>5
      <4> HIDE DEF c, m, f
      <4>2. j \in 1 .. m /\ Len(fed[n]) + j = k
        BY <2>6, <2>8, <4>1, SMTT(20)
      <4>3. j \in Nat \ {0} /\ j <= m /\ Len(fed[n]) + j = k
        BY <4>1, <4>2
      <4> HIDE DEF j
      <4>4. c + j <= Len(ks.subtitles)
        BY <4>1, <4>3
      <4>5. f + k = c + j
        BY <4>1, <4>3
      <4>6. QED
        BY <4>2, <4>3, <4>4, <4>5
    <3> HIDE DEF j
    <3>2. fed'[n][k] = Entry(ks, j)
      BY <2>2, <3>1
    <3>3. Entry(ks, j).round = round /\ Entry(ks, j).before = seen.now /\ Entry(ks, j).now = AVTime
      BY DEF Entry
    <3>4. AVTime - seen.now <= Lead \/ AVTime - seen.now > Lead
      <4>1. AVTime \in Nat /\ seen.now \in Nat
        BY AVTimeIs DEF FeedShape
      <4>2. QED
        BY <4>1 DEF Lead
    <3>5. round # 0 /\ AVTime - seen.now <= Lead /\ InOrder(ks.subtitles, c + j) =>
             Entry(ks, j).sub.t0 > AVTime + job.start
      BY <2>1, <2>4, <3>1, EntryInTime
    <3>6. QED
      BY <2>3, <3>1, <3>2, <3>3, <3>4, <3>5
  <2>9. QED
    BY <2>7, <2>8
<1>7. CASE UNCHANGED vars
  BY <1>7 DEF vars, fileVars, feedVars, FedInTime
<1>8. QED
  BY <1>3, <1>4, <1>5, <1>6, <1>7 DEF Next, Done

LEMMA FeedHolds == Spec => []FeedInv
<1>1. FeedInit => FeedInv
  <2>1. FeedInit => KeptInv /\ StoppedInv /\ FedInTime
    BY DEF FeedInit, Init, KeptInv, StoppedInv, FedInTime, Turning
  <2>2. QED
    BY <2>1, InitShape DEF FeedInv
<1>2. FeedInv /\ [Next]_vars => FeedInv'
  BY StepShape, StepKept, StepStopped, StepInTime DEF FeedInv
<1>3. QED
  BY <1>1, <1>2, PTL DEF Spec

(* For any files, start time and way the pages jump, a stream's subtitles are  *)
(* given to the multiplexer once and in order, from the first that is not over *)
(* at the start time on, and as soon as the output has reached their start.    *)
THEOREM EverySubtitleFed == Spec => []NoneLost
<1>1. FeedInv => NoneLost
  BY KeptIsNoneLost DEF FeedInv
<1>2. QED
  BY <1>1, FeedHolds, PTL

(* "so we're sure to hit the time [...] If we don't do that, we can insert     *)
(* late": a subtitle of a file is given to the multiplexer before its start is *)
(* written, as long as pages jump by no more than the second of the lead.      *)
THEOREM SubtitlesInTime == Spec => []FedInTime
<1>1. FeedInv => FedInTime
  BY DEF FeedInv
<1>2. QED
  BY <1>1, FeedHolds, PTL

-----------------------------------------------------------------------------
(* What the files hold. These are the definitions RecordsRead is made of, of   *)
(* the job and the streams they are about.                                     *)

(* How often a field is given.                                                 *)
GivenIn(j, field) == Cardinality({m \in DOMAIN j.options : j.options[m] = field})

(* What ValidUTF8 and Whole are for a job.                                     *)
Valid(j, ls, ks) ==
    \/ ks.encoding # 0 \/ j.ignore_non_utf8
    \/ \A n \in ToSet(ls) : j.files[ks.filename][n].kind # "bytes"

WholeIn(j, ks) ==
    LET lines == j.files[ks.filename]
    IN  {n \in Starts(lines) : /\ n < End(lines, n)
                               /\ End(lines, n) < Len(lines) \/ n + 1 < End(lines, n)
                               /\ Valid(j, Text(lines, n), ks)}

(* A stream has what its file holds.                                           *)
Right(j, ks) ==
    /\ ks.filename \in DOMAIN j.files /\ WellFormed(j.files[ks.filename])
    /\ ks.subtitles = RecordsAt(j.files[ks.filename], WholeIn(j, ks))

(* The stream a file is to get, and whether it holds a subtitle then.          *)
AsGiven(j, f) == [NewStream EXCEPT !.filename = f,
                                   !.encoding = IF f <= GivenIn(j, "encoding") THEN f ELSE 0]

Good(j, f) == /\ f \in DOMAIN j.files /\ WellFormed(j.files[f])
              /\ RecordsAt(j.files[f], WholeIn(j, AsGiven(j, f))) # << >>

(* The streams of files are in the order of the command line, of files that    *)
(* were given, and no good one is missing. Those before the at-th are read,    *)
(* those behind it are not.                                                    *)
Listed(s) ==
    \A m, n \in DOMAIN s : m < n /\ ~Embedded(s[m]) /\ ~Embedded(s[n]) /\ s[n].filename # 0 =>
                              s[m].filename < s[n].filename

Within(j, s) == \A n \in DOMAIN s : ~Embedded(s[n]) => s[n].filename <= GivenIn(j, "filename")

Complete(j, s) == \A f \in 1 .. GivenIn(j, "filename") :
                      Good(j, f) => \E n \in DOMAIN s : ~Embedded(s[n]) /\ s[n].filename = f

Loads(j, s, at) == \A n \in DOMAIN s : ~Embedded(s[n]) =>
                      /\ n < at => Right(j, s[n])
                      /\ n > at => s[n].subtitles = << >>

ArrayInv(j, s, at) == Listed(s) /\ Within(j, s) /\ Complete(j, s) /\ Loads(j, s, at)

(* The lines before ln have no syntax error.                                   *)
FormedTo(lines, ln) == \A n \in Starts(lines) : /\ n < ln => IsId(lines[n].kind)
                                                /\ n + 1 < ln => lines[n + 1].kind = "timing"

(* The records that ended before line ln, an empty one behind them.            *)
Closed(j, ks, ln) == {n \in WholeIn(j, ks) : End(j.files[ks.filename], n) + 1 < ln}

(* The parser at line ln: in the record that starts at n it has its times and  *)
(* its text so far.                                                            *)
InText(lines, n, ln, tx, a, b) ==
    /\ n + 1 < ln /\ \A m \in n .. ln - 1 : ~Blank(lines, m)
    /\ a = lines[n + 1].t0 /\ b = lines[n + 1].t1
    /\ tx = [m \in 1 .. ln - 2 - n |-> n + 1 + m]

Automaton(lines, ln, nd, tx, a, b) ==
    /\ nd = "id" => ln = 1 \/ Blank(lines, ln - 1)
    /\ nd = "timing" => ln - 1 \in Starts(lines) /\ tx = << >>
    /\ nd = "text" => \E n \in Starts(lines) : InText(lines, n, ln, tx, a, b)

(* The stream has the records that ended so far.                               *)
ParserInv ==
    /\ line \in 1 .. Len(File) + 1
    /\ FormedTo(File, line)
    /\ streams[i].subtitles = RecordsAt(File, Closed(job, streams[i], line))
    /\ Automaton(File, line, need, text, t0, t1)

-----------------------------------------------------------------------------
(* Where records start and end. *)

(* A record ends where the first empty line follows, or the file.              *)
LEMMA EndIs ==
    ASSUME NEW L \in Seq(Lines), NEW n \in Starts(L)
    PROVE  /\ n \in 1 .. Len(L) /\ ~Blank(L, n) /\ (n = 1 \/ Blank(L, n - 1))
           /\ End(L, n) \in n .. Len(L)
           /\ \A m \in n .. End(L, n) : ~Blank(L, m)
           /\ End(L, n) = Len(L) \/ Blank(L, End(L, n) + 1)
           /\ \A x \in n .. Len(L) : x = Len(L) \/ Blank(L, x + 1) => End(L, n) <= x
<1> DEFINE ends == {m \in n .. Len(L) : m = Len(L) \/ Blank(L, m + 1)}
           e == Min(ends)
<1>1. /\ n \in 1 .. Len(L) /\ ~Blank(L, n) /\ (n = 1 \/ Blank(L, n - 1))
      /\ Len(L) \in Nat /\ n \in Nat
  BY DEF Starts
<1>2. Len(L) \in ends /\ ends \subseteq Nat
  BY <1>1
<1>3. e \in ends /\ \A y \in ends : e <= y
  BY <1>2, Least
<1>4. End(L, n) = e
  BY DEF End
<1> HIDE DEF e
<1>5. e \in n .. Len(L) /\ (e = Len(L) \/ Blank(L, e + 1))
  BY <1>3
<1>6. ASSUME NEW m \in n .. e PROVE ~Blank(L, m)
  <2>1. CASE m = n
    BY <1>1, <2>1
  <2>2. CASE m # n
    <3>1. m - 1 \in n .. Len(L) /\ m - 1 < e /\ (m - 1) + 1 = m /\ m - 1 # Len(L)
      BY <1>1, <1>5, <2>2
    <3>2. ~(e <= m - 1)
      BY <1>1, <1>5, <3>1
    <3>3. m - 1 \notin ends
      BY <1>3, <3>2
    <3>4. ~Blank(L, (m - 1) + 1)
      BY <3>1, <3>3
    <3>5. QED
      BY <3>1, <3>4
  <2>3. QED
    BY <2>1, <2>2
<1>7. \A x \in n .. Len(L) : x = Len(L) \/ Blank(L, x + 1) => e <= x
  BY <1>3
<1>8. QED
  BY <1>1, <1>4, <1>5, <1>6, <1>7

(* So it is the last line of a run without an empty one.                       *)
LEMMA EndFrom ==
    ASSUME NEW L \in Seq(Lines), NEW n \in Starts(L), NEW x \in n .. Len(L),
           \A m \in n .. x : ~Blank(L, m), x = Len(L) \/ Blank(L, x + 1)
    PROVE  End(L, n) = x
<1> DEFINE e == End(L, n)
<1>1. /\ n \in 1 .. Len(L) /\ e \in n .. Len(L) /\ (e = Len(L) \/ Blank(L, e + 1)) /\ e <= x
      /\ Len(L) \in Nat
  BY EndIs
<1> HIDE DEF e
<1>2. ASSUME e < x PROVE FALSE
  <2>1. e + 1 \in n .. x /\ e # Len(L)
    BY <1>1, <1>2
  <2>2. QED
    BY <1>1, <2>1
<1>3. QED
  BY <1>1, <1>2 DEF e

(* One line is in one record.                                                  *)
LEMMA OneRecord ==
    ASSUME NEW L \in Seq(Lines), NEW n \in Starts(L), NEW x \in Starts(L), NEW y \in Nat,
           n <= y, x <= y, \A m \in n .. y : ~Blank(L, m), \A m \in x .. y : ~Blank(L, m)
    PROVE  n = x
<1>1. /\ n \in 1 .. Len(L) /\ (n = 1 \/ Blank(L, n - 1))
      /\ x \in 1 .. Len(L) /\ (x = 1 \/ Blank(L, x - 1)) /\ Len(L) \in Nat
  BY EndIs
<1>2. ASSUME n < x PROVE FALSE
  <2>1. x - 1 \in n .. y /\ x # 1
    BY <1>1, <1>2
  <2>2. QED
    BY <1>1, <2>1
<1>3. ASSUME x < n PROVE FALSE
  <2>1. n - 1 \in x .. y /\ n # 1
    BY <1>1, <1>3
  <2>2. QED
    BY <1>1, <2>1
<1>4. QED
  BY <1>1, <1>2, <1>3

(* The records that are read are some of those that start.                     *)
LEMMA WholeIs ==
    ASSUME NEW j, NEW ks, NEW L \in Seq(Lines), L = j.files[ks.filename], NEW n
    PROVE  n \in WholeIn(j, ks) <=> /\ n \in Starts(L) /\ n < End(L, n)
                                    /\ End(L, n) < Len(L) \/ n + 1 < End(L, n)
                                    /\ Valid(j, Text(L, n), ks)
BY DEF WholeIn

LEMMA StartsFinite ==
    ASSUME NEW L \in Seq(Lines), NEW S, S \subseteq Starts(L)
    PROVE  IsFiniteSet(S) /\ Cardinality(S) \in Nat /\ S \subseteq Nat
<1>1. Starts(L) \subseteq 1 .. Len(L) /\ Len(L) \in Nat
  BY DEF Starts
<1>2. IsFiniteSet(1 .. Len(L))
  <2>1. 1 \in Int /\ Len(L) \in Int
    BY <1>1
  <2>2. QED
    BY <2>1, FS_Interval, Zenon
<1>3. S \in SUBSET (1 .. Len(L))
  BY <1>1
<1>4. IsFiniteSet(S)
  BY <1>2, <1>3, FS_Subset
<1>5. Cardinality(S) \in Nat
  BY <1>4, FS_CardinalityType
<1>6. S \subseteq Nat
  BY <1>1
<1>7. QED
  BY <1>4, <1>5, <1>6

-----------------------------------------------------------------------------
(* Lists of records. *)

LEMMA NoRecords ==
    ASSUME NEW L
    PROVE  RecordsAt(L, {}) = << >>
<1>1. Cardinality({}) = 0
  BY FS_EmptySet
<1>2. QED
  BY <1>1 DEF RecordsAt

(* A number that is greater than the others comes last, and leaves the others  *)
(* where they are.                                                             *)
LEMMA NthLast ==
    ASSUME NEW S, S \subseteq Nat, IsFiniteSet(S), NEW n \in Nat, \A m \in S : m < n
    PROVE  /\ IsFiniteSet(S \cup {n}) /\ Cardinality(S) \in Nat
           /\ Cardinality(S \cup {n}) = Cardinality(S) + 1
           /\ \A k \in 1 .. Cardinality(S) : Nth(S \cup {n}, k) = Nth(S, k)
           /\ Nth(S \cup {n}, Cardinality(S) + 1) = n
<1> DEFINE T == S \cup {n}
           c == Cardinality(S)
           at(x) == {m \in S : m <= x}
           at2(x) == {m \in T : m <= x}
<1>1. /\ IsFiniteSet(T) /\ c \in Nat /\ Cardinality(T) = c + 1
  <2>1. n \notin S
    OBVIOUS
  <2>2. QED
    BY <2>1, FS_AddElement, FS_CardinalityType
<1>2. \A x \in S : at2(x) = at(x) /\ Cardinality(at(x)) \in Nat /\ Cardinality(at(x)) <= c
  <2> TAKE x \in S
  <2>1. x \in Nat /\ ~(n <= x)
    OBVIOUS
  <2>2. at2(x) = at(x)
    BY <2>1
  <2>3. at(x) \in SUBSET S
    OBVIOUS
  <2>4. Cardinality(at(x)) \in Nat /\ Cardinality(at(x)) <= c
    BY <2>3, FS_Subset, FS_CardinalityType
  <2>5. QED
    BY <2>2, <2>4
<1>3. at2(n) = T
  <2>1. \A m \in T : m <= n
    OBVIOUS
  <2>2. QED
    BY <2>1
<1>4. /\ \A k : Nth(T, k) = Min({x \in T : Cardinality(at2(x)) = k})
      /\ \A k : Nth(S, k) = Min({x \in S : Cardinality(at(x)) = k})
  BY DEF Nth
<1>5. n \in T /\ \A x \in T : x \in S \/ x = n
  OBVIOUS
<1>6. \A x \in S : x \in T /\ x # n
  OBVIOUS
<1> HIDE DEF T, c, at, at2
<1>7. ASSUME NEW k \in 1 .. c PROVE Nth(T, k) = Nth(S, k)
  <2>1. {x \in T : Cardinality(at2(x)) = k} = {x \in S : Cardinality(at(x)) = k}
    <3>1. Cardinality(at2(n)) # k
      BY <1>1, <1>3
    <3>2. QED
      BY <1>2, <1>5, <1>6, <3>1
  <2>2. QED
    BY <1>4, <2>1
<1>8. Nth(T, c + 1) = n
  <2> DEFINE last == {x \in T : Cardinality(at2(x)) = c + 1}
  <2>1. n \in last
    BY <1>1, <1>3, <1>5
  <2>2. \A x \in S : x \notin last
    <3> TAKE x \in S
    <3>1. Cardinality(at2(x)) # c + 1
      BY <1>1, <1>2
    <3>2. QED
      BY <3>1
  <2>3. \A x \in last : x = n
    BY <1>5, <2>2
  <2>4. Nth(T, c + 1) = Min(last)
    BY <1>4
  <2> HIDE DEF last
  <2>5. last \subseteq Nat /\ last # {}
    BY <2>1, <2>3
  <2>6. Min(last) \in last
    BY <2>5, Least
  <2>7. QED
    BY <2>3, <2>4, <2>6
<1>9. QED
  BY <1>1, <1>7, <1>8 DEF T, c

(* A record behind the others is added at the end.                             *)
LEMMA RecordAdded ==
    ASSUME NEW L, NEW S, S \subseteq Nat, IsFiniteSet(S), NEW n \in Nat, \A m \in S : m < n
    PROVE  RecordsAt(L, S \cup {n}) = Append(RecordsAt(L, S), Record(L, n))
<1> DEFINE c == Cardinality(S)
           r == RecordsAt(L, S)
           r2 == RecordsAt(L, S \cup {n})
<1>1. /\ c \in Nat /\ Cardinality(S \cup {n}) = c + 1
      /\ \A k \in 1 .. c : Nth(S \cup {n}, k) = Nth(S, k)
      /\ Nth(S \cup {n}, c + 1) = n
  BY NthLast
<1> HIDE DEF c
<1>2. /\ r = [k \in 1 .. c |-> Record(L, Nth(S, k))]
      /\ r2 = [k \in 1 .. c + 1 |-> Record(L, Nth(S \cup {n}, k))]
  BY <1>1 DEF RecordsAt, c
<1> HIDE DEF r, r2
<1> DEFINE T == {r2[k] : k \in 1 .. c + 1}
<1>3. ASSUME NEW k \in 1 .. c PROVE k \in 1 .. c + 1 /\ r[k] = r2[k]
  <2>1. k \in 1 .. c + 1
    BY <1>1
  <2>2. r[k] = Record(L, Nth(S, k)) /\ r2[k] = Record(L, Nth(S \cup {n}, k))
    BY <1>2, <2>1
  <2>3. Nth(S \cup {n}, k) = Nth(S, k)
    BY <1>1
  <2>4. QED
    BY <2>1, <2>2, <2>3
<1>4. r2[c + 1] = Record(L, n) /\ c + 1 \in 1 .. c + 1
  BY <1>1, <1>2
<1>5. DOMAIN r = 1 .. c /\ DOMAIN r2 = 1 .. c + 1
  BY <1>2
<1>6. r \in Seq(T) /\ Len(r) = c
  <2>1. \A k \in 1 .. c : r[k] \in T
    BY <1>3
  <2> HIDE DEF T
  <2>2. r \in [1 .. c -> T]
    BY <1>2, <2>1
  <2>3. QED
    BY <1>1, <2>2, FunctionIsSeq
<1>7. r2 \in Seq(T) /\ Len(r2) = c + 1
  <2>1. \A k \in 1 .. c + 1 : r2[k] \in T
    OBVIOUS
  <2> HIDE DEF T
  <2>2. r2 \in [1 .. c + 1 -> T]
    BY <1>2, <2>1
  <2>3. QED
    BY <1>1, <2>2, FunctionIsSeq
<1>8. Record(L, n) \in T
  BY <1>4
<1> HIDE DEF T
<1> DEFINE q == Append(r, Record(L, n))
<1>9. /\ q \in Seq(T) /\ Len(q) = c + 1 /\ q[c + 1] = Record(L, n)
      /\ \A k \in 1 .. c : q[k] = r[k]
  BY <1>6, <1>8, AppendProperties
<1> HIDE DEF q
<1>10. \A k \in 1 .. c + 1 : q[k] = r2[k]
  <2> TAKE k \in 1 .. c + 1
  <2>1. k \in 1 .. c \/ k = c + 1
    BY <1>1
  <2>2. QED
    BY <1>3, <1>4, <1>9, <2>1
<1>11. q = r2
  BY <1>7, <1>9, <1>10, SeqEqual
<1>12. QED
  BY <1>11 DEF q, r, r2

-----------------------------------------------------------------------------
(* The records that ended before a line. *)

LEMMA ClosedIs ==
    ASSUME NEW j, NEW ks, NEW L \in Seq(Lines), L = j.files[ks.filename], NEW ln
    PROVE  /\ \A n : n \in Closed(j, ks, ln) <=> n \in WholeIn(j, ks) /\ End(L, n) + 1 < ln
           /\ Closed(j, ks, ln) \subseteq Starts(L)
           /\ IsFiniteSet(Closed(j, ks, ln)) /\ Closed(j, ks, ln) \subseteq Nat
<1>1. \A n : n \in Closed(j, ks, ln) <=> n \in WholeIn(j, ks) /\ End(L, n) + 1 < ln
  BY DEF Closed
<1>2. Closed(j, ks, ln) \subseteq Starts(L)
  BY <1>1, WholeIs
<1>3. QED
  BY <1>1, <1>2, StartsFinite

(* None has before the first line.                                             *)
LEMMA NoneClosed ==
    ASSUME NEW j, NEW ks, NEW L \in Seq(Lines), L = j.files[ks.filename]
    PROVE  Closed(j, ks, 1) = {}
<1>1. ASSUME NEW n \in Closed(j, ks, 1) PROVE FALSE
  <2>1. n \in Starts(L) /\ End(L, n) + 1 < 1
    BY ClosedIs
  <2>2. n \in 1 .. Len(L) /\ End(L, n) \in n .. Len(L)
    BY <2>1, EndIs
  <2>3. QED
    BY <2>1, <2>2
<1>2. QED
  BY <1>1

(* A record ends on a line only if the next one is empty and it is not.        *)
LEMMA NoneEnds ==
    ASSUME NEW L \in Seq(Lines), NEW y \in 0 .. Len(L),
           \/ y = 0 \/ Blank(L, y)
           \/ y < Len(L) /\ ~Blank(L, y + 1),
           NEW n \in Starts(L)
    PROVE  End(L, n) # y
<1>1. /\ n \in 1 .. Len(L) /\ End(L, n) \in n .. Len(L)
      /\ \A m \in n .. End(L, n) : ~Blank(L, m)
      /\ End(L, n) = Len(L) \/ Blank(L, End(L, n) + 1)
  BY EndIs
<1>2. Len(L) \in Nat
  OBVIOUS
<1>3. ~Blank(L, End(L, n)) /\ End(L, n) # 0
  BY <1>1, <1>2
<1>4. QED
  BY <1>1, <1>2, <1>3

LEMMA ClosedStays ==
    ASSUME NEW j, NEW ks, NEW L \in Seq(Lines), L = j.files[ks.filename],
           NEW ln \in 1 .. Len(L),
           ln = 1 \/ Blank(L, ln - 1) \/ ~Blank(L, ln)
    PROVE  Closed(j, ks, ln + 1) = Closed(j, ks, ln)
<1>1. Len(L) \in Nat /\ ln - 1 \in 0 .. Len(L) /\ ln - 1 < Len(L) /\ (ln - 1) + 1 = ln
  OBVIOUS
<1>2. ASSUME NEW n \in Starts(L) PROVE End(L, n) + 1 < ln + 1 <=> End(L, n) + 1 < ln
  <2>1. End(L, n) # ln - 1
    BY <1>1, NoneEnds
  <2>2. End(L, n) \in Nat
    BY <1>1, EndIs
  <2>3. QED
    BY <1>1, <2>1, <2>2
<1>3. \A n : n \in Closed(j, ks, ln + 1) <=> n \in Closed(j, ks, ln)
  BY <1>2, ClosedIs, WholeIs
<1>4. QED
  BY <1>3

(* The one that ends on the line before is the last one, if it is valid.       *)
LEMMA ClosedGrows ==
    ASSUME NEW j, NEW ks, NEW L \in Seq(Lines), L = j.files[ks.filename],
           NEW ln \in 1 .. Len(L), Blank(L, ln),
           NEW n \in Starts(L), n + 1 < ln, \A m \in n .. ln - 1 : ~Blank(L, m)
    PROVE  /\ End(L, n) = ln - 1
           /\ Closed(j, ks, ln + 1) = Closed(j, ks, ln)
                  \cup (IF Valid(j, Text(L, n), ks) THEN {n} ELSE {})
           /\ \A x \in Closed(j, ks, ln) : x < n
<1>1. /\ n \in 1 .. Len(L) /\ Len(L) \in Nat
      /\ ln - 1 \in n .. Len(L) /\ (ln - 1) + 1 = ln /\ ln - 1 \in Nat
  BY EndIs
<1>2. End(L, n) = ln - 1
  BY <1>1, EndFrom
<1>3. ASSUME NEW x \in Starts(L)
      PROVE  /\ x \in Nat /\ End(L, x) \in Nat /\ x <= End(L, x)
             /\ \A m \in x .. End(L, x) : ~Blank(L, m)
  BY <1>1, EndIs
<1>4. ASSUME NEW x \in Starts(L), End(L, x) = ln - 1 PROVE x = n
  BY <1>1, <1>3, <1>4, OneRecord
<1>5. n \in WholeIn(j, ks) <=> Valid(j, Text(L, n), ks)
  BY <1>1, <1>2, WholeIs
<1>6. ASSUME NEW x
      PROVE  x \in Closed(j, ks, ln + 1)
                <=> x \in Closed(j, ks, ln) \/ (x = n /\ Valid(j, Text(L, n), ks))
  <2>1. CASE x \in WholeIn(j, ks)
    <3>1. x \in Starts(L) /\ End(L, x) \in Nat
      BY <1>3, <2>1, WholeIs
    <3>2. End(L, x) + 1 < ln + 1 <=> End(L, x) + 1 < ln \/ End(L, x) = ln - 1
      BY <1>1, <3>1
    <3>3. End(L, x) = ln - 1 <=> x = n
      BY <1>2, <1>4, <3>1
    <3>4. QED
      BY <1>5, <2>1, <3>2, <3>3, ClosedIs
  <2>2. CASE x \notin WholeIn(j, ks)
    BY <1>5, <2>2, ClosedIs
  <2>3. QED
    BY <2>1, <2>2
<1>7. ASSUME NEW x \in Closed(j, ks, ln) PROVE x < n
  <2>1. x \in Starts(L) /\ End(L, x) + 1 < ln
    BY ClosedIs
  <2>2. x \in 1 .. Len(L) /\ End(L, x) \in Nat /\ x <= End(L, x)
    BY <1>3, <2>1, EndIs
  <2>3. x # n
    BY <1>1, <1>2, <2>1
  <2>4. ASSUME x > n PROVE FALSE
    <3>1. Blank(L, End(L, x) + 1)
      BY <1>1, <2>1, <2>2, EndIs
    <3>2. End(L, x) + 1 \in n .. ln - 1
      BY <1>1, <2>1, <2>2, <2>4
    <3>3. QED
      BY <3>1, <3>2
  <2>5. QED
    BY <1>1, <2>2, <2>3, <2>4
<1>8. QED
  BY <1>2, <1>6, <1>7

(* At the end of the file those that ended are all, if no record is open.      *)
LEMMA AllClosed ==
    ASSUME NEW j, NEW ks, NEW L \in Seq(Lines), L = j.files[ks.filename],
           \A n \in WholeIn(j, ks) : End(L, n) # Len(L)
    PROVE  WholeIn(j, ks) = Closed(j, ks, Len(L) + 1)
<1>1. ASSUME NEW n \in WholeIn(j, ks) PROVE End(L, n) + 1 < Len(L) + 1
  <2>1. n \in Starts(L) /\ Len(L) \in Nat
    BY WholeIs
  <2>2. n \in 1 .. Len(L) /\ End(L, n) \in n .. Len(L)
    BY <2>1, EndIs
  <2>3. QED
    BY <2>1, <2>2
<1>2. \A n : n \in WholeIn(j, ks) <=> n \in Closed(j, ks, Len(L) + 1)
  BY <1>1, ClosedIs
<1>3. QED
  BY <1>2

(* Else it is the last one, if it has text and is valid.                       *)
LEMMA LastClosed ==
    ASSUME NEW j, NEW ks, NEW L \in Seq(Lines), L = j.files[ks.filename],
           NEW n \in Starts(L), n <= Len(L), \A m \in n .. Len(L) : ~Blank(L, m)
    PROVE  /\ End(L, n) = Len(L)
           /\ WholeIn(j, ks) = Closed(j, ks, Len(L) + 1)
                  \cup (IF n + 1 < Len(L) /\ Valid(j, Text(L, n), ks) THEN {n} ELSE {})
           /\ \A x \in Closed(j, ks, Len(L) + 1) : x < n
<1>1. n \in 1 .. Len(L) /\ Len(L) \in Nat
  BY EndIs
<1>2. End(L, n) = Len(L)
  BY <1>1, EndFrom
<1>3. ASSUME NEW x \in Starts(L)
      PROVE  /\ x \in 1 .. Len(L) /\ End(L, x) \in x .. Len(L)
             /\ \A m \in x .. End(L, x) : ~Blank(L, m)
             /\ End(L, x) = Len(L) \/ Blank(L, End(L, x) + 1)
  BY EndIs
<1>4. ASSUME NEW x \in Starts(L), End(L, x) = Len(L) PROVE x = n
  BY <1>1, <1>3, <1>4, OneRecord
<1>5. n \in WholeIn(j, ks) <=> n + 1 < Len(L) /\ Valid(j, Text(L, n), ks)
  BY <1>1, <1>2, WholeIs
<1>6. ASSUME NEW x
      PROVE  x \in WholeIn(j, ks)
                <=> \/ x \in Closed(j, ks, Len(L) + 1)
                    \/ x = n /\ n + 1 < Len(L) /\ Valid(j, Text(L, n), ks)
  <2>1. CASE x \in WholeIn(j, ks)
    <3>1. x \in Starts(L)
      BY <2>1, WholeIs
    <3>2. End(L, x) + 1 < Len(L) + 1 \/ End(L, x) = Len(L)
      BY <1>1, <1>3, <3>1
    <3>3. QED
      BY <1>4, <1>5, <2>1, <3>1, <3>2, ClosedIs
  <2>2. CASE x \notin WholeIn(j, ks)
    BY <1>5, <2>2, ClosedIs
  <2>3. QED
    BY <2>1, <2>2
<1>7. ASSUME NEW x \in Closed(j, ks, Len(L) + 1) PROVE x < n
  <2>1. x \in Starts(L) /\ End(L, x) + 1 < Len(L) + 1
    BY ClosedIs
  <2>2. x \in 1 .. Len(L) /\ End(L, x) \in x .. Len(L)
    BY <1>3, <2>1
  <2>3. Blank(L, End(L, x) + 1)
    BY <1>1, <1>3, <2>1, <2>2
  <2>4. ASSUME ~(x < n) PROVE FALSE
    <3>1. End(L, x) + 1 \in n .. Len(L)
      BY <1>1, <2>1, <2>2, <2>4
    <3>2. QED
      BY <2>3, <3>1
  <2>5. QED
    BY <2>4
<1>8. QED
  BY <1>2, <1>6, <1>7

-----------------------------------------------------------------------------
(* The parser. *)

LEMMA FormedOn ==
    ASSUME NEW L \in Seq(Lines), NEW ln \in 1 .. Len(L), FormedTo(L, ln),
           ln \in Starts(L) => IsId(L[ln].kind),
           ln - 1 \in Starts(L) => L[ln].kind = "timing"
    PROVE  FormedTo(L, ln + 1)
<1>1. ASSUME NEW n \in Starts(L)
      PROVE  /\ n < ln + 1 => IsId(L[n].kind)
             /\ n + 1 < ln + 1 => L[n + 1].kind = "timing"
  <2>1. n \in Nat /\ ln \in Nat
    BY EndIs
  <2>2. n < ln + 1 => n < ln \/ n = ln
    BY <2>1
  <2>3. n + 1 < ln + 1 => n + 1 < ln \/ (n = ln - 1 /\ n + 1 = ln)
    BY <2>1
  <2>4. (n < ln => IsId(L[n].kind)) /\ (n + 1 < ln => L[n + 1].kind = "timing")
    BY DEF FormedTo
  <2>5. QED
    BY <2>2, <2>3, <2>4
<1>2. QED
  BY <1>1 DEF FormedTo

(* A line behind an empty one or at the front starts a record, one behind one  *)
(* that is not empty does not.                                                 *)
LEMMA StartIs ==
    ASSUME NEW L \in Seq(Lines), NEW ln \in 1 .. Len(L)
    PROVE  /\ ln = 1 \/ Blank(L, ln - 1) => (ln \in Starts(L) <=> L[ln].kind # "blank")
           /\ ln = 1 \/ Blank(L, ln - 1) => ln - 1 \notin Starts(L)
           /\ ln # 1 /\ ~Blank(L, ln - 1) => ln \notin Starts(L)
           /\ Blank(L, ln) <=> L[ln].kind = "blank"
           /\ Len(L) \in Nat
BY DEF Starts, Blank

(* What the parser remembers of the record it is in.                           *)
LEMMA IdRead ==
    ASSUME NEW L \in Seq(Lines), NEW ln \in 1 .. Len(L), NEW tx, NEW a, NEW b,
           Automaton(L, ln, "id", tx, a, b), IsId(L[ln].kind)
    PROVE  /\ Automaton(L, ln + 1, "timing", << >>, a, b)
           /\ ln - 1 \notin Starts(L) /\ (ln = 1 \/ Blank(L, ln - 1))
<1>1. (ln = 1 \/ Blank(L, ln - 1)) /\ L[ln].kind # "blank"
  BY DEF Automaton, IsId
<1>2. ln \in Starts(L) /\ ln - 1 \notin Starts(L) /\ (ln + 1) - 1 = ln
  BY <1>1, StartIs
<1>3. QED
  BY <1>1, <1>2 DEF Automaton

LEMMA TimingRead ==
    ASSUME NEW L \in Seq(Lines), NEW ln \in 1 .. Len(L), NEW tx, NEW a, NEW b,
           Automaton(L, ln, "timing", tx, a, b), L[ln].kind = "timing"
    PROVE  /\ Automaton(L, ln + 1, "text", tx, L[ln].t0, L[ln].t1)
           /\ ln \notin Starts(L) /\ ~Blank(L, ln)
<1>1. ln - 1 \in Starts(L) /\ tx = << >>
  BY DEF Automaton
<1>2. ln - 1 \in 1 .. Len(L) /\ ~Blank(L, ln - 1)
  BY <1>1, EndIs
<1>3. ~Blank(L, ln) /\ ln \notin Starts(L)
  BY <1>2, StartIs
<1>4. /\ (ln - 1) + 1 = ln /\ (ln - 1) + 1 < ln + 1 /\ (ln + 1) - 2 - (ln - 1) = 0
      /\ \A m \in ln - 1 .. (ln + 1) - 1 : m = ln - 1 \/ m = ln
  OBVIOUS
<1>5. tx = [m \in 1 .. (ln + 1) - 2 - (ln - 1) |-> (ln - 1) + 1 + m]
  BY <1>1, <1>4
<1>6. InText(L, ln - 1, ln + 1, tx, L[ln].t0, L[ln].t1)
  BY <1>2, <1>3, <1>4, <1>5 DEF InText
<1>7. QED
  BY <1>1, <1>3, <1>6 DEF Automaton

LEMMA TextRead ==
    ASSUME NEW L \in Seq(Lines), NEW ln \in 1 .. Len(L), NEW tx, NEW a, NEW b,
           Automaton(L, ln, "text", tx, a, b), ~Blank(L, ln)
    PROVE  /\ Automaton(L, ln + 1, "text", Append(tx, ln), a, b)
           /\ ln \notin Starts(L) /\ ln - 1 \notin Starts(L)
<1>1. PICK n \in Starts(L) : InText(L, n, ln, tx, a, b)
  BY DEF Automaton
<1>2. /\ n \in 1 .. Len(L) /\ n + 1 < ln /\ \A m \in n .. ln - 1 : ~Blank(L, m)
      /\ a = L[n + 1].t0 /\ b = L[n + 1].t1
      /\ tx = [m \in 1 .. ln - 2 - n |-> n + 1 + m]
      /\ ln \in Nat /\ n \in Nat /\ Len(L) \in Nat
  BY <1>1, EndIs DEF InText
<1>3. ln # 1 /\ ln - 1 \in n .. ln - 1 /\ ln - 1 \in Nat
  BY <1>2
<1>4. ln \notin Starts(L)
  BY <1>2, <1>3, StartIs
<1>5. ln - 1 \notin Starts(L)
  <2> SUFFICES ASSUME ln - 1 \in Starts(L) PROVE FALSE
    OBVIOUS
  <2>1. n <= ln - 1 /\ ln - 1 <= ln - 1 /\ \A m \in ln - 1 .. ln - 1 : ~Blank(L, m)
    BY <1>2, <1>3
  <2>2. n = ln - 1
    BY <1>2, <1>3, <2>1, OneRecord
  <2>3. QED
    BY <1>2, <2>2
<1>6. \A m \in n .. (ln + 1) - 1 : ~Blank(L, m)
  <2> TAKE m \in n .. (ln + 1) - 1
  <2>1. m \in n .. ln - 1 \/ m = ln
    BY <1>2
  <2>2. QED
    BY <1>2, <2>1
<1>7. Append(tx, ln) = [m \in 1 .. (ln + 1) - 2 - n |-> n + 1 + m]
  <2> DEFINE c == ln - 2 - n
             q == Append(tx, ln)
             r == [m \in 1 .. c + 1 |-> n + 1 + m]
  <2>1. c \in Nat /\ c + 1 = (ln + 1) - 2 - n /\ n + 1 + (c + 1) = ln
    BY <1>2
  <2> HIDE DEF c
  <2>2. tx \in Seq(Nat) /\ Len(tx) = c /\ \A m \in 1 .. c : tx[m] = n + 1 + m
    BY <1>2, <2>1 DEF c
  <2>3. /\ q \in Seq(Nat) /\ Len(q) = c + 1 /\ q[c + 1] = ln
        /\ \A m \in 1 .. c : q[m] = tx[m]
    BY <1>2, <2>2, AppendProperties
  <2>4. r \in Seq(Nat) /\ Len(r) = c + 1 /\ \A m \in 1 .. c + 1 : r[m] = n + 1 + m
    BY <1>2, <2>1
  <2> HIDE DEF q, r
  <2>5. \A m \in 1 .. c + 1 : q[m] = r[m]
    <3> TAKE m \in 1 .. c + 1
    <3>1. m \in 1 .. c \/ m = c + 1
      BY <2>1
    <3>2. QED
      BY <2>1, <2>2, <2>3, <2>4, <3>1
  <2>6. q = r
    BY <2>3, <2>4, <2>5, SeqEqual
  <2>7. QED
    BY <2>1, <2>6 DEF q, r
<1>8. n + 1 < ln + 1
  BY <1>2
<1>9. InText(L, n, ln + 1, Append(tx, ln), a, b)
  BY <1>2, <1>6, <1>7, <1>8 DEF InText
<1>10. QED
  BY <1>4, <1>5, <1>9 DEF Automaton

(* What is stored at the end of the text is the record.                        *)
LEMMA RecordIs ==
    ASSUME NEW L \in Seq(Lines), NEW n \in Starts(L), NEW ln \in Nat, NEW tx, NEW a, NEW b,
           InText(L, n, ln, tx, a, b), End(L, n) = ln - 1
    PROVE  /\ Text(L, n) = tx
           /\ Record(L, n) = [t0 |-> a, t1 |-> b, text |-> tx]
<1>1. n \in Nat /\ (ln - 1) - n - 1 = ln - 2 - n
  BY EndIs
<1>2. Text(L, n) = tx
  BY <1>1 DEF Text, InText
<1>3. QED
  BY <1>2 DEF Record, InText

(* The file that is read, and its stream.                                      *)
LEMMA FileIs ==
    ASSUME FileShape, pc = "read"
    PROVE  /\ File = job.files[streams[i].filename] /\ File \in Seq(Lines) /\ Len(File) \in Nat
           /\ i \in 1 .. Len(streams) /\ streams[i] \in KateStream
           /\ streams[i].filename \in DOMAIN job.files /\ ~Embedded(streams[i])
<1>1. /\ i \in 1 .. Len(streams) /\ streams \in Seq(KateStream) /\ job \in Job
      /\ streams[i].filename \in DOMAIN job.files /\ ~Embedded(streams[i])
  BY DEF FileShape, StreamsOK
<1>2. job.files \in Seq(Seq(Lines))
  BY <1>1 DEF Job
<1>3. job.files[streams[i].filename] \in Seq(Lines)
  BY <1>1, <1>2
<1>4. QED
  BY <1>1, <1>3 DEF File

(* Which records are to be read depends on the file and the encoding.          *)
LEMMA SameRecords ==
    ASSUME NEW j, NEW a, NEW b, Same(a, b)
    PROVE  /\ WholeIn(j, a) = WholeIn(j, b)
           /\ a.subtitles = b.subtitles => (Right(j, a) <=> Right(j, b))
<1>1. a.filename = b.filename /\ a.encoding = b.encoding
  BY DEF Same
<1>2. WholeIn(j, a) = WholeIn(j, b)
  BY <1>1 DEF WholeIn, Valid
<1>3. QED
  BY <1>1, <1>2 DEF Right

LEMMA SameClosed ==
    ASSUME NEW j, NEW a, NEW b, Same(a, b), NEW ln
    PROVE  Closed(j, a, ln) = Closed(j, b, ln)
<1>1. a.filename = b.filename
  BY DEF Same
<1>2. QED
  BY <1>1, SameRecords DEF Closed

(* The next line of the same file.                                             *)
LEMMA ReadOn ==
    ASSUME FileShape, pc = "read", line \in 1 .. Len(File), NextLine,
           Same(streams'[i], streams[i]),
           FormedTo(File, line + 1),
           streams'[i].subtitles = RecordsAt(File, Closed(job, streams[i], line + 1)),
           Automaton(File, line + 1, need', text', t0', t1')
    PROVE  ParserInv'
<1>1. line' = line + 1 /\ job' = job /\ i' = i
  BY DEF NextLine
<1>2. streams'[i].filename = streams[i].filename
  BY DEF Same
<1>3. File' = File
  BY <1>1, <1>2 DEF File
<1>4. Closed(job, streams'[i], line + 1) = Closed(job, streams[i], line + 1)
  BY SameClosed
<1>5. line + 1 \in 1 .. Len(File) + 1
  BY FileIs
<1>6. QED
  BY <1>1, <1>3, <1>4, <1>5 DEF ParserInv

(* Nothing is read yet.                                                        *)
LEMMA ParserStarts ==
    ASSUME FileShape, OpenFile, streams[i].subtitles = << >>
    PROVE  ParserInv'
<1>1. /\ i' = i /\ streams' = streams /\ job' = job /\ line' = 1 /\ need' = "id"
      /\ i \in 1 .. Len(streams) /\ streams[i].filename \in DOMAIN job.files /\ job \in Job
  BY DEF OpenFile, Loading, FileShape, StreamsOK
<1> DEFINE L == job.files[streams[i].filename]
<1>2. L \in Seq(Lines)
  BY <1>1 DEF Job
<1>3. File' = L
  BY <1>1 DEF File
<1>4. Closed(job, streams[i], 1) = {}
  BY <1>2, NoneClosed
<1>5. RecordsAt(L, Closed(job, streams[i], 1)) = << >>
  BY <1>4, NoRecords
<1>6. FormedTo(L, 1)
  <2> SUFFICES ASSUME NEW n \in Starts(L) PROVE ~(n < 1) /\ ~(n + 1 < 1)
    BY DEF FormedTo
  <2>1. n \in 1 .. Len(L) /\ Len(L) \in Nat
    BY <1>2, EndIs
  <2>2. QED
    BY <2>1
<1>7. Automaton(L, 1, "id", text', t0', t1')
  BY DEF Automaton
<1>8. 1 \in 1 .. Len(L) + 1
  BY <1>2
<1> HIDE DEF L
<1>9. QED
  BY <1>1, <1>3, <1>5, <1>6, <1>7, <1>8 DEF ParserInv

(* In the text of a record no other one starts.                                *)
LEMMA NoStart ==
    ASSUME NEW L \in Seq(Lines), NEW ln \in 1 .. Len(L), NEW n \in Starts(L),
           NEW tx, NEW a, NEW b, InText(L, n, ln, tx, a, b)
    PROVE  ln - 1 \notin Starts(L) /\ ~Blank(L, ln - 1) /\ ln # 1
<1>1. /\ n \in 1 .. Len(L) /\ n + 1 < ln /\ \A m \in n .. ln - 1 : ~Blank(L, m)
      /\ ln \in Nat /\ n \in Nat /\ Len(L) \in Nat
  BY EndIs DEF InText
<1>2. ln # 1 /\ ln - 1 \in n .. ln - 1 /\ ln - 1 \in Nat
  BY <1>1
<1>3. ASSUME ln - 1 \in Starts(L) PROVE FALSE
  <2>1. n <= ln - 1 /\ ln - 1 <= ln - 1 /\ \A m \in ln - 1 .. ln - 1 : ~Blank(L, m)
    BY <1>1, <1>2
  <2>2. n = ln - 1
    BY <1>1, <1>2, <1>3, <2>1, OneRecord
  <2>3. QED
    BY <1>1, <2>2
<1>4. QED
  BY <1>1, <1>2, <1>3

(* What store_subtitle does to the stream.                                     *)
LEMMA StoredAdds ==
    ASSUME FileShape, pc = "read"
    PROVE  Stored[i].subtitles =
               IF Valid(job, text, streams[i])
               THEN Append(streams[i].subtitles, [t0 |-> t0, t1 |-> t1, text |-> text])
               ELSE streams[i].subtitles
<1>1. /\ streams \in Seq(KateStream) /\ i \in 1 .. Len(streams) /\ streams[i] \in KateStream
  BY FileIs DEF FileShape, StreamsOK
<1>2. ValidUTF8(text, streams[i]) <=> Valid(job, text, streams[i])
  BY DEF ValidUTF8, Valid
<1>3. CASE ~Valid(job, text, streams[i])
  BY <1>2, <1>3 DEF Stored
<1>4. CASE Valid(job, text, streams[i])
  <2> DEFINE q == Append(streams[i].subtitles, [t0 |-> t0, t1 |-> t1, text |-> text])
  <2>1. Stored = [streams EXCEPT ![i] = [streams[i] EXCEPT !.subtitles = q]]
    BY <1>2, <1>4 DEF Stored
  <2> HIDE DEF q
  <2>2. DOMAIN streams = 1 .. Len(streams)
    BY <1>1
  <2>3. Stored[i] = [streams[i] EXCEPT !.subtitles = q]
    BY <1>1, <2>1, <2>2
  <2>4. Stored[i].subtitles = q
    BY <1>1, <2>3 DEF KateStream
  <2>5. QED
    BY <1>4, <2>4 DEF q
<1>5. QED
  BY <1>3, <1>4

(* Every line that is read leaves the records behind it complete.              *)
LEMMA ParserStep ==
    ASSUME FileShape, ParserInv, IgnoreEmpty \/ ReadId \/ ReadTiming \/ ReadText \/ EndOfText
    PROVE  ParserInv'
<1>1. /\ pc = "read" /\ line <= Len(File) /\ NextLine
  BY DEF IgnoreEmpty, ReadId, ReadTiming, ReadText, EndOfText, Reading
<1>2. /\ File = job.files[streams[i].filename] /\ File \in Seq(Lines) /\ Len(File) \in Nat
      /\ i \in 1 .. Len(streams) /\ streams[i] \in KateStream
  BY <1>1, FileIs
<1>3. /\ line \in 1 .. Len(File) /\ line \in Nat
      /\ FormedTo(File, line)
      /\ streams[i].subtitles = RecordsAt(File, Closed(job, streams[i], line))
      /\ Automaton(File, line, need, text, t0, t1)
  BY <1>1, <1>2 DEF ParserInv
<1>4. Blank(File, line) <=> Str = "blank"
  BY <1>2, <1>3, StartIs DEF Str
<1>5. Same(streams[i], streams[i])
  BY DEF Same
<1> DEFINE L == File
<1> HIDE DEF L
<1>6. L = File /\ L \in Seq(Lines)
  BY <1>2 DEF L
<1>7. ASSUME streams' = streams, line = 1 \/ Blank(L, line - 1) \/ ~Blank(L, line),
             line \in Starts(L) => IsId(L[line].kind),
             line - 1 \in Starts(L) => L[line].kind = "timing",
             Automaton(L, line + 1, need', text', t0', t1')
      PROVE  ParserInv'
  <2>1. FormedTo(L, line + 1)
    BY <1>3, <1>6, <1>7, FormedOn
  <2>2. Closed(job, streams[i], line + 1) = Closed(job, streams[i], line)
    BY <1>2, <1>3, <1>6, <1>7, ClosedStays
  <2>3. QED
    BY <1>1, <1>3, <1>5, <1>6, <1>7, <2>1, <2>2, ReadOn
<1>8. CASE IgnoreEmpty
  <2>1. need = "id" /\ Str = "blank" /\ UNCHANGED <<streams, need, text, t0, t1>>
    BY <1>8 DEF IgnoreEmpty
  <2>2. Blank(L, line) /\ (line = 1 \/ Blank(L, line - 1))
    BY <1>3, <1>4, <1>6, <2>1 DEF Automaton
  <2>3. line \notin Starts(L) /\ line - 1 \notin Starts(L)
    BY <1>3, <1>6, <2>2, StartIs
  <2>4. Automaton(L, line + 1, "id", text, t0, t1)
    <3>1. (line + 1) - 1 = line
      BY <1>3
    <3>2. QED
      BY <2>2, <3>1 DEF Automaton
  <2>5. QED
    BY <1>7, <2>1, <2>2, <2>3, <2>4
<1>9. CASE ReadId
  <2>1. /\ need = "id" /\ IsId(L[line].kind) /\ need' = "timing" /\ text' = << >>
        /\ UNCHANGED <<streams, t0, t1>>
    BY <1>9 DEF ReadId, Str, TextAtId, L
  <2>2. /\ Automaton(L, line + 1, "timing", << >>, t0, t1)
        /\ line - 1 \notin Starts(L) /\ (line = 1 \/ Blank(L, line - 1))
    BY <1>3, <1>6, <2>1, IdRead
  <2>3. QED
    BY <1>7, <2>1, <2>2
<1>10. CASE ReadTiming
  <2>1. /\ need = "timing" /\ L[line].kind = "timing" /\ need' = "text"
        /\ t0' = L[line].t0 /\ t1' = L[line].t1 /\ UNCHANGED <<streams, text>>
    BY <1>10 DEF ReadTiming, Str, L
  <2>2. /\ Automaton(L, line + 1, "text", text, L[line].t0, L[line].t1)
        /\ line \notin Starts(L) /\ ~Blank(L, line)
    BY <1>3, <1>6, <2>1, TimingRead
  <2>3. QED
    BY <1>7, <2>1, <2>2
<1>11. CASE ReadText
  <2>1. /\ need = "text" /\ ~Blank(L, line) /\ need' = "text"
        /\ text' = Append(text, line) /\ UNCHANGED <<streams, t0, t1>>
    BY <1>4, <1>6, <1>11 DEF ReadText
  <2>2. /\ Automaton(L, line + 1, "text", Append(text, line), t0, t1)
        /\ line \notin Starts(L) /\ line - 1 \notin Starts(L)
    BY <1>3, <1>6, <2>1, TextRead
  <2>3. QED
    BY <1>7, <2>1, <2>2
<1>12. CASE EndOfText
  <2>1. /\ need = "text" /\ Blank(L, line) /\ need' = "id"
        /\ streams' = Stored /\ UNCHANGED <<text, t0, t1>>
    BY <1>4, <1>6, <1>12 DEF EndOfText
  <2>2. PICK n \in Starts(L) : InText(L, n, line, text, t0, t1)
    BY <1>3, <1>6, <2>1 DEF Automaton
  <2>3. n + 1 < line /\ (\A m \in n .. line - 1 : ~Blank(L, m)) /\ n \in Nat
    BY <1>6, <2>2, EndIs DEF InText
  <2>4. line - 1 \notin Starts(L) /\ line \notin Starts(L)
    BY <1>3, <1>6, <2>1, <2>2, NoStart, EndIs
  <2>5. FormedTo(L, line + 1)
    BY <1>3, <1>6, <2>4, FormedOn
  <2>6. /\ End(L, n) = line - 1
        /\ Closed(job, streams[i], line + 1) =
               Closed(job, streams[i], line)
                   \cup (IF Valid(job, Text(L, n), streams[i]) THEN {n} ELSE {})
        /\ \A x \in Closed(job, streams[i], line) : x < n
    <3>1. L = job.files[streams[i].filename] /\ line \in 1 .. Len(L)
      BY <1>2, <1>3, <1>6
    <3>2. QED
      BY <1>6, <2>1, <2>3, <3>1, ClosedGrows
  <2>7. Text(L, n) = text /\ Record(L, n) = [t0 |-> t0, t1 |-> t1, text |-> text]
    BY <1>3, <1>6, <2>2, <2>6, RecordIs
  <2>8. /\ IsFiniteSet(Closed(job, streams[i], line))
        /\ Closed(job, streams[i], line) \subseteq Nat
    BY <1>2, <1>6, ClosedIs
  <2>9. RecordsAt(L, Closed(job, streams[i], line) \cup {n}) =
            Append(RecordsAt(L, Closed(job, streams[i], line)), Record(L, n))
    BY <2>3, <2>6, <2>8, RecordAdded
  <2>10. streams'[i].subtitles = RecordsAt(L, Closed(job, streams[i], line + 1))
    <3>1. CASE Valid(job, text, streams[i])
      <4>1. streams'[i].subtitles =
                Append(streams[i].subtitles, [t0 |-> t0, t1 |-> t1, text |-> text])
        BY <1>1, <2>1, <3>1, StoredAdds
      <4>2. Closed(job, streams[i], line + 1) = Closed(job, streams[i], line) \cup {n}
        BY <2>6, <2>7, <3>1
      <4>3. QED
        BY <1>3, <1>6, <2>7, <2>9, <4>1, <4>2
    <3>2. CASE ~Valid(job, text, streams[i])
      <4>1. streams'[i].subtitles = streams[i].subtitles
        BY <1>1, <2>1, <3>2, StoredAdds
      <4>2. Closed(job, streams[i], line + 1) = Closed(job, streams[i], line)
        BY <2>6, <2>7, <3>2
      <4>3. QED
        BY <1>3, <1>6, <4>1, <4>2
    <3>3. QED
      BY <3>1, <3>2
  <2>11. Same(streams'[i], streams[i])
    BY <1>1, <1>2, <2>1, StoredIs
  <2>12. Automaton(L, line + 1, need', text', t0', t1')
    <3>1. (line + 1) - 1 = line
      BY <1>3
    <3>2. QED
      BY <2>1, <3>1 DEF Automaton
  <2>13. QED
    BY <1>1, <1>3, <1>6, <2>5, <2>10, <2>11, <2>12, ReadOn
<1>13. QED
  BY <1>8, <1>9, <1>10, <1>11, <1>12

(* A syntax error shows that the file is not well-formed.                      *)
LEMMA ErrorIs ==
    ASSUME FileShape, ParserInv, SyntaxError
    PROVE  ~WellFormed(File)
<1> SUFFICES ASSUME WellFormed(File) PROVE FALSE
  OBVIOUS
<1>1. /\ pc = "read" /\ line <= Len(File)
      /\ \/ need = "id" /\ Str # "blank" /\ ~IsId(Str)
         \/ need = "timing" /\ Str # "timing"
  BY DEF SyntaxError, Reading
<1>2. File \in Seq(Lines) /\ Len(File) \in Nat
  BY <1>1, FileIs
<1>3. /\ line \in 1 .. Len(File) /\ Automaton(File, line, need, text, t0, t1)
  BY <1>1, <1>2 DEF ParserInv
<1>4. \A n \in Starts(File) : IsId(File[n].kind) /\ (n < Len(File) => File[n + 1].kind = "timing")
  BY DEF WellFormed
<1>5. CASE need = "id" /\ Str # "blank" /\ ~IsId(Str)
  <2>1. line = 1 \/ Blank(File, line - 1)
    BY <1>3, <1>5 DEF Automaton
  <2>2. line \in Starts(File)
    BY <1>2, <1>3, <1>5, <2>1, StartIs DEF Str
  <2>3. QED
    BY <1>4, <1>5, <2>2 DEF Str
<1>6. CASE need = "timing" /\ Str # "timing"
  <2>1. line - 1 \in Starts(File)
    BY <1>3, <1>6 DEF Automaton
  <2>2. line - 1 < Len(File) /\ (line - 1) + 1 = line
    BY <1>2, <1>3
  <2>3. File[(line - 1) + 1].kind = "timing"
    BY <1>4, <2>1, <2>2
  <2>4. QED
    BY <1>6, <2>2, <2>3 DEF Str
<1>7. QED
  BY <1>1, <1>5, <1>6

(* At the end of a file its stream has the records, with the one that was left *)
(* over.                                                                       *)
LEMMA FileEnds ==
    ASSUME FileShape, pc = "read", ParserInv, line > Len(File),
           NEW loaded, loaded = IF Leftover THEN Stored ELSE streams
    PROVE  /\ loaded[i].subtitles = RecordsAt(File, WholeIn(job, streams[i]))
           /\ WellFormed(File)
<1> DEFINE L == File
           ks == streams[i]
           e == Len(L)
<1>1. /\ L = job.files[ks.filename] /\ L \in Seq(Lines) /\ e \in Nat
  BY FileIs
<1>2. /\ line = e + 1 /\ need \in {"id", "timing", "text"}
      /\ FormedTo(L, e + 1) /\ ks.subtitles = RecordsAt(L, Closed(job, ks, e + 1))
      /\ Automaton(L, e + 1, need, text, t0, t1)
  <2>1. line \in 1 .. e + 1
    BY DEF ParserInv
  <2>2. line = e + 1
    BY <1>1, <2>1
  <2>3. QED
    BY <2>2 DEF ParserInv, FileShape
<1>3. loaded = IF need = "text" /\ text # << >> THEN Stored ELSE streams
  BY DEF Leftover
<1>4. L = File /\ ks = streams[i] /\ Len(L) = e
  OBVIOUS
<1>5. ks.subtitles = streams[i].subtitles
  OBVIOUS
<1> HIDE DEF L, ks, e
<1>6. WellFormed(L)
  <2> SUFFICES ASSUME NEW n \in Starts(L)
               PROVE  IsId(L[n].kind) /\ (n < Len(L) => L[n + 1].kind = "timing")
    BY DEF WellFormed
  <2>1. n \in 1 .. e
    BY <1>1, <1>4, EndIs
  <2>2. n < e + 1 /\ (n < e => n + 1 < e + 1)
    BY <1>1, <2>1
  <2>3. QED
    BY <1>2, <1>4, <2>2 DEF FormedTo
<1>7. CASE need = "id"
  <2>1. e + 1 = 1 \/ Blank(L, (e + 1) - 1)
    BY <1>2, <1>7 DEF Automaton
  <2>2. e = 0 \/ Blank(L, e)
    BY <1>1, <2>1
  <2>3. \A n \in WholeIn(job, ks) : End(L, n) # Len(L)
    <3> TAKE n \in WholeIn(job, ks)
    <3>1. n \in Starts(L)
      BY <1>1, WholeIs
    <3>2. e \in 0 .. Len(L)
      BY <1>1, <1>4
    <3>3. QED
      BY <1>1, <1>4, <2>2, <3>1, <3>2, NoneEnds
  <2>4. WholeIn(job, ks) = Closed(job, ks, Len(L) + 1)
    BY <1>1, <2>3, AllClosed
  <2>5. QED
    BY <1>2, <1>3, <1>4, <1>5, <1>6, <1>7, <2>4
<1>8. CASE need = "timing"
  <2>1. (e + 1) - 1 \in Starts(L) /\ (e + 1) - 1 = e
    BY <1>1, <1>2, <1>8 DEF Automaton
  <2>2. e \in Starts(L) /\ e <= Len(L) /\ ~(e + 1 < Len(L)) /\ \A m \in e .. Len(L) : m = e
    BY <1>1, <1>4, <2>1
  <2>3. \A m \in e .. Len(L) : ~Blank(L, m)
    BY <1>1, <2>2, EndIs
  <2>4. WholeIn(job, ks) = Closed(job, ks, Len(L) + 1)
            \cup (IF e + 1 < Len(L) /\ Valid(job, Text(L, e), ks) THEN {e} ELSE {})
    BY <1>1, <2>2, <2>3, LastClosed
  <2>5. WholeIn(job, ks) = Closed(job, ks, Len(L) + 1)
    BY <2>2, <2>4
  <2>6. QED
    BY <1>2, <1>3, <1>4, <1>5, <1>6, <1>8, <2>5
<1>9. CASE need = "text"
  <2>1. PICK n \in Starts(L) : InText(L, n, e + 1, text, t0, t1)
    BY <1>2, <1>9 DEF Automaton
  <2>2. /\ n \in 1 .. e /\ n \in Nat /\ n + 1 < e + 1 /\ \A m \in n .. (e + 1) - 1 : ~Blank(L, m)
        /\ text = [m \in 1 .. (e + 1) - 2 - n |-> n + 1 + m]
    BY <1>1, <1>4, <2>1, EndIs DEF InText
  <2>3. n <= Len(L) /\ (e + 1) - 1 = Len(L) /\ \A m \in n .. Len(L) : ~Blank(L, m)
    BY <1>1, <1>4, <2>2
  <2>4. /\ End(L, n) = Len(L)
        /\ WholeIn(job, ks) = Closed(job, ks, Len(L) + 1)
               \cup (IF n + 1 < Len(L) /\ Valid(job, Text(L, n), ks) THEN {n} ELSE {})
        /\ \A x \in Closed(job, ks, Len(L) + 1) : x < n
    <3>1. L = job.files[ks.filename] /\ L \in Seq(Lines)
      BY <1>1
    <3>2. n <= Len(L) /\ \A m \in n .. Len(L) : ~Blank(L, m)
      BY <2>3
    <3>3. QED
      BY <3>1, <3>2, LastClosed
  <2>5. Text(L, n) = text /\ Record(L, n) = [t0 |-> t0, t1 |-> t1, text |-> text]
    BY <1>1, <2>1, <2>3, <2>4, RecordIs
  <2>6. n + 1 < Len(L) <=> text # << >>
    <3>1. Len(L) - 1 - n \in Nat /\ (e + 1) - 2 - n = Len(L) - 1 - n
      BY <1>1, <1>4, <2>2
    <3>2. text \in Seq(Nat) /\ Len(text) = Len(L) - 1 - n
      <4> DEFINE c == Len(L) - 1 - n
      <4>1. c \in Nat /\ text = [m \in 1 .. c |-> n + 1 + m]
        BY <2>2, <3>1
      <4> HIDE DEF c
      <4>2. text \in [1 .. c -> Nat]
        BY <2>2, <4>1
      <4>3. text \in Seq(Nat) /\ Len(text) = c
        BY <4>1, <4>2, FunctionIsSeq
      <4>4. QED
        BY <4>3 DEF c
    <3>3. text = << >> <=> Len(text) = 0
      BY <3>2, EmptySeq
    <3>4. QED
      BY <1>1, <1>4, <2>2, <3>1, <3>2, <3>3
  <2>7. RecordsAt(L, Closed(job, ks, Len(L) + 1) \cup {n}) =
            Append(RecordsAt(L, Closed(job, ks, Len(L) + 1)), Record(L, n))
    BY <1>1, <2>2, <2>4, ClosedIs, RecordAdded
  <2>8. CASE text # << >> /\ Valid(job, text, ks)
    <3>1. loaded[i].subtitles = Append(ks.subtitles, [t0 |-> t0, t1 |-> t1, text |-> text])
      BY <1>3, <1>4, <1>9, <2>8, StoredAdds
    <3>2. WholeIn(job, ks) = Closed(job, ks, Len(L) + 1) \cup {n}
      BY <2>4, <2>5, <2>6, <2>8
    <3>3. QED
      BY <1>2, <1>4, <1>6, <2>5, <2>7, <3>1, <3>2
  <2>9. CASE ~(text # << >> /\ Valid(job, text, ks))
    <3>1. loaded[i].subtitles = ks.subtitles
      BY <1>3, <1>4, <1>9, <2>9, StoredAdds
    <3>2. WholeIn(job, ks) = Closed(job, ks, Len(L) + 1)
      BY <2>4, <2>5, <2>6, <2>9
    <3>3. QED
      BY <1>2, <1>4, <1>6, <3>1, <3>2
  <2>10. QED
    BY <2>8, <2>9
<1>10. QED
  BY <1>2, <1>7, <1>8, <1>9

-----------------------------------------------------------------------------
(* The array of streams. *)

(* At the end of the options what was given is counted.                        *)
LEMMA GivenIs ==
    ASSUME FileShape, used = Len(job.options), NEW field
    PROVE  GivenIn(job, field) = Count(field) /\ GivenIn(job, field) \in Nat
<1>1. DOMAIN job.options = 1 .. used
  BY DEF FileShape, Job
<1>2. GivenIn(job, field) = Count(field)
  BY <1>1 DEF GivenIn, Count
<1>3. QED
  BY <1>2, CountIs

LEMMA AsGivenIs ==
    ASSUME NEW j, NEW f
    PROVE  /\ AsGiven(j, f).filename = f
           /\ AsGiven(j, f).encoding = IF f <= GivenIn(j, "encoding") THEN f ELSE 0
BY DEF AsGiven, NewStream

(* A stream is that of its file, with the encoding that was given for it.      *)
LEMMA EncodingGiven ==
    ASSUME FileShape, Labelled, pc # "options", NEW n \in 1 .. Len(streams),
           ~Embedded(streams[n]), streams[n].filename # 0
    PROVE  WholeIn(job, AsGiven(job, streams[n].filename)) = WholeIn(job, streams[n])
<1> DEFINE f == streams[n].filename
           a == AsGiven(job, f)
<1>1. n \in DOMAIN streams /\ used = Len(job.options)
  BY DEF FileShape, StreamsOK
<1>2. Label(streams[n])
  BY <1>1, LabelledIs
<1>3. streams[n].encoding = IF f <= Count("encoding") THEN f ELSE 0
  <2>1. "encoding" \in Fields
    BY DEF Fields
  <2>2. streams[n]["encoding"] = IF f <= Count("encoding") THEN f ELSE 0
    BY <1>2, <2>1 DEF Label
  <2>3. QED
    BY <2>2
<1>4. Count("encoding") = GivenIn(job, "encoding")
  BY <1>1, GivenIs
<1>5. a.filename = f /\ a.encoding = IF f <= GivenIn(job, "encoding") THEN f ELSE 0
  BY AsGivenIs
<1>6. a.filename = streams[n].filename /\ a.encoding = streams[n].encoding
  BY <1>3, <1>4, <1>5
<1> HIDE DEF a, f
<1>7. WholeIn(job, a) = WholeIn(job, streams[n])
  BY <1>6 DEF WholeIn, Valid
<1>8. QED
  BY <1>7 DEF a, f

(* As long as the names stay and the ones of files keep their subtitles, so    *)
(* does all that.                                                              *)
LEMMA ArrayStays ==
    ASSUME FileShape, NEW s, s \in Seq(KateStream), Len(s) = Len(streams),
           \A n \in 1 .. Len(streams) : Same(s[n], streams[n])
    PROVE  /\ Listed(streams) => Listed(s)
           /\ Within(job, streams) => Within(job, s)
           /\ Complete(job, streams) => Complete(job, s)
<1>1. DOMAIN streams = 1 .. Len(streams) /\ DOMAIN s = 1 .. Len(streams)
  BY DEF FileShape, StreamsOK
<1>2. \A n \in 1 .. Len(streams) : /\ s[n].filename = streams[n].filename
                                   /\ Embedded(s[n]) <=> Embedded(streams[n])
  BY DEF Same, Embedded
<1>3. Listed(streams) => Listed(s)
  BY <1>1, <1>2 DEF Listed
<1>4. Within(job, streams) => Within(job, s)
  BY <1>1, <1>2 DEF Within
<1>5. Complete(job, streams) => Complete(job, s)
  BY <1>1, <1>2 DEF Complete
<1>6. QED
  BY <1>3, <1>4, <1>5

LEMMA LoadsStays ==
    ASSUME FileShape, NEW s, s \in Seq(KateStream), Len(s) = Len(streams), NEW at,
           Loads(job, streams, at),
           \A n \in 1 .. Len(streams) :
               /\ Same(s[n], streams[n])
               /\ n = at \/ Embedded(streams[n]) \/ s[n].subtitles = streams[n].subtitles
    PROVE  Loads(job, s, at)
<1>1. DOMAIN streams = 1 .. Len(streams) /\ DOMAIN s = 1 .. Len(streams)
  BY DEF FileShape, StreamsOK
<1>2. ASSUME NEW n \in 1 .. Len(streams), ~Embedded(s[n])
      PROVE  (n < at => Right(job, s[n])) /\ (n > at => s[n].subtitles = << >>)
  <2>1. ~Embedded(streams[n])
    BY <1>2 DEF Same, Embedded
  <2>2. (n < at => Right(job, streams[n])) /\ (n > at => streams[n].subtitles = << >>)
    BY <1>1, <2>1 DEF Loads
  <2>3. CASE n < at \/ n > at
    <3>1. n # at
      BY <2>3
    <3>2. s[n].subtitles = streams[n].subtitles /\ Same(s[n], streams[n])
      BY <2>1, <3>1
    <3>3. Right(job, s[n]) <=> Right(job, streams[n])
      BY <3>2, SameRecords
    <3>4. QED
      BY <2>2, <3>2, <3>3
  <2>4. QED
    BY <2>3
<1>3. QED
  BY <1>1, <1>2 DEF Loads

(* The streams at the end of the options are one for each file, in order, and  *)
(* the embedded ones; none has a subtitle.                                     *)
LEMMA ArrayStarts ==
    ASSUME FileShape, Numbered, AddEmbedded,
           \A n \in DOMAIN streams : streams[n].subtitles = << >>
    PROVE  /\ ArrayInv(job, streams', 1) /\ i' = 1
           /\ \A n \in DOMAIN streams' : ~Embedded(streams'[n]) => streams'[n].subtitles = << >>
<1> DEFINE g == GivenIn(job, "filename")
<1>1. /\ streams \in Seq(KateStream) /\ Len(streams) \in Nat /\ DOMAIN streams = 1 .. Len(streams)
      /\ pc = "options" /\ used = Len(job.options) /\ i' = 1 /\ job.embedded \in Nat
  <2>1. streams \in Seq(KateStream) /\ Len(streams) \in Nat /\ DOMAIN streams = 1 .. Len(streams)
    BY DEF FileShape, StreamsOK
  <2>2. pc = "options" /\ used = Len(job.options) /\ i' = 1
    BY DEF FileShape, AddEmbedded, parser
  <2>3. job.embedded \in Nat
    BY JobIs
  <2>4. QED
    BY <2>1, <2>2, <2>3
<1>2. g \in Nat /\ g = Count("filename")
  BY <1>1, GivenIs
<1> HIDE DEF g
<1>3. /\ g <= Len(streams)
      /\ \A n \in 1 .. Len(streams) : streams[n].filename = IF n <= g THEN n ELSE 0
  <2>1. "filename" \in Fields
    BY DEF Fields
  <2>2. Count("filename") <= Len(streams)
    BY <1>1, <2>1 DEF Numbered
  <2>3. \A n \in 1 .. Len(streams) :
            streams[n]["filename"] = IF n <= Count("filename") THEN n ELSE 0
    BY <1>1, <2>1 DEF Numbered
  <2>4. QED
    BY <1>2, <2>2, <2>3
<1>4. /\ streams' \in Seq(KateStream) /\ Len(streams') = Len(streams) + job.embedded
      /\ \A m \in 1 .. Len(streams) : streams'[m] = streams[m]
      /\ \A m \in 1 .. Len(streams) + job.embedded : m > Len(streams) =>
            /\ m - Len(streams) \in 1 .. job.embedded
            /\ streams'[m] = EmbeddedAs(m - Len(streams))
  BY EmbeddedAdded
<1>5. ASSUME NEW m \in DOMAIN streams', ~Embedded(streams'[m])
      PROVE  /\ m \in 1 .. Len(streams) /\ streams'[m] = streams[m]
             /\ streams'[m].subtitles = << >>
             /\ streams'[m].filename = IF m <= g THEN m ELSE 0
  <2>1. m \in 1 .. Len(streams) + job.embedded
    BY <1>4
  <2>2. m <= Len(streams)
    <3> SUFFICES ASSUME ~(m <= Len(streams)) PROVE FALSE
      OBVIOUS
    <3>1. /\ m - Len(streams) \in Nat \ {0}
          /\ streams'[m] = EmbeddedAs(m - Len(streams))
      BY <1>1, <1>4, <2>1
    <3>2. QED
      BY <1>5, <3>1, EmbeddedStream
  <2>3. QED
    BY <1>1, <1>3, <1>4, <2>1, <2>2
<1>6. Listed(streams')
  <2> SUFFICES ASSUME NEW m \in DOMAIN streams', NEW n \in DOMAIN streams', m < n,
                      ~Embedded(streams'[m]), ~Embedded(streams'[n]), streams'[n].filename # 0
               PROVE  streams'[m].filename < streams'[n].filename
    BY DEF Listed
  <2>1. /\ streams'[m].filename = IF m <= g THEN m ELSE 0
        /\ streams'[n].filename = IF n <= g THEN n ELSE 0
        /\ m \in 1 .. Len(streams) /\ n \in 1 .. Len(streams)
    BY <1>5
  <2>2. n <= g /\ m <= g
    BY <1>2, <2>1
  <2>3. QED
    BY <2>1, <2>2
<1>7. Within(job, streams')
  <2> SUFFICES ASSUME NEW n \in DOMAIN streams', ~Embedded(streams'[n])
               PROVE  streams'[n].filename <= g
    BY DEF Within, g
  <2>1. streams'[n].filename = IF n <= g THEN n ELSE 0
    BY <1>5
  <2>2. QED
    BY <1>2, <2>1
<1>8. Complete(job, streams')
  <2> SUFFICES ASSUME NEW f \in 1 .. g
               PROVE  \E n \in DOMAIN streams' :
                          ~Embedded(streams'[n]) /\ streams'[n].filename = f
    BY DEF Complete, g
  <2>1. f \in 1 .. Len(streams) /\ f <= g
    BY <1>1, <1>2, <1>3
  <2>2. f \in DOMAIN streams' /\ streams'[f] = streams[f] /\ streams[f].filename = f
    BY <1>1, <1>3, <1>4, <2>1
  <2>3. streams[f].stream_index = -1
    BY <1>1, <2>1 DEF Numbered
  <2>4. ~Embedded(streams'[f])
    BY <2>2, <2>3 DEF Embedded
  <2>5. QED
    BY <2>2, <2>4
<1>9. Loads(job, streams', 1)
  <2> SUFFICES ASSUME NEW n \in DOMAIN streams', ~Embedded(streams'[n])
               PROVE  ~(n < 1) /\ streams'[n].subtitles = << >>
    BY DEF Loads
  <2>1. n \in 1 .. Len(streams) /\ streams'[n].subtitles = << >>
    BY <1>5
  <2>2. QED
    BY <2>1
<1>10. QED
  BY <1>1, <1>5, <1>6, <1>7, <1>8, <1>9 DEF ArrayInv

(* Taking a stream out whose file is no good one leaves the others.            *)
LEMMA ArrayWithout ==
    ASSUME FileShape, i <= Len(streams), ~Good(job, streams[i].filename), TakeOut,
           ArrayInv(job, streams, i)
    PROVE  /\ ArrayInv(job, streams', i) /\ i' = i
           /\ i \in DOMAIN streams' /\ ~Embedded(streams'[i]) => streams'[i].subtitles = << >>
<1> DEFINE at(n) == IF n < i THEN n ELSE n + 1
<1>1. /\ streams \in Seq(KateStream) /\ Len(streams) \in Nat /\ DOMAIN streams = 1 .. Len(streams)
      /\ i \in 1 .. Len(streams)
  BY DEF FileShape, StreamsOK
<1>2. /\ i' = i /\ streams' \in Seq(KateStream) /\ Len(streams') = Len(streams) - 1
      /\ \A n \in 1 .. Len(streams') : streams'[n] = streams[at(n)]
  BY TakenOut DEF StreamsOK
<1>3. /\ DOMAIN streams' = 1 .. Len(streams) - 1
      /\ \A n \in 1 .. Len(streams) - 1 : /\ streams'[n] = streams[at(n)]
                                          /\ at(n) \in 1 .. Len(streams)
      /\ \A m, n \in 1 .. Len(streams) - 1 : m < n => at(m) < at(n)
      /\ \A n \in 1 .. Len(streams) - 1 : (n < i => at(n) < i) /\ (n >= i => at(n) > i)
  BY <1>1, <1>2
<1>4. \A n \in 1 .. Len(streams) : n # i => \E m \in 1 .. Len(streams) - 1 : at(m) = n
  <2> TAKE n \in 1 .. Len(streams)
  <2>1. CASE n < i
    <3>1. n \in 1 .. Len(streams) - 1 /\ at(n) = n
      BY <1>1, <2>1
    <3>2. QED
      BY <3>1
  <2>2. CASE n > i
    <3>1. n - 1 \in 1 .. Len(streams) - 1 /\ at(n - 1) = n
      BY <1>1, <2>2
    <3>2. QED
      BY <3>1
  <2>3. QED
    BY <1>1, <2>1, <2>2
<1> HIDE DEF at
<1>5. Listed(streams')
  <2> SUFFICES ASSUME NEW m \in DOMAIN streams', NEW n \in DOMAIN streams', m < n,
                      ~Embedded(streams'[m]), ~Embedded(streams'[n]), streams'[n].filename # 0
               PROVE  streams'[m].filename < streams'[n].filename
    BY DEF Listed
  <2>1. /\ at(m) \in DOMAIN streams /\ at(n) \in DOMAIN streams /\ at(m) < at(n)
        /\ streams'[m] = streams[at(m)] /\ streams'[n] = streams[at(n)]
    BY <1>1, <1>3
  <2>2. QED
    BY <2>1 DEF ArrayInv, Listed
<1>6. Within(job, streams')
  BY <1>1, <1>3 DEF ArrayInv, Within
<1>7. Complete(job, streams')
  <2> SUFFICES ASSUME NEW f \in 1 .. GivenIn(job, "filename"), Good(job, f)
               PROVE  \E n \in DOMAIN streams' :
                          ~Embedded(streams'[n]) /\ streams'[n].filename = f
    BY DEF Complete
  <2>1. PICK n \in DOMAIN streams : ~Embedded(streams[n]) /\ streams[n].filename = f
    BY DEF ArrayInv, Complete
  <2>2. n # i
    BY <2>1
  <2>3. PICK m \in 1 .. Len(streams) - 1 : at(m) = n
    BY <1>1, <1>4, <2>1, <2>2
  <2>4. m \in DOMAIN streams' /\ streams'[m] = streams[n]
    BY <1>3, <2>3
  <2>5. QED
    BY <2>1, <2>4
<1>8. ASSUME NEW n \in 1 .. Len(streams) - 1, ~Embedded(streams'[n])
      PROVE  /\ n < i => Right(job, streams'[n])
             /\ n >= i => streams'[n].subtitles = << >>
  <2>1. /\ at(n) \in DOMAIN streams /\ streams'[n] = streams[at(n)]
        /\ (n < i => at(n) < i) /\ (n >= i => at(n) > i)
    BY <1>1, <1>3
  <2>2. QED
    BY <1>8, <2>1 DEF ArrayInv, Loads
<1>9. Loads(job, streams', i)
  <2>1. \A n \in 1 .. Len(streams) - 1 : n > i => n >= i
    BY <1>1
  <2>2. QED
    BY <1>3, <1>8, <2>1 DEF Loads
<1>10. i \in DOMAIN streams' /\ ~Embedded(streams'[i]) => streams'[i].subtitles = << >>
  <2>1. i >= i
    BY <1>1
  <2>2. QED
    BY <1>3, <1>8, <2>1
<1>11. QED
  BY <1>2, <1>5, <1>6, <1>7, <1>9, <1>10 DEF ArrayInv

(* Going on behind a stream whose file is read, or that is embedded.           *)
LEMMA ArrayOn ==
    ASSUME FileShape, i <= Len(streams), NEW s, s \in Seq(KateStream), Len(s) = Len(streams),
           ArrayInv(job, streams, i),
           \A n \in 1 .. Len(streams) : Same(s[n], streams[n]) /\ (n # i => s[n] = streams[n]),
           Embedded(streams[i]) \/ Right(job, s[i])
    PROVE  /\ ArrayInv(job, s, i + 1)
           /\ i + 1 \in DOMAIN s /\ ~Embedded(s[i + 1]) => s[i + 1].subtitles = << >>
<1>1. /\ DOMAIN streams = 1 .. Len(streams) /\ i \in 1 .. Len(streams) /\ Len(streams) \in Nat
      /\ DOMAIN s = 1 .. Len(streams)
  BY DEF FileShape, StreamsOK
<1>2. Listed(s) /\ Within(job, s) /\ Complete(job, s)
  BY ArrayStays DEF ArrayInv
<1>3. ASSUME NEW n \in 1 .. Len(streams), ~Embedded(s[n])
      PROVE  (n < i + 1 => Right(job, s[n])) /\ (n > i => s[n].subtitles = << >>)
  <2>1. CASE n = i
    <3>1. ~Embedded(streams[i])
      BY <1>3, <2>1 DEF Same, Embedded
    <3>2. QED
      BY <1>1, <2>1, <3>1
  <2>2. CASE n # i
    <3>1. s[n] = streams[n] /\ (n < i + 1 => n < i)
      BY <1>1, <2>2
    <3>2. (n < i => Right(job, streams[n])) /\ (n > i => streams[n].subtitles = << >>)
      BY <1>1, <1>3, <3>1 DEF ArrayInv, Loads
    <3>3. QED
      BY <3>1, <3>2
  <2>3. QED
    BY <2>1, <2>2
<1>4. \A n \in 1 .. Len(streams) : n > i + 1 => n > i
  BY <1>1
<1>5. Loads(job, s, i + 1)
  BY <1>1, <1>3, <1>4 DEF Loads
<1>6. i + 1 \in DOMAIN s /\ ~Embedded(s[i + 1]) => s[i + 1].subtitles = << >>
  <2>1. i + 1 > i
    BY <1>1
  <2>2. QED
    BY <1>1, <1>3, <2>1
<1>7. QED
  BY <1>2, <1>5, <1>6 DEF ArrayInv

-----------------------------------------------------------------------------
(* Loading. *)

(* No stream has a subtitle before the files are read, and the one whose file  *)
(* is next has none either; while it is read it has what the parser has seen.  *)
ReadInv ==
    /\ pc = "options" => \A n \in DOMAIN streams : streams[n].subtitles = << >>
    /\ pc # "options" => ArrayInv(job, streams, i)
    /\ pc = "load" /\ i \in DOMAIN streams /\ ~Embedded(streams[i]) => streams[i].subtitles = << >>
    /\ pc = "read" => ParserInv

(* A file that is not good is taken out with its stream.                       *)
LEMMA TakenOutRead ==
    ASSUME FileShape, i <= Len(streams), ~Good(job, streams[i].filename), TakeOut,
           ArrayInv(job, streams, i)
    PROVE  ReadInv'
<1>1. /\ ArrayInv(job, streams', i) /\ i' = i
      /\ i \in DOMAIN streams' /\ ~Embedded(streams'[i]) => streams'[i].subtitles = << >>
  BY ArrayWithout
<1>2. pc' = "load" /\ job' = job
  BY DEF TakeOut
<1>3. QED
  BY <1>1, <1>2 DEF ReadInv

(* The end of a file.                                                          *)
LEMMA EndRead ==
    ASSUME FileShape, Labelled, ReadInv, EndOfFile
    PROVE  ReadInv'
<1> DEFINE loaded == IF Leftover THEN Stored ELSE streams
           f == streams[i].filename
<1>1. /\ pc = "read" /\ line > Len(File)
      /\ IF loaded[i].subtitles # << >>
         THEN streams' = loaded /\ i' = i + 1 /\ pc' = "load" /\ job' = job
         ELSE TakeOut
  BY DEF EndOfFile
<1>2. ArrayInv(job, streams, i) /\ ParserInv
  BY <1>1 DEF ReadInv
<1>3. /\ File = job.files[f] /\ i \in 1 .. Len(streams) /\ f \in DOMAIN job.files
      /\ ~Embedded(streams[i]) /\ Len(streams) \in Nat
      /\ streams \in Seq(KateStream) /\ job \in Job
  BY <1>1, FileIs DEF FileShape, StreamsOK
<1>4. /\ loaded[i].subtitles = RecordsAt(File, WholeIn(job, streams[i]))
      /\ WellFormed(File)
  BY <1>1, <1>2, FileEnds
<1>5. /\ loaded \in Seq(KateStream) /\ Len(loaded) = Len(streams)
      /\ \A n \in 1 .. Len(streams) : /\ Same(loaded[n], streams[n])
                                      /\ n # i => loaded[n] = streams[n]
  BY <1>1, <1>3, StoredIs DEF StreamsOK, Same
<1> HIDE DEF loaded
<1>6. CASE loaded[i].subtitles = << >>
  <2>1. f # 0
    <3>1. job.files \in Seq(Seq(Lines))
      BY <1>3 DEF Job
    <3>2. QED
      BY <1>3, <3>1
  <2>2. WholeIn(job, AsGiven(job, f)) = WholeIn(job, streams[i])
    BY <1>1, <1>3, <2>1, EncodingGiven
  <2>3. ~Good(job, f)
    BY <1>3, <1>4, <1>6, <2>2 DEF Good
  <2>4. QED
    BY <1>1, <1>2, <1>3, <1>6, <2>3, TakenOutRead
<1>7. CASE loaded[i].subtitles # << >>
  <2>1. Right(job, loaded[i])
    <3>1. Same(loaded[i], streams[i])
      BY <1>3, <1>5
    <3>2. WholeIn(job, loaded[i]) = WholeIn(job, streams[i]) /\ loaded[i].filename = f
      BY <3>1, SameRecords DEF Same
    <3>3. QED
      BY <1>3, <1>4, <3>2 DEF Right
  <2>2. /\ ArrayInv(job, loaded, i + 1)
        /\ i + 1 \in DOMAIN loaded /\ ~Embedded(loaded[i + 1]) => loaded[i + 1].subtitles = << >>
    BY <1>2, <1>3, <1>5, <2>1, ArrayOn
  <2>3. streams' = loaded /\ i' = i + 1 /\ pc' = "load" /\ job' = job
    BY <1>1, <1>7
  <2>4. QED
    BY <2>2, <2>3 DEF ReadInv
<1>8. QED
  BY <1>6, <1>7

(* Other steps keep the array, and the streams that were looked at have what   *)
(* their files hold.                                                           *)
LEMMA ArrayKept ==
    ASSUME FileShape, ReadInv, pc # "options", job' = job, i' = i,
           StreamsOK(streams'), Len(streams') = Len(streams),
           \A n \in 1 .. Len(streams) :
               /\ Same(streams'[n], streams[n])
               /\ n = i \/ Embedded(streams[n]) \/ streams'[n].subtitles = streams[n].subtitles
    PROVE  ArrayInv(job, streams, i)'
<1>1. ArrayInv(job, streams, i) /\ streams' \in Seq(KateStream)
  BY DEF ReadInv, StreamsOK
<1>2. Listed(streams') /\ Within(job, streams') /\ Complete(job, streams')
  BY <1>1, ArrayStays DEF ArrayInv
<1>3. Loads(job, streams', i)
  BY <1>1, LoadsStays DEF ArrayInv
<1>4. ArrayInv(job, streams', i)
  BY <1>2, <1>3 DEF ArrayInv
<1>5. QED
  BY <1>4

(* Every step of options and files reads what the files hold.                  *)
LEMMA LoadRead ==
    ASSUME FileShape, Numbered, Labelled, ReadInv, LoadNext
    PROVE  ReadInv'
<1>1. /\ streams \in Seq(KateStream) /\ Len(streams) \in Nat /\ DOMAIN streams = 1 .. Len(streams)
      /\ i \in 1 .. Len(streams) + 1 /\ StreamsOK(streams)
  BY DEF FileShape, StreamsOK
<1>2. CASE SetField
  <2> DEFINE field == job.options[used + 1]
             n == NextFree(field)
  <2>1. /\ field \in Fields /\ Name(field) \in Nat
        /\ streams' \in Seq(KateStream)
        /\ \A m \in 1 .. Len(streams') :
              LET ks == IF m > Len(streams) THEN NewStream ELSE streams[m]
              IN  /\ ks \in KateStream
                  /\ streams'[m] = IF m = n THEN [ks EXCEPT ![field] = Name(field)] ELSE ks
    BY <1>2, FieldSet
  <2> HIDE DEF n, field
  <2>2. pc = "options" /\ pc' = "options"
    BY <1>2 DEF SetField
  <2>3. ASSUME NEW m \in 1 .. Len(streams') PROVE streams'[m].subtitles = << >>
    <3> DEFINE ks == IF m > Len(streams) THEN NewStream ELSE streams[m]
    <3>1. /\ ks \in KateStream
          /\ streams'[m] = IF m = n THEN [ks EXCEPT ![field] = Name(field)] ELSE ks
      BY <2>1
    <3>2. ks.subtitles = << >>
      <4>1. CASE m > Len(streams)
        BY <4>1, NewStreamIs
      <4>2. CASE ~(m > Len(streams))
        <5>1. m \in DOMAIN streams
          BY <1>1, <2>1, <4>2
        <5>2. QED
          BY <2>2, <4>2, <5>1 DEF ReadInv
      <4>3. QED
        BY <4>1, <4>2
    <3> HIDE DEF ks
    <3>3. QED
      BY <2>1, <3>1, <3>2, WithField
  <2>4. DOMAIN streams' = 1 .. Len(streams')
    BY <2>1
  <2>5. QED
    BY <2>2, <2>3, <2>4 DEF ReadInv
<1>3. CASE RefuseEncoding
  BY <1>3 DEF ReadInv, RefuseEncoding
<1>4. CASE AddEmbedded
  <2>1. pc = "options" /\ pc' = "load" /\ job' = job
    BY <1>4 DEF AddEmbedded
  <2>2. /\ ArrayInv(job, streams', 1) /\ i' = 1
        /\ \A n \in DOMAIN streams' : ~Embedded(streams'[n]) => streams'[n].subtitles = << >>
    BY <1>4, <2>1, ArrayStarts DEF ReadInv
  <2>3. QED
    BY <2>1, <2>2 DEF ReadInv
<1>5. CASE SkipEmbedded
  <2>1. /\ pc = "load" /\ pc' = "load" /\ job' = job /\ streams' = streams /\ i' = i + 1
        /\ i <= Len(streams) /\ Embedded(streams[i])
    BY <1>5 DEF SkipEmbedded, Loading
  <2>2. \A n \in 1 .. Len(streams) : Same(streams[n], streams[n])
    BY DEF Same
  <2>3. ArrayInv(job, streams, i)
    BY <2>1 DEF ReadInv
  <2>4. /\ ArrayInv(job, streams, i + 1)
        /\ i + 1 \in DOMAIN streams /\ ~Embedded(streams[i + 1]) =>
              streams[i + 1].subtitles = << >>
    BY <1>1, <2>1, <2>2, <2>3, ArrayOn
  <2>5. QED
    BY <2>1, <2>4 DEF ReadInv
<1>6. CASE OpenFile
  <2>1. /\ pc = "load" /\ pc' = "read" /\ job' = job /\ streams' = streams /\ i' = i
        /\ i <= Len(streams) /\ ~Embedded(streams[i])
    BY <1>6 DEF OpenFile, Loading
  <2>2. ArrayInv(job, streams, i) /\ streams[i].subtitles = << >>
    BY <1>1, <2>1 DEF ReadInv
  <2>3. ParserInv'
    BY <1>6, <2>2, ParserStarts
  <2>4. QED
    BY <2>1, <2>2, <2>3 DEF ReadInv
<1>7. CASE OpenFails
  <2>1. /\ pc = "load" /\ i <= Len(streams) /\ TakeOut
        /\ streams[i].filename \notin DOMAIN job.files
    BY <1>7 DEF OpenFails, Loading
  <2>2. ArrayInv(job, streams, i) /\ ~Good(job, streams[i].filename)
    BY <2>1 DEF ReadInv, Good
  <2>3. QED
    BY <2>1, <2>2, TakenOutRead
<1>8. CASE IgnoreEmpty \/ ReadId \/ ReadTiming \/ ReadText \/ EndOfText
  <2>1. /\ pc = "read" /\ pc' = "read" /\ job' = job /\ i' = i
    BY <1>8 DEF IgnoreEmpty, ReadId, ReadTiming, ReadText, EndOfText, Reading, NextLine
  <2>2. streams' = streams \/ streams' = Stored
    BY <1>8 DEF IgnoreEmpty, ReadId, ReadTiming, ReadText, EndOfText
  <2>3. /\ StreamsOK(streams') /\ Len(streams') = Len(streams)
        /\ \A n \in 1 .. Len(streams) : /\ Same(streams'[n], streams[n])
                                        /\ n # i => streams'[n] = streams[n]
    BY <1>1, <2>1, <2>2, StoredIs DEF Same
  <2>4. ArrayInv(job, streams, i)'
    BY <2>1, <2>3, ArrayKept
  <2>5. ParserInv'
    BY <1>8, <2>1, ParserStep DEF ReadInv
  <2>6. QED
    BY <2>1, <2>4, <2>5 DEF ReadInv
<1>9. CASE SyntaxError
  <2>1. pc = "read" /\ TakeOut
    BY <1>9 DEF SyntaxError, Reading
  <2>2. ArrayInv(job, streams, i) /\ ParserInv
    BY <2>1 DEF ReadInv
  <2>3. ~WellFormed(File) /\ File = job.files[streams[i].filename] /\ i <= Len(streams)
    BY <1>9, <2>1, <2>2, ErrorIs, FileIs
  <2>4. ~Good(job, streams[i].filename)
    BY <2>3 DEF Good
  <2>5. QED
    BY <2>1, <2>2, <2>3, <2>4, TakenOutRead
<1>10. CASE EndOfFile
  BY <1>10, EndRead
<1>11. QED
  BY <1>2, <1>3, <1>4, <1>5, <1>6, <1>7, <1>8, <1>9, <1>10 DEF LoadNext

(* So does every step.                                                         *)
LEMMA StepRead == LabelInv /\ ReadInv /\ [Next]_vars => ReadInv'
<1> SUFFICES ASSUME FileShape, FeedShape, Numbered, Labelled, ReadInv, [Next]_vars PROVE ReadInv'
  BY DEF LabelInv, Shape
<1>1. CASE Load
  BY <1>1, LoadRead DEF Load
<1>2. ASSUME Seek \/ ReadEmbedded \/ ReadOther \/ Feed \/ Flush PROVE ReadInv'
  <2>1. /\ pc # "options" /\ pc' \notin {"options", "load", "read"} /\ job' = job /\ i' = i
    BY <1>2 DEF Seek, ReadEmbedded, ReadOther, Feed, Flush, parser
  <2>2. /\ StreamsOK(streams') /\ Len(streams') = Len(streams)
        /\ \A n \in 1 .. Len(streams) :
              /\ Same(streams'[n], streams[n])
              /\ Embedded(streams[n]) \/ streams'[n].subtitles = streams[n].subtitles
    <3>1. CASE Seek
      BY <3>1, SeekStreams
    <3>2. CASE ReadEmbedded
      BY <3>2, PacketStreams
    <3>3. CASE Feed
      BY <3>3, FeedStreams
    <3>4. CASE ReadOther \/ Flush
      BY <3>4 DEF ReadOther, Flush, FileShape, Same
    <3>5. QED
      BY <1>2, <3>1, <3>2, <3>3, <3>4
  <2>3. ArrayInv(job, streams, i)'
    BY <2>1, <2>2, ArrayKept
  <2>4. QED
    BY <2>1, <2>3 DEF ReadInv
<1>3. ASSUME UNCHANGED vars PROVE ReadInv'
  BY <1>3 DEF vars, fileVars, parser, ReadInv, ParserInv, File
<1>4. QED
  BY <1>1, <1>2, <1>3 DEF Next, Done

(* The records of a file, as RecordsRead has them.                             *)
LEMMA RecordsAre ==
    ASSUME NEW L, NEW ks, L = job.files[ks.filename]
    PROVE  Records(L, ks) = RecordsAt(L, WholeIn(job, ks))
<1>1. Whole(L, ks) = WholeIn(job, ks)
  BY DEF Whole, WholeIn, ValidUTF8, Valid
<1>2. QED
  BY <1>1 DEF Records

(* When all streams were looked at, those of files are the good files' with    *)
(* what they hold.                                                             *)
LEMMA ReadIsRecords == LabelInv /\ ReadInv => RecordsRead
<1> DEFINE files == {n \in DOMAIN streams : ~Embedded(streams[n])}
           g == GivenIn(job, "filename")
           good == {f \in 1 .. g : Good(job, f)}
<1> SUFFICES ASSUME FileShape, FeedShape, Labelled, ReadInv, Loaded
             PROVE  /\ {streams[n].filename : n \in files} = good
                    /\ \A m, n \in files : m < n => streams[m].filename < streams[n].filename
                    /\ \A n \in files :
                          streams[n].subtitles = Records(job.files[streams[n].filename], streams[n])
  <2>1. ASSUME NEW f
        PROVE  Records(job.files[f], AsGiven(job, f)) =
                   RecordsAt(job.files[f], WholeIn(job, AsGiven(job, f)))
    BY AsGivenIs, RecordsAre
  <2>2. good = {f \in 1 .. g : /\ f \in DOMAIN job.files /\ WellFormed(job.files[f])
                               /\ Records(job.files[f], AsGiven(job, f)) # << >>}
    BY <2>1 DEF Good
  <2> HIDE DEF good
  <2>3. QED
    BY <2>2 DEF LabelInv, Shape, RecordsRead, AsGiven, GivenIn
<1>1. pc # "options" /\ i = Len(streams) + 1 /\ DOMAIN streams = 1 .. Len(streams) /\ job \in Job
      /\ Len(streams) \in Nat
  BY DEF FileShape, FeedShape, Loaded, Turning, StreamsOK
<1>2. ArrayInv(job, streams, i) /\ Filled(streams, i)
  BY <1>1 DEF ReadInv, FileShape
<1>3. \A n \in files : /\ n \in 1 .. Len(streams) /\ n \in DOMAIN streams /\ n < i
                       /\ ~Embedded(streams[n])
  BY <1>1
<1>4. \A n \in DOMAIN streams : ~Embedded(streams[n]) => n \in files
  OBVIOUS
<1> HIDE DEF files
<1>5. ASSUME NEW n \in files
      PROVE  /\ Right(job, streams[n]) /\ streams[n].filename <= g /\ streams[n].subtitles # << >>
             /\ streams[n].filename \in Nat /\ streams[n].filename # 0
  <2>1. Right(job, streams[n]) /\ streams[n].filename <= g /\ streams[n].subtitles # << >>
    BY <1>2, <1>3 DEF ArrayInv, Loads, Within, Filled
  <2>2. streams[n].filename \in DOMAIN job.files
    BY <2>1 DEF Right
  <2>3. job.files \in Seq(Seq(Lines))
    BY <1>1 DEF Job
  <2>4. QED
    BY <2>1, <2>2, <2>3
<1>6. ASSUME NEW n \in files
      PROVE  Good(job, streams[n].filename) /\ streams[n].filename \in 1 .. g
  <2>1. WholeIn(job, AsGiven(job, streams[n].filename)) = WholeIn(job, streams[n])
    BY <1>1, <1>3, <1>5, EncodingGiven
  <2>2. Good(job, streams[n].filename)
    BY <1>5, <2>1 DEF Good, Right
  <2>3. g \in Nat
    BY <1>1, GivenIs DEF FileShape
  <2>4. QED
    BY <1>5, <2>2, <2>3
<1>7. ASSUME NEW f \in good PROVE \E n \in files : streams[n].filename = f
  <2>1. f \in 1 .. g /\ Good(job, f)
    OBVIOUS
  <2>2. PICK n \in DOMAIN streams : ~Embedded(streams[n]) /\ streams[n].filename = f
    BY <1>2, <2>1 DEF ArrayInv, Complete
  <2>3. QED
    BY <1>4, <2>2
<1>8. {streams[n].filename : n \in files} = good
  <2>1. \A n \in files : streams[n].filename \in good
    BY <1>6
  <2> HIDE DEF good
  <2>2. QED
    BY <1>7, <2>1
<1>9. \A m, n \in files : m < n => streams[m].filename < streams[n].filename
  BY <1>2, <1>3, <1>5 DEF ArrayInv, Listed
<1>10. \A n \in files : streams[n].subtitles = Records(job.files[streams[n].filename], streams[n])
  <2> TAKE n \in files
  <2>1. streams[n].subtitles = RecordsAt(job.files[streams[n].filename], WholeIn(job, streams[n]))
    BY <1>5 DEF Right
  <2>2. QED
    BY <2>1, RecordsAre
<1>11. QED
  BY <1>8, <1>9, <1>10

(* For any command line and any files: every file that is well-formed SRT and  *)
(* holds a subtitle is in the output, in the order of the command line, with   *)
(* exactly its records, each with its own text and times, whatever was taken   *)
(* out of the array; no other file is (load_subtitles and the memmove).        *)
THEOREM FilesRead == Spec => []RecordsRead
<1>1. FeedInit => LabelInv /\ ReadInv
  <2>1. FeedInit => ReadInv
    BY DEF FeedInit, Init, ReadInv
  <2>2. QED
    BY <2>1, InitLabels
<1>2. LabelInv /\ ReadInv /\ [Next]_vars => (LabelInv /\ ReadInv)'
  BY StepLabels, StepRead
<1>3. LabelInv /\ ReadInv => RecordsRead
  BY ReadIsRecords
<1>4. QED
  BY <1>1, <1>2, <1>3, PTL DEF Spec

=============================================================================
