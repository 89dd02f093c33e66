--------------------------- MODULE SkeletonProofs ---------------------------
(***************************************************************************)
(* Proofs about the headers and the Skeleton track, for any streams, page  *)
(* length and index sizes: the track written a second time lies exactly    *)
(* over the first one, its page numbers are kept, the headers are in order *)
(* and the fishead is true.                                                *)
(***************************************************************************)
EXTENDS Skeleton, FiniteSetTheorems, SequenceTheorems, TLAPS

-----------------------------------------------------------------------------
(* Pages. *)

(* The quotient by the length of a page.                                       *)
LEMMA Quotient ==
    ASSUME NEW x \in Nat
    PROVE  /\ x \div PageSegments \in Nat
           /\ (x \div PageSegments) * PageSegments \in Nat
           /\ (x \div PageSegments) * PageSegments <= x
           /\ x < (x \div PageSegments) * PageSegments + PageSegments
BY SkeletonAssumption

(* It is the only number of whole pages that leaves less than a page.          *)
LEMMA QuotientIs ==
    ASSUME NEW x \in Nat, NEW q \in Nat,
           q * PageSegments <= x, x < q * PageSegments + PageSegments
    PROVE  x \div PageSegments = q
BY SkeletonAssumption

(* A function on the first numbers is a sequence.                              *)
LEMMA FunctionIsSeq ==
    ASSUME NEW T, NEW n \in Nat, NEW f \in [1 .. n -> T]
    PROVE  f \in Seq(T) /\ Len(f) = n
OBVIOUS

(* Pages are written one after the other, each from its first part to its last. *)
Whole(f) ==
    \A i \in 1 .. Len(f) :
        /\ f[i].part <= f[i].size
        /\ i = Len(f) => f[i].part = f[i].size
        /\ i < Len(f) =>
              /\ f[i].part < f[i].size => f[i + 1] = [f[i] EXCEPT !.part = @ + 1]
              /\ f[i].part = f[i].size => f[i + 1].part = 1

(* A cell, by its fields.                                                      *)
Cell(stream, kind, serial, no, part, size, data) ==
    [stream |-> stream, kind |-> kind, serial |-> serial, no |-> no,
     part |-> part, size |-> size, data |-> data]

LEMMA CellIs ==
    ASSUME NEW stream, NEW kind, NEW serial, NEW no, NEW part, NEW size, NEW data
    PROVE  LET c == Cell(stream, kind, serial, no, part, size, data)
           IN  /\ c.stream = stream /\ c.kind = kind /\ c.serial = serial /\ c.no = no
               /\ c.part = part /\ c.size = size /\ c.data = data
BY DEF Cell

LEMMA CellNext ==
    ASSUME NEW stream, NEW kind, NEW serial, NEW no, NEW part, NEW size, NEW data
    PROVE  [Cell(stream, kind, serial, no, part, size, data) EXCEPT !.part = @ + 1]
             = Cell(stream, kind, serial, no, part + 1, size, data)
BY DEF Cell

LEMMA CellTyped ==
    ASSUME NEW stream \in Streams \cup {Skel}, NEW kind \in {"bos", "header", "content"},
           NEW serial \in Nat, NEW no \in Nat, NEW part \in Nat \ {0}, NEW size \in Nat \ {0},
           NEW data \in Seq(Int)
    PROVE  Cell(stream, kind, serial, no, part, size, data) \in Cells
BY DEF Cell, Cells

LEMMA CellFields ==
    ASSUME NEW c \in Cells
    PROVE  /\ c.stream \in Streams \cup {Skel} /\ c.kind \in {"bos", "header", "content"}
           /\ c.serial \in Nat /\ c.no \in Nat /\ c.part \in Nat \ {0} /\ c.size \in Nat \ {0}
           /\ c.data \in Seq(Int)
           /\ [c EXCEPT !.part = @ + 1].part = c.part + 1
           /\ [c EXCEPT !.part = @ + 1].stream = c.stream
           /\ [c EXCEPT !.part = @ + 1].kind = c.kind
BY DEF Cells

(* What one call writes: whole pages of one stream and kind.                   *)
Block(b, stream, kind, serial, data) ==
    /\ b \in Seq(Cells) /\ Len(b) > 0
    /\ b[1].part = 1 /\ Whole(b)
    /\ \A i \in 1 .. Len(b) : /\ b[i].stream = stream /\ b[i].kind = kind
                               /\ b[i].serial = serial /\ b[i].data = data

(* A page of any number of segments is such a block.                           *)
LEMMA PageBlock ==
    ASSUME NEW stream, NEW kind, NEW serial, NEW no, NEW size, NEW data,
           stream \in Streams \cup {Skel}, kind \in {"bos", "header", "content"},
           serial \in Nat, no \in Nat, size \in Nat \ {0}, data \in Seq(Int)
    PROVE  /\ Block(Page(stream, kind, serial, no, size, data), stream, kind, serial, data)
           /\ Len(Page(stream, kind, serial, no, size, data)) = size
<1> DEFINE b == Page(stream, kind, serial, no, size, data)
<1>1. /\ b = [i \in 1 .. size |-> b[i]]
      /\ \A i \in 1 .. size : b[i] = Cell(stream, kind, serial, no, i, size, data)
  BY DEF Page, Cell
<1> HIDE DEF b
<1>2. b \in Seq(Cells) /\ Len(b) = size
  <2>1. \A i \in 1 .. size : b[i] \in Cells
    BY <1>1, CellTyped, SMTT(20)
  <2>2. b \in [1 .. size -> Cells]
    BY <1>1, <2>1
  <2>3. QED
    BY <2>2, FunctionIsSeq
<1>3. \A i \in 1 .. size :
         /\ b[i].stream = stream /\ b[i].kind = kind /\ b[i].serial = serial
         /\ b[i].data = data /\ b[i].part = i /\ b[i].size = size
  BY <1>1, CellIs
<1>4. Whole(b)
  <2>1. ASSUME NEW i \in 1 .. size, i < size PROVE b[i + 1] = [b[i] EXCEPT !.part = @ + 1]
    <3>1. i + 1 \in 1 .. size
      BY <2>1
    <3>2. b[i + 1] = Cell(stream, kind, serial, no, i + 1, size, data)
      BY <1>1, <3>1
    <3>3. QED
      BY <1>1, <3>2, CellNext
  <2>2. QED
    BY <1>2, <1>3, <2>1 DEF Whole
<1>5. Block(b, stream, kind, serial, data)
  BY <1>2, <1>3, <1>4 DEF Block
<1>6. QED
  BY <1>2, <1>5 DEF b

LEMMA SinglePage ==
    ASSUME NEW stream, NEW kind, NEW serial, NEW no,
           stream \in Streams \cup {Skel}, kind \in {"bos", "header", "content"},
           serial \in Nat, no \in Nat
    PROVE  /\ Block(Page(stream, kind, serial, no, 1, << >>), stream, kind, serial, << >>)
           /\ Len(Page(stream, kind, serial, no, 1, << >>)) = 1
           /\ Page(stream, kind, serial, no, 1, << >>)[1] = Cell(stream, kind, serial, no, 1, 1, << >>)
<1> DEFINE data == << >>
           size == 1
<1>1. data \in Seq(Int) /\ size \in Nat \ {0}
  OBVIOUS
<1>2. Page(stream, kind, serial, no, 1, << >>)[1] = Cell(stream, kind, serial, no, 1, 1, << >>)
  BY DEF Page, Cell
<1> HIDE DEF data, size
<1>3. /\ Block(Page(stream, kind, serial, no, size, data), stream, kind, serial, data)
      /\ Len(Page(stream, kind, serial, no, size, data)) = size
  BY <1>1, PageBlock
<1>4. QED
  BY <1>2, <1>3 DEF data, size

(* The page of the i-th segment starts behind so many.                         *)
PageStart(i) == PageOf(i) * PageSegments

SizeAt(n, i) ==
    IF PageStart(i) + PageSegments <= n THEN PageSegments ELSE n - PageStart(i)

LEMMA PageStarts ==
    ASSUME NEW i \in Nat \ {0}
    PROVE  /\ PageSegments \in Nat \ {0} /\ PageOf(i) \in Nat /\ PageStart(i) \in Nat
           /\ PageStart(i) < i /\ i <= PageStart(i) + PageSegments
<1>1. i - 1 \in Nat
  OBVIOUS
<1>2. PageOf(i) \in Nat /\ PageStart(i) \in Nat
      /\ PageStart(i) <= i - 1 /\ i - 1 < PageStart(i) + PageSegments
  BY <1>1, Quotient DEF PageOf, PageStart
<1>3. PageSegments \in Nat \ {0}
  BY SkeletonAssumption
<1>4. QED
  BY <1>2, <1>3

LEMMA FirstPage == PageOf(1) = 0 /\ PageStart(1) = 0
<1>1. PageSegments \in Nat \ {0}
  BY SkeletonAssumption
<1>2. 0 * PageSegments = 0
  BY <1>1
<1>3. PageOf(1) = 0
  BY <1>1, <1>2, QuotientIs DEF PageOf
<1>4. QED
  BY <1>2, <1>3 DEF PageStart

(* The segment behind it is on the same page, or on the next if that is full.  *)
LEMMA NextSegment ==
    ASSUME NEW i \in Nat \ {0}
    PROVE  /\ i < PageStart(i) + PageSegments =>
                 PageOf(i + 1) = PageOf(i) /\ PageStart(i + 1) = PageStart(i)
           /\ i = PageStart(i) + PageSegments =>
                 PageOf(i + 1) = PageOf(i) + 1 /\ PageStart(i + 1) = i
<1> DEFINE q == PageOf(i)
<1>1. /\ PageSegments \in Nat \ {0} /\ q \in Nat /\ PageStart(i) \in Nat
      /\ PageStart(i) < i /\ i <= PageStart(i) + PageSegments
  BY PageStarts
<1>2. i \in Nat /\ i + 1 - 1 = i /\ q + 1 \in Nat
  BY <1>1
<1>3. i < PageStart(i) + PageSegments => PageOf(i + 1) = q
  <2>1. PageStart(i) = q * PageSegments
    BY DEF PageStart
  <2>2. QED
    BY <1>1, <1>2, <2>1, QuotientIs DEF PageOf
<1>4. (q + 1) * PageSegments = PageStart(i) + PageSegments
  BY <1>1 DEF PageStart
<1>5. i = PageStart(i) + PageSegments => PageOf(i + 1) = q + 1
  <2>1. i = PageStart(i) + PageSegments =>
           (q + 1) * PageSegments <= i /\ i < (q + 1) * PageSegments + PageSegments
    BY <1>1, <1>4
  <2>2. QED
    BY <1>2, <2>1, QuotientIs DEF PageOf
<1>6. QED
  BY <1>3, <1>4, <1>5 DEF PageStart

(* What the cells of FlushLoop are.                                            *)
LEMMA FlushCell ==
    ASSUME NEW n \in Nat, NEW serial, NEW no, NEW data
    PROVE  LET b == FlushLoop(n, serial, no, data)
           IN  /\ b = [i \in 1 .. n |-> b[i]]
               /\ \A i \in 1 .. n :
                     b[i] = Cell(Skel, "header", serial, no + PageOf(i), i - PageStart(i),
                                 SizeAt(n, i), data)
BY DEF FlushLoop, Cell, PageStart, SizeAt

(* So are the pages that hold a packet.                                        *)
LEMMA FlushBlock ==
    ASSUME NEW n \in Nat \ {0}, NEW serial \in Nat, NEW no \in Nat, NEW data \in Seq(Int)
    PROVE  LET b == FlushLoop(n, serial, no, data)
           IN  /\ Block(b, Skel, "header", serial, data) /\ Len(b) = n
               /\ \A i \in 1 .. n :
                     /\ b[i].no = no + PageOf(i)
                     /\ b[i].part = i - PageStart(i) /\ b[i].size = SizeAt(n, i)
<1> DEFINE b == FlushLoop(n, serial, no, data)
           P == PageSegments
<1>1. /\ b = [i \in 1 .. n |-> b[i]]
      /\ \A i \in 1 .. n :
            b[i] = Cell(Skel, "header", serial, no + PageOf(i), i - PageStart(i),
                        SizeAt(n, i), data)
  BY FlushCell
<1> HIDE DEF b
<1>2. ASSUME NEW i \in 1 .. n
      PROVE  /\ P \in Nat \ {0} /\ PageOf(i) \in Nat /\ PageStart(i) \in Nat
             /\ PageStart(i) < i /\ i <= PageStart(i) + P
             /\ SizeAt(n, i) = IF PageStart(i) + P <= n THEN P ELSE n - PageStart(i)
  <2>1. i \in Nat \ {0}
    OBVIOUS
  <2>2. QED
    BY <2>1, PageStarts DEF SizeAt
<1> HIDE DEF P
<1>3. ASSUME NEW i \in 1 .. n
      PROVE  /\ b[i] \in Cells
             /\ b[i].stream = Skel /\ b[i].kind = "header" /\ b[i].serial = serial
             /\ b[i].no = no + PageOf(i) /\ b[i].part = i - PageStart(i)
             /\ b[i].size = SizeAt(n, i) /\ b[i].data = data
  <2>1. i - PageStart(i) \in Nat \ {0} /\ SizeAt(n, i) \in Nat \ {0} /\ no + PageOf(i) \in Nat
    <3>1. PageStart(i) \in Nat /\ PageStart(i) < i /\ PageOf(i) \in Nat /\ P \in Nat \ {0}
      BY <1>2
    <3>2. i - PageStart(i) \in Nat \ {0} /\ n - PageStart(i) \in Nat \ {0}
      BY <3>1
    <3>3. SizeAt(n, i) \in Nat \ {0}
      BY <1>2, <3>1, <3>2
    <3>4. QED
      BY <3>1, <3>2, <3>3
  <2>2. b[i] = Cell(Skel, "header", serial, no + PageOf(i), i - PageStart(i), SizeAt(n, i), data)
    BY <1>1
  <2>3. b[i] \in Cells
    <3>1. Skel \in Streams \cup {Skel} /\ "header" \in {"bos", "header", "content"}
      OBVIOUS
    <3>2. Cell(Skel, "header", serial, no + PageOf(i), i - PageStart(i), SizeAt(n, i), data) \in Cells
      BY <2>1, <3>1, CellTyped
    <3>3. QED
      BY <2>2, <3>2, Zenon
  <2>4. QED
    BY <2>2, <2>3, CellIs
<1>4. b \in Seq(Cells) /\ Len(b) = n
  <2>1. b \in [1 .. n -> Cells]
    BY <1>1, <1>3
  <2>2. QED
    BY <2>1, FunctionIsSeq
<1>5. b[1].part = 1
  BY <1>3, FirstPage
<1>6. ASSUME NEW i \in 1 .. n
      PROVE  /\ b[i].part <= b[i].size
             /\ i = n => b[i].part = b[i].size
             /\ i < n =>
                   /\ b[i].part < b[i].size => b[i + 1] = [b[i] EXCEPT !.part = @ + 1]
                   /\ b[i].part = b[i].size => b[i + 1].part = 1
  <2> DEFINE m == PageStart(i)
             size == SizeAt(n, i)
  <2>1. /\ P \in Nat \ {0} /\ m \in Nat /\ m < i /\ i <= m + P
        /\ size = IF m + P <= n THEN P ELSE n - m
    BY <1>2
  <2>2. b[i].part = i - m /\ b[i].size = size
    BY <1>3
  <2>3. /\ i < m + P => PageOf(i + 1) = PageOf(i) /\ PageStart(i + 1) = m
        /\ i = m + P => PageOf(i + 1) = PageOf(i) + 1 /\ PageStart(i + 1) = i
    <3>1. i \in Nat \ {0}
      OBVIOUS
    <3>2. QED
      BY <3>1, NextSegment DEF P
  <2>4. i < n => i + 1 \in 1 .. n
    OBVIOUS
  <2>5. ASSUME i < n, i - m < size PROVE b[i + 1] = [b[i] EXCEPT !.part = @ + 1]
    <3>1. i < m + P
      BY <2>1, <2>5
    <3>2. b[i + 1] = Cell(Skel, "header", serial, no + PageOf(i + 1), (i + 1) - PageStart(i + 1),
                          SizeAt(n, i + 1), data)
      BY <1>1, <2>4, <2>5
    <3>3. /\ PageOf(i + 1) = PageOf(i) /\ (i + 1) - PageStart(i + 1) = (i - m) + 1
          /\ SizeAt(n, i + 1) = size
      BY <2>1, <2>3, <3>1 DEF SizeAt
    <3>4. b[i + 1] = Cell(Skel, "header", serial, no + PageOf(i), (i - m) + 1, size, data)
      BY <3>2, <3>3
    <3>5. b[i] = Cell(Skel, "header", serial, no + PageOf(i), i - m, size, data)
      BY <1>1
    <3>6. QED
      BY <3>4, <3>5, CellNext
  <2>6. ASSUME i < n, i - m = size PROVE b[i + 1].part = 1
    <3>1. i = m + P
      BY <2>1, <2>6
    <3>2. b[i + 1].part = (i + 1) - PageStart(i + 1)
      BY <1>3, <2>4, <2>6
    <3>3. QED
      BY <2>3, <3>1, <3>2
  <2>7. i - m <= size /\ (i = n => i - m = size)
    BY <2>1
  <2>8. QED
    BY <2>2, <2>5, <2>6, <2>7
<1>7. Whole(b)
  BY <1>4, <1>6 DEF Whole
<1>8. Block(b, Skel, "header", serial, data)
  BY <1>3, <1>4, <1>5, <1>7 DEF Block
<1>9. QED
  BY <1>3, <1>4, <1>8 DEF b

(* write_index_pages cuts an index into the pages its placeholder had.         *)
LEMMA PagesAlike ==
    ASSUME NEW n \in Nat, NEW serial \in Nat, NEW no \in Nat, NEW data \in Seq(Int)
    PROVE  PageoutFlush(n, serial, no, data) = FlushLoop(n, serial, no, data)
<1> DEFINE P == PageSegments
           k == n \div P
           full == k * P
           a == FlushLoop(full, serial, no, data)
           z == Page(Skel, "header", serial, no + k, n - full, data)
           b == FlushLoop(n, serial, no, data)
<1>0. P \in Nat \ {0}
  BY SkeletonAssumption
<1>1. k \in Nat /\ full \in Nat /\ full <= n /\ n < full + P
  BY Quotient
<1>2. PageoutFlush(n, serial, no, data) = a \o z
  BY DEF PageoutFlush
<1> HIDE DEF full, k
<1>3. ASSUME NEW i \in 1 .. full PROVE PageStart(i) + P <= full
  <2>1. i \in Nat \ {0}
    BY <1>1
  <2>2. PageOf(i) \in Nat /\ PageStart(i) \in Nat /\ PageStart(i) < i
    BY <2>1, PageStarts
  <2>3. PageOf(i) * P < k * P
    <3>1. PageStart(i) < full
      BY <1>1, <2>1, <2>2
    <3>2. QED
      BY <3>1 DEF PageStart, full
  <2>4. PageOf(i) + 1 <= k
    BY <1>0, <1>1, <2>2, <2>3
  <2>5. (PageOf(i) + 1) * P <= k * P
    <3>1. ASSUME NEW x \in Nat, NEW y \in Nat, NEW p \in Nat, x <= y PROVE x * p <= y * p
      BY <3>1
    <3>2. PageOf(i) + 1 \in Nat /\ k \in Nat /\ P \in Nat
      BY <1>0, <1>1, <2>2
    <3> HIDE DEF P
    <3>3. QED
      BY <2>4, <3>1, <3>2
  <2>6. QED
    BY <1>0, <2>2, <2>5 DEF PageStart, full
<1>4. ASSUME NEW i \in 1 .. n - full PROVE PageOf(full + i) = k /\ PageStart(full + i) = full
  <2>1. full + i - 1 \in Nat /\ full <= full + i - 1 /\ full + i - 1 < full + P
    BY <1>0, <1>1
  <2>2. PageOf(full + i) = k
    BY <1>1, <2>1, QuotientIs DEF PageOf, full
  <2>3. QED
    BY <2>2 DEF PageStart, full
<1>5. /\ a = [i \in 1 .. full |-> a[i]]
      /\ \A i \in 1 .. full :
            a[i] = Cell(Skel, "header", serial, no + PageOf(i), i - PageStart(i),
                        SizeAt(full, i), data)
  BY <1>1, FlushCell
<1>6. /\ b = [i \in 1 .. n |-> b[i]]
      /\ \A i \in 1 .. n :
            b[i] = Cell(Skel, "header", serial, no + PageOf(i), i - PageStart(i),
                        SizeAt(n, i), data)
  BY FlushCell
<1>7. /\ z = [i \in 1 .. n - full |-> z[i]]
      /\ \A i \in 1 .. n - full :
            z[i] = Cell(Skel, "header", serial, no + k, i, n - full, data)
  BY DEF Page, Cell
<1> HIDE DEF a, b, z
<1>8. ASSUME NEW i \in 1 .. full PROVE a[i] = b[i]
  <2>1. i \in Nat \ {0} /\ i \in 1 .. n
    BY <1>1
  <2>2. PageStart(i) \in Nat
    BY <2>1, PageStarts
  <2>3. SizeAt(full, i) = P /\ SizeAt(n, i) = P
    BY <1>0, <1>1, <1>3, <2>2 DEF SizeAt
  <2>4. QED
    BY <1>5, <1>6, <2>1, <2>3
<1>9. ASSUME NEW i \in 1 .. n - full PROVE z[i] = b[full + i]
  <2>1. full + i \in 1 .. n /\ (full + i) - full = i /\ ~(full + P <= n)
    BY <1>0, <1>1
  <2>2. SizeAt(n, full + i) = n - full
    BY <1>4, <2>1 DEF SizeAt
  <2>3. QED
    BY <1>4, <1>6, <1>7, <2>1, <2>2
<1>10. a \o z = b
  <2> DEFINE T == {a[i] : i \in 1 .. full} \cup {z[i] : i \in 1 .. n - full}
  <2>1. a \in Seq(T) /\ z \in Seq(T) /\ Len(a) = full /\ Len(z) = n - full
    <3>1. a \in [1 .. full -> T] /\ z \in [1 .. n - full -> T]
      BY <1>5, <1>7
    <3>2. n - full \in Nat
      BY <1>1
    <3> HIDE DEF T
    <3>3. QED
      BY <1>1, <3>1, <3>2, FunctionIsSeq
  <2> HIDE DEF T
  <2>2. a \o z = [i \in 1 .. full + (n - full) |-> IF i <= full THEN a[i] ELSE z[i - full]]
    <3>1. /\ a \o z \in Seq(T) /\ Len(a \o z) = full + (n - full)
          /\ \A i \in 1 .. full + (n - full) :
                (a \o z)[i] = IF i <= full THEN a[i] ELSE z[i - full]
      BY <2>1, ConcatProperties
    <3>2. a \o z = [i \in 1 .. full + (n - full) |-> (a \o z)[i]]
      BY <3>1, LenProperties
    <3>3. QED
      BY <3>1, <3>2
  <2>3. full + (n - full) = n
    BY <1>1
  <2>4. ASSUME NEW i \in 1 .. n PROVE (IF i <= full THEN a[i] ELSE z[i - full]) = b[i]
    <3>1. CASE i <= full
      BY <1>1, <1>8, <3>1
    <3>2. CASE ~(i <= full)
      <4>1. i - full \in 1 .. n - full /\ full + (i - full) = i
        BY <1>1, <3>2
      <4>2. QED
        BY <1>9, <3>2, <4>1
    <3>3. QED
      BY <3>1, <3>2
  <2>5. QED
    BY <1>6, <2>2, <2>3, <2>4
<1>11. QED
  BY <1>2, <1>10 DEF b

-----------------------------------------------------------------------------
(* What is done to the file. *)

(* g is f with b behind it.                                                    *)
Appends(f, b, g) ==
    /\ g \in Seq(Cells) /\ Len(g) = Len(f) + Len(b)
    /\ \A i \in 1 .. Len(f) : g[i] = f[i]
    /\ \A k \in 1 .. Len(b) : g[Len(f) + k] = b[k]

(* g is f with b over it.                                                      *)
Over(f, at, b, g) ==
    /\ g \in Seq(Cells) /\ Len(g) = Len(f)
    /\ \A k \in 1 .. Len(b) : g[at + k] = b[k]
    /\ \A i \in 1 .. Len(f) : i \notin at + 1 .. at + Len(b) => g[i] = f[i]

LEMMA WriteBehind ==
    ASSUME file \in Seq(Cells), NEW b \in Seq(Cells), WriteAt(Len(file), b)
    PROVE  Appends(file, b, file') /\ position' = Len(file')
<1> DEFINE l == Len(file)
           end == l + Len(b)
<1>1. l \in Nat /\ Len(b) \in Nat /\ end \in Nat /\ l <= end
  OBVIOUS
<1>2. position' = end
      /\ file' = [i \in 1 .. IF end > l THEN end ELSE l |->
                    IF i \in l + 1 .. end THEN b[i - l] ELSE file[i]]
  BY DEF WriteAt
<1>3. \A i \in 1 .. l : file[i] \in Cells
  OBVIOUS
<1>4. \A k \in 1 .. Len(b) : b[k] \in Cells
  OBVIOUS
<1> HIDE DEF l
<1>5. (IF end > l THEN end ELSE l) = end
  BY <1>1
<1>6. file' = [i \in 1 .. end |-> IF i \in l + 1 .. end THEN b[i - l] ELSE file[i]]
  BY <1>2, <1>5
<1>7. \A i \in 1 .. l : file'[i] = file[i] /\ i \in 1 .. end
  BY <1>1, <1>6
<1>8. \A k \in 1 .. Len(b) : file'[l + k] = b[k] /\ l + k \in 1 .. end
  <2> TAKE k \in 1 .. Len(b)
  <2>1. l + k \in 1 .. end /\ l + k \in l + 1 .. end /\ (l + k) - l = k
    BY <1>1
  <2>2. QED
    BY <1>6, <2>1
<1>9. \A i \in 1 .. end : file'[i] \in Cells
  <2> TAKE i \in 1 .. end
  <2>1. CASE i <= l
    BY <1>1, <1>3, <1>7, <2>1
  <2>2. CASE ~(i <= l)
    <3>1. i - l \in 1 .. Len(b) /\ i = l + (i - l)
      BY <1>1, <2>2
    <3>2. QED
      BY <1>4, <1>8, <3>1
  <2>3. QED
    BY <2>1, <2>2
<1>10. file' \in Seq(Cells) /\ Len(file') = end
  <2>1. file' \in [1 .. end -> Cells]
    BY <1>6, <1>9
  <2>2. QED
    BY <1>1, <2>1, FunctionIsSeq
<1>11. QED
  BY <1>2, <1>7, <1>8, <1>10 DEF Appends, l

LEMMA WriteOver ==
    ASSUME file \in Seq(Cells), NEW b \in Seq(Cells), NEW at \in Nat,
           at + Len(b) <= Len(file), WriteAt(at, b)
    PROVE  Over(file, at, b, file') /\ position' = at + Len(b)
<1> DEFINE l == Len(file)
           end == at + Len(b)
<1>1. l \in Nat /\ Len(b) \in Nat /\ end \in Nat /\ end <= l
  OBVIOUS
<1>2. position' = end
      /\ file' = [i \in 1 .. IF end > l THEN end ELSE l |->
                    IF i \in at + 1 .. end THEN b[i - at] ELSE file[i]]
  BY DEF WriteAt
<1>3. \A i \in 1 .. l : file[i] \in Cells
  OBVIOUS
<1>4. \A k \in 1 .. Len(b) : b[k] \in Cells
  OBVIOUS
<1> HIDE DEF l
<1>5. (IF end > l THEN end ELSE l) = l
  BY <1>1
<1>6. file' = [i \in 1 .. l |-> IF i \in at + 1 .. end THEN b[i - at] ELSE file[i]]
  BY <1>2, <1>5
<1>7. \A i \in 1 .. l : i \notin at + 1 .. end => file'[i] = file[i]
  BY <1>6
<1>8. \A k \in 1 .. Len(b) : file'[at + k] = b[k] /\ at + k \in 1 .. l
  <2> TAKE k \in 1 .. Len(b)
  <2>1. at + k \in 1 .. l /\ at + k \in at + 1 .. end /\ (at + k) - at = k
    BY <1>1
  <2>2. QED
    BY <1>6, <2>1
<1>9. \A i \in 1 .. l : file'[i] \in Cells
  <2> TAKE i \in 1 .. l
  <2>1. CASE i \notin at + 1 .. end
    BY <1>3, <1>7, <2>1
  <2>2. CASE i \in at + 1 .. end
    <3>1. i - at \in 1 .. Len(b) /\ i = at + (i - at)
      BY <1>1, <2>2
    <3>2. QED
      BY <1>4, <1>8, <3>1
  <2>3. QED
    BY <2>1, <2>2
<1>10. file' \in Seq(Cells) /\ Len(file') = l
  <2>1. file' \in [1 .. l -> Cells]
    BY <1>6, <1>9
  <2>2. QED
    BY <1>1, <2>1, FunctionIsSeq
<1>11. QED
  BY <1>2, <1>7, <1>8, <1>10 DEF Over, l

(* Pages behind pages are whole.                                               *)
LEMMA AppendWhole ==
    ASSUME NEW f \in Seq(Cells), NEW b \in Seq(Cells), NEW g, Appends(f, b, g),
           Whole(f), Whole(b), Len(b) > 0, b[1].part = 1
    PROVE  Whole(g)
<1> DEFINE l == Len(f)
           m == Len(b)
<1>1. l \in Nat /\ m \in Nat /\ m > 0 /\ Len(g) = l + m
  BY DEF Appends
<1>2. /\ \A i \in 1 .. l : g[i] = f[i]
      /\ \A k \in 1 .. m : g[l + k] = b[k]
  BY DEF Appends
<1>3. \A i \in 1 .. l : f[i].part \in Nat /\ f[i].size \in Nat
  BY CellFields
<1>4. \A i \in 1 .. l :
        /\ f[i].part <= f[i].size
        /\ i = l => f[i].part = f[i].size
        /\ i < l =>
              /\ f[i].part < f[i].size => f[i + 1] = [f[i] EXCEPT !.part = @ + 1]
              /\ f[i].part = f[i].size => f[i + 1].part = 1
  BY DEF Whole
<1>5. \A i \in 1 .. m :
        /\ b[i].part <= b[i].size
        /\ i = m => b[i].part = b[i].size
        /\ i < m =>
              /\ b[i].part < b[i].size => b[i + 1] = [b[i] EXCEPT !.part = @ + 1]
              /\ b[i].part = b[i].size => b[i + 1].part = 1
  BY DEF Whole
<1> HIDE DEF l, m
<1> SUFFICES ASSUME NEW i \in 1 .. l + m
             PROVE  /\ g[i].part <= g[i].size
                    /\ i = l + m => g[i].part = g[i].size
                    /\ i < l + m =>
                          /\ g[i].part < g[i].size => g[i + 1] = [g[i] EXCEPT !.part = @ + 1]
                          /\ g[i].part = g[i].size => g[i + 1].part = 1
  BY <1>1 DEF Whole
<1>6. CASE i < l
  <2>1. i \in 1 .. l /\ i + 1 \in 1 .. l /\ i < l + m
    BY <1>1, <1>6
  <2>2. QED
    BY <1>2, <1>4, <1>6, <2>1
<1>7. CASE i = l
  <2>1. i \in 1 .. l /\ i < l + m /\ 1 \in 1 .. m
    BY <1>1, <1>7
  <2>2. g[i] = f[i] /\ g[i + 1].part = 1
    BY <1>2, <1>7, <2>1 DEF m
  <2>3. g[i].part = g[i].size /\ g[i].part \in Nat
    BY <1>3, <1>4, <1>7, <2>1, <2>2
  <2>4. QED
    BY <2>1, <2>2, <2>3
<1>8. CASE i > l
  <2> DEFINE k == i - l
  <2>1. k \in 1 .. m /\ i = l + k /\ (k < m <=> i < l + m) /\ (k = m <=> i = l + m)
    BY <1>1, <1>8
  <2>2. k < m => k + 1 \in 1 .. m /\ i + 1 = l + (k + 1)
    BY <1>1, <2>1
  <2> HIDE DEF k
  <2>3. g[i] = b[k] /\ (k < m => g[i + 1] = b[k + 1])
    BY <1>2, <2>1, <2>2
  <2>4. QED
    BY <1>5, <2>1, <2>3
<1>9. QED
  BY <1>1, <1>6, <1>7, <1>8

(* So are pages over pages of the same extent.                                 *)
LEMMA OverWhole ==
    ASSUME NEW f \in Seq(Cells), NEW b \in Seq(Cells), NEW at \in Nat, NEW g,
           Over(f, at, b, g), at + Len(b) <= Len(f),
           Whole(f), Whole(b), Len(b) > 0, b[1].part = 1,
           \A k \in 1 .. Len(b) : f[at + k].part = b[k].part /\ f[at + k].size = b[k].size
    PROVE  Whole(g)
<1> DEFINE l == Len(f)
           m == Len(b)
<1>1. l \in Nat /\ m \in Nat /\ m > 0 /\ Len(g) = l /\ at + m <= l
  BY DEF Over
<1>2. /\ \A k \in 1 .. m : g[at + k] = b[k]
      /\ \A i \in 1 .. l : i \notin at + 1 .. at + m => g[i] = f[i]
  BY DEF Over
<1>3. /\ \A i \in 1 .. l : f[i].part \in Nat /\ f[i].size \in Nat
      /\ \A k \in 1 .. m : b[k].part \in Nat /\ b[k].size \in Nat
  BY CellFields
<1>4. \A i \in 1 .. l :
        /\ f[i].part <= f[i].size
        /\ i = l => f[i].part = f[i].size
        /\ i < l =>
              /\ f[i].part < f[i].size => f[i + 1] = [f[i] EXCEPT !.part = @ + 1]
              /\ f[i].part = f[i].size => f[i + 1].part = 1
  BY DEF Whole
<1>5. \A i \in 1 .. m :
        /\ b[i].part <= b[i].size
        /\ i = m => b[i].part = b[i].size
        /\ i < m =>
              /\ b[i].part < b[i].size => b[i + 1] = [b[i] EXCEPT !.part = @ + 1]
              /\ b[i].part = b[i].size => b[i + 1].part = 1
  BY DEF Whole
<1>6. \A k \in 1 .. m : f[at + k].part = b[k].part /\ f[at + k].size = b[k].size
  OBVIOUS
<1>7. b[1].part = 1 /\ 1 \in 1 .. m
  BY <1>1
<1> HIDE DEF l, m
<1> SUFFICES ASSUME NEW i \in 1 .. l
             PROVE  /\ g[i].part <= g[i].size
                    /\ i = l => g[i].part = g[i].size
                    /\ i < l =>
                          /\ g[i].part < g[i].size => g[i + 1] = [g[i] EXCEPT !.part = @ + 1]
                          /\ g[i].part = g[i].size => g[i + 1].part = 1
  BY <1>1 DEF Whole
<1>8. CASE i < at \/ i > at + m
  <2>1. /\ i \notin at + 1 .. at + m
        /\ i < l => i + 1 \in 1 .. l /\ i + 1 \notin at + 1 .. at + m
    BY <1>1, <1>8
  <2>2. g[i] = f[i] /\ (i < l => g[i + 1] = f[i + 1])
    BY <1>2, <2>1
  <2>3. QED
    BY <1>4, <2>2
<1>9. CASE i = at
  <2>1. i \notin at + 1 .. at + m /\ i < l
    BY <1>1, <1>9
  <2>2. g[i] = f[i] /\ g[i + 1] = b[1] /\ f[i + 1].part = 1
    BY <1>2, <1>6, <1>7, <1>9, <2>1
  <2>3. f[i].part \in Nat /\ f[i].size \in Nat /\ f[i].part <= f[i].size
    BY <1>3, <1>4
  <2>4. f[i].part = f[i].size
    <3> SUFFICES ASSUME f[i].part < f[i].size PROVE FALSE
      BY <2>3
    <3>1. f[i + 1] = [f[i] EXCEPT !.part = @ + 1]
      BY <1>4, <2>1
    <3>2. f[i] \in Cells
      BY DEF l
    <3>3. QED
      BY <2>2, <3>1, <3>2, CellFields
  <2>5. QED
    BY <1>7, <2>1, <2>2, <2>3, <2>4
<1>10. CASE i \in at + 1 .. at + m - 1
  <2> DEFINE k == i - at
  <2>1. k \in 1 .. m /\ i = at + k /\ k < m /\ k + 1 \in 1 .. m /\ i + 1 = at + (k + 1) /\ i < l
    BY <1>1, <1>10
  <2> HIDE DEF k
  <2>2. g[i] = b[k] /\ g[i + 1] = b[k + 1]
    BY <1>2, <2>1
  <2>3. /\ b[k].part <= b[k].size
        /\ b[k].part < b[k].size => b[k + 1] = [b[k] EXCEPT !.part = @ + 1]
        /\ b[k].part = b[k].size => b[k + 1].part = 1
    BY <1>5, <2>1
  <2>4. i # l
    BY <2>1
  <2>5. QED
    BY <2>2, <2>3, <2>4, Zenon
<1>11. CASE i = at + m
  <2>1. m \in 1 .. m /\ (i < l => i + 1 \in 1 .. l /\ i + 1 \notin at + 1 .. at + m)
    BY <1>1, <1>11
  <2>2. g[i] = b[m] /\ (i < l => g[i + 1] = f[i + 1])
    BY <1>2, <1>11, <2>1
  <2>3. b[m].part = b[m].size /\ b[m].part \in Nat
    BY <1>3, <1>5, <2>1
  <2>4. f[i].part = f[i].size
    BY <1>6, <1>11, <2>1, <2>3
  <2>5. i < l => f[i + 1].part = 1
    BY <1>4, <2>4
  <2>6. QED
    BY <2>2, <2>3, <2>5
<1>12. QED
  <2>1. \/ i < at \/ i > at + m \/ i = at \/ i \in at + 1 .. at + m - 1 \/ i = at + m
    BY <1>1
  <2>2. QED
    BY <1>8, <1>9, <1>10, <1>11, <2>1

-----------------------------------------------------------------------------
(* Page numbers. *)

(* The cells before the i-th that end a page of the Skeleton track.            *)
Ends(f, i) == {j \in 1 .. i - 1 : f[j].stream = Skel /\ f[j].part = f[j].size}

LEMMA CountIs ==
    ASSUME NEW f, NEW i \in Nat
    PROVE  /\ IsFiniteSet(Ends(f, i)) /\ PagesBefore(f, i) = Cardinality(Ends(f, i))
           /\ PagesBefore(f, i) \in Nat
<1>1. IsFiniteSet(1 .. i - 1)
  BY FS_Interval
<1>2. Ends(f, i) \subseteq 1 .. i - 1
  BY DEF Ends
<1>3. IsFiniteSet(Ends(f, i))
  BY <1>1, <1>2, FS_Subset
<1>4. PagesBefore(f, i) = Cardinality(Ends(f, i))
  BY DEF PagesBefore, Ends
<1>5. QED
  BY <1>3, <1>4, FS_CardinalityType

LEMMA CountFirst ==
    ASSUME NEW f PROVE PagesBefore(f, 1) = 0
<1>1. Ends(f, 1) = {}
  BY DEF Ends
<1>2. QED
  BY <1>1, CountIs, FS_EmptySet

(* Their number depends on the extents of the pages only.                      *)
LEMMA CountSame ==
    ASSUME NEW f, NEW g, NEW i \in Nat,
           \A j \in 1 .. i - 1 : /\ g[j].stream = f[j].stream
                                 /\ g[j].part = f[j].part /\ g[j].size = f[j].size
    PROVE  PagesBefore(g, i) = PagesBefore(f, i)
<1>1. Ends(g, i) = Ends(f, i)
  BY DEF Ends
<1>2. QED
  BY <1>1, CountIs

(* Counting goes on over what is written behind.                               *)
LEMMA CountAppend ==
    ASSUME NEW f \in Seq(Cells), NEW b \in Seq(Cells), NEW g, Appends(f, b, g),
           NEW k \in 1 .. Len(b) + 1
    PROVE  PagesBefore(g, Len(f) + k) = PagesBefore(f, Len(f) + 1) + PagesBefore(b, k)
<1> DEFINE l == Len(f)
           old == Ends(f, l + 1)
           new == Ends(b, k)
           moved == Ends(g, l + k) \ old
           shift == [j \in new |-> l + j]
<1>1. l \in Nat /\ Len(b) \in Nat /\ k \in Nat /\ l + 1 \in Nat /\ l + k \in Nat
  OBVIOUS
<1>2. /\ \A i \in 1 .. l : g[i] = f[i]
      /\ \A j \in 1 .. Len(b) : g[l + j] = b[j]
  BY DEF Appends
<1> HIDE DEF l
<1>3. /\ IsFiniteSet(old) /\ PagesBefore(f, l + 1) = Cardinality(old)
      /\ IsFiniteSet(new) /\ PagesBefore(b, k) = Cardinality(new)
      /\ IsFiniteSet(Ends(g, l + k)) /\ PagesBefore(g, l + k) = Cardinality(Ends(g, l + k))
  BY <1>1, CountIs
<1>4. ASSUME NEW i \in 1 .. l PROVE i \in old <=> i \in Ends(g, l + k)
  <2>1. i \in 1 .. (l + 1) - 1 /\ i \in 1 .. (l + k) - 1
    BY <1>1
  <2>2. g[i] = f[i]
    BY <1>2
  <2>3. i \in old <=> f[i].stream = Skel /\ f[i].part = f[i].size
    BY <2>1 DEF Ends
  <2>4. i \in Ends(g, l + k) <=> g[i].stream = Skel /\ g[i].part = g[i].size
    BY <2>1 DEF Ends
  <2>5. QED
    BY <2>2, <2>3, <2>4
<1>5. ASSUME NEW j \in 1 .. k - 1 PROVE j \in new <=> l + j \in Ends(g, l + k)
  <2>1. j \in 1 .. Len(b) /\ l + j \in 1 .. (l + k) - 1
    BY <1>1
  <2>2. g[l + j] = b[j]
    BY <1>2, <2>1
  <2>3. j \in new <=> b[j].stream = Skel /\ b[j].part = b[j].size
    BY DEF Ends
  <2>4. l + j \in Ends(g, l + k) <=> g[l + j].stream = Skel /\ g[l + j].part = g[l + j].size
    BY <2>1 DEF Ends
  <2>5. QED
    BY <2>2, <2>3, <2>4
<1>6. old \subseteq 1 .. l /\ new \subseteq 1 .. k - 1 /\ Ends(g, l + k) \subseteq 1 .. l + k - 1
  BY <1>1 DEF Ends
<1>7. old \subseteq Ends(g, l + k)
  BY <1>4, <1>6
<1>8. ASSUME NEW i \in moved PROVE i - l \in new /\ i = l + (i - l)
  <2>1. i \in 1 .. l + k - 1 /\ i \notin 1 .. l /\ i \in Ends(g, l + k)
    BY <1>4, <1>6
  <2>2. i - l \in 1 .. k - 1 /\ i = l + (i - l)
    BY <1>1, <2>1
  <2>3. QED
    BY <1>5, <2>1, <2>2
<1>9. ASSUME NEW j \in new PROVE l + j \in moved
  <2>1. j \in 1 .. k - 1 /\ l + j \notin 1 .. l
    BY <1>1, <1>6
  <2>2. QED
    BY <1>5, <1>6, <2>1
<1> HIDE DEF old, new, moved
<1>10. shift \in Bijection(new, moved)
  <2>1. shift \in [new -> moved]
    BY <1>9
  <2>2. ASSUME NEW i \in new, NEW j \in new, shift[i] = shift[j] PROVE i = j
    BY <1>1, <1>6, <2>2
  <2>3. \A i \in moved : \E j \in new : shift[j] = i
    BY <1>8
  <2>4. QED
    BY <2>1, <2>2, <2>3 DEF Bijection, Injection, Surjection, IsInjective
<1>11. IsFiniteSet(moved) /\ Cardinality(moved) = Cardinality(new)
  BY <1>3, <1>10, FS_Bijection DEF ExistsBijection
<1>12. Ends(g, l + k) = old \cup moved /\ old \cap moved = {}
  BY <1>7 DEF moved
<1>13. Cardinality(Ends(g, l + k)) = Cardinality(old) + Cardinality(moved)
  <2>1. Cardinality(old \cup moved) =
           Cardinality(old) + Cardinality(moved) - Cardinality(old \cap moved)
    BY <1>3, <1>11, FS_Union
  <2>2. Cardinality(old \cap moved) = 0
    BY <1>12, FS_EmptySet
  <2>3. Cardinality(old) \in Nat /\ Cardinality(moved) \in Nat
    BY <1>3, <1>11, FS_CardinalityType
  <2>4. Ends(g, l + k) = old \cup moved
    BY <1>12
  <2>5. Cardinality(old) + Cardinality(moved) - 0 = Cardinality(old) + Cardinality(moved)
    BY <2>3
  <2>6. QED
    BY <2>1, <2>2, <2>4, <2>5, Zenon
<1>14. QED
  BY <1>3, <1>11, <1>13 DEF l

(* A page of another stream is not counted, and a page of the Skeleton track   *)
(* counts behind its last cell.                                                *)
LEMMA CountOther ==
    ASSUME NEW b, NEW k \in Nat, \A j \in 1 .. k - 1 : b[j].stream # Skel
    PROVE  PagesBefore(b, k) = 0
<1>1. Ends(b, k) = {}
  BY DEF Ends
<1>2. QED
  BY <1>1, CountIs, FS_EmptySet

(* The number of pages a packet of n segments takes.                           *)
LEMMA PageCountIs ==
    ASSUME NEW n \in Nat \ {0}
    PROVE  PageCount(n) = PageOf(n) + 1 /\ PageCount(n) \in Nat
<1>1. /\ PageSegments \in Nat \ {0} /\ PageOf(n) \in Nat /\ PageStart(n) \in Nat
      /\ PageStart(n) < n /\ n <= PageStart(n) + PageSegments
  BY PageStarts
<1>2. (PageOf(n) + 1) * PageSegments = PageStart(n) + PageSegments
  BY <1>1 DEF PageStart
<1> DEFINE q == PageOf(n) + 1
           x == n + PageSegments - 1
<1>3. x \in Nat /\ q \in Nat /\ q * PageSegments <= x /\ x < q * PageSegments + PageSegments
  BY <1>1, <1>2
<1> HIDE DEF q, x
<1>4. x \div PageSegments = q
  BY <1>3, QuotientIs
<1>5. QED
  BY <1>3, <1>4 DEF PageCount, q, x

(* FlushLoop numbers its pages as they come.                                   *)
LEMMA CountFlush ==
    ASSUME NEW n \in Nat \ {0}, NEW serial \in Nat, NEW no \in Nat, NEW data \in Seq(Int)
    PROVE  LET b == FlushLoop(n, serial, no, data)
           IN  /\ \A k \in 1 .. n : PagesBefore(b, k) = PageOf(k)
               /\ PagesBefore(b, n + 1) = PageCount(n)
<1> DEFINE b == FlushLoop(n, serial, no, data)
           P == PageSegments
<1>0. P \in Nat \ {0}
  BY SkeletonAssumption
<1>1. /\ Block(b, Skel, "header", serial, data) /\ Len(b) = n
      /\ \A i \in 1 .. n : b[i].part = i - PageStart(i) /\ b[i].size = SizeAt(n, i)
  BY FlushBlock
<1>2. \A i \in 1 .. n : b[i].stream = Skel
  BY <1>1 DEF Block
<1> HIDE DEF b
<1>3. ASSUME NEW k \in 1 .. n PROVE PagesBefore(b, k) = PageOf(k)
  <2> DEFINE last == [q \in 1 .. PageOf(k) |-> q * P]
  <2>1. k \in Nat \ {0}
    OBVIOUS
  <2>2. /\ PageOf(k) \in Nat /\ PageStart(k) \in Nat
        /\ PageStart(k) < k /\ k <= PageStart(k) + P
    BY <2>1, PageStarts
  <2>3. ASSUME NEW q \in 1 .. PageOf(k) PROVE q * P \in Ends(b, k)
    <3> DEFINE j == q * P
    <3>1. j \in Nat /\ P <= j /\ j <= PageStart(k) /\ (q - 1) * P = j - P
      <4>1. ASSUME NEW x \in Nat, NEW y \in Nat, x <= y PROVE x * P <= y * P
        BY <1>0, <4>1
      <4>2. q \in Nat /\ 1 <= q /\ q <= PageOf(k)
        BY <2>2
      <4>3. 1 * P <= q * P /\ q * P <= PageOf(k) * P
        BY <2>2, <4>1, <4>2
      <4>4. (q - 1) * P = q * P - P /\ 1 * P = P /\ q * P \in Nat
        BY <1>0, <4>2
      <4>5. QED
        BY <4>3, <4>4 DEF PageStart
    <3> DEFINE r == q - 1
    <3>2. r \in Nat /\ r * P = j - P
      BY <3>1
    <3> HIDE DEF j, r
    <3>3. j \in 1 .. n /\ j \in 1 .. k - 1 /\ j - 1 \in Nat /\ j \in Nat \ {0}
      BY <1>0, <2>2, <3>1
    <3>4. r * P <= j - 1 /\ j - 1 < r * P + P
      BY <1>0, <3>1, <3>2
    <3>5. PageOf(j) = r
      BY <3>2, <3>3, <3>4, QuotientIs DEF PageOf
    <3>6. PageStart(j) = j - P
      BY <3>2, <3>5 DEF PageStart
    <3>7. SizeAt(n, j) = P
      BY <1>0, <3>3, <3>6 DEF SizeAt
    <3>8. b[j].part = b[j].size /\ b[j].stream = Skel
      BY <1>0, <1>1, <1>2, <3>3, <3>6, <3>7
    <3>9. j \in Ends(b, k)
      BY <3>3, <3>8 DEF Ends
    <3>10. QED
      BY <3>9 DEF j
  <2>4. ASSUME NEW j \in Ends(b, k) PROVE \E q \in 1 .. PageOf(k) : q * P = j
    <3>1. j \in 1 .. k - 1 /\ j \in 1 .. n /\ j < n /\ b[j].part = b[j].size
      BY DEF Ends
    <3>2. j \in Nat \ {0}
      BY <3>1
    <3>3. /\ PageOf(j) \in Nat /\ PageStart(j) \in Nat
          /\ PageStart(j) < j /\ j <= PageStart(j) + P
      BY <3>2, PageStarts
    <3>4. j - PageStart(j) = SizeAt(n, j)
      BY <1>1, <3>1
    <3>5. j = PageStart(j) + P
      BY <1>0, <3>1, <3>3, <3>4 DEF SizeAt
    <3> DEFINE q == PageOf(j) + 1
    <3>6. q \in Nat /\ q >= 1 /\ q * P = j
      <4>1. q * P = PageOf(j) * P + P
        BY <1>0, <3>3
      <4>2. QED
        BY <3>3, <3>5, <4>1 DEF PageStart
    <3> HIDE DEF q
    <3>7. q <= PageOf(k)
      <4> SUFFICES ASSUME ~(q <= PageOf(k)) PROVE FALSE
        OBVIOUS
      <4>1. PageOf(k) + 1 \in Nat /\ PageOf(k) + 1 <= q
        BY <2>2, <3>6
      <4>2. (PageOf(k) + 1) * P <= q * P
        <5>1. ASSUME NEW x \in Nat, NEW y \in Nat, x <= y PROVE x * P <= y * P
          BY <1>0, <5>1
        <5>2. QED
          BY <3>6, <4>1, <5>1
      <4>3. (PageOf(k) + 1) * P = PageStart(k) + P
        BY <1>0, <2>2 DEF PageStart
      <4>4. PageStart(k) + P <= j
        BY <3>6, <4>2, <4>3
      <4>5. j < k /\ j \in Nat /\ k \in Nat
        BY <3>1
      <4>6. QED
        BY <1>0, <2>2, <4>4, <4>5
    <3>8. QED
      BY <2>2, <3>6, <3>7
  <2>5. last \in Bijection(1 .. PageOf(k), Ends(b, k))
    <3>1. last \in [1 .. PageOf(k) -> Ends(b, k)]
      BY <2>3
    <3>2. ASSUME NEW q \in 1 .. PageOf(k), NEW r \in 1 .. PageOf(k), last[q] = last[r]
          PROVE  q = r
      <4>1. q * P = r * P /\ q \in Nat /\ r \in Nat
        BY <2>2, <3>2
      <4>2. QED
        BY <1>0, <4>1
    <3>3. \A j \in Ends(b, k) : \E q \in 1 .. PageOf(k) : last[q] = j
      BY <2>4
    <3>4. QED
      BY <3>1, <3>2, <3>3 DEF Bijection, Injection, Surjection, IsInjective
  <2>6. Cardinality(Ends(b, k)) = PageOf(k)
    <3>1. ExistsBijection(1 .. PageOf(k), Ends(b, k))
      BY <2>5 DEF ExistsBijection
    <3>2. QED
      BY <2>2, <3>1, FS_CountingElements
  <2>7. QED
    BY <2>1, <2>6, CountIs
<1>4. PagesBefore(b, n + 1) = PageCount(n)
  <2>1. n \in 1 .. n /\ n \in Nat /\ n + 1 \in Nat
    OBVIOUS
  <2>2. b[n].part = b[n].size /\ b[n].stream = Skel
    BY <1>1, <1>2, <2>1 DEF Block, Whole
  <2>3. Ends(b, n + 1) = Ends(b, n) \cup {n} /\ n \notin Ends(b, n)
    BY <2>1, <2>2 DEF Ends
  <2>4. Cardinality(Ends(b, n + 1)) = Cardinality(Ends(b, n)) + 1
    BY <2>1, <2>3, CountIs, FS_AddElement
  <2>5. QED
    BY <1>3, <2>1, <2>4, CountIs, PageCountIs
<1>5. QED
  BY <1>3, <1>4 DEF b

-----------------------------------------------------------------------------
(* Serial numbers. *)

LEMMA StreamsFinite ==
    ASSUME present \in Inputs
    PROVE  /\ present \subseteq Streams /\ present # {} /\ IsFiniteSet(present)
           /\ Fisbones \in Nat \ {0}
<1>1. present \subseteq Streams /\ present # {}
  BY SkeletonAssumption
<1>2. IsFiniteSet(Streams)
  <2>1. IsFiniteSet(0 .. NKate - 1)
    <3>1. 0 \in Int /\ NKate - 1 \in Int
      BY SkeletonAssumption
    <3>2. QED
      BY <3>1, FS_Interval
  <2>2. IsFiniteSet(0 .. NKate - 1 \cup {Theora} \cup {Vorbis})
    BY <2>1, FS_AddElement
  <2>3. Streams = 0 .. NKate - 1 \cup {Theora} \cup {Vorbis}
    BY DEF Streams, Kate
  <2>4. QED
    BY <2>2, <2>3
<1>3. IsFiniteSet(present)
  BY <1>1, <1>2, FS_Subset
<1>4. Cardinality(present) \in Nat /\ Cardinality(present) # 0
  BY <1>1, <1>3, FS_CardinalityType, FS_EmptySet
<1>5. QED
  BY <1>1, <1>3, <1>4 DEF Fisbones

LEMMA StreamIs ==
    ASSUME NEW s \in Streams PROVE s \in Int /\ s >= -2 /\ s # Skel
BY SkeletonAssumption DEF Streams, Kate, Theora, Vorbis, Skel

(* The streams are counted up: no two have the same number, and the Skeleton   *)
(* stream's is behind them all.                                                *)
LEMMA SerialsDiffer ==
    ASSUME present \in Inputs
    PROVE  /\ NextSerial \in Nat
           /\ \A s \in present : Serial(s) \in Nat /\ Serial(s) < NextSerial
           /\ \A r, s \in present : Serial(r) = Serial(s) => r = s
<1> DEFINE all == present \cup {Vorbis}
<1>1. present \subseteq Streams /\ IsFiniteSet(present) /\ IsFiniteSet(all)
  BY StreamsFinite, FS_AddElement
<1>2. Cardinality(all) \in Nat
  BY <1>1, FS_CardinalityType
<1>3. ASSUME NEW s \in present
      PROVE  Before(s) \subseteq all /\ s \notin Before(s) /\ IsFiniteSet(Before(s))
  <2>1. s \in Int
    BY <1>1, StreamIs
  <2>2. Before(s) \subseteq all /\ s \notin Before(s)
    BY <2>1 DEF Before
  <2>3. QED
    BY <1>1, <2>2, FS_Subset
<1>4. ASSUME NEW s \in present PROVE Serial(s) \in Nat /\ Serial(s) < NextSerial
  <2>1. Before(s) # all
    BY <1>3
  <2>2. Cardinality(Before(s)) \in Nat /\ Cardinality(Before(s)) <= Cardinality(all)
        /\ Cardinality(Before(s)) # Cardinality(all)
    BY <1>1, <1>3, <2>1, FS_Subset, FS_CardinalityType
  <2>3. QED
    BY <1>2, <2>2 DEF Serial, NextSerial
<1>5. ASSUME NEW r \in present, NEW s \in present, r # s, r = Vorbis \/ (s # Vorbis /\ r < s)
      PROVE  Serial(r) # Serial(s)
  <2>1. r \in Int /\ s \in Int
    BY <1>1, StreamIs
  <2>2. r \in Before(s)
    BY <1>5 DEF Before
  <2>3. Before(r) \subseteq Before(s)
    <3>1. CASE r = Vorbis
      BY <3>1 DEF Before
    <3>2. CASE r # Vorbis
      <4>1. s # Vorbis /\ r < s
        BY <1>5, <3>2
      <4>2. ASSUME NEW x \in present, x < r PROVE x < s
        <5>1. x \in Int
          BY <1>1, StreamIs
        <5>2. QED
          BY <2>1, <4>1, <4>2, <5>1
      <4>3. QED
        BY <3>2, <4>1, <4>2 DEF Before
    <3>3. QED
      BY <3>1, <3>2
  <2>4. Before(r) # Before(s)
    BY <1>3, <2>2
  <2>5. QED
    BY <1>3, <2>3, <2>4, FS_Subset DEF Serial
<1>6. ASSUME NEW r \in present, NEW s \in present, r # s PROVE Serial(r) # Serial(s)
  <2>1. r \in Int /\ s \in Int
    BY <1>1, StreamIs
  <2>2. \/ r = Vorbis \/ (s # Vorbis /\ r < s)
        \/ s = Vorbis \/ (r # Vorbis /\ s < r)
    BY <1>6, <2>1
  <2>3. QED
    BY <1>5, <1>6, <2>2
<1>7. QED
  BY <1>2, <1>4, <1>6 DEF NextSerial

-----------------------------------------------------------------------------
(* The invariant. *)

(* The parts of oggmux_init, and what may be written in one.                   *)
Early == {"fishead", "bos", "fisbones", "headers", "placeholders", "end"}

RankOf(kind) == CASE kind = "bos" -> 1 [] kind = "header" -> 2 [] kind = "content" -> 3

LevelAt(part) ==
    IF part \in {"fishead", "bos"} THEN 1
    ELSE IF part \in {"fisbones", "headers", "placeholders", "end"} THEN 2 ELSE 3

(* The flags and the order of the parts: pages are appended until the index    *)
(* is written, and what is known of the output is what its first page showed.  *)
Control ==
    /\ pc \in Early => indexed = {} /\ content_offset = 0
    /\ pc \in Early \cup {"content"} \/ (pc = "done" /\ ~Indexing) => position = Len(file)
    /\ pc = "done" /\ Indexing => todo = {}
    /\ serialno >= NextSerial
    /\ pc \in {"fishead", "fisbones", "end", "content"} => todo = present
    /\ \A r \in present \ todo, t \in todo : r < t
    /\ option = "none" => pc \in {"bos", "headers", "content", "done"} /\ ~skeleton_3
    /\ pc \in {"placeholders", "index", "failed"} => Indexing
    /\ option = "3" => skeleton_3
    /\ option = "4" => (skeleton_3 <=> ~duration \/ (output_seekable # "maybe" /\ ~outfile))
    /\ option # "none" => (output_seekable = "maybe" <=> file = << >>)
    /\ option # "none" /\ file = << >> => pc = "fishead"
    /\ pc = "fishead" /\ file # << >> => file = Fishead(3, serialno, 0, 0) /\ ~skeleton_3

(* Pages are whole, under the serial number of their stream, and in order.     *)
SerialOf(s) == IF s = Skel THEN serialno ELSE Serial(s)

Serials == \A i \in 1 .. Len(file) : /\ file[i].stream \in present \cup {Skel}
                                     /\ file[i].serial = SerialOf(file[i].stream)

Ranked == \A i \in 1 .. Len(file) :
              /\ RankOf(file[i].kind) <= LevelAt(pc)
              /\ i < Len(file) => RankOf(file[i].kind) <= RankOf(file[i + 1].kind)

(* The streams that have their first page.                                     *)
BosStreams(f) == {f[i].stream : i \in {j \in 1 .. Len(f) : f[j].kind = "bos"}}

Begun ==
    BosStreams(file) = (IF option # "none" /\ file # << >> THEN {Skel} ELSE {})
                         \cup (CASE pc = "fishead" -> {} [] pc = "bos" -> present \ todo
                                 [] OTHER -> present)

(* The content is where the fishead will say.                                  *)
Kinds ==
    IF pc \in Early THEN \A i \in 1 .. Len(file) : file[i].kind # "content"
    ELSE option # "none" =>
            /\ content_offset <= Len(file)
            /\ \A i \in 1 .. Len(file) : file[i].kind # "content" <=> i <= content_offset

(* What the fishead is.                                                        *)
Headed ==
    option # "none" /\ pc # "fishead" =>
        IF skeleton_3
        THEN Len(file) >= 1 /\ file[1] = Cell(Skel, "bos", serialno, 0, 1, 1, <<3, 0, 0>>)
        ELSE /\ Len(file) >= 2
             /\ \E l, o \in Int :
                   /\ \A i \in 1 .. 2 : file[i] = Cell(Skel, "bos", serialno, 0, i, 2, <<4, l, o>>)
                   /\ pc \in {"index", "done"} => l = Len(file) /\ o = content_offset

(* Where the index of a stream is, and that it is in one piece.                *)
Placed(s) == page_location[s] > 0

InRegion(s, i) == i \in page_location[s] + 1 .. page_location[s] + packet_size[s]

Final(s) == IF s \in indexed \ todo THEN 1 ELSE 0

PlacedWhen(s) ==
    Placed(s) <=> /\ Indexing
                  /\ \/ pc \in {"end", "content", "index", "done", "failed"}
                     \/ pc = "placeholders" /\ s \notin todo

PlaceFits(s) == page_location[s] + (IF Placed(s) THEN packet_size[s] ELSE 0) <= Len(file)

PlaceMarks(s) ==
    \A i \in 1 .. Len(file) :
        Placed(s) /\ InRegion(s, i) <=> Len(file[i].data) = 2 /\ file[i].data[1] = s

PlaceHolds(s) ==
    Placed(s) =>
        \E no \in Nat : \A i \in 1 .. packet_size[s] :
            file[page_location[s] + i] = FlushLoop(packet_size[s], serialno, no, <<s, Final(s)>>)[i]

Located ==
    \A s \in present : PlacedWhen(s) /\ PlaceFits(s) /\ PlaceMarks(s) /\ PlaceHolds(s)

(* Page numbers are counted without a gap; when the track is written again the *)
(* count is again what it was, until a stream is left out.                     *)
Numbered(f) ==
    \A i \in 1 .. Len(f) : f[i].stream = Skel => f[i].no = PagesBefore(f, i)

Gap == \E s \in indexed, r \in present \ indexed : r < s

NumberOf(s) == PagesBefore(file, page_location[s] + 1)

Expected(s, n) ==
    /\ (\A r \in present : s <= r) => n = Recount
    /\ \A r \in present :
          r < s /\ (\A t \in present : ~(r < t /\ t < s)) =>
              n = NumberOf(r) + PageCount(packet_size[r])

NumbersRight == Numbered(file) \/ (pc \in {"index", "done", "failed"} /\ Gap)

NextNumber ==
    /\ pc \in Early => pageno = PagesBefore(file, Len(file) + 1)
    /\ pc = "fisbones" \/ (pc = "bos" /\ option # "none") => pageno = 1
    /\ pc = "headers" /\ option # "none" => pageno = Recount

PlaceNumbers == \A s \in present : Placed(s) => Expected(s, NumberOf(s))

TurnNumber ==
    /\ pc = "placeholders" => \A s \in todo : Turn(s) => Expected(s, pageno)
    /\ pc = "index" /\ present \ todo \subseteq indexed =>
          \A s \in todo : Turn(s) => pageno = NumberOf(s)

Counted == NumbersRight /\ NextNumber /\ PlaceNumbers /\ TurnNumber

Inv ==
    /\ TypeOK /\ Control
    /\ Whole(file) /\ Serials /\ Ranked /\ Begun
    /\ Kinds /\ Headed /\ Located /\ Counted

-----------------------------------------------------------------------------
(* What the steps do to the file. *)

LEMMA TypeFacts ==
    ASSUME TypeOK
    PROVE  /\ present \in Inputs /\ present \subseteq Streams /\ present # {} /\ todo \subseteq present
           /\ Fisbones \in Nat \ {0}
           /\ file \in Seq(Cells) /\ Len(file) \in Nat
           /\ serialno \in Nat /\ pageno \in Nat /\ content_offset \in Nat
           /\ \A s \in present : /\ s \in Int /\ s # Skel /\ Serial(s) \in Nat
                                 /\ page_location[s] \in Nat /\ page_location[s] <= Len(file)
                                 /\ packet_size[s] \in Nat \ {0}
<1>1. present \in Inputs /\ file \in Seq(Cells) /\ serialno \in Nat /\ pageno \in Nat
      /\ todo \subseteq present /\ content_offset \in 0 .. Len(file)
      /\ page_location \in [present -> 0 .. Len(file)] /\ packet_size \in [present -> IndexSegments]
  BY DEF TypeOK
<1>2. Len(file) \in Nat
  BY <1>1
<1>3. present \subseteq Streams /\ present # {} /\ Fisbones \in Nat \ {0}
  BY <1>1, StreamsFinite
<1>4. ASSUME NEW s \in present
      PROVE  /\ s \in Int /\ s # Skel /\ Serial(s) \in Nat
             /\ page_location[s] \in Nat /\ page_location[s] <= Len(file)
             /\ packet_size[s] \in Nat \ {0}
  <2>1. s \in Int /\ s # Skel /\ Serial(s) \in Nat
    BY <1>1, <1>3, StreamIs, SerialsDiffer
  <2>2. page_location[s] \in 0 .. Len(file)
    BY <1>1
  <2>3. packet_size[s] \in IndexSegments
    BY <1>1
  <2>4. page_location[s] \in Nat /\ page_location[s] <= Len(file)
    BY <1>2, <2>2
  <2>5. packet_size[s] \in Nat \ {0}
    BY <2>3, SkeletonAssumption
  <2>6. QED
    BY <2>1, <2>4, <2>5
<1>5. content_offset \in Nat
  BY <1>1, <1>2
<1>6. QED
  BY <1>1, <1>2, <1>3, <1>4, <1>5

(* Pages of one stream are written behind the file.                            *)
Adds(b, stream, kind, data) ==
    /\ Block(b, stream, kind, SerialOf(stream), data)
    /\ stream \in present \cup {Skel} /\ RankOf(kind) = LevelAt(pc)
    /\ pc \in Early \cup {"content"}
    /\ Appends(file, b, file') /\ position' = Len(file')
    /\ output_seekable' \in {"yes", "no"}
    /\ output_seekable = "maybe" => (output_seekable' = "yes" <=> outfile)
    /\ output_seekable # "maybe" => output_seekable' = output_seekable

LEMMA WriteAdds ==
    ASSUME TypeOK, Control, pc \in Early \cup {"content"}, NEW b, NEW stream, NEW kind, NEW data,
           Write(b), Block(b, stream, kind, SerialOf(stream), data),
           stream \in present \cup {Skel}, RankOf(kind) = LevelAt(pc)
    PROVE  Adds(b, stream, kind, data)
<1>1. position = Len(file) /\ file \in Seq(Cells) /\ b \in Seq(Cells)
  BY TypeFacts DEF Control, Block
<1>2. Appends(file, b, file') /\ position' = Len(file')
  BY <1>1, WriteBehind DEF Write
<1>3. /\ output_seekable' \in {"yes", "no"}
      /\ output_seekable = "maybe" => (output_seekable' = "yes" <=> outfile)
      /\ output_seekable # "maybe" => output_seekable' = output_seekable
  <2>1. outfile \in BOOLEAN /\ output_seekable \in {"maybe", "yes", "no"}
    BY SkeletonAssumption DEF TypeOK
  <2>2. CASE output_seekable # "maybe"
    BY <2>1, <2>2 DEF Write
  <2>3. CASE output_seekable = "maybe" /\ outfile
    BY <2>3 DEF Write
  <2>4. CASE output_seekable = "maybe" /\ ~outfile
    BY <2>4 DEF Write
  <2>5. QED
    BY <2>1, <2>2, <2>3, <2>4
<1>4. QED
  BY <1>2, <1>3 DEF Adds

LEMMA FisheadIs ==
    ASSUME NEW version \in {3, 4}, NEW serial \in Nat, NEW l \in Int, NEW o \in Int
    PROVE  LET b == Fishead(version, serial, l, o)
               n == IF version = 3 THEN 1 ELSE 2
           IN  /\ Block(b, Skel, "bos", serial, <<version, l, o>>) /\ Len(b) = n
               /\ b = [i \in 1 .. n |-> Cell(Skel, "bos", serial, 0, i, n, <<version, l, o>>)]
<1> DEFINE n == IF version = 3 THEN 1 ELSE 2
<1>1. Fishead(version, serial, l, o) = Page(Skel, "bos", serial, 0, n, <<version, l, o>>)
  BY DEF Fishead
<1>2. n \in Nat \ {0} /\ <<version, l, o>> \in Seq(Int) /\ Skel \in Streams \cup {Skel}
  OBVIOUS
<1>3. Page(Skel, "bos", serial, 0, n, <<version, l, o>>)
        = [i \in 1 .. n |-> Cell(Skel, "bos", serial, 0, i, n, <<version, l, o>>)]
  BY DEF Page, Cell
<1> DEFINE data == <<version, l, o>>
<1>4. data \in Seq(Int)
  BY <1>2
<1> HIDE DEF n, data
<1>5. 0 \in Nat /\ "bos" \in {"bos", "header", "content"}
  OBVIOUS
<1>6. /\ Block(Page(Skel, "bos", serial, 0, n, data), Skel, "bos", serial, data)
      /\ Len(Page(Skel, "bos", serial, 0, n, data)) = n
  BY <1>2, <1>4, <1>5, PageBlock
<1>7. QED
  BY <1>1, <1>3, <1>6, Zenon DEF n, data

LEMMA FisheadAdds ==
    ASSUME TypeOK, Control, WriteFishead
    PROVE  /\ file = << >> /\ Adds(Fishead(3, serialno, 0, 0), Skel, "bos", <<3, 0, 0>>)
           /\ Len(Fishead(3, serialno, 0, 0)) = 1
<1>1. pc = "fishead" /\ output_seekable = "maybe" /\ Write(Fishead(3, serialno, 0, 0))
  BY DEF WriteFishead
<1>2. file = << >>
  BY <1>1 DEF Control
<1>3. Block(Fishead(3, serialno, 0, 0), Skel, "bos", serialno, <<3, 0, 0>>)
      /\ Len(Fishead(3, serialno, 0, 0)) = 1
  BY TypeFacts, FisheadIs
<1>4. pc \in Early \cup {"content"} /\ RankOf("bos") = LevelAt(pc) /\ SerialOf(Skel) = serialno
  BY <1>1 DEF Early, RankOf, LevelAt, SerialOf
<1>5. QED
  BY <1>1, <1>2, <1>3, <1>4, WriteAdds

LEMMA PagesAdd ==
    ASSUME TypeOK, Control, NEW s \in present, NEW kind, NEW no \in Nat,
           pc \in Early \cup {"content"}, kind \in {"bos", "header", "content"},
           RankOf(kind) = LevelAt(pc), Write(Page(s, kind, Serial(s), no, 1, << >>))
    PROVE  /\ Adds(Page(s, kind, Serial(s), no, 1, << >>), s, kind, << >>)
           /\ Len(Page(s, kind, Serial(s), no, 1, << >>)) = 1
<1>1. Serial(s) \in Nat /\ s \in Streams \cup {Skel} /\ SerialOf(s) = Serial(s)
  BY TypeFacts DEF SerialOf
<1>3. /\ Block(Page(s, kind, Serial(s), no, 1, << >>), s, kind, Serial(s), << >>)
      /\ Len(Page(s, kind, Serial(s), no, 1, << >>)) = 1
  BY <1>1, SinglePage
<1>4. QED
  BY <1>1, <1>3, WriteAdds

LEMMA TrackAdds ==
    ASSUME TypeOK, Control, NEW n \in Nat \ {0}, NEW data \in Seq(Int),
           pc \in {"fisbones", "placeholders"}, Write(FlushLoop(n, serialno, pageno, data))
    PROVE  /\ Adds(FlushLoop(n, serialno, pageno, data), Skel, "header", data)
           /\ Len(FlushLoop(n, serialno, pageno, data)) = n
<1>1. /\ Block(FlushLoop(n, serialno, pageno, data), Skel, "header", serialno, data)
      /\ Len(FlushLoop(n, serialno, pageno, data)) = n
  BY TypeFacts, FlushBlock
<1>2. pc \in Early \cup {"content"} /\ RankOf("header") = LevelAt(pc) /\ SerialOf(Skel) = serialno
  BY DEF Early, RankOf, LevelAt, SerialOf
<1>3. QED
  BY <1>1, <1>2, WriteAdds

LEMMA EndAdds ==
    ASSUME TypeOK, Control, WriteEnd
    PROVE  LET b == Page(Skel, "header", serialno, pageno, 1, << >>)
           IN  Adds(b, Skel, "header", << >>) /\ Len(b) = 1
<1>1. Skel \in Streams \cup {Skel} /\ "header" \in {"bos", "header", "content"}
      /\ serialno \in Nat /\ pageno \in Nat
  BY TypeFacts
<1>2. /\ Block(Page(Skel, "header", serialno, pageno, 1, << >>), Skel, "header", serialno, << >>)
      /\ Len(Page(Skel, "header", serialno, pageno, 1, << >>)) = 1
  BY <1>1, SinglePage
<1>3. pc \in Early \cup {"content"} /\ RankOf("header") = LevelAt(pc) /\ SerialOf(Skel) = serialno
      /\ Write(Page(Skel, "header", serialno, pageno, 1, << >>))
  BY DEF Early, RankOf, LevelAt, SerialOf, WriteEnd
<1>4. QED
  BY <1>2, <1>3, WriteAdds

(* A new stream's fishead replaces the first one, which is all there is.       *)
LEMMA FisheadAgain ==
    ASSUME TypeOK, Control, RewriteFishead
    PROVE  /\ Len(file) = 1 /\ ~skeleton_3 /\ content_offset = 0
           /\ file' = Fishead(4, serialno + 1, -1, 0) /\ Len(file') = 2 /\ position' = 2
           /\ Block(file', Skel, "bos", serialno + 1, <<4, -1, 0>>)
           /\ \A i \in 1 .. 2 : file'[i] = Cell(Skel, "bos", serialno + 1, 0, i, 2, <<4, -1, 0>>)
<1> DEFINE b == Fishead(4, serialno + 1, -1, 0)
<1>1. /\ pc = "fishead" /\ output_seekable # "maybe" /\ content_offset = 0
      /\ WriteAt(0, b)
  BY DEF RewriteFishead, Control, Early
<1>2. file = Fishead(3, serialno, 0, 0) /\ ~skeleton_3
  BY <1>1 DEF Control
<1>3. Len(file) = 1
  <2>1. serialno \in Nat /\ 3 \in {3, 4} /\ 0 \in Int
    BY TypeFacts
  <2>2. Len(Fishead(3, serialno, 0, 0)) = 1
    BY <2>1, FisheadIs
  <2>3. QED
    BY <1>2, <2>2
<1>4. /\ Block(b, Skel, "bos", serialno + 1, <<4, -1, 0>>) /\ Len(b) = 2
      /\ b = [i \in 1 .. 2 |-> Cell(Skel, "bos", serialno + 1, 0, i, 2, <<4, -1, 0>>)]
  <2>1. serialno + 1 \in Nat /\ -1 \in Int /\ 0 \in Int /\ 4 \in {3, 4} /\ 4 # 3
    BY TypeFacts
  <2>2. QED
    BY <2>1, FisheadIs
<1>5. \A i \in 1 .. 2 : b[i] = Cell(Skel, "bos", serialno + 1, 0, i, 2, <<4, -1, 0>>)
  BY <1>4
<1>6. b = [i \in 1 .. 2 |-> b[i]]
  BY <1>4, <1>5
<1> HIDE DEF b
<1>7. file' = [i \in 1 .. 2 |-> b[i]] /\ position' = 2
  BY <1>1, <1>3, <1>4 DEF WriteAt
<1>8. QED
  BY <1>1, <1>2, <1>3, <1>4, <1>5, <1>6, <1>7 DEF b

(* Pages are written over those of the same extent, stream and serial number.  *)
Renewed(at, b) ==
    /\ at \in Nat /\ b \in Seq(Cells) /\ Len(b) > 0 /\ at + Len(b) <= Len(file)
    /\ Whole(b) /\ b[1].part = 1
    /\ Over(file, at, b, file') /\ position' = at + Len(b)
    /\ \A k \in 1 .. Len(b) : SamePage(file[at + k], b[k])

LEMMA CellsAlike ==
    ASSUME NEW kind, NEW serial, NEW part, NEW size,
           NEW no1, NEW no2, NEW d1 \in Seq(Int), NEW d2 \in Seq(Int),
           Len(d1) = Len(d2), Len(d1) > 0, d1[1] = d2[1]
    PROVE  SamePage(Cell(Skel, kind, serial, no1, part, size, d1),
                    Cell(Skel, kind, serial, no2, part, size, d2))
<1> DEFINE old == Cell(Skel, kind, serial, no1, part, size, d1)
           new == Cell(Skel, kind, serial, no2, part, size, d2)
<1>1. new = [old EXCEPT !.no = no2, !.data = d2]
  <2>1. [old EXCEPT !.no = no2] = Cell(Skel, kind, serial, no2, part, size, d1)
    BY DEF Cell
  <2>2. [Cell(Skel, kind, serial, no2, part, size, d1) EXCEPT !.data = d2] = new
    BY DEF Cell
  <2>3. [[old EXCEPT !.no = no2] EXCEPT !.data = d2] = new
    BY <2>1, <2>2, Zenon
  <2>4. QED
    BY <2>3
<1>2. old.stream = Skel /\ new.no = no2 /\ new.data = d2 /\ old.data = d1
  BY CellIs
<1> HIDE DEF old, new
<1>3. new = [old EXCEPT !.no = new.no, !.data = new.data]
  BY <1>1, <1>2, Zenon
<1>4. SamePage(old, new)
  BY <1>2, <1>3 DEF SamePage
<1>5. QED
  BY <1>4 DEF old, new

LEMMA SameFields ==
    ASSUME NEW old \in Cells, NEW new, SamePage(old, new)
    PROVE  /\ new.stream = old.stream /\ new.kind = old.kind /\ new.serial = old.serial
           /\ new.part = old.part /\ new.size = old.size
           /\ old.stream = Skel /\ Len(new.data) = Len(old.data) /\ new.data[1] = old.data[1]
<1>1. new = [old EXCEPT !.no = new.no, !.data = new.data]
  BY DEF SamePage
<1>2. ASSUME NEW x, NEW y
      PROVE  LET c == [old EXCEPT !.no = x, !.data = y]
             IN  /\ c.stream = old.stream /\ c.kind = old.kind /\ c.serial = old.serial
                 /\ c.part = old.part /\ c.size = old.size
  BY DEF Cells
<1>3. LET c == [old EXCEPT !.no = new.no, !.data = new.data]
      IN  /\ c.stream = old.stream /\ c.kind = old.kind /\ c.serial = old.serial
          /\ c.part = old.part /\ c.size = old.size
  BY <1>2
<1>4. /\ new.stream = old.stream /\ new.kind = old.kind /\ new.serial = old.serial
      /\ new.part = old.part /\ new.size = old.size
  BY <1>1, <1>3, Zenon
<1>5. QED
  BY <1>4 DEF SamePage

(* Such a write changes what it should and nothing else.                       *)
LEMMA RenewedIs ==
    ASSUME file \in Seq(Cells), NEW at, NEW b, Renewed(at, b)
    PROVE  /\ file' \in Seq(Cells) /\ Len(file') = Len(file)
           /\ \A i \in 1 .. Len(file) :
                 file'[i] = file[i] \/ SamePage(file[i], file'[i])
           /\ \A i \in 1 .. Len(file) :
                 /\ file'[i].stream = file[i].stream /\ file'[i].kind = file[i].kind
                 /\ file'[i].serial = file[i].serial
                 /\ file'[i].part = file[i].part /\ file'[i].size = file[i].size
                 /\ Len(file'[i].data) = Len(file[i].data)
                 /\ file'[i].data = file[i].data \/ file'[i].data[1] = file[i].data[1]
<1> DEFINE l == Len(file)
           m == Len(b)
<1>1. at \in Nat /\ m \in Nat /\ l \in Nat /\ at + m <= l
  BY DEF Renewed
<1>2. /\ file' \in Seq(Cells) /\ Len(file') = l
      /\ \A k \in 1 .. m : file'[at + k] = b[k]
      /\ \A i \in 1 .. l : i \notin at + 1 .. at + m => file'[i] = file[i]
  BY DEF Renewed, Over
<1>3. \A k \in 1 .. m : SamePage(file[at + k], b[k])
  BY DEF Renewed
<1>4. \A i \in 1 .. l : file[i] \in Cells
  OBVIOUS
<1> HIDE DEF l, m
<1>5. ASSUME NEW i \in 1 .. l PROVE file'[i] = file[i] \/ SamePage(file[i], file'[i])
  <2>1. CASE i \notin at + 1 .. at + m
    BY <1>2, <2>1
  <2>2. CASE i \in at + 1 .. at + m
    <3> DEFINE k == i - at
    <3>1. k \in 1 .. m /\ at + k = i
      BY <1>1, <2>2
    <3> HIDE DEF k
    <3>2. QED
      BY <1>2, <1>3, <3>1
  <2>3. QED
    BY <2>1, <2>2
<1>6. ASSUME NEW i \in 1 .. l
      PROVE  /\ file'[i].stream = file[i].stream /\ file'[i].kind = file[i].kind
             /\ file'[i].serial = file[i].serial
             /\ file'[i].part = file[i].part /\ file'[i].size = file[i].size
             /\ Len(file'[i].data) = Len(file[i].data)
             /\ file'[i].data = file[i].data \/ file'[i].data[1] = file[i].data[1]
  <2>1. CASE file'[i] = file[i]
    BY <2>1
  <2>2. CASE SamePage(file[i], file'[i])
    BY <1>4, <2>2, SameFields
  <2>3. QED
    BY <1>5, <2>1, <2>2
<1>7. QED
  BY <1>2, <1>5, <1>6 DEF l

(* The fishead at the end: over the two cells of the first one.                *)
LEMMA BosRenewed ==
    ASSUME TypeOK, Control, Headed, RewriteBOS
    PROVE  LET b == Fishead(4, serialno, Len(file), content_offset)
           IN  /\ Renewed(0, b) /\ Len(b) = 2 /\ position' = 2
               /\ Indexing /\ Len(file) >= 2
               /\ \A i \in 1 .. 2 : /\ file'[i] = Cell(Skel, "bos", serialno, 0, i, 2,
                                                       <<4, Len(file), content_offset>>)
                                    /\ Len(file[i].data) = 3
<1> DEFINE b == Fishead(4, serialno, Len(file), content_offset)
           d2 == <<4, Len(file), content_offset>>
<1>1. pc = "content" /\ Indexing /\ WriteAt(0, b) /\ option # "none" /\ ~skeleton_3
  BY DEF RewriteBOS, Indexing
<1>2. file \in Seq(Cells) /\ Len(file) \in Nat /\ serialno \in Nat /\ content_offset \in Nat
  BY TypeFacts
<1>3. /\ Len(file) >= 2
      /\ \E l, o \in Int : \A i \in 1 .. 2 : file[i] = Cell(Skel, "bos", serialno, 0, i, 2, <<4, l, o>>)
  BY <1>1 DEF Headed
<1>4. /\ Block(b, Skel, "bos", serialno, d2) /\ Len(b) = 2
      /\ b = [i \in 1 .. 2 |-> Cell(Skel, "bos", serialno, 0, i, 2, d2)]
  <2>1. 4 \in {3, 4} /\ 4 # 3 /\ Len(file) \in Int /\ content_offset \in Int
    BY <1>2
  <2>2. QED
    BY <1>2, <2>1, FisheadIs
<1>5. \A i \in 1 .. 2 : b[i] = Cell(Skel, "bos", serialno, 0, i, 2, d2)
  BY <1>4
<1>6. b \in Seq(Cells) /\ Whole(b) /\ b[1].part = 1
  BY <1>4 DEF Block
<1> HIDE DEF b
<1>7. Over(file, 0, b, file') /\ position' = 2
  <2> DEFINE at == 0
  <2>1. at \in Nat /\ at + Len(b) <= Len(file) /\ at + Len(b) = 2 /\ WriteAt(at, b)
    BY <1>1, <1>2, <1>3, <1>4
  <2> HIDE DEF at
  <2>2. Over(file, at, b, file') /\ position' = at + Len(b)
    BY <1>2, <1>6, <2>1, WriteOver
  <2>3. QED
    BY <2>1, <2>2 DEF at
<1>8. PICK l \in Int, o \in Int :
         \A i \in 1 .. 2 : file[i] = Cell(Skel, "bos", serialno, 0, i, 2, <<4, l, o>>)
  BY <1>3
<1> DEFINE d1 == <<4, l, o>>
<1>9. d1 \in Seq(Int) /\ d2 \in Seq(Int) /\ Len(d1) = 3 /\ Len(d2) = 3 /\ d1[1] = d2[1]
  BY <1>2
<1> HIDE DEF d1, d2
<1>10. \A i \in 1 .. 2 : SamePage(file[0 + i], b[i])
  <2> TAKE i \in 1 .. 2
  <2>1. /\ file[i] = Cell(Skel, "bos", serialno, 0, i, 2, d1)
        /\ b[i] = Cell(Skel, "bos", serialno, 0, i, 2, d2)
    BY <1>5, <1>8 DEF d1
  <2>2. SamePage(Cell(Skel, "bos", serialno, 0, i, 2, d1), Cell(Skel, "bos", serialno, 0, i, 2, d2))
    BY <1>9, CellsAlike
  <2>3. 0 + i = i
    OBVIOUS
  <2>4. QED
    BY <2>1, <2>2, <2>3
<1>11. Renewed(0, b)
  BY <1>2, <1>3, <1>4, <1>6, <1>7, <1>10 DEF Renewed
<1>12. \A i \in 1 .. 2 : file'[i] = b[i]
  <2> TAKE i \in 1 .. 2
  <2>1. file'[0 + i] = b[i] /\ 0 + i = i
    BY <1>4, <1>7 DEF Over
  <2>2. QED
    BY <2>1
<1>13. \A i \in 1 .. 2 : Len(file[i].data) = 3
  <2> TAKE i \in 1 .. 2
  <2>1. file[i] = Cell(Skel, "bos", serialno, 0, i, 2, d1)
    BY <1>8 DEF d1
  <2>2. file[i].data = d1
    BY <2>1, CellIs
  <2>3. QED
    BY <1>9, <2>2
<1>14. QED
  BY <1>1, <1>3, <1>4, <1>5, <1>7, <1>11, <1>12, <1>13 DEF b, d2

(* The index of a stream: over its placeholder, page by page.                  *)
LEMMA IndexRenewed ==
    ASSUME TypeOK, Control, Located, NEW s \in Streams, RewriteIndex(s)
    PROVE  LET b == FlushLoop(packet_size[s], serialno, pageno, <<s, 1>>)
               at == page_location[s]
           IN  /\ s \in present /\ s \in indexed /\ s \in todo /\ Placed(s)
               /\ Renewed(at, b) /\ Len(b) = packet_size[s] /\ position' = at + packet_size[s]
<1> DEFINE n == packet_size[s]
           b == FlushLoop(n, serialno, pageno, <<s, 1>>)
           at == page_location[s]
           d2 == <<s, 1>>
<1>1. pc = "index" /\ s \in todo /\ s \in indexed /\ WriteAt(Location(s), IndexPages(s))
  BY DEF RewriteIndex, Turn
<1>2. /\ s \in present /\ s \in Int /\ n \in Nat \ {0} /\ at \in Nat
      /\ serialno \in Nat /\ pageno \in Nat /\ file \in Seq(Cells) /\ Len(file) \in Nat
  BY <1>1, TypeFacts
<1>3. d2 \in Seq(Int) /\ Len(d2) = 2 /\ d2[1] = s
  BY <1>2
<1>4. Placed(s) /\ at + n <= Len(file)
  <2>1. Indexing
    BY <1>1 DEF Control
  <2>2. Placed(s)
    BY <1>1, <1>2, <2>1 DEF Located, PlacedWhen
  <2>3. QED
    BY <1>2, <2>2 DEF Located, PlaceFits
<1>5. PICK no \in Nat : \A i \in 1 .. n : file[at + i] = FlushLoop(n, serialno, no, <<s, Final(s)>>)[i]
  BY <1>2, <1>4 DEF Located, PlaceHolds
<1> DEFINE d1 == <<s, Final(s)>>
<1>6. d1 \in Seq(Int) /\ Len(d1) = 2 /\ d1[1] = s
  <2>1. Final(s) \in Int
    BY DEF Final
  <2>2. QED
    BY <1>2, <2>1
<1> HIDE DEF d1, d2, n
<1>7. IndexPages(s) = FlushLoop(n, serialno, pageno, d2)
  <2>1. PageoutFlush(n, serialno, pageno, d2) = FlushLoop(n, serialno, pageno, d2)
    <3>1. n \in Nat /\ serialno \in Nat /\ pageno \in Nat /\ d2 \in Seq(Int)
      BY <1>2, <1>3
    <3>2. QED
      BY <3>1, PagesAlike, Zenon
  <2>2. IndexPages(s) = PageoutFlush(n, serialno, pageno, d2)
    BY DEF IndexPages, n, d2
  <2>3. QED
    BY <2>1, <2>2
<1>8. Block(b, Skel, "header", serialno, d2) /\ Len(b) = n
  <2>1. n \in Nat \ {0} /\ serialno \in Nat /\ pageno \in Nat /\ d2 \in Seq(Int)
    BY <1>2, <1>3
  <2>3. /\ Block(FlushLoop(n, serialno, pageno, d2), Skel, "header", serialno, d2)
        /\ Len(FlushLoop(n, serialno, pageno, d2)) = n
    BY <2>1, FlushBlock
  <2>2. QED
    BY <2>3 DEF d2
<1>9. \A i \in 1 .. n : b[i] = Cell(Skel, "header", serialno, pageno + PageOf(i), i - PageStart(i),
                                    SizeAt(n, i), d2)
  <2>1. n \in Nat
    BY <1>2
  <2>2. QED
    BY <2>1, FlushCell DEF d2
<1>10. \A i \in 1 .. n : file[at + i] = Cell(Skel, "header", serialno, no + PageOf(i), i - PageStart(i),
                                             SizeAt(n, i), d1)
  <2>1. n \in Nat
    BY <1>2
  <2>2. QED
    BY <1>5, <2>1, FlushCell DEF d1
<1>11. \A i \in 1 .. n : SamePage(file[at + i], b[i])
  <2> TAKE i \in 1 .. n
  <2>1. SamePage(Cell(Skel, "header", serialno, no + PageOf(i), i - PageStart(i), SizeAt(n, i), d1),
                 Cell(Skel, "header", serialno, pageno + PageOf(i), i - PageStart(i), SizeAt(n, i), d2))
    BY <1>3, <1>6, CellsAlike
  <2>2. QED
    BY <1>9, <1>10, <2>1
<1>12. WriteAt(at, b)
  BY <1>1, <1>7 DEF Location, d2
<1> HIDE DEF b, at
<1>13. b \in Seq(Cells) /\ Len(b) > 0 /\ Whole(b) /\ b[1].part = 1
  BY <1>8 DEF Block
<1>14. Over(file, at, b, file') /\ position' = at + n
  BY <1>2, <1>4, <1>8, <1>12, <1>13, WriteOver
<1>15. Renewed(at, b)
  BY <1>2, <1>4, <1>8, <1>11, <1>13, <1>14 DEF Renewed
<1>16. QED
  BY <1>1, <1>2, <1>4, <1>8, <1>14, <1>15 DEF b, at, n

(* The writes of each action.                                                  *)
LEMMA FirstPageAdds ==
    ASSUME TypeOK, Control, NEW s \in Streams, WriteFirstPage(s)
    PROVE  s \in present /\ s \in todo /\ Adds(FirstPages(s), s, "bos", << >>) /\ Len(FirstPages(s)) = 1
<1>1. pc = "bos" /\ s \in todo /\ Write(FirstPages(s))
  BY DEF WriteFirstPage, Turn
<1>2. s \in present
  BY <1>1, TypeFacts
<1>3. /\ pc \in Early \cup {"content"} /\ "bos" \in {"bos", "header", "content"}
      /\ RankOf("bos") = LevelAt(pc) /\ 0 \in Nat
  BY <1>1 DEF Early, RankOf, LevelAt
<1>4. FirstPages(s) = Page(s, "bos", Serial(s), 0, 1, << >>)
  BY DEF FirstPages
<1>5. Write(Page(s, "bos", Serial(s), 0, 1, << >>))
  BY <1>1, <1>4
<1>6. QED
  BY <1>1, <1>2, <1>3, <1>4, <1>5, PagesAdd

LEMMA HeaderAdds ==
    ASSUME TypeOK, Control, NEW s \in Streams, WriteHeaders(s)
    PROVE  LET b == Page(s, "header", Serial(s), 1, 1, << >>)
           IN  s \in present /\ s \in todo /\ Adds(b, s, "header", << >>) /\ Len(b) = 1
<1>1. pc = "headers" /\ s \in todo /\ Write(Page(s, "header", Serial(s), 1, 1, << >>))
  BY DEF WriteHeaders, Turn
<1>2. s \in present
  BY <1>1, TypeFacts
<1>3. /\ pc \in Early \cup {"content"} /\ "header" \in {"bos", "header", "content"}
      /\ RankOf("header") = LevelAt(pc) /\ 1 \in Nat
  BY <1>1 DEF Early, RankOf, LevelAt
<1> DEFINE no == 1
<1>4. no \in Nat /\ Write(Page(s, "header", Serial(s), no, 1, << >>))
  BY <1>1
<1> HIDE DEF no
<1>5. /\ Adds(Page(s, "header", Serial(s), no, 1, << >>), s, "header", << >>)
      /\ Len(Page(s, "header", Serial(s), no, 1, << >>)) = 1
  BY <1>2, <1>3, <1>4, PagesAdd
<1>6. QED
  BY <1>1, <1>2, <1>5 DEF no

LEMMA ContentAdds ==
    ASSUME TypeOK, Control, NEW s \in Streams, WriteContent(s)
    PROVE  LET b == Page(s, "content", Serial(s), 2, 1, << >>)
           IN  s \in present /\ Adds(b, s, "content", << >>) /\ Len(b) = 1
<1>1. pc = "content" /\ s \in present /\ Write(Page(s, "content", Serial(s), 2, 1, << >>))
  BY DEF WriteContent
<1>2. /\ pc \in Early \cup {"content"} /\ "content" \in {"bos", "header", "content"}
      /\ RankOf("content") = LevelAt(pc)
  BY <1>1 DEF Early, RankOf, LevelAt
<1> DEFINE no == 2
<1>3. no \in Nat /\ Write(Page(s, "content", Serial(s), no, 1, << >>))
  BY <1>1
<1> HIDE DEF no
<1>4. /\ Adds(Page(s, "content", Serial(s), no, 1, << >>), s, "content", << >>)
      /\ Len(Page(s, "content", Serial(s), no, 1, << >>)) = 1
  BY <1>1, <1>2, <1>3, PagesAdd
<1>5. QED
  BY <1>1, <1>4 DEF no

LEMMA FisbonesAdd ==
    ASSUME TypeOK, Control, WriteFisbones
    PROVE  LET b == FlushLoop(Fisbones, serialno, pageno, << >>)
           IN  Adds(b, Skel, "header", << >>) /\ Len(b) = Fisbones
<1> DEFINE data == << >>
           n == Fisbones
<1>1. data \in Seq(Int) /\ n \in Nat \ {0} /\ pc \in {"fisbones", "placeholders"}
      /\ Write(FlushLoop(n, serialno, pageno, data))
  BY TypeFacts DEF WriteFisbones
<1> HIDE DEF data, n
<1>2. /\ Adds(FlushLoop(n, serialno, pageno, data), Skel, "header", data)
      /\ Len(FlushLoop(n, serialno, pageno, data)) = n
  BY <1>1, TrackAdds
<1>3. QED
  BY <1>2 DEF data, n

LEMMA PlaceholderAdds ==
    ASSUME TypeOK, Control, NEW s \in Streams, WritePlaceholder(s)
    PROVE  LET b == FlushLoop(packet_size[s], serialno, pageno, <<s, 0>>)
           IN  /\ s \in present /\ s \in todo /\ Indexing
               /\ Adds(b, Skel, "header", <<s, 0>>) /\ Len(b) = packet_size[s]
<1> DEFINE data == <<s, 0>>
           n == packet_size[s]
<1>1. pc = "placeholders" /\ s \in todo /\ Write(FlushLoop(n, serialno, pageno, data))
  BY DEF WritePlaceholder, Turn
<1>2. s \in present /\ s \in Int /\ n \in Nat \ {0} /\ Indexing
  BY <1>1, TypeFacts DEF Control
<1>3. data \in Seq(Int) /\ pc \in {"fisbones", "placeholders"}
  BY <1>1, <1>2
<1> HIDE DEF data, n
<1>4. /\ Adds(FlushLoop(n, serialno, pageno, data), Skel, "header", data)
      /\ Len(FlushLoop(n, serialno, pageno, data)) = n
  BY <1>1, <1>2, <1>3, TrackAdds
<1>5. QED
  BY <1>1, <1>2, <1>4 DEF data, n

(* What is known of the cells of the file afterwards.                          *)
LEMMA AddedIs ==
    ASSUME TypeOK, NEW b, NEW stream, NEW kind, NEW data, Adds(b, stream, kind, data)
    PROVE  /\ b \in Seq(Cells) /\ Len(b) \in Nat \ {0} /\ b[1].part = 1 /\ Whole(b)
           /\ file' \in Seq(Cells) /\ Len(file') = Len(file) + Len(b) /\ Len(file') \in Nat
           /\ position' = Len(file') /\ file' # << >>
           /\ \A i \in 1 .. Len(file) : file'[i] = file[i]
           /\ \A i \in 1 .. Len(file') : ~(i <= Len(file)) =>
                 /\ file'[i].stream = stream /\ file'[i].kind = kind
                 /\ file'[i].serial = SerialOf(stream) /\ file'[i].data = data
<1> DEFINE l == Len(file)
           m == Len(b)
<1>1. /\ b \in Seq(Cells) /\ m \in Nat \ {0} /\ b[1].part = 1 /\ Whole(b)
      /\ \A k \in 1 .. m : /\ b[k].stream = stream /\ b[k].kind = kind
                           /\ b[k].serial = SerialOf(stream) /\ b[k].data = data
  BY DEF Adds, Block
<1>2. /\ file' \in Seq(Cells) /\ Len(file') = l + m /\ position' = Len(file')
      /\ \A i \in 1 .. l : file'[i] = file[i]
      /\ \A k \in 1 .. m : file'[l + k] = b[k]
  BY DEF Adds, Appends
<1>3. l \in Nat
  BY TypeFacts
<1>4. file' # << >>
  <2>1. Len(file') # 0
    BY <1>1, <1>2, <1>3
  <2>2. QED
    BY <2>1
<1> HIDE DEF l, m
<1>5. ASSUME NEW i \in 1 .. l + m, ~(i <= l)
      PROVE  /\ file'[i].stream = stream /\ file'[i].kind = kind
             /\ file'[i].serial = SerialOf(stream) /\ file'[i].data = data
  <2> DEFINE k == i - l
  <2>1. k \in 1 .. m /\ l + k = i
    BY <1>1, <1>3, <1>5
  <2> HIDE DEF k
  <2>2. file'[i] = b[k]
    BY <1>2, <2>1
  <2>3. QED
    BY <1>1, <2>1, <2>2
<1>6. l + m \in Nat
  BY <1>1, <1>3
<1>7. QED
  BY <1>1, <1>2, <1>3, <1>4, <1>5, <1>6 DEF l, m

-----------------------------------------------------------------------------
(* What every step leaves alone. *)

LEMMA Constants ==
    ASSUME [Next]_vars
    PROVE  /\ present' = present /\ option' = option /\ outfile' = outfile
           /\ duration' = duration /\ packet_size' = packet_size
           /\ (~RewriteFishead => serialno' = serialno)
<1>1. CASE UNCHANGED vars
  BY <1>1 DEF vars, input, so, index
<1>2. CASE WriteFishead
  BY <1>2 DEF WriteFishead, input, index
<1>3. CASE RewriteFishead
  BY <1>3 DEF RewriteFishead, input, index
<1>4. CASE WriteFisbones
  BY <1>4 DEF WriteFisbones, input, index
<1>5. CASE WriteEnd
  BY <1>5 DEF WriteEnd, input, index
<1>6. CASE \E s \in Streams : WriteFirstPage(s)
  BY <1>6 DEF WriteFirstPage, input, index, so
<1>7. CASE \E s \in Streams : WriteHeaders(s)
  BY <1>7 DEF WriteHeaders, input, index, so
<1>8. CASE \E s \in Streams : WritePlaceholder(s)
  BY <1>8 DEF WritePlaceholder, input
<1>9. CASE \E s \in Streams : WriteContent(s)
  BY <1>9 DEF WriteContent, input, index, so
<1>10. CASE \E s \in Streams : RewriteIndex(s)
  BY <1>10 DEF RewriteIndex, input, index
<1>11. CASE \E s \in Streams : SkipIndex(s)
  BY <1>11 DEF SkipIndex, input, index, so
<1>12. CASE NoIndex
  BY <1>12 DEF NoIndex, input, index, so
<1>13. CASE RewriteBOS
  BY <1>13 DEF RewriteBOS, input, index
<1>14. CASE Fail
  BY <1>14 DEF Fail, input, index, so
<1>15. CASE Done
  BY <1>1, <1>15 DEF Done
<1>16. QED
  BY <1>1, <1>2, <1>3, <1>4, <1>5, <1>6, <1>7, <1>8, <1>9, <1>10, <1>11, <1>12, <1>13, <1>14,
     <1>15 DEF Next

LEMMA HeadersNext ==
    ASSUME TypeOK, NEW s \in Streams, WriteHeaders(s)
    PROVE  pc' = IF todo # {s} THEN "headers"
                 ELSE IF option = "none" THEN "content"
                 ELSE IF skeleton_3 THEN "end" ELSE "placeholders"
<1>1. skeleton_3 \in BOOLEAN
  BY DEF TypeOK
<1>2. CASE todo # {s}
  BY <1>2 DEF WriteHeaders
<1>3. CASE todo = {s} /\ option = "none"
  BY <1>3 DEF WriteHeaders, Indexing
<1>4. CASE todo = {s} /\ option # "none" /\ skeleton_3
  BY <1>4 DEF WriteHeaders, Indexing
<1>5. CASE todo = {s} /\ option # "none" /\ ~skeleton_3
  BY <1>5 DEF WriteHeaders, Indexing
<1>6. QED
  BY <1>1, <1>2, <1>3, <1>4, <1>5

(* The parts of oggmux_init come in the order of what they write.              *)
LEMMA Levels ==
    ASSUME TypeOK, [Next]_vars
    PROVE  LevelAt(pc) \in 1 .. 3 /\ LevelAt(pc') \in 1 .. 3 /\ LevelAt(pc) <= LevelAt(pc')
<1>0. LevelAt(pc) \in 1 .. 3 /\ LevelAt(pc') \in 1 .. 3
  BY DEF LevelAt
<1>1. CASE pc' = pc
  BY <1>0, <1>1
<1>2. CASE pc = "fishead"
  BY <1>0, <1>2 DEF LevelAt
<1>3. CASE pc = "bos"
  BY <1>0, <1>3 DEF LevelAt
<1>4. CASE LevelAt(pc') = 3
  BY <1>0, <1>4
<1>5. CASE pc \in {"fisbones", "headers", "placeholders"} /\ pc' # pc
           /\ pc' \in {"headers", "placeholders", "end", "content"}
  BY <1>0, <1>5 DEF LevelAt
<1>6. QED
  <2>1. CASE UNCHANGED vars \/ Done
    BY <1>1, <2>1 DEF Done, vars
  <2>2. CASE WriteFishead \/ RewriteFishead
    BY <1>2, <2>2 DEF WriteFishead, RewriteFishead
  <2>3. CASE \E s \in Streams : WriteFirstPage(s)
    BY <1>3, <2>3 DEF WriteFirstPage
  <2>4. CASE WriteFisbones
    BY <1>5, <2>4 DEF WriteFisbones
  <2>5. CASE \E s \in Streams : WriteHeaders(s)
    <3>1. PICK s \in Streams : WriteHeaders(s)
      BY <2>5
    <3>2. pc = "headers" /\ pc' \in {"headers", "placeholders", "end", "content"}
      BY <3>1, HeadersNext DEF WriteHeaders
    <3>3. QED
      BY <1>1, <1>5, <3>2
  <2>6. CASE \E s \in Streams : WritePlaceholder(s)
    BY <1>1, <1>5, <2>6 DEF WritePlaceholder
  <2>7. CASE WriteEnd
    BY <1>4, <2>7 DEF WriteEnd, LevelAt
  <2>8. CASE \E s \in Streams : WriteContent(s)
    BY <1>1, <2>8 DEF WriteContent
  <2>9. CASE \E s \in Streams : RewriteIndex(s) \/ SkipIndex(s)
    BY <1>4, <2>9 DEF RewriteIndex, SkipIndex, NextIndex, LevelAt
  <2>10. CASE NoIndex \/ RewriteBOS \/ Fail
    BY <1>4, <2>10 DEF NoIndex, RewriteBOS, Fail, LevelAt
  <2>11. QED
    BY <2>1, <2>2, <2>3, <2>4, <2>5, <2>6, <2>7, <2>8, <2>9, <2>10 DEF Next

(* A step appends a block, writes pages over their like, or leaves the file    *)
(* alone; only RewriteFishead changes a page's extent.                         *)
LEMMA FileCases ==
    ASSUME Inv, [Next]_vars
    PROVE  \/ \E b, stream, kind, data : Adds(b, stream, kind, data)
           \/ RewriteFishead
           \/ \E at, b : Renewed(at, b)
           \/ file' = file /\ position' = position
<1> USE DEF Inv
<1>1. CASE UNCHANGED vars \/ Done
  BY <1>1 DEF Done, vars
<1>2. CASE WriteFishead
  BY <1>2, FisheadAdds, Zenon
<1>3. CASE RewriteFishead
  BY <1>3
<1>4. CASE WriteFisbones
  BY <1>4, FisbonesAdd, Zenon
<1>5. CASE WriteEnd
  BY <1>5, EndAdds, Zenon
<1>6. ASSUME NEW s \in Streams, WriteFirstPage(s)
      PROVE  \E b, stream, kind, data : Adds(b, stream, kind, data)
  BY <1>6, FirstPageAdds, Zenon
<1>7. ASSUME NEW s \in Streams, WriteHeaders(s)
      PROVE  \E b, stream, kind, data : Adds(b, stream, kind, data)
  BY <1>7, HeaderAdds, Zenon
<1>8. ASSUME NEW s \in Streams, WritePlaceholder(s)
      PROVE  \E b, stream, kind, data : Adds(b, stream, kind, data)
  BY <1>8, PlaceholderAdds, Zenon
<1>9. ASSUME NEW s \in Streams, WriteContent(s)
      PROVE  \E b, stream, kind, data : Adds(b, stream, kind, data)
  BY <1>9, ContentAdds, Zenon
<1>10. ASSUME NEW s \in Streams, RewriteIndex(s) PROVE \E at, b : Renewed(at, b)
  BY <1>10, IndexRenewed, Zenon
<1>11. ASSUME NEW s \in Streams, SkipIndex(s) PROVE file' = file /\ position' = position
  BY <1>11 DEF SkipIndex
<1>12. CASE NoIndex \/ Fail
  BY <1>12 DEF NoIndex, Fail
<1>13. CASE RewriteBOS
  BY <1>13, BosRenewed, Zenon
<1>14. QED
  BY <1>1, <1>2, <1>3, <1>4, <1>5, <1>6, <1>7, <1>8, <1>9, <1>10, <1>11, <1>12, <1>13, Zenon DEF Next

-----------------------------------------------------------------------------
(* The steps keep the pages whole, each under its serial number, in order. *)

LEMMA StepWhole ==
    ASSUME Inv, [Next]_vars
    PROVE  file' \in Seq(Cells) /\ Whole(file')
<1> USE DEF Inv
<1>0. file \in Seq(Cells)
  BY TypeFacts
<1>1. CASE \E b, stream, kind, data : Adds(b, stream, kind, data)
  <2>1. PICK b, stream, kind, data : Adds(b, stream, kind, data)
    BY <1>1
  <2>2. b \in Seq(Cells) /\ Len(b) > 0 /\ b[1].part = 1 /\ Whole(b) /\ Appends(file, b, file')
    BY <2>1, AddedIs DEF Adds
  <2>3. Whole(file) /\ file' \in Seq(Cells)
    BY <2>1, AddedIs
  <2>4. QED
    BY <1>0, <2>2, <2>3, AppendWhole
<1>2. CASE RewriteFishead
  BY <1>2, FisheadAgain DEF Block
<1>3. CASE \E at, b : Renewed(at, b)
  <2>1. PICK at, b : Renewed(at, b)
    BY <1>3
  <2>2. /\ at \in Nat /\ b \in Seq(Cells) /\ Len(b) > 0 /\ at + Len(b) <= Len(file)
        /\ Whole(b) /\ b[1].part = 1 /\ Over(file, at, b, file')
        /\ \A k \in 1 .. Len(b) : SamePage(file[at + k], b[k])
    BY <2>1 DEF Renewed
  <2>3. \A k \in 1 .. Len(b) : file[at + k].part = b[k].part /\ file[at + k].size = b[k].size
    <3> TAKE k \in 1 .. Len(b)
    <3>1. file[at + k] \in Cells
      BY <1>0, <2>2
    <3>2. SamePage(file[at + k], b[k])
      BY <2>2
    <3>3. QED
      BY <3>1, <3>2, SameFields
  <2>4. Whole(file) /\ file' \in Seq(Cells)
    BY <2>2 DEF Over
  <2>5. QED
    BY <1>0, <2>2, <2>3, <2>4, OverWhole
<1>4. CASE file' = file
  BY <1>0, <1>4
<1>5. QED
  BY <1>1, <1>2, <1>3, <1>4, FileCases

LEMMA SerialKept ==
    ASSUME present' = present, serialno' = serialno, NEW s
    PROVE  SerialOf(s)' = SerialOf(s)
BY DEF SerialOf, Serial, Before

LEMMA StepSerials ==
    ASSUME Inv, [Next]_vars
    PROVE  Serials'
<1> USE DEF Inv
<1>0. present' = present /\ (~RewriteFishead => serialno' = serialno) /\ Len(file) \in Nat
  BY Constants, TypeFacts
<1>1. CASE RewriteFishead
  <2>1. /\ Len(file') = 2 /\ serialno' = serialno + 1
        /\ \A i \in 1 .. 2 : file'[i] = Cell(Skel, "bos", serialno + 1, 0, i, 2, <<4, -1, 0>>)
    BY <1>1, FisheadAgain DEF RewriteFishead
  <2>2. \A i \in 1 .. 2 : file'[i].stream = Skel /\ file'[i].serial = serialno'
    BY <2>1, CellIs
  <2>3. QED
    BY <2>1, <2>2 DEF Serials, SerialOf
<1>2. CASE ~RewriteFishead
  <2>0. \A s : (IF s = Skel THEN serialno' ELSE Serial(s)') = SerialOf(s)
    BY <1>0, <1>2, SerialKept DEF SerialOf
  <2>1. CASE \E b, stream, kind, data : Adds(b, stream, kind, data)
    <3>1. PICK b, stream, kind, data : Adds(b, stream, kind, data)
      BY <2>1
    <3>2. stream \in present \cup {Skel}
      BY <3>1 DEF Adds
    <3>3. /\ Len(file') \in Nat
          /\ \A i \in 1 .. Len(file) : file'[i] = file[i]
          /\ \A i \in 1 .. Len(file') : ~(i <= Len(file)) =>
                file'[i].stream = stream /\ file'[i].serial = SerialOf(stream)
      BY <3>1, AddedIs
    <3>4. \A i \in 1 .. Len(file) : /\ file[i].stream \in present \cup {Skel}
                                     /\ file[i].serial = SerialOf(file[i].stream)
      BY DEF Serials
    <3>5. ASSUME NEW i \in 1 .. Len(file')
          PROVE  file'[i].stream \in present \cup {Skel} /\ file'[i].serial = SerialOf(file'[i].stream)
      <4>1. CASE i <= Len(file)
        <5>1. i \in 1 .. Len(file)
          BY <1>0, <3>3, <4>1
        <5>2. QED
          BY <3>3, <3>4, <5>1
      <4>2. CASE ~(i <= Len(file))
        BY <3>2, <3>3, <4>2
      <4>3. QED
        BY <4>1, <4>2
    <3>6. QED
      BY <1>0, <1>2, <3>5, SerialKept DEF Serials
  <2>2. CASE \E at, b : Renewed(at, b)
    <3>1. /\ Len(file') = Len(file)
          /\ \A i \in 1 .. Len(file) :
                file'[i].stream = file[i].stream /\ file'[i].serial = file[i].serial
      BY <2>2, RenewedIs, TypeFacts
    <3>2. \A i \in 1 .. Len(file') : /\ file'[i].stream \in present \cup {Skel}
                                      /\ file'[i].serial = SerialOf(file'[i].stream)
      BY <3>1 DEF Serials
    <3>3. QED
      BY <1>0, <1>2, <3>2, SerialKept DEF Serials
  <2>3. CASE file' = file
    <3>1. \A i \in 1 .. Len(file') : /\ file'[i].stream \in present \cup {Skel}
                                      /\ file'[i].serial = SerialOf(file'[i].stream)
      BY <2>3 DEF Serials
    <3>2. QED
      BY <1>0, <1>2, <3>1, SerialKept DEF Serials
  <2>4. QED
    BY <1>2, <2>1, <2>2, <2>3, FileCases
<1>3. QED
  BY <1>1, <1>2

LEMMA StepRanked ==
    ASSUME Inv, [Next]_vars
    PROVE  Ranked'
<1> USE DEF Inv
<1>0. /\ LevelAt(pc) \in 1 .. 3 /\ LevelAt(pc') \in 1 .. 3 /\ LevelAt(pc) <= LevelAt(pc')
      /\ Len(file) \in Nat /\ file \in Seq(Cells)
  BY Levels, TypeFacts
<1>1. \A kind \in {"bos", "header", "content"} : RankOf(kind) \in 1 .. 3
  BY DEF RankOf
<1>2. ASSUME NEW i \in 1 .. Len(file)
      PROVE  /\ RankOf(file[i].kind) \in 1 .. 3 /\ RankOf(file[i].kind) <= LevelAt(pc)
             /\ i < Len(file) => RankOf(file[i].kind) <= RankOf(file[i + 1].kind)
  <2>1. file[i] \in Cells
    BY <1>0
  <2>2. QED
    BY <1>1, <2>1, CellFields DEF Ranked
<1>3. CASE RewriteFishead
  <2>1. /\ Len(file') = 2
        /\ \A i \in 1 .. 2 : file'[i] = Cell(Skel, "bos", serialno + 1, 0, i, 2, <<4, -1, 0>>)
    BY <1>3, FisheadAgain
  <2>2. \A i \in 1 .. 2 : file'[i].kind = "bos"
    BY <2>1, CellIs
  <2>3. RankOf("bos") = 1
    BY DEF RankOf
  <2>4. QED
    BY <1>0, <2>1, <2>2, <2>3 DEF Ranked
<1>4. CASE \E b, stream, kind, data : Adds(b, stream, kind, data)
  <2>1. PICK b, stream, kind, data : Adds(b, stream, kind, data)
    BY <1>4
  <2>2. RankOf(kind) = LevelAt(pc)
    BY <2>1 DEF Adds
  <2>3. /\ Len(file') \in Nat
        /\ \A i \in 1 .. Len(file) : file'[i] = file[i]
        /\ \A i \in 1 .. Len(file') : ~(i <= Len(file)) => file'[i].kind = kind
    BY <2>1, AddedIs
  <2>4. ASSUME NEW i \in 1 .. Len(file')
        PROVE  /\ RankOf(file'[i].kind) <= LevelAt(pc')
               /\ i < Len(file') => RankOf(file'[i].kind) <= RankOf(file'[i + 1].kind)
    <3>1. CASE i < Len(file)
      <4>1. i \in 1 .. Len(file) /\ i + 1 \in 1 .. Len(file)
        BY <1>0, <3>1
      <4>2. file'[i] = file[i] /\ file'[i + 1] = file[i + 1]
        BY <2>3, <4>1
      <4>3. QED
        BY <1>0, <1>2, <3>1, <4>1, <4>2
    <3>2. CASE i = Len(file)
      <4>1. i \in 1 .. Len(file) /\ (i < Len(file') => i + 1 \in 1 .. Len(file') /\ ~(i + 1 <= Len(file)))
        BY <1>0, <2>3, <3>2
      <4>2. file'[i] = file[i] /\ (i < Len(file') => file'[i + 1].kind = kind)
        BY <2>3, <4>1
      <4>3. QED
        BY <1>0, <1>2, <2>2, <4>1, <4>2
    <3>3. CASE i > Len(file)
      <4>1. ~(i <= Len(file)) /\ (i < Len(file') => i + 1 \in 1 .. Len(file') /\ ~(i + 1 <= Len(file)))
        BY <1>0, <2>3, <3>3
      <4>2. file'[i].kind = kind /\ (i < Len(file') => file'[i + 1].kind = kind)
        BY <2>3, <4>1
      <4>3. QED
        BY <1>0, <2>2, <4>2
    <3>4. QED
      BY <1>0, <2>3, <3>1, <3>2, <3>3
  <2>5. QED
    BY <2>4 DEF Ranked
<1>5. CASE \E at, b : Renewed(at, b)
  <2>1. Len(file') = Len(file) /\ \A i \in 1 .. Len(file) : file'[i].kind = file[i].kind
    BY <1>0, <1>5, RenewedIs
  <2>2. ASSUME NEW i \in 1 .. Len(file')
        PROVE  /\ RankOf(file'[i].kind) <= LevelAt(pc')
               /\ i < Len(file') => RankOf(file'[i].kind) <= RankOf(file'[i + 1].kind)
    <3>1. i \in 1 .. Len(file) /\ (i < Len(file) => i + 1 \in 1 .. Len(file))
      BY <1>0, <2>1
    <3>2. file'[i].kind = file[i].kind /\ (i < Len(file) => file'[i + 1].kind = file[i + 1].kind)
      BY <2>1, <3>1
    <3>3. QED
      BY <1>0, <1>2, <2>1, <3>1, <3>2
  <2>3. QED
    BY <2>2 DEF Ranked
<1>6. CASE file' = file
  <2>1. ASSUME NEW i \in 1 .. Len(file)
        PROVE  /\ RankOf(file[i].kind) <= LevelAt(pc')
               /\ i < Len(file) => RankOf(file[i].kind) <= RankOf(file[i + 1].kind)
    BY <1>0, <1>2
  <2>2. QED
    BY <1>6, <2>1 DEF Ranked
<1>7. QED
  BY <1>3, <1>4, <1>5, <1>6, FileCases

-----------------------------------------------------------------------------
(* The flags and the order of the parts. *)

LEMMA FileGrows ==
    ASSUME Inv, [Next]_vars
    PROVE  Len(file') \in Nat /\ Len(file) <= Len(file') /\ position' \in 0 .. Len(file')
<1> USE DEF Inv
<1>0. file \in Seq(Cells) /\ Len(file) \in Nat /\ position \in 0 .. Len(file)
  BY TypeFacts DEF TypeOK
<1>1. CASE \E b, stream, kind, data : Adds(b, stream, kind, data)
  <2>1. PICK b, stream, kind, data : Adds(b, stream, kind, data)
    BY <1>1
  <2>2. /\ Len(b) \in Nat /\ Len(file') = Len(file) + Len(b) /\ position' = Len(file')
    BY <2>1, AddedIs
  <2>3. QED
    BY <1>0, <2>2
<1>2. CASE RewriteFishead
  BY <1>2, FisheadAgain
<1>3. CASE \E at, b : Renewed(at, b)
  <2>1. PICK at, b : Renewed(at, b)
    BY <1>3
  <2>2. /\ at \in Nat /\ b \in Seq(Cells) /\ at + Len(b) <= Len(file) /\ position' = at + Len(b)
    BY <2>1 DEF Renewed
  <2>3. Len(file') = Len(file)
    BY <1>0, <1>3, RenewedIs
  <2>4. QED
    BY <1>0, <2>2, <2>3
<1>4. CASE file' = file /\ position' = position
  BY <1>0, <1>4
<1>5. QED
  BY <1>1, <1>2, <1>3, <1>4, FileCases

(* The stream whose turn it is comes before the others that are left.          *)
LEMMA TurnOrder ==
    ASSUME TypeOK, Control, NEW s, Turn(s)
    PROVE  \A r \in present \ (todo \ {s}), t \in todo \ {s} : r < t
<1> SUFFICES ASSUME NEW r \in present \ (todo \ {s}), NEW t \in todo \ {s}
             PROVE  r < t
  OBVIOUS
<1>1. s \in todo /\ s <= t /\ s # t /\ t \in todo
  BY DEF Turn
<1>2. r \in Int /\ t \in Int /\ s \in Int
  BY <1>1, TypeFacts
<1>3. CASE r = s
  BY <1>1, <1>2, <1>3
<1>4. CASE r # s
  <2>1. r \in present \ todo
    BY <1>4
  <2>2. QED
    BY <1>1, <2>1 DEF Control
<1>5. QED
  BY <1>3, <1>4

(* Whose turn comes next, and when there is none.                              *)
LEMMA TodoCases ==
    ASSUME [Next]_vars
    PROVE  \/ todo' = todo \/ todo' = present
           \/ \E s \in Streams : Turn(s) /\ todo' = todo \ {s}
<1>1. CASE UNCHANGED vars \/ Done
  BY <1>1 DEF Done, vars
<1>2. CASE WriteFishead \/ RewriteFishead \/ WriteFisbones \/ WriteEnd
  BY <1>2 DEF WriteFishead, RewriteFishead, WriteFisbones, WriteEnd
<1>3. ASSUME NEW s \in Streams, WriteFirstPage(s) \/ WriteHeaders(s) \/ WritePlaceholder(s)
      PROVE  todo' = present \/ (Turn(s) /\ todo' = todo \ {s})
  BY <1>3 DEF WriteFirstPage, WriteHeaders, WritePlaceholder
<1>4. ASSUME NEW s \in Streams, RewriteIndex(s) \/ SkipIndex(s)
      PROVE  Turn(s) /\ todo' = todo \ {s}
  BY <1>4 DEF RewriteIndex, SkipIndex
<1>5. ASSUME NEW s \in Streams, WriteContent(s) PROVE todo' = todo
  BY <1>5 DEF WriteContent
<1>6. CASE NoIndex \/ RewriteBOS \/ Fail
  BY <1>6 DEF NoIndex, RewriteBOS, Fail
<1>7. QED
  BY <1>1, <1>2, <1>3, <1>4, <1>5, <1>6 DEF Next

LEMMA StepOrder ==
    ASSUME TypeOK, Control, [Next]_vars
    PROVE  todo' \subseteq present /\ \A r \in present \ todo', t \in todo' : r < t
<1>1. todo \subseteq present /\ \A r \in present \ todo, t \in todo : r < t
  BY TypeFacts DEF Control
<1>2. CASE todo' = todo \/ todo' = present
  BY <1>1, <1>2
<1>3. CASE \E s \in Streams : Turn(s) /\ todo' = todo \ {s}
  BY <1>1, <1>3, TurnOrder
<1>4. QED
  BY <1>2, <1>3, TodoCases

LEMMA StepType ==
    ASSUME Inv, [Next]_vars
    PROVE  TypeOK'
<1> USE DEF Inv
<1> DEFINE Parts == {"fishead", "bos", "fisbones", "headers", "placeholders", "end", "content",
                     "index", "done", "failed"}
<1>1. /\ present' \in Inputs /\ option' \in Options /\ outfile' \in Outputs /\ duration' \in Durations
      /\ packet_size' \in [present' -> IndexSegments] /\ present' = present
  BY Constants DEF TypeOK
<1>2. file' \in Seq(Cells) /\ position' \in 0 .. Len(file')
  BY StepWhole, FileGrows
<1>3. todo' \subseteq present
  BY StepOrder
<1>4. /\ Len(file') \in Nat /\ Len(file) <= Len(file') /\ Len(file) \in Nat
      /\ position \in 0 .. Len(file) /\ content_offset \in 0 .. Len(file)
  BY FileGrows, TypeFacts DEF TypeOK
<1>5. /\ pc \in Parts /\ output_seekable \in {"maybe", "yes", "no"} /\ skeleton_3 \in BOOLEAN
      /\ serialno \in Nat /\ pageno \in Nat /\ todo \subseteq present /\ indexed \subseteq present
      /\ present # {} /\ outfile \in BOOLEAN
      /\ (pc \in {"bos", "headers", "placeholders", "index"} => todo # {})
      /\ page_location \in [present -> 0 .. Len(file)]
  BY TypeFacts, SkeletonAssumption DEF TypeOK
<1>6. page_location \in [present -> 0 .. Len(file')] /\ content_offset \in 0 .. Len(file')
  BY <1>4, <1>5
<1>7. PageCount(Fisbones) \in Nat /\ \A s \in present : PageCount(packet_size[s]) \in Nat
  BY PageCountIs, TypeFacts
<1> DEFINE Rest ==
              /\ pc' \in Parts
              /\ pc' \in {"bos", "headers", "placeholders", "index"} => todo' # {}
              /\ output_seekable' \in {"maybe", "yes", "no"} /\ skeleton_3' \in BOOLEAN
              /\ serialno' \in Nat /\ pageno' \in Nat
              /\ page_location' \in [present -> 0 .. Len(file')]
              /\ content_offset' \in 0 .. Len(file')
              /\ indexed' \subseteq present
<1>8. Rest
  <2>1. CASE UNCHANGED vars \/ Done
    BY <1>5, <1>6, <2>1 DEF Done, vars, so, index
  <2>2. CASE WriteFishead
    <3>1. output_seekable' \in {"yes", "no"}
      BY <2>2, FisheadAdds DEF Adds
    <3>2. todo' = todo /\ todo = present
      BY <2>2 DEF WriteFishead, Control
    <3>3. QED
      BY <1>5, <1>6, <2>2, <3>1, <3>2 DEF WriteFishead, index
  <2>3. CASE RewriteFishead
    <3>1. todo' = todo /\ todo = present
      BY <2>3 DEF RewriteFishead, Control
    <3>2. QED
      BY <1>5, <1>6, <2>3, <3>1 DEF RewriteFishead, index
  <2>4. CASE WriteFisbones
    <3>1. output_seekable' \in {"yes", "no"}
      BY <2>4, FisbonesAdd DEF Adds
    <3>2. todo' = todo /\ todo = present
      BY <2>4 DEF WriteFisbones, Control
    <3>3. QED
      BY <1>5, <1>6, <1>7, <2>4, <3>1, <3>2 DEF WriteFisbones, index
  <2>5. CASE WriteEnd
    <3>1. output_seekable' \in {"yes", "no"}
      BY <2>5, EndAdds DEF Adds
    <3>2. QED
      BY <1>2, <1>5, <1>6, <2>5, <3>1 DEF WriteEnd, index
  <2>6. ASSUME NEW s \in Streams, WriteFirstPage(s) PROVE Rest
    <3>1. output_seekable' \in {"yes", "no"} /\ s \in todo
      BY <2>6, FirstPageAdds DEF Adds
    <3>2. todo' # {}
      BY <1>5, <2>6, <3>1 DEF WriteFirstPage
    <3>3. QED
      BY <1>5, <1>6, <2>6, <3>1, <3>2 DEF WriteFirstPage, index, so
  <2>7. ASSUME NEW s \in Streams, WriteHeaders(s) PROVE Rest
    <3>1. output_seekable' \in {"yes", "no"} /\ s \in todo
      BY <2>7, HeaderAdds DEF Adds
    <3>2. todo' # {} /\ pc' \in Parts
      BY <1>5, <2>7, <3>1, HeadersNext DEF WriteHeaders
    <3>3. UNCHANGED <<skeleton_3, so, index, content_offset, indexed>>
      BY <2>7 DEF WriteHeaders
    <3>4. QED
      BY <1>5, <1>6, <3>1, <3>2, <3>3 DEF index, so
  <2>8. ASSUME NEW s \in Streams, WritePlaceholder(s) PROVE Rest
    <3>1. output_seekable' \in {"yes", "no"} /\ s \in todo /\ s \in present
      BY <2>8, PlaceholderAdds DEF Adds
    <3>2. todo' # {}
      BY <1>5, <2>8, <3>1 DEF WritePlaceholder
    <3>3. page_location' \in [present -> 0 .. Len(file')]
      <4>1. position \in 0 .. Len(file') /\ page_location' = [page_location EXCEPT ![s] = position]
        BY <1>4, <2>8 DEF WritePlaceholder
      <4>2. QED
        BY <1>6, <3>1, <4>1
    <3>4. pc' \in Parts
      BY <2>8 DEF WritePlaceholder
    <3>5. pageno' \in Nat
      BY <1>5, <1>7, <2>8, <3>1, SMTT(20) DEF WritePlaceholder
    <3>6. UNCHANGED <<skeleton_3, serialno, content_offset, indexed>>
      BY <2>8 DEF WritePlaceholder
    <3>7. QED
      BY <1>5, <1>6, <3>1, <3>2, <3>3, <3>4, <3>5, <3>6
  <2>9. ASSUME NEW s \in Streams, WriteContent(s) PROVE Rest
    <3>1. output_seekable' \in {"yes", "no"} /\ s \in present
      BY <2>9, ContentAdds DEF Adds
    <3>2. indexed' \subseteq present
      BY <1>5, <2>9, <3>1 DEF WriteContent
    <3>3. QED
      BY <1>5, <1>6, <2>9, <3>1, <3>2 DEF WriteContent, index, so
  <2>10. CASE NoIndex \/ Fail
    BY <1>5, <1>6, <2>10 DEF NoIndex, Fail, index, so
  <2>11. CASE RewriteBOS
    <3>1. pageno' \in Nat
      BY <1>7, <2>11 DEF RewriteBOS, Recount
    <3>2. QED
      BY <1>5, <1>6, <2>11, <3>1 DEF RewriteBOS, index
  <2>12. ASSUME NEW s \in Streams, RewriteIndex(s) PROVE Rest
    <3>1. s \in present /\ s \in todo
      BY <2>12, IndexRenewed
    <3>2. pc' \in {"index", "done"} /\ (pc' = "index" => todo' # {})
      BY <1>5, <2>12, <3>1 DEF RewriteIndex, NextIndex
    <3>3. QED
      BY <1>5, <1>6, <1>7, <2>12, <3>1, <3>2 DEF RewriteIndex, index
  <2>13. ASSUME NEW s \in Streams, SkipIndex(s) PROVE Rest
    <3>1. pc' \in {"index", "done"} /\ (pc' = "index" => todo' # {})
      BY <1>5, <2>13 DEF SkipIndex, NextIndex, Turn
    <3>2. QED
      BY <1>5, <1>6, <2>13, <3>1 DEF SkipIndex, index, so
  <2>14. QED
    BY <2>1, <2>2, <2>3, <2>4, <2>5, <2>6, <2>7, <2>8, <2>9, <2>10, <2>11, <2>12, <2>13, Zenon
       DEF Next
<1>9. QED
  BY <1>1, <1>2, <1>3, <1>8 DEF TypeOK

LEMMA AppendFirst ==
    ASSUME NEW b \in Seq(Cells), NEW g, Appends(<< >>, b, g)
    PROVE  g = b
<1> DEFINE f == << >>
<1>1. Len(f) = 0
  OBVIOUS
<1> HIDE DEF f
<1>2. /\ g \in Seq(Cells) /\ Len(g) = Len(f) + Len(b)
      /\ \A k \in 1 .. Len(b) : g[Len(f) + k] = b[k]
  BY DEF Appends, f
<1>3. Len(g) = Len(b) /\ \A k \in 1 .. Len(b) : g[k] = b[k]
  <2>1. Len(b) \in Nat
    OBVIOUS
  <2>2. \A k \in 1 .. Len(b) : 0 + k = k
    OBVIOUS
  <2>3. QED
    BY <1>1, <1>2, <2>1, <2>2
<1>4. g = [k \in 1 .. Len(b) |-> g[k]] /\ b = [k \in 1 .. Len(b) |-> b[k]]
  BY <1>2, <1>3
<1>5. QED
  BY <1>3, <1>4

LEMMA StepControl ==
    ASSUME Inv, [Next]_vars
    PROVE  Control'
<1> USE DEF Inv
<1> DEFINE Indexing1 == option # "none" /\ ~skeleton_3'
           Flags ==
              /\ pc' \in Early => indexed' = {} /\ content_offset' = 0
              /\ pc' \in Early \cup {"content"} \/ (pc' = "done" /\ ~Indexing1) => position' = Len(file')
              /\ pc' = "done" /\ Indexing1 => todo' = {}
              /\ pc' \in {"fishead", "fisbones", "end", "content"} => todo' = present
              /\ option = "none" => pc' \in {"bos", "headers", "content", "done"} /\ ~skeleton_3'
              /\ pc' \in {"placeholders", "index", "failed"} => Indexing1
              /\ option = "3" => skeleton_3'
              /\ option = "4" => (skeleton_3' <=> ~duration \/ (output_seekable' # "maybe" /\ ~outfile))
              /\ option # "none" => (output_seekable' = "maybe" <=> file' = << >>)
              /\ option # "none" /\ file' = << >> => pc' = "fishead"
              /\ pc' = "fishead" /\ file' # << >> => file' = Fishead(3, serialno', 0, 0) /\ ~skeleton_3'
<1>1. /\ pc \in Early => indexed = {} /\ content_offset = 0
      /\ pc \in Early \cup {"content"} \/ (pc = "done" /\ ~Indexing) => position = Len(file)
      /\ pc = "done" /\ Indexing => todo = {}
      /\ pc \in {"fishead", "fisbones", "end", "content"} => todo = present
      /\ option = "none" => pc \in {"bos", "headers", "content", "done"} /\ ~skeleton_3
      /\ pc \in {"placeholders", "index", "failed"} => Indexing
      /\ option = "3" => skeleton_3
      /\ option = "4" => (skeleton_3 <=> ~duration \/ (output_seekable # "maybe" /\ ~outfile))
      /\ option # "none" => (output_seekable = "maybe" <=> file = << >>)
      /\ option # "none" /\ file = << >> => pc = "fishead"
      /\ pc = "fishead" /\ file # << >> => file = Fishead(3, serialno, 0, 0) /\ ~skeleton_3
  BY DEF Control
<1>2. ASSUME NEW b, NEW stream, NEW kind, NEW data, Adds(b, stream, kind, data)
      PROVE  /\ position' = Len(file') /\ file' # << >> /\ output_seekable' \in {"yes", "no"}
             /\ output_seekable = "maybe" => (output_seekable' = "yes" <=> outfile)
             /\ output_seekable # "maybe" => output_seekable' = output_seekable
  BY <1>2, AddedIs DEF Adds
<1>3. serialno' >= NextSerial
  <2>1. serialno >= NextSerial /\ serialno \in Nat /\ NextSerial \in Nat
    BY TypeFacts, SerialsDiffer DEF Control
  <2>2. serialno' = serialno \/ serialno' = serialno + 1
    BY Constants DEF RewriteFishead
  <2>3. QED
    BY <2>1, <2>2
<1>4. \A r \in present \ todo', t \in todo' : r < t
  BY StepOrder
<1>5. /\ option \in {"none", "3", "4"} /\ outfile \in BOOLEAN /\ duration \in BOOLEAN
      /\ skeleton_3 \in BOOLEAN /\ present # {}
  BY SkeletonAssumption, TypeFacts DEF TypeOK
<1>6. Indexing <=> option # "none" /\ ~skeleton_3
  BY DEF Indexing
<1>7. Flags
  <2> USE DEF Early
  <2>1. CASE UNCHANGED vars \/ Done
    BY <1>1, <1>6, <2>1 DEF Done, vars, so
  <2>2. CASE WriteFishead
    <3>1. /\ file = << >> /\ Adds(Fishead(3, serialno, 0, 0), Skel, "bos", <<3, 0, 0>>)
      BY <2>2, FisheadAdds
    <3>2. /\ position' = Len(file') /\ file' # << >> /\ output_seekable' \in {"yes", "no"}
      BY <1>2, <3>1
    <3>3. file' = Fishead(3, serialno, 0, 0)
      <4>1. Fishead(3, serialno, 0, 0) \in Seq(Cells)
        BY <3>1, AddedIs
      <4>2. Appends(<< >>, Fishead(3, serialno, 0, 0), file')
        BY <3>1 DEF Adds
      <4>3. QED
        BY <4>1, <4>2, AppendFirst
    <3>4. /\ pc = "fishead" /\ output_seekable = "maybe" /\ skeleton_3' = (skeleton_3 \/ ~outfile)
          /\ pc' = (IF skeleton_3' THEN "bos" ELSE "fishead")
          /\ UNCHANGED <<todo, serialno, content_offset, indexed>>
      BY <2>2 DEF WriteFishead
    <3> HIDE DEF Early
    <3>5. pc \in Early
      BY <3>4 DEF Early
    <3>6. CASE skeleton_3'
      BY <1>1, <1>5, <3>2, <3>3, <3>4, <3>5, <3>6
    <3>7. CASE ~skeleton_3'
      BY <1>1, <1>5, <3>2, <3>3, <3>4, <3>5, <3>7
    <3>8. QED
      BY <3>6, <3>7
  <2>3. CASE RewriteFishead
    <3>1. /\ position' = Len(file') /\ file' # << >>
      BY <2>3, FisheadAgain
    <3>2. /\ pc = "fishead" /\ output_seekable # "maybe" /\ pc' = "bos"
          /\ UNCHANGED <<todo, output_seekable, skeleton_3, content_offset, indexed>>
      BY <2>3 DEF RewriteFishead
    <3>3. QED
      BY <1>1, <1>5, <3>1, <3>2
  <2>4. CASE WriteFisbones
    <3>1. /\ position' = Len(file') /\ file' # << >> /\ output_seekable' \in {"yes", "no"}
          /\ output_seekable = "maybe" => (output_seekable' = "yes" <=> outfile)
          /\ output_seekable # "maybe" => output_seekable' = output_seekable
      BY <1>2, <2>4, FisbonesAdd
    <3>2. /\ pc = "fisbones" /\ pc' = "headers"
          /\ UNCHANGED <<todo, skeleton_3, content_offset, indexed>>
      BY <2>4 DEF WriteFisbones
    <3>3. QED
      BY <1>1, <1>5, <3>1, <3>2
  <2>5. CASE WriteEnd
    <3>1. /\ position' = Len(file') /\ file' # << >> /\ output_seekable' \in {"yes", "no"}
          /\ output_seekable = "maybe" => (output_seekable' = "yes" <=> outfile)
          /\ output_seekable # "maybe" => output_seekable' = output_seekable
      BY <1>2, <2>5, EndAdds
    <3>2. /\ pc = "end" /\ pc' = "content"
          /\ UNCHANGED <<todo, skeleton_3, indexed>>
      BY <2>5 DEF WriteEnd
    <3>3. QED
      BY <1>1, <1>5, <3>1, <3>2
  <2>6. ASSUME NEW s \in Streams, WriteFirstPage(s) PROVE Flags
    <3>1. /\ position' = Len(file') /\ file' # << >> /\ output_seekable' \in {"yes", "no"}
          /\ output_seekable = "maybe" => (output_seekable' = "yes" <=> outfile)
          /\ output_seekable # "maybe" => output_seekable' = output_seekable
      BY <1>2, <2>6, FirstPageAdds
    <3>2. /\ pc = "bos" /\ todo' = (IF todo = {s} THEN present ELSE todo \ {s})
          /\ pc' = (IF todo # {s} THEN "bos" ELSE IF option = "none" THEN "headers" ELSE "fisbones")
          /\ UNCHANGED <<skeleton_3, content_offset, indexed>>
      BY <2>6 DEF WriteFirstPage
    <3>3. QED
      BY <1>1, <1>5, <3>1, <3>2
  <2>7. ASSUME NEW s \in Streams, WriteHeaders(s) PROVE Flags
    <3>1. /\ position' = Len(file') /\ file' # << >> /\ output_seekable' \in {"yes", "no"}
          /\ output_seekable = "maybe" => (output_seekable' = "yes" <=> outfile)
          /\ output_seekable # "maybe" => output_seekable' = output_seekable
      BY <1>2, <2>7, HeaderAdds
    <3>2. /\ pc = "headers" /\ todo' = (IF todo = {s} THEN present ELSE todo \ {s})
          /\ UNCHANGED <<skeleton_3, content_offset, indexed>>
      BY <2>7 DEF WriteHeaders
    <3>3. pc' = (IF todo # {s} THEN "headers" ELSE IF option = "none" THEN "content"
                 ELSE IF skeleton_3 THEN "end" ELSE "placeholders")
      BY <2>7, HeadersNext
    <3>4. QED
      BY <1>1, <1>5, <3>1, <3>2, <3>3
  <2>8. ASSUME NEW s \in Streams, WritePlaceholder(s) PROVE Flags
    <3>1. /\ position' = Len(file') /\ file' # << >> /\ output_seekable' \in {"yes", "no"}
          /\ output_seekable = "maybe" => (output_seekable' = "yes" <=> outfile)
          /\ output_seekable # "maybe" => output_seekable' = output_seekable
      BY <1>2, <2>8, PlaceholderAdds
    <3>2. /\ pc = "placeholders" /\ todo' = (IF todo = {s} THEN present ELSE todo \ {s})
          /\ pc' = (IF todo = {s} THEN "end" ELSE "placeholders")
          /\ UNCHANGED <<skeleton_3, content_offset, indexed>>
      BY <2>8 DEF WritePlaceholder
    <3>3. QED
      BY <1>1, <1>5, <1>6, <3>1, <3>2
  <2>9. ASSUME NEW s \in Streams, WriteContent(s) PROVE Flags
    <3>1. /\ position' = Len(file') /\ file' # << >> /\ output_seekable' \in {"yes", "no"}
          /\ output_seekable = "maybe" => (output_seekable' = "yes" <=> outfile)
          /\ output_seekable # "maybe" => output_seekable' = output_seekable
      BY <1>2, <2>9, ContentAdds
    <3>2. pc = "content" /\ UNCHANGED <<pc, todo, skeleton_3>>
      BY <2>9 DEF WriteContent
    <3>3. QED
      BY <1>1, <1>5, <3>1, <3>2
  <2>10. CASE NoIndex
    <3>1. pc = "content" /\ ~Indexing /\ pc' = "done"
          /\ UNCHANGED <<todo, file, position, output_seekable, skeleton_3>>
      BY <2>10 DEF NoIndex
    <3>2. QED
      BY <1>1, <1>6, <3>1
  <2>11. CASE Fail
    <3>1. pc \in {"content", "index"} /\ Indexing /\ pc' = "failed"
          /\ UNCHANGED <<file, output_seekable, skeleton_3>>
      BY <2>11 DEF Fail
    <3>2. QED
      BY <1>1, <1>6, <3>1
  <2>12. CASE RewriteBOS
    <3>1. pc = "content" /\ Indexing /\ pc' = "index" /\ UNCHANGED <<output_seekable, skeleton_3>>
      BY <2>12 DEF RewriteBOS
    <3>2. Len(file) >= 2 /\ Renewed(0, Fishead(4, serialno, Len(file), content_offset))
      BY <2>12, BosRenewed
    <3>3. Len(file') >= 2
      BY <3>2, RenewedIs, TypeFacts
    <3>4. file # << >> /\ file' # << >>
      BY <3>2, <3>3
    <3>5. QED
      BY <1>1, <1>6, <3>1, <3>4
  <2>13. ASSUME NEW s \in Streams, RewriteIndex(s) PROVE Flags
    <3>1. /\ pc = "index" /\ pc' = NextIndex(s) /\ todo' = todo \ {s} /\ s \in todo
          /\ UNCHANGED <<output_seekable, skeleton_3>>
      BY <2>13 DEF RewriteIndex, Turn
    <3>2. Len(file') = Len(file)
      <4>1. \E at, b : Renewed(at, b)
        BY <2>13, IndexRenewed, Zenon
      <4>2. QED
        BY <4>1, RenewedIs, TypeFacts
    <3>3. file' # << >>
      <4>1. Len(file) # 0
        <5>1. file # << >>
          BY <1>1, <1>6, <3>1
        <5>2. QED
          BY <5>1, TypeFacts
      <4>2. QED
        BY <3>2, <4>1
    <3>4. pc' \in {"index", "done"} /\ (pc' = "done" => todo' = {})
      BY <3>1 DEF NextIndex
    <3>5. QED
      BY <1>1, <1>6, <3>1, <3>3, <3>4
  <2>14. ASSUME NEW s \in Streams, SkipIndex(s) PROVE Flags
    <3>1. /\ pc = "index" /\ pc' = NextIndex(s) /\ todo' = todo \ {s} /\ s \in todo
          /\ UNCHANGED <<file, output_seekable, skeleton_3>>
      BY <2>14 DEF SkipIndex, Turn
    <3>2. pc' \in {"index", "done"} /\ (pc' = "done" => todo' = {})
      BY <3>1 DEF NextIndex
    <3>3. QED
      BY <1>1, <1>6, <3>1, <3>2
  <2>15. QED
    BY <2>1, <2>2, <2>3, <2>4, <2>5, <2>6, <2>7, <2>8, <2>9, <2>10, <2>11, <2>12, <2>13, <2>14, Zenon
       DEF Next
<1>8. present' = present /\ option' = option /\ outfile' = outfile /\ duration' = duration
  BY Constants
<1>9. NextSerial' = NextSerial /\ (Indexing' <=> Indexing1)
  BY <1>8 DEF NextSerial, Indexing
<1> HIDE DEF Indexing1
<1>10. QED
  BY <1>3, <1>4, <1>7, <1>8, <1>9 DEF Control

-----------------------------------------------------------------------------
(* The first pages, where the content starts, and the fishead. *)

LEMMA BosAdded ==
    ASSUME TypeOK, NEW b, NEW stream, NEW kind, NEW data, Adds(b, stream, kind, data)
    PROVE  BosStreams(file') = BosStreams(file) \cup (IF kind = "bos" THEN {stream} ELSE {})
<1> DEFINE l == Len(file)
           m == Len(b)
           n == Len(file')
<1>1. /\ l \in Nat /\ m \in Nat \ {0} /\ n = l + m
      /\ \A i \in 1 .. l : file'[i] = file[i]
      /\ \A i \in 1 .. n : ~(i <= l) => file'[i].stream = stream /\ file'[i].kind = kind
  BY AddedIs, TypeFacts, SMTT(20)
<1>2. /\ BosStreams(file) = {file[i].stream : i \in {j \in 1 .. l : file[j].kind = "bos"}}
      /\ BosStreams(file') = {file'[i].stream : i \in {j \in 1 .. n : file'[j].kind = "bos"}}
  BY DEF BosStreams
<1> HIDE DEF l, m, n
<1>3. \A i \in 1 .. l : i \in 1 .. n
  BY <1>1
<1>4. n \in 1 .. n /\ ~(n <= l)
  BY <1>1
<1>5. \A i \in 1 .. n : i <= l => i \in 1 .. l
  BY <1>1
<1>6. ASSUME NEW x \in BosStreams(file')
      PROVE  x \in BosStreams(file) \/ (kind = "bos" /\ x = stream)
  <2>1. PICK i \in 1 .. n : file'[i].kind = "bos" /\ x = file'[i].stream
    BY <1>2
  <2>2. CASE i <= l
    BY <1>1, <1>2, <1>5, <2>1, <2>2
  <2>3. CASE ~(i <= l)
    BY <1>1, <2>1, <2>3
  <2>4. QED
    BY <2>2, <2>3
<1>7. ASSUME NEW x \in BosStreams(file) PROVE x \in BosStreams(file')
  <2>1. PICK i \in 1 .. l : file[i].kind = "bos" /\ x = file[i].stream
    BY <1>2
  <2>2. file'[i].kind = "bos" /\ x = file'[i].stream /\ i \in 1 .. n
    BY <1>1, <1>3, <2>1
  <2>3. QED
    BY <1>2, <2>2
<1>8. kind = "bos" => stream \in BosStreams(file')
  <2>1. file'[n].stream = stream /\ file'[n].kind = kind
    BY <1>1, <1>4
  <2>2. QED
    BY <1>2, <1>4, <2>1
<1>9. QED
  BY <1>6, <1>7, <1>8

LEMMA BosOthers ==
    ASSUME TypeOK, \E b, stream, kind, data : kind # "bos" /\ Adds(b, stream, kind, data)
    PROVE  BosStreams(file') = BosStreams(file)
<1>1. PICK b, stream, kind, data : kind # "bos" /\ Adds(b, stream, kind, data)
  OBVIOUS
<1>2. BosStreams(file') = BosStreams(file) \cup (IF kind = "bos" THEN {stream} ELSE {})
  BY <1>1, BosAdded
<1>3. QED
  BY <1>1, <1>2

LEMMA BosKept ==
    ASSUME TypeOK, NEW at, NEW b, Renewed(at, b)
    PROVE  BosStreams(file') = BosStreams(file)
<1>1. /\ Len(file') = Len(file)
      /\ \A i \in 1 .. Len(file) :
            file'[i].stream = file[i].stream /\ file'[i].kind = file[i].kind
  BY RenewedIs, TypeFacts
<1>2. QED
  BY <1>1 DEF BosStreams

LEMMA StepBegun ==
    ASSUME Inv, [Next]_vars
    PROVE  Begun'
<1> USE DEF Inv
<1> DEFINE Front(f) == IF option # "none" /\ f # << >> THEN {Skel} ELSE {}
           Started(part, left) ==
               IF part = "fishead" THEN {} ELSE IF part = "bos" THEN present \ left ELSE present
<1>1. BosStreams(file) = Front(file) \cup Started(pc, todo)
  <2>1. CASE pc = "fishead"
    BY <2>1 DEF Begun
  <2>2. CASE pc = "bos"
    BY <2>2 DEF Begun
  <2>3. CASE pc \notin {"fishead", "bos"}
    BY <2>3 DEF Begun
  <2>4. QED
    BY <2>1, <2>2, <2>3
<1>2. SUFFICES BosStreams(file') = Front(file') \cup Started(pc', todo')
  <2>0. present' = present /\ option' = option
    BY Constants
  <2>1. CASE pc' = "fishead"
    BY <1>2, <2>0, <2>1 DEF Begun, BosStreams
  <2>2. CASE pc' = "bos"
    BY <1>2, <2>0, <2>2 DEF Begun, BosStreams
  <2>3. CASE pc' \notin {"fishead", "bos"}
    BY <1>2, <2>0, <2>3 DEF Begun, BosStreams
  <2>4. QED
    BY <2>1, <2>2, <2>3
<1>3. /\ option # "none" /\ file = << >> => pc = "fishead"
      /\ option # "none" /\ file' = << >> => pc' = "fishead"
      /\ pc \in {"fishead", "fisbones", "end", "content"} => todo = present
      /\ option = "none" => pc # "fishead"
      /\ todo \subseteq present
  <2>1. Control' /\ option' = option
    BY StepControl, Constants
  <2>2. QED
    BY <2>1, TypeFacts DEF Control
(* Past the first pages nothing of the kind is written.                        *)
<1>4. ASSUME pc \notin {"fishead", "bos"}, pc' \notin {"fishead", "bos"},
             BosStreams(file') = BosStreams(file)
      PROVE  BosStreams(file') = Front(file') \cup Started(pc', todo')
  BY <1>1, <1>3, <1>4
<1>5. CASE UNCHANGED vars \/ Done
  <2>1. pc' = pc /\ file' = file /\ todo' = todo
    BY <1>5 DEF Done, vars
  <2>2. QED
    BY <1>1, <2>1
<1>6. CASE WriteFishead
  <2>1. /\ file = << >> /\ Adds(Fishead(3, serialno, 0, 0), Skel, "bos", <<3, 0, 0>>)
    BY <1>6, FisheadAdds
  <2>2. BosStreams(file') = BosStreams(file) \cup {Skel} /\ file' # << >>
    BY <2>1, BosAdded, AddedIs
  <2>3. pc = "fishead" /\ pc' \in {"bos", "fishead"} /\ todo' = todo
    BY <1>6 DEF WriteFishead
  <2>4. QED
    BY <1>1, <1>3, <2>1, <2>2, <2>3
<1>7. CASE RewriteFishead
  <2>1. /\ Len(file') = 2
        /\ \A i \in 1 .. 2 : file'[i] = Cell(Skel, "bos", serialno + 1, 0, i, 2, <<4, -1, 0>>)
    BY <1>7, FisheadAgain
  <2>2. \A i \in 1 .. 2 : file'[i].kind = "bos" /\ file'[i].stream = Skel
    BY <2>1, CellIs
  <2>3. BosStreams(file') = {Skel} /\ file' # << >>
    <3>1. \A i \in 1 .. Len(file') : file'[i].kind = "bos" /\ file'[i].stream = Skel
      BY <2>1, <2>2
    <3>2. 1 \in 1 .. Len(file')
      BY <2>1
    <3>3. \A x : x \in BosStreams(file') <=> x = Skel
      BY <3>1, <3>2 DEF BosStreams
    <3>4. BosStreams(file') = {Skel}
      BY <3>3
    <3>5. file' # << >>
      BY <2>1
    <3>6. QED
      BY <3>4, <3>5
  <2>4. pc = "fishead" /\ pc' = "bos" /\ todo' = todo
    BY <1>7 DEF RewriteFishead
  <2>5. QED
    BY <1>1, <1>3, <2>3, <2>4
<1>8. ASSUME NEW s \in Streams, WriteFirstPage(s)
      PROVE  BosStreams(file') = Front(file') \cup Started(pc', todo')
  <2>1. s \in present /\ s \in todo /\ Adds(FirstPages(s), s, "bos", << >>)
    BY <1>8, FirstPageAdds
  <2>2. BosStreams(file') = BosStreams(file) \cup {s} /\ file' # << >>
    BY <2>1, BosAdded, AddedIs
  <2>3. /\ pc = "bos" /\ todo' = (IF todo = {s} THEN present ELSE todo \ {s})
        /\ pc' = (IF todo # {s} THEN "bos" ELSE IF option = "none" THEN "headers" ELSE "fisbones")
    BY <1>8 DEF WriteFirstPage
  <2>4. CASE todo = {s}
    BY <1>1, <1>3, <2>1, <2>2, <2>3, <2>4
  <2>5. CASE todo # {s}
    BY <1>1, <1>3, <2>1, <2>2, <2>3, <2>5
  <2>6. QED
    BY <2>4, <2>5
<1>9. ASSUME NEW s \in Streams, WriteHeaders(s)
      PROVE  BosStreams(file') = Front(file') \cup Started(pc', todo')
  <2>1. \E b, stream, kind, data : kind # "bos" /\ Adds(b, stream, kind, data)
    <3>1. "header" # "bos"
      OBVIOUS
    <3>2. QED
      BY <1>9, <3>1, HeaderAdds, Zenon
  <2>2. BosStreams(file') = BosStreams(file)
    BY <2>1, BosOthers
  <2>3. pc = "headers" /\ pc' \in {"headers", "content", "end", "placeholders"}
    BY <1>9, HeadersNext DEF WriteHeaders
  <2>4. QED
    BY <1>4, <2>2, <2>3
<1>10. ASSUME NEW s \in Streams, WritePlaceholder(s)
       PROVE  BosStreams(file') = Front(file') \cup Started(pc', todo')
  <2>1. \E b, stream, kind, data : kind # "bos" /\ Adds(b, stream, kind, data)
    <3>1. "header" # "bos"
      OBVIOUS
    <3>2. QED
      BY <1>10, <3>1, PlaceholderAdds, Zenon
  <2>2. BosStreams(file') = BosStreams(file)
    BY <2>1, BosOthers
  <2>3. pc = "placeholders" /\ pc' \in {"end", "placeholders"}
    BY <1>10 DEF WritePlaceholder
  <2>4. QED
    BY <1>4, <2>2, <2>3
<1>11. ASSUME NEW s \in Streams, WriteContent(s)
       PROVE  BosStreams(file') = Front(file') \cup Started(pc', todo')
  <2>1. \E b, stream, kind, data : kind # "bos" /\ Adds(b, stream, kind, data)
    <3>1. "content" # "bos"
      OBVIOUS
    <3>2. QED
      BY <1>11, <3>1, ContentAdds, Zenon
  <2>2. BosStreams(file') = BosStreams(file)
    BY <2>1, BosOthers
  <2>3. pc = "content" /\ pc' = "content"
    BY <1>11 DEF WriteContent
  <2>4. QED
    BY <1>4, <2>2, <2>3
<1>12. CASE WriteFisbones
  <2>1. \E b, stream, kind, data : kind # "bos" /\ Adds(b, stream, kind, data)
    <3>1. "header" # "bos"
      OBVIOUS
    <3>2. QED
      BY <1>12, <3>1, FisbonesAdd, Zenon
  <2>2. BosStreams(file') = BosStreams(file)
    BY <2>1, BosOthers
  <2>3. pc = "fisbones" /\ pc' = "headers"
    BY <1>12 DEF WriteFisbones
  <2>4. QED
    BY <1>4, <2>2, <2>3
<1>13. CASE WriteEnd
  <2>1. \E b, stream, kind, data : kind # "bos" /\ Adds(b, stream, kind, data)
    <3>1. "header" # "bos"
      OBVIOUS
    <3>2. QED
      BY <1>13, <3>1, EndAdds, Zenon
  <2>2. BosStreams(file') = BosStreams(file)
    BY <2>1, BosOthers
  <2>3. pc = "end" /\ pc' = "content"
    BY <1>13 DEF WriteEnd
  <2>4. QED
    BY <1>4, <2>2, <2>3
<1>14. ASSUME NEW s \in Streams, RewriteIndex(s)
       PROVE  BosStreams(file') = Front(file') \cup Started(pc', todo')
  <2>1. \E at, b : Renewed(at, b)
    BY <1>14, IndexRenewed, Zenon
  <2>2. BosStreams(file') = BosStreams(file)
    BY <2>1, BosKept
  <2>3. pc = "index" /\ pc' \in {"index", "done"}
    BY <1>14 DEF RewriteIndex, NextIndex
  <2>4. QED
    BY <1>4, <2>2, <2>3
<1>15. CASE RewriteBOS
  <2>1. \E at, b : Renewed(at, b)
    BY <1>15, BosRenewed, Zenon
  <2>2. BosStreams(file') = BosStreams(file)
    BY <2>1, BosKept
  <2>3. pc = "content" /\ pc' = "index"
    BY <1>15 DEF RewriteBOS
  <2>4. QED
    BY <1>4, <2>2, <2>3
<1>16. CASE NoIndex \/ Fail \/ \E s \in Streams : SkipIndex(s)
  <2>1. /\ file' = file /\ pc \in {"content", "index"} /\ pc' \in {"index", "done", "failed"}
    BY <1>16 DEF NoIndex, Fail, SkipIndex, NextIndex
  <2>2. BosStreams(file') = BosStreams(file)
    BY <2>1
  <2>3. QED
    BY <1>4, <2>1, <2>2
<1>17. QED
  BY <1>5, <1>6, <1>7, <1>8, <1>9, <1>10, <1>11, <1>12, <1>13, <1>14, <1>15, <1>16, Zenon DEF Next

LEMMA StepKinds ==
    ASSUME Inv, [Next]_vars
    PROVE  Kinds'
<1> USE DEF Inv
<1>0. /\ Len(file) \in Nat /\ file \in Seq(Cells) /\ content_offset \in Nat /\ option' = option
      /\ content_offset <= Len(file)
  BY TypeFacts, Constants DEF TypeOK
(* What is written before the content is not content.                          *)
<1>1. ASSUME NEW b, NEW stream, NEW kind, NEW data, Adds(b, stream, kind, data),
             kind \in {"bos", "header"}, pc \in Early
      PROVE  \A i \in 1 .. Len(file') : file'[i].kind # "content"
  <2>1. \A i \in 1 .. Len(file) : file[i].kind # "content"
    BY <1>1 DEF Kinds
  <2>2. /\ \A i \in 1 .. Len(file) : file'[i] = file[i]
        /\ \A i \in 1 .. Len(file') : ~(i <= Len(file)) => file'[i].kind = kind
        /\ Len(file') \in Nat
    BY <1>1, AddedIs
  <2>3. \A i \in 1 .. Len(file') : i <= Len(file) => i \in 1 .. Len(file)
    BY <1>0, <2>2
  <2>4. kind # "content"
    BY <1>1
  <2>5. QED
    BY <2>1, <2>2, <2>3, <2>4
<1>2. CASE UNCHANGED vars \/ Done
  <2>1. file' = file /\ pc' = pc /\ content_offset' = content_offset
    BY <1>2 DEF Done, vars
  <2>2. QED
    BY <1>0, <2>1 DEF Kinds
<1>3. CASE WriteFishead
  <2>1. pc = "fishead" /\ pc' \in {"fishead", "bos"}
    BY <1>3 DEF WriteFishead
  <2>2. pc \in Early /\ pc' \in Early
    BY <2>1 DEF Early
  <2>3. \A i \in 1 .. Len(file') : file'[i].kind # "content"
    BY <1>1, <1>3, <2>2, FisheadAdds
  <2>4. QED
    BY <2>2, <2>3 DEF Kinds
<1>4. CASE RewriteFishead
  <2>1. pc' \in Early
    BY <1>4 DEF RewriteFishead, Early
  <2>2. /\ Len(file') = 2
        /\ \A i \in 1 .. 2 : file'[i] = Cell(Skel, "bos", serialno + 1, 0, i, 2, <<4, -1, 0>>)
    BY <1>4, FisheadAgain
  <2>3. \A i \in 1 .. 2 : file'[i].kind = "bos"
    BY <2>2, CellIs
  <2>4. QED
    BY <2>1, <2>2, <2>3 DEF Kinds
<1>5. ASSUME NEW s \in Streams, WriteFirstPage(s) PROVE Kinds'
  <2>1. pc = "bos" /\ pc' \in {"bos", "headers", "fisbones"}
    BY <1>5 DEF WriteFirstPage
  <2>2. pc \in Early /\ pc' \in Early
    BY <2>1 DEF Early
  <2>3. \A i \in 1 .. Len(file') : file'[i].kind # "content"
    BY <1>1, <1>5, <2>2, FirstPageAdds
  <2>4. QED
    BY <2>2, <2>3 DEF Kinds
<1>6. CASE WriteFisbones
  <2>1. pc = "fisbones" /\ pc' = "headers"
    BY <1>6 DEF WriteFisbones
  <2>2. pc \in Early /\ pc' \in Early
    BY <2>1 DEF Early
  <2>3. \A i \in 1 .. Len(file') : file'[i].kind # "content"
    BY <1>1, <1>6, <2>2, FisbonesAdd
  <2>4. QED
    BY <2>2, <2>3 DEF Kinds
<1>7. ASSUME NEW s \in Streams, WriteHeaders(s) PROVE Kinds'
  <2>1. pc = "headers" /\ (pc' \in {"headers", "end", "placeholders"} \/ (pc' = "content" /\ option = "none"))
    BY <1>7, HeadersNext DEF WriteHeaders
  <2>2. pc \in Early /\ (pc' \in Early \/ (pc' \notin Early /\ option = "none"))
    BY <2>1 DEF Early
  <2>3. \A i \in 1 .. Len(file') : file'[i].kind # "content"
    BY <1>1, <1>7, <2>2, HeaderAdds
  <2>4. QED
    BY <1>0, <2>2, <2>3 DEF Kinds
<1>8. ASSUME NEW s \in Streams, WritePlaceholder(s) PROVE Kinds'
  <2>1. pc = "placeholders" /\ pc' \in {"end", "placeholders"}
    BY <1>8 DEF WritePlaceholder
  <2>2. pc \in Early /\ pc' \in Early
    BY <2>1 DEF Early
  <2>3. \A i \in 1 .. Len(file') : file'[i].kind # "content"
    BY <1>1, <1>8, <2>2, PlaceholderAdds
  <2>4. QED
    BY <2>2, <2>3 DEF Kinds
<1>9. CASE WriteEnd
  <2>1. pc = "end" /\ pc' = "content" /\ content_offset' = position'
    BY <1>9 DEF WriteEnd
  <2>2. pc \in Early /\ pc' \notin Early
    BY <2>1 DEF Early
  <2>3. \A i \in 1 .. Len(file') : file'[i].kind # "content"
    BY <1>1, <1>9, <2>2, EndAdds
  <2>4. position' = Len(file') /\ Len(file') \in Nat
    BY <1>9, EndAdds, AddedIs
  <2>5. QED
    BY <2>1, <2>2, <2>3, <2>4 DEF Kinds
<1>10. ASSUME NEW s \in Streams, WriteContent(s) PROVE Kinds'
  <2>1. pc = "content" /\ pc' = "content" /\ content_offset' = content_offset
    BY <1>10 DEF WriteContent
  <2>2. pc \notin Early /\ pc' \notin Early
    BY <2>1 DEF Early
  <2>3. Adds(Page(s, "content", Serial(s), 2, 1, << >>), s, "content", << >>)
    BY <1>10, ContentAdds
  <2>4. /\ \A i \in 1 .. Len(file) : file'[i] = file[i]
        /\ \A i \in 1 .. Len(file') : ~(i <= Len(file)) => file'[i].kind = "content"
        /\ Len(file') \in Nat /\ Len(file) <= Len(file')
    BY <2>3, AddedIs, FileGrows
  <2>5. ASSUME option # "none", NEW i \in 1 .. Len(file')
        PROVE  file'[i].kind # "content" <=> i <= content_offset
    <3>1. CASE i <= Len(file)
      <4>1. i \in 1 .. Len(file)
        BY <1>0, <2>4, <3>1
      <4>2. QED
        BY <2>2, <2>4, <2>5, <4>1 DEF Kinds
    <3>2. CASE ~(i <= Len(file))
      BY <1>0, <2>4, <3>2
    <3>3. QED
      BY <3>1, <3>2
  <2>6. content_offset <= Len(file')
    BY <1>0, <2>4
  <2>7. QED
    BY <1>0, <2>1, <2>2, <2>5, <2>6 DEF Kinds
(* Past it no kind changes.                                                    *)
<1>11. ASSUME pc \notin Early, pc' \notin Early, content_offset' = content_offset,
              file' = file \/ \E at, b : Renewed(at, b)
       PROVE  Kinds'
  <2>1. Len(file') = Len(file) /\ \A i \in 1 .. Len(file) : file'[i].kind = file[i].kind
    <3>1. CASE file' = file
      BY <3>1
    <3>2. CASE \E at, b : Renewed(at, b)
      BY <1>0, <3>2, RenewedIs
    <3>3. QED
      BY <1>11, <3>1, <3>2
  <2>2. QED
    BY <1>0, <1>11, <2>1 DEF Kinds
<1>12. CASE NoIndex \/ Fail \/ \E s \in Streams : SkipIndex(s)
  <2>1. /\ file' = file /\ pc \in {"content", "index"} /\ pc' \in {"index", "done", "failed"}
        /\ content_offset' = content_offset
    BY <1>12 DEF NoIndex, Fail, SkipIndex, NextIndex
  <2>2. pc \notin Early /\ pc' \notin Early
    BY <2>1 DEF Early
  <2>3. QED
    BY <1>11, <2>1, <2>2
<1>13. CASE RewriteBOS
  <2>1. \E at, b : Renewed(at, b)
    BY <1>13, BosRenewed, Zenon
  <2>2. pc \notin Early /\ pc' \notin Early /\ content_offset' = content_offset
    BY <1>13 DEF RewriteBOS, Early
  <2>3. QED
    BY <1>11, <2>1, <2>2
<1>14. ASSUME NEW s \in Streams, RewriteIndex(s) PROVE Kinds'
  <2>1. \E at, b : Renewed(at, b)
    BY <1>14, IndexRenewed, Zenon
  <2>2. pc \notin Early /\ pc' \notin Early /\ content_offset' = content_offset
    BY <1>14 DEF RewriteIndex, NextIndex, Early
  <2>3. QED
    BY <1>11, <2>1, <2>2
<1>15. QED
  BY <1>2, <1>3, <1>4, <1>5, <1>6, <1>7, <1>8, <1>9, <1>10, <1>12, <1>13, <1>14, Zenon DEF Next

LEMMA StepHeaded ==
    ASSUME Inv, [Next]_vars
    PROVE  Headed'
<1> USE DEF Inv
<1>0. Len(file) \in Nat /\ option' = option /\ skeleton_3 \in BOOLEAN
  BY TypeFacts, Constants DEF TypeOK
(* As long as its cells stay and tell the truth at the end.                    *)
<1>1. ASSUME pc # "fishead", Len(file) <= Len(file'), Len(file') \in Nat,
             \A i \in 1 .. Len(file) : i <= 2 => file'[i] = file[i],
             serialno' = serialno, skeleton_3' = skeleton_3,
             \/ pc' \notin {"index", "done"} \/ skeleton_3
             \/ pc \in {"index", "done"} /\ Len(file') = Len(file) /\ content_offset' = content_offset
      PROVE  Headed'
  <2> SUFFICES ASSUME option # "none"
               PROVE  IF skeleton_3
                      THEN /\ Len(file') >= 1
                           /\ file'[1] = Cell(Skel, "bos", serialno, 0, 1, 1, <<3, 0, 0>>)
                      ELSE /\ Len(file') >= 2
                           /\ \E l, o \in Int :
                                 /\ \A i \in 1 .. 2 :
                                       file'[i] = Cell(Skel, "bos", serialno, 0, i, 2, <<4, l, o>>)
                                 /\ pc' \in {"index", "done"} => l = Len(file') /\ o = content_offset'
    BY <1>0, <1>1 DEF Headed
  <2>1. CASE skeleton_3
    <3>1. Len(file) >= 1 /\ file[1] = Cell(Skel, "bos", serialno, 0, 1, 1, <<3, 0, 0>>)
      BY <1>1, <2>1 DEF Headed
    <3>2. 1 \in 1 .. Len(file) /\ 1 <= 2 /\ Len(file') >= 1
      BY <1>0, <1>1, <3>1
    <3>3. file'[1] = file[1]
      BY <1>1, <3>2
    <3>4. QED
      BY <2>1, <3>1, <3>2, <3>3
  <2>2. CASE ~skeleton_3
    <3>1. /\ Len(file) >= 2
          /\ \E l, o \in Int :
                /\ \A i \in 1 .. 2 : file[i] = Cell(Skel, "bos", serialno, 0, i, 2, <<4, l, o>>)
                /\ pc \in {"index", "done"} => l = Len(file) /\ o = content_offset
      BY <1>1, <2>2 DEF Headed
    <3>2. PICK l \in Int, o \in Int :
             /\ \A i \in 1 .. 2 : file[i] = Cell(Skel, "bos", serialno, 0, i, 2, <<4, l, o>>)
             /\ pc \in {"index", "done"} => l = Len(file) /\ o = content_offset
      BY <3>1
    <3>3. Len(file') >= 2 /\ \A i \in 1 .. 2 : i \in 1 .. Len(file) /\ i <= 2
      BY <1>0, <1>1, <3>1
    <3>4. \A i \in 1 .. 2 : file'[i] = Cell(Skel, "bos", serialno, 0, i, 2, <<4, l, o>>)
      <4>1. \A i \in 1 .. 2 : file'[i] = file[i]
        BY <1>1, <3>3
      <4>2. QED
        BY <3>2, <4>1
    <3>5. pc' \in {"index", "done"} => l = Len(file') /\ o = content_offset'
      BY <1>1, <2>2, <3>2
    <3>6. QED
      BY <2>2, <3>3, <3>4, <3>5
  <2>3. QED
    BY <2>1, <2>2
<1>2. ASSUME pc # "fishead", \E b, stream, kind, data : Adds(b, stream, kind, data),
             skeleton_3' = skeleton_3, pc' \notin {"index", "done"}
      PROVE  Headed'
  <2>1. \A i \in 1 .. Len(file) : file'[i] = file[i]
    BY <1>2, AddedIs
  <2>2. Len(file) <= Len(file') /\ Len(file') \in Nat /\ serialno' = serialno
    BY <1>2, FileGrows, Constants DEF RewriteFishead
  <2>3. QED
    BY <1>1, <1>2, <2>1, <2>2
<1>3. CASE UNCHANGED vars \/ Done
  <2>1. /\ file' = file /\ pc' = pc /\ content_offset' = content_offset
        /\ serialno' = serialno /\ skeleton_3' = skeleton_3
    BY <1>3 DEF Done, vars, so
  <2>2. QED
    BY <1>0, <2>1 DEF Headed
<1>4. CASE WriteFishead
  <2> SUFFICES ASSUME pc' # "fishead"
               PROVE  Headed'
    BY DEF Headed
  <2>1. skeleton_3' /\ serialno' = serialno
    BY <1>4 DEF WriteFishead
  <2>2. /\ file = << >> /\ Adds(Fishead(3, serialno, 0, 0), Skel, "bos", <<3, 0, 0>>)
    BY <1>4, FisheadAdds
  <2>3. file' = Fishead(3, serialno, 0, 0)
    <3>1. Fishead(3, serialno, 0, 0) \in Seq(Cells)
      BY <2>2, AddedIs
    <3>2. Appends(<< >>, Fishead(3, serialno, 0, 0), file')
      BY <2>2 DEF Adds
    <3>3. QED
      BY <3>1, <3>2, AppendFirst
  <2>4. /\ Len(file') = 1
        /\ file' = [i \in 1 .. 1 |-> Cell(Skel, "bos", serialno, 0, i, 1, <<3, 0, 0>>)]
    <3>1. serialno \in Nat /\ 0 \in Int /\ 3 \in {3, 4}
      BY TypeFacts
    <3>2. QED
      BY <2>3, <3>1, FisheadIs
  <2>5. file'[1] = Cell(Skel, "bos", serialno, 0, 1, 1, <<3, 0, 0>>)
    BY <2>4
  <2>6. QED
    BY <2>1, <2>4, <2>5 DEF Headed
<1>5. CASE RewriteFishead
  <2>1. /\ Len(file') = 2 /\ ~skeleton_3
        /\ \A i \in 1 .. 2 : file'[i] = Cell(Skel, "bos", serialno + 1, 0, i, 2, <<4, -1, 0>>)
    BY <1>5, FisheadAgain
  <2>2. skeleton_3' = skeleton_3 /\ serialno' = serialno + 1 /\ pc' = "bos"
    BY <1>5 DEF RewriteFishead
  <2>3. \E l, o \in Int : \A i \in 1 .. 2 : file'[i] = Cell(Skel, "bos", serialno', 0, i, 2, <<4, l, o>>)
    <3>1. -1 \in Int /\ 0 \in Int
      OBVIOUS
    <3>2. \A i \in 1 .. 2 : file'[i] = Cell(Skel, "bos", serialno', 0, i, 2, <<4, -1, 0>>)
      BY <2>1, <2>2
    <3>3. QED
      BY <3>1, <3>2
  <2>4. \E l, o \in Int :
           /\ \A i \in 1 .. 2 : file'[i] = Cell(Skel, "bos", serialno', 0, i, 2, <<4, l, o>>)
           /\ pc' \in {"index", "done"} => l = Len(file') /\ o = content_offset'
    <3>1. pc' \notin {"index", "done"}
      BY <2>2
    <3>2. QED
      BY <2>3, <3>1
  <2>5. Len(file') >= 2 /\ ~skeleton_3'
    BY <2>1, <2>2
  <2>6. QED
    BY <2>4, <2>5, Zenon DEF Headed
<1>6. ASSUME NEW s \in Streams, WriteFirstPage(s) PROVE Headed'
  <2>1. \E b, stream, kind, data : Adds(b, stream, kind, data)
    BY <1>6, FirstPageAdds, Zenon
  <2>2. pc # "fishead" /\ skeleton_3' = skeleton_3 /\ pc' \notin {"index", "done"}
    BY <1>6 DEF WriteFirstPage
  <2>3. QED
    BY <1>2, <2>1, <2>2
<1>7. CASE WriteFisbones
  <2>1. \E b, stream, kind, data : Adds(b, stream, kind, data)
    BY <1>7, FisbonesAdd, Zenon
  <2>2. pc # "fishead" /\ skeleton_3' = skeleton_3 /\ pc' \notin {"index", "done"}
    BY <1>7 DEF WriteFisbones
  <2>3. QED
    BY <1>2, <2>1, <2>2
<1>8. ASSUME NEW s \in Streams, WriteHeaders(s) PROVE Headed'
  <2>1. \E b, stream, kind, data : Adds(b, stream, kind, data)
    BY <1>8, HeaderAdds, Zenon
  <2>2. pc # "fishead" /\ skeleton_3' = skeleton_3
    BY <1>8 DEF WriteHeaders
  <2>3. pc' \notin {"index", "done"}
    BY <1>8, HeadersNext
  <2>4. QED
    BY <1>2, <2>1, <2>2, <2>3
<1>9. ASSUME NEW s \in Streams, WritePlaceholder(s) PROVE Headed'
  <2>1. \E b, stream, kind, data : Adds(b, stream, kind, data)
    BY <1>9, PlaceholderAdds, Zenon
  <2>2. pc # "fishead" /\ skeleton_3' = skeleton_3 /\ pc' \notin {"index", "done"}
    BY <1>9 DEF WritePlaceholder
  <2>3. QED
    BY <1>2, <2>1, <2>2
<1>10. CASE WriteEnd
  <2>1. \E b, stream, kind, data : Adds(b, stream, kind, data)
    BY <1>10, EndAdds, Zenon
  <2>2. pc # "fishead" /\ skeleton_3' = skeleton_3 /\ pc' \notin {"index", "done"}
    BY <1>10 DEF WriteEnd
  <2>3. QED
    BY <1>2, <2>1, <2>2
<1>11. ASSUME NEW s \in Streams, WriteContent(s) PROVE Headed'
  <2>1. \E b, stream, kind, data : Adds(b, stream, kind, data)
    BY <1>11, ContentAdds, Zenon
  <2>2. pc # "fishead" /\ skeleton_3' = skeleton_3 /\ pc' \notin {"index", "done"}
    BY <1>11 DEF WriteContent
  <2>3. QED
    BY <1>2, <2>1, <2>2
<1>12. CASE NoIndex \/ Fail \/ \E s \in Streams : SkipIndex(s)
  <2>1. /\ file' = file /\ pc \in {"content", "index"} /\ content_offset' = content_offset
        /\ serialno' = serialno /\ skeleton_3' = skeleton_3
        /\ pc' \notin {"index", "done"} \/ (pc = "content" /\ ~Indexing) \/ pc = "index"
    BY <1>12 DEF NoIndex, Fail, SkipIndex, NextIndex, so
  <2>2. CASE option = "none"
    BY <1>0, <2>2 DEF Headed
  <2>3. CASE option # "none"
    <3>1. pc' \notin {"index", "done"} \/ skeleton_3 \/ pc \in {"index", "done"}
      BY <2>1, <2>3 DEF Indexing
    <3>2. QED
      BY <1>0, <1>1, <2>1, <3>1
  <2>4. QED
    BY <2>2, <2>3
<1>13. CASE RewriteBOS
  <2>1. /\ Len(file) >= 2
        /\ \A i \in 1 .. 2 : file'[i] = Cell(Skel, "bos", serialno, 0, i, 2,
                                             <<4, Len(file), content_offset>>)
        /\ Renewed(0, Fishead(4, serialno, Len(file), content_offset))
    BY <1>13, BosRenewed
  <2>2. Len(file') = Len(file)
    BY <2>1, RenewedIs, TypeFacts
  <2>3. /\ serialno' = serialno /\ skeleton_3' = skeleton_3 /\ content_offset' = content_offset
        /\ ~skeleton_3
    BY <1>13 DEF RewriteBOS, Indexing
  <2>4. Len(file') \in Int /\ content_offset' \in Int
    BY <2>2, <2>3, TypeFacts
  <2>5. \A i \in 1 .. 2 : file'[i] = Cell(Skel, "bos", serialno', 0, i, 2,
                                          <<4, Len(file'), content_offset'>>)
    BY <2>1, <2>2, <2>3
  <2>6. \E l, o \in Int :
           /\ \A i \in 1 .. 2 : file'[i] = Cell(Skel, "bos", serialno', 0, i, 2, <<4, l, o>>)
           /\ l = Len(file') /\ o = content_offset'
    BY <2>4, <2>5
  <2>7. QED
    BY <2>1, <2>2, <2>3, <2>6 DEF Headed
<1>14. ASSUME NEW s \in Streams, RewriteIndex(s) PROVE Headed'
  <2> DEFINE at == page_location[s]
             n == packet_size[s]
             b == FlushLoop(n, serialno, pageno, <<s, 1>>)
  <2>1. /\ s \in present /\ Placed(s) /\ Renewed(at, b) /\ Len(b) = n
    BY <1>14, IndexRenewed
  <2>2. /\ pc = "index" /\ serialno' = serialno /\ skeleton_3' = skeleton_3
        /\ content_offset' = content_offset
    BY <1>14 DEF RewriteIndex
  <2>3. Len(file') = Len(file)
    BY <2>1, RenewedIs, TypeFacts
  <2>4. \A i \in 1 .. Len(file) : i \notin at + 1 .. at + n => file'[i] = file[i]
    BY <2>1 DEF Renewed, Over
  <2>5. option # "none" /\ ~skeleton_3
    BY <2>2 DEF Control, Indexing
  <2>6. PICK l \in Int, o \in Int :
           \A i \in 1 .. 2 : file[i] = Cell(Skel, "bos", serialno, 0, i, 2, <<4, l, o>>)
    BY <2>2, <2>5 DEF Headed
  <2> DEFINE d == <<4, l, o>>
  <2>7. Len(d) = 3
    OBVIOUS
  <2>8. \A i \in 1 .. 2 : file[i].data = d
    BY <2>6, CellIs
  <2> HIDE DEF d
  <2>9. \A i \in 1 .. Len(file) : i <= 2 => file'[i] = file[i]
    <3> SUFFICES ASSUME NEW i \in 1 .. Len(file), i <= 2 PROVE file'[i] = file[i]
      OBVIOUS
    <3>1. Len(file[i].data) = 3
      <4>1. i \in 1 .. 2
        BY <1>0
      <4>2. QED
        BY <2>7, <2>8, <4>1
    <3>2. i \notin at + 1 .. at + n
      <4>1. Placed(s) /\ InRegion(s, i) <=> Len(file[i].data) = 2 /\ file[i].data[1] = s
        BY <2>1 DEF Located, PlaceMarks
      <4>2. ~InRegion(s, i)
        BY <2>1, <3>1, <4>1
      <4>3. QED
        BY <4>2 DEF InRegion
    <3>3. QED
      BY <2>4, <3>2
  <2>10. QED
    BY <1>0, <1>1, <2>2, <2>3, <2>9
<1>15. QED
  BY <1>3, <1>4, <1>5, <1>6, <1>7, <1>8, <1>9, <1>10, <1>11, <1>12, <1>13, <1>14, Zenon DEF Next

-----------------------------------------------------------------------------
(* The pages of the index stay where they are. *)

LEMMA LocationKept ==
    ASSUME [Next]_vars, ~\E s \in Streams : WritePlaceholder(s)
    PROVE  page_location' = page_location
<1>1. CASE UNCHANGED vars \/ Done
  BY <1>1 DEF Done, vars, index
<1>2. CASE WriteFishead \/ RewriteFishead \/ WriteFisbones \/ WriteEnd
  BY <1>2 DEF WriteFishead, RewriteFishead, WriteFisbones, WriteEnd, index
<1>3. CASE \E s \in Streams : WriteFirstPage(s)
  BY <1>3 DEF WriteFirstPage, index
<1>4. CASE \E s \in Streams : WriteHeaders(s)
  BY <1>4 DEF WriteHeaders, index
<1>5. CASE \E s \in Streams : WriteContent(s)
  BY <1>5 DEF WriteContent, index
<1>6. CASE \E s \in Streams : RewriteIndex(s)
  BY <1>6 DEF RewriteIndex, index
<1>7. CASE \E s \in Streams : SkipIndex(s)
  BY <1>7 DEF SkipIndex, index
<1>8. CASE NoIndex \/ RewriteBOS \/ Fail
  BY <1>8 DEF NoIndex, RewriteBOS, Fail, index
<1>9. QED
  BY <1>1, <1>2, <1>3, <1>4, <1>5, <1>6, <1>7, <1>8 DEF Next

(* Only write_index_pages makes a placeholder an index.                        *)
LEMMA FinalKept ==
    ASSUME Inv, [Next]_vars, NEW r \in present, ~RewriteIndex(r)
    PROVE  Final(r)' = Final(r)
<1> USE DEF Inv
<1>1. SUFFICES r \in indexed' \ todo' <=> r \in indexed \ todo
  BY <1>1 DEF Final
<1>2. /\ pc \in Early => indexed = {}
      /\ pc = "content" => todo = present
  BY DEF Control
<1>3. CASE UNCHANGED vars \/ Done
  BY <1>3 DEF Done, vars
<1>4. CASE WriteFishead \/ RewriteFishead \/ WriteFisbones \/ WriteEnd
  <2>1. pc \in Early /\ indexed' = indexed
    BY <1>4 DEF WriteFishead, RewriteFishead, WriteFisbones, WriteEnd, Early
  <2>2. QED
    BY <1>2, <2>1
<1>5. CASE \E s \in Streams : WriteFirstPage(s) \/ WriteHeaders(s) \/ WritePlaceholder(s)
  <2>1. pc \in Early /\ indexed' = indexed
    BY <1>5 DEF WriteFirstPage, WriteHeaders, WritePlaceholder, Early
  <2>2. QED
    BY <1>2, <2>1
<1>6. CASE \E s \in Streams : WriteContent(s)
  <2>1. pc = "content" /\ todo' = todo
    BY <1>6 DEF WriteContent
  <2>2. QED
    BY <1>2, <2>1
<1>7. ASSUME NEW s \in Streams, RewriteIndex(s) PROVE r \in indexed' \ todo' <=> r \in indexed \ todo
  <2>1. r # s
    BY <1>7
  <2>2. indexed' = indexed /\ todo' = todo \ {s}
    BY <1>7 DEF RewriteIndex
  <2>3. QED
    BY <2>1, <2>2
<1>8. ASSUME NEW s \in Streams, SkipIndex(s) PROVE r \in indexed' \ todo' <=> r \in indexed \ todo
  BY <1>8 DEF SkipIndex
<1>9. CASE NoIndex \/ Fail
  BY <1>9 DEF NoIndex, Fail
<1>10. CASE RewriteBOS
  <2>1. pc = "content" /\ todo' = present
    BY <1>10 DEF RewriteBOS
  <2>2. QED
    BY <1>2, <2>1
<1>11. QED
  BY <1>3, <1>4, <1>5, <1>6, <1>7, <1>8, <1>9, <1>10 DEF Next

(* The writes, told apart by what they do to the pages of the index.           *)
LEMMA WriteCases ==
    ASSUME Inv, [Next]_vars
    PROVE  \/ \E b, stream, kind, data : Len(data) # 2 /\ Adds(b, stream, kind, data)
           \/ RewriteFishead
           \/ \E s \in Streams : WritePlaceholder(s)
           \/ RewriteBOS
           \/ \E s \in Streams : RewriteIndex(s)
           \/ file' = file
<1> USE DEF Inv
<1>0. Len(<< >>) # 2 /\ Len(<<3, 0, 0>>) # 2
  OBVIOUS
<1>1. CASE UNCHANGED vars \/ Done
  BY <1>1 DEF Done, vars
<1>2. CASE WriteFishead
  BY <1>0, <1>2, FisheadAdds, Zenon
<1>3. CASE WriteFisbones
  BY <1>0, <1>3, FisbonesAdd, Zenon
<1>4. CASE WriteEnd
  BY <1>0, <1>4, EndAdds, Zenon
<1>5. ASSUME NEW s \in Streams, WriteFirstPage(s)
      PROVE  \E b, stream, kind, data : Len(data) # 2 /\ Adds(b, stream, kind, data)
  BY <1>0, <1>5, FirstPageAdds, Zenon
<1>6. ASSUME NEW s \in Streams, WriteHeaders(s)
      PROVE  \E b, stream, kind, data : Len(data) # 2 /\ Adds(b, stream, kind, data)
  BY <1>0, <1>6, HeaderAdds, Zenon
<1>7. ASSUME NEW s \in Streams, WriteContent(s)
      PROVE  \E b, stream, kind, data : Len(data) # 2 /\ Adds(b, stream, kind, data)
  BY <1>0, <1>7, ContentAdds, Zenon
<1>8. CASE NoIndex \/ Fail \/ \E s \in Streams : SkipIndex(s)
  BY <1>8 DEF NoIndex, Fail, SkipIndex
<1>9. QED
  BY <1>1, <1>2, <1>3, <1>4, <1>5, <1>6, <1>7, <1>8, Zenon DEF Next

LEMMA StepPlacedWhen ==
    ASSUME Inv, [Next]_vars, NEW r \in present
    PROVE  PlacedWhen(r)'
<1> USE DEF Inv
<1> DEFINE Late(part, left) == \/ part \in {"end", "content", "index", "done", "failed"}
                               \/ part = "placeholders" /\ r \notin left
<1>0. /\ option' = option /\ skeleton_3 \in BOOLEAN
      /\ (Indexing <=> option # "none" /\ ~skeleton_3)
      /\ (Indexing' <=> option # "none" /\ ~skeleton_3')
      /\ pc \in {"placeholders", "index", "failed"} => Indexing
      /\ Placed(r) <=> Indexing /\ Late(pc, todo)
      /\ Placed(r)' <=> page_location'[r] > 0
      /\ Placed(r) <=> page_location[r] > 0
  BY Constants DEF Indexing, TypeOK, Control, Located, PlacedWhen, Placed
<1>1. SUFFICES page_location'[r] > 0 <=> Indexing' /\ Late(pc', todo')
  BY <1>0 DEF PlacedWhen
<1>2. ASSUME NEW s \in Streams, WritePlaceholder(s)
      PROVE  page_location'[r] > 0 <=> Indexing' /\ Late(pc', todo')
  <2>1. s \in present /\ s \in todo /\ Indexing
    BY <1>2, PlaceholderAdds
  <2>2. /\ pc = "placeholders" /\ page_location' = [page_location EXCEPT ![s] = position]
        /\ todo' = (IF todo = {s} THEN present ELSE todo \ {s})
        /\ pc' = (IF todo = {s} THEN "end" ELSE "placeholders") /\ skeleton_3' = skeleton_3
    BY <1>2 DEF WritePlaceholder
  <2>3. page_location \in [present -> 0 .. Len(file)]
    BY DEF TypeOK
  <2>4. CASE r = s
    <3>1. page_location'[r] = position
      BY <2>1, <2>2, <2>3, <2>4
    <3>2. position = Len(file) /\ file # << >>
      BY <1>0, <2>1, <2>2 DEF Control, Early
    <3>3. Len(file) \in Nat /\ Len(file) # 0
      BY <3>2, TypeFacts
    <3>4. QED
      BY <1>0, <2>1, <2>2, <2>4, <3>1, <3>2, <3>3
  <2>5. CASE r # s
    <3>1. page_location'[r] = page_location[r]
      BY <2>1, <2>2, <2>3, <2>5
    <3>2. QED
      BY <1>0, <2>1, <2>2, <2>5, <3>1
  <2>6. QED
    BY <2>4, <2>5
<1>3. CASE ~\E s \in Streams : WritePlaceholder(s)
  <2>1. page_location' = page_location
    BY <1>3, LocationKept
  <2>2. SUFFICES (Indexing' /\ Late(pc', todo')) <=> (Indexing /\ Late(pc, todo))
    BY <1>0, <2>1
  <2> HIDE DEF Late
  <2>3. \A part, left : part \in {"fishead", "bos", "fisbones", "headers"} => ~Late(part, left)
    BY DEF Late
  <2>4. \A part, left : part \in {"end", "content", "index", "done", "failed"} => Late(part, left)
    BY DEF Late
  <2>5. CASE UNCHANGED vars \/ Done
    BY <1>0, <2>5 DEF Done, vars
  <2>6. CASE WriteFishead \/ RewriteFishead \/ WriteFisbones
    <3>1. /\ pc \in {"fishead", "bos", "fisbones", "headers"}
          /\ pc' \in {"fishead", "bos", "fisbones", "headers"}
      BY <2>6 DEF WriteFishead, RewriteFishead, WriteFisbones
    <3>2. QED
      BY <2>3, <3>1
  <2>7. CASE \E s \in Streams : WriteFirstPage(s)
    <3>1. /\ pc \in {"fishead", "bos", "fisbones", "headers"}
          /\ pc' \in {"fishead", "bos", "fisbones", "headers"}
      BY <2>7 DEF WriteFirstPage
    <3>2. QED
      BY <2>3, <3>1
  <2>8. ASSUME NEW s \in Streams, WriteHeaders(s)
        PROVE  (Indexing' /\ Late(pc', todo')) <=> (Indexing /\ Late(pc, todo))
    <3>1. /\ pc = "headers" /\ todo' = (IF todo = {s} THEN present ELSE todo \ {s})
          /\ skeleton_3' = skeleton_3
      BY <2>8 DEF WriteHeaders
    <3>2. pc' = (IF todo # {s} THEN "headers" ELSE IF option = "none" THEN "content"
                 ELSE IF skeleton_3 THEN "end" ELSE "placeholders")
      BY <2>8, HeadersNext
    <3>3. ~Late(pc, todo)
      BY <2>3, <3>1
    <3>4. ~Indexing' \/ pc' = "headers" \/ (pc' = "placeholders" /\ todo' = present)
      BY <1>0, <3>1, <3>2
    <3>5. ~Late("placeholders", present)
      BY DEF Late
    <3>6. QED
      BY <2>3, <3>3, <3>4, <3>5
  <2>9. CASE WriteEnd \/ (\E s \in Streams : WriteContent(s) \/ RewriteIndex(s) \/ SkipIndex(s))
             \/ NoIndex \/ RewriteBOS \/ Fail
    <3>1. /\ pc \in {"end", "content", "index", "done", "failed"}
          /\ pc' \in {"end", "content", "index", "done", "failed"}
          /\ skeleton_3' = skeleton_3
      BY <2>9 DEF WriteEnd, WriteContent, RewriteIndex, SkipIndex, NextIndex, NoIndex, RewriteBOS, Fail
    <3>2. QED
      BY <1>0, <2>4, <3>1
  <2>10. QED
    BY <1>3, <2>5, <2>6, <2>7, <2>8, <2>9 DEF Next
<1>4. QED
  BY <1>2, <1>3

(* The pages of the others stay as WritePlaceholder appends those of s.        *)
LEMMA PlaceholderPlaces ==
    ASSUME Inv, [Next]_vars, NEW s \in Streams, WritePlaceholder(s), NEW r \in present
    PROVE  /\ s \in present /\ Indexing /\ ~Placed(s)
           /\ r = s => page_location'[r] = Len(file) /\ Placed(r)'
           /\ r # s => page_location'[r] = page_location[r] /\ (Placed(r)' <=> Placed(r))
           /\ Len(file') = Len(file) + packet_size[s]
           /\ \A i \in 1 .. Len(file) : file'[i] = file[i]
           /\ \A i \in 1 .. Len(file') : ~(i <= Len(file)) =>
                 Len(file'[i].data) = 2 /\ file'[i].data[1] = s
           /\ \A i \in 1 .. packet_size[s] : file'[Len(file) + i] =
                 FlushLoop(packet_size[s], serialno, pageno, <<s, 0>>)[i]
<1> USE DEF Inv
<1>1. /\ s \in present /\ s \in todo /\ Indexing
      /\ Len(FlushLoop(packet_size[s], serialno, pageno, <<s, 0>>)) = packet_size[s]
  BY PlaceholderAdds
<1>2. /\ pc = "placeholders" /\ page_location' = [page_location EXCEPT ![s] = position]
  BY DEF WritePlaceholder
<1>3. position = Len(file) /\ page_location \in [present -> 0 .. Len(file)]
  BY <1>2 DEF Control, Early, TypeOK
<1>4. ~Placed(s)
  BY <1>1, <1>2 DEF Located, PlacedWhen
<1>5. r # s => page_location'[r] = page_location[r] /\ (Placed(r)' <=> Placed(r))
  BY <1>1, <1>2, <1>3 DEF Placed
<1>6. r = s => page_location'[r] = Len(file)
  BY <1>1, <1>2, <1>3
<1>7. r = s => Placed(r)'
  <2>1. Len(file) \in Nat /\ file # << >>
    BY <1>1, <1>2, TypeFacts DEF Control, Indexing
  <2>2. Len(file) > 0
    <3>1. Len(file) # 0
      BY <2>1, TypeFacts
    <3>2. QED
      BY <2>1, <3>1
  <2>3. QED
    BY <1>6, <2>2 DEF Placed
<1> DEFINE data == <<s, 0>>
           b == FlushLoop(packet_size[s], serialno, pageno, data)
<1>8. Adds(b, Skel, "header", data) /\ Len(b) = packet_size[s]
  BY PlaceholderAdds
<1>9. Len(data) = 2 /\ data[1] = s
  OBVIOUS
<1>10. \A k \in 1 .. Len(b) : file'[Len(file) + k] = b[k]
  BY <1>8 DEF Adds, Appends
<1> HIDE DEF data
<1>11. /\ Len(file') = Len(file) + Len(b)
       /\ \A i \in 1 .. Len(file) : file'[i] = file[i]
       /\ \A i \in 1 .. Len(file') : ~(i <= Len(file)) => file'[i].data = data
  BY <1>8, AddedIs
<1>12. \A i \in 1 .. Len(file') : ~(i <= Len(file)) =>
          Len(file'[i].data) = 2 /\ file'[i].data[1] = s
  BY <1>9, <1>11
<1> HIDE DEF b
<1>13. \A i \in 1 .. packet_size[s] : file'[Len(file) + i] = b[i]
  BY <1>8, <1>10
<1>14. QED
  BY <1>1, <1>4, <1>5, <1>6, <1>7, <1>8, <1>11, <1>12, <1>13, Zenon DEF b, data

LEMMA StepPlaceFits ==
    ASSUME Inv, [Next]_vars, NEW r \in present
    PROVE  PlaceFits(r)'
<1> USE DEF Inv
<1>1. /\ packet_size' = packet_size /\ packet_size[r] \in Nat /\ page_location[r] \in Nat
      /\ Len(file) \in Nat /\ Len(file') \in Nat /\ Len(file) <= Len(file')
      /\ page_location[r] + (IF Placed(r) THEN packet_size[r] ELSE 0) <= Len(file)
  BY Constants, TypeFacts, FileGrows DEF Located, PlaceFits
<1>2. ASSUME page_location'[r] = page_location[r], Placed(r)' <=> Placed(r) PROVE PlaceFits(r)'
  <2>1. page_location[r] + (IF Placed(r) THEN packet_size[r] ELSE 0) <= Len(file')
    BY <1>1
  <2>2. QED
    BY <1>1, <1>2, <2>1 DEF PlaceFits
<1>3. ASSUME NEW s \in Streams, WritePlaceholder(s) PROVE PlaceFits(r)'
  <2>1. CASE r = s
    <3>1. /\ page_location'[r] = Len(file) /\ Placed(r)' /\ Len(file') = Len(file) + packet_size[r]
      BY <1>3, <2>1, PlaceholderPlaces
    <3>2. QED
      BY <1>1, <3>1 DEF PlaceFits
  <2>2. CASE r # s
    BY <1>2, <1>3, <2>2, PlaceholderPlaces
  <2>3. QED
    BY <2>1, <2>2
<1>4. CASE ~\E s \in Streams : WritePlaceholder(s)
  <2>1. page_location' = page_location
    BY <1>4, LocationKept
  <2>2. Placed(r)' <=> Placed(r)
    BY <2>1 DEF Placed
  <2>3. QED
    BY <1>2, <2>1, <2>2
<1>5. QED
  BY <1>3, <1>4

LEMMA StepPlaceMarks ==
    ASSUME Inv, [Next]_vars, NEW r \in present
    PROVE  PlaceMarks(r)'
<1> USE DEF Inv
<1>1. /\ packet_size' = packet_size /\ packet_size[r] \in Nat /\ page_location[r] \in Nat
      /\ Len(file) \in Nat /\ Len(file') \in Nat /\ Len(file) <= Len(file') /\ file \in Seq(Cells)
      /\ Placed(r) => page_location[r] + packet_size[r] <= Len(file)
      /\ \A i \in 1 .. Len(file) :
            Placed(r) /\ InRegion(r, i) <=> Len(file[i].data) = 2 /\ file[i].data[1] = r
  BY Constants, TypeFacts, FileGrows DEF Located, PlaceFits, PlaceMarks
<1>2. SUFFICES ASSUME NEW i \in 1 .. Len(file')
               PROVE  Placed(r)' /\ i \in page_location'[r] + 1 .. page_location'[r] + packet_size[r]
                        <=> Len(file'[i].data) = 2 /\ file'[i].data[1] = r
  BY <1>1 DEF PlaceMarks, InRegion
<1>3. ASSUME NEW s \in Streams, WritePlaceholder(s)
      PROVE  Placed(r)' /\ i \in page_location'[r] + 1 .. page_location'[r] + packet_size[r]
                <=> Len(file'[i].data) = 2 /\ file'[i].data[1] = r
  <2>1. /\ s \in present /\ Indexing /\ ~Placed(s)
        /\ r = s => page_location'[r] = Len(file) /\ Placed(r)'
        /\ r # s => page_location'[r] = page_location[r] /\ (Placed(r)' <=> Placed(r))
        /\ Len(file') = Len(file) + packet_size[s]
        /\ \A j \in 1 .. Len(file) : file'[j] = file[j]
        /\ \A j \in 1 .. Len(file') : ~(j <= Len(file)) =>
              Len(file'[j].data) = 2 /\ file'[j].data[1] = s
    BY <1>3, PlaceholderPlaces
  <2>2. CASE i <= Len(file)
    <3>1. i \in 1 .. Len(file)
      BY <1>1, <2>2
    <3>2. file'[i] = file[i]
      BY <2>1, <3>1
    <3>3. CASE r = s
      <4>1. ~(Len(file[i].data) = 2 /\ file[i].data[1] = r)
        BY <1>1, <2>1, <3>1, <3>3
      <4>2. i \notin Len(file) + 1 .. Len(file) + packet_size[r]
        BY <1>1, <3>1
      <4>3. QED
        BY <2>1, <3>2, <3>3, <4>1, <4>2
    <3>4. CASE r # s
      BY <1>1, <2>1, <3>1, <3>2, <3>4 DEF InRegion
    <3>5. QED
      BY <3>3, <3>4
  <2>3. CASE ~(i <= Len(file))
    <3>1. Len(file'[i].data) = 2 /\ file'[i].data[1] = s
      BY <2>1, <2>3
    <3>2. CASE r = s
      <4>1. i \in Len(file) + 1 .. Len(file) + packet_size[r]
        BY <1>1, <2>1, <2>3, <3>2
      <4>2. QED
        BY <2>1, <3>1, <3>2, <4>1
    <3>3. CASE r # s
      <4>1. Placed(r) => i \notin page_location[r] + 1 .. page_location[r] + packet_size[r]
        BY <1>1, <2>3
      <4>2. QED
        BY <2>1, <3>1, <3>3, <4>1
    <3>4. QED
      BY <3>2, <3>3
  <2>4. QED
    BY <2>2, <2>3
<1>4. CASE ~\E s \in Streams : WritePlaceholder(s)
  <2>1. page_location' = page_location /\ (Placed(r)' <=> Placed(r))
    BY <1>4, LocationKept DEF Placed
  <2>2. ASSUME NEW d, NEW b, NEW stream, NEW kind, Len(d) # 2, Adds(b, stream, kind, d)
        PROVE  Placed(r)' /\ i \in page_location'[r] + 1 .. page_location'[r] + packet_size[r]
                  <=> Len(file'[i].data) = 2 /\ file'[i].data[1] = r
    <3>1. /\ \A j \in 1 .. Len(file) : file'[j] = file[j]
          /\ \A j \in 1 .. Len(file') : ~(j <= Len(file)) => file'[j].data = d
      BY <2>2, AddedIs, SMTT(20)
    <3>2. CASE i <= Len(file)
      <4>1. i \in 1 .. Len(file)
        BY <1>1, <3>2
      <4>2. QED
        BY <1>1, <2>1, <3>1, <4>1 DEF InRegion
    <3>3. CASE ~(i <= Len(file))
      <4>1. Len(file'[i].data) # 2
        BY <2>2, <3>1, <3>3
      <4>2. Placed(r) => i \notin page_location[r] + 1 .. page_location[r] + packet_size[r]
        BY <1>1, <3>3
      <4>3. QED
        BY <2>1, <4>1, <4>2
    <3>4. QED
      BY <3>2, <3>3
  <2>3. CASE RewriteFishead
    <3>1. pc' = "bos"
      BY <2>3 DEF RewriteFishead
    <3>2. ~Placed(r)'
      BY <3>1, StepPlacedWhen DEF PlacedWhen
    <3>3. /\ Len(file') = 2
          /\ \A j \in 1 .. 2 : file'[j] = Cell(Skel, "bos", serialno + 1, 0, j, 2, <<4, -1, 0>>)
      BY <2>3, FisheadAgain
    <3> DEFINE d == <<4, -1, 0>>
    <3>4. Len(d) = 3
      OBVIOUS
    <3>5. file'[i].data = d
      BY <3>3, CellIs
    <3> HIDE DEF d
    <3>6. Len(file'[i].data) # 2
      BY <3>4, <3>5
    <3>7. QED
      BY <3>2, <3>6, Zenon
  <2>4. CASE RewriteBOS \/ \E s \in Streams : RewriteIndex(s)
    <3>1. \E at, b : Renewed(at, b)
      BY <2>4, BosRenewed, IndexRenewed, Zenon
    <3>2. /\ Len(file') = Len(file)
          /\ \A j \in 1 .. Len(file) :
                /\ Len(file'[j].data) = Len(file[j].data)
                /\ file'[j].data = file[j].data \/ file'[j].data[1] = file[j].data[1]
      BY <1>1, <3>1, RenewedIs
    <3>3. Len(file'[i].data) = 2 /\ file'[i].data[1] = r <=> Len(file[i].data) = 2 /\ file[i].data[1] = r
      <4>1. i \in 1 .. Len(file)
        BY <3>2
      <4>2. QED
        BY <3>2, <4>1, Zenon
    <3>4. QED
      BY <1>1, <2>1, <3>2, <3>3 DEF InRegion
  <2>5. CASE file' = file
    BY <1>1, <2>1, <2>5 DEF InRegion
  <2>6. CASE \E b, stream, kind, data : Len(data) # 2 /\ Adds(b, stream, kind, data)
    <3>1. PICK b, stream, kind, data : Len(data) # 2 /\ Adds(b, stream, kind, data)
      BY <2>6
    <3>2. QED
      BY <2>2, <3>1
  <2>7. QED
    BY <1>4, <2>3, <2>4, <2>5, <2>6, WriteCases
<1>5. QED
  BY <1>3, <1>4

LEMMA OldPlace ==
    ASSUME Inv, [Next]_vars, ~RewriteFishead, NEW r \in present,
           page_location'[r] = page_location[r], Final(r)' = Final(r),
           \A i \in 1 .. Len(file) : Placed(r) /\ InRegion(r, i) => file'[i] = file[i]
    PROVE  PlaceHolds(r)'
<1> USE DEF Inv
<1>1. /\ packet_size' = packet_size /\ serialno' = serialno
      /\ packet_size[r] \in Nat /\ page_location[r] \in Nat /\ Len(file) \in Nat
  BY Constants, TypeFacts
<1>2. Placed(r)' <=> Placed(r)
  BY DEF Placed
<1>3. SUFFICES ASSUME Placed(r) PROVE PlaceHolds(r)'
  BY <1>2 DEF PlaceHolds
<1>4. PICK no \in Nat : \A i \in 1 .. packet_size[r] :
         file[page_location[r] + i] = FlushLoop(packet_size[r], serialno, no, <<r, Final(r)>>)[i]
  BY <1>3 DEF Located, PlaceHolds
<1>5. \A i \in 1 .. packet_size[r] : file'[page_location[r] + i] = file[page_location[r] + i]
  <2> SUFFICES ASSUME NEW i \in 1 .. packet_size[r]
               PROVE  file'[page_location[r] + i] = file[page_location[r] + i]
    OBVIOUS
  <2>1. page_location[r] + packet_size[r] <= Len(file)
    BY <1>3 DEF Located, PlaceFits
  <2> DEFINE j == page_location[r] + i
  <2>2. j \in 1 .. Len(file) /\ j \in page_location[r] + 1 .. page_location[r] + packet_size[r]
    BY <1>1, <2>1
  <2> HIDE DEF j
  <2>3. file'[j] = file[j]
    BY <1>3, <2>2 DEF InRegion
  <2>4. QED
    BY <2>3 DEF j
<1>6. \A i \in 1 .. packet_size[r] :
         file'[page_location[r] + i] = FlushLoop(packet_size[r], serialno, no, <<r, Final(r)>>)[i]
  BY <1>4, <1>5
<1>7. \A i \in 1 .. packet_size'[r] :
         file'[page_location'[r] + i] = FlushLoop(packet_size'[r], serialno', no, <<r, Final(r)'>>)[i]
  BY <1>1, <1>6, Zenon
<1>8. QED
  BY <1>7, Zenon DEF PlaceHolds, FlushLoop

LEMMA StepPlaceHolds ==
    ASSUME Inv, [Next]_vars, NEW r \in present
    PROVE  PlaceHolds(r)'
<1> USE DEF Inv
<1>1. /\ packet_size' = packet_size /\ (~RewriteFishead => serialno' = serialno)
      /\ packet_size[r] \in Nat \ {0} /\ page_location[r] \in Nat /\ pageno \in Nat
      /\ Len(file) \in Nat /\ file \in Seq(Cells)
      /\ \A i \in 1 .. Len(file) :
            Placed(r) /\ InRegion(r, i) <=> Len(file[i].data) = 2 /\ file[i].data[1] = r
  BY Constants, TypeFacts DEF Located, PlaceMarks
<1>2. CASE RewriteFishead
  <2>1. pc' = "bos"
    BY <1>2 DEF RewriteFishead
  <2>2. ~Placed(r)'
    BY <2>1, StepPlacedWhen DEF PlacedWhen
  <2>3. QED
    BY <2>2 DEF PlaceHolds
<1>3. ASSUME NEW s \in Streams, WritePlaceholder(s) PROVE PlaceHolds(r)'
  <2>1. ~RewriteFishead /\ ~RewriteIndex(r) /\ pc \in Early
    BY <1>3 DEF WritePlaceholder, RewriteFishead, RewriteIndex, Early
  <2>2. /\ r = s => page_location'[r] = Len(file) /\ Placed(r)'
        /\ r # s => page_location'[r] = page_location[r]
        /\ \A i \in 1 .. Len(file) : file'[i] = file[i]
        /\ \A i \in 1 .. packet_size[s] : file'[Len(file) + i] =
              FlushLoop(packet_size[s], serialno, pageno, <<s, 0>>)[i]
    BY <1>3, PlaceholderPlaces
  <2>3. CASE r # s
    BY <2>1, <2>2, <2>3, OldPlace, FinalKept
  <2>4. CASE r = s
    <3>1. Final(r)' = 0
      <4>1. Final(r) = 0
        BY <2>1 DEF Control, Final
      <4>2. QED
        BY <2>1, <4>1, FinalKept
    <3>2. \A i \in 1 .. packet_size'[r] : file'[page_location'[r] + i] =
              FlushLoop(packet_size'[r], serialno', pageno, <<r, Final(r)'>>)[i]
      BY <1>1, <2>1, <2>2, <2>4, <3>1, ZenonT(30)
    <3>3. QED
      BY <1>1, <3>2, Zenon DEF PlaceHolds, FlushLoop
  <2>5. QED
    BY <2>3, <2>4
<1>4. ASSUME NEW b, NEW stream, NEW kind, NEW d, Adds(b, stream, kind, d),
             ~RewriteFishead, ~\E s \in Streams : WritePlaceholder(s),
             ~\E s \in Streams : RewriteIndex(s)
      PROVE  PlaceHolds(r)'
  <2>1. \A i \in 1 .. Len(file) : file'[i] = file[i]
    BY <1>4, AddedIs
  <2>2. page_location' = page_location
    BY <1>4, LocationKept
  <2>3. Final(r)' = Final(r)
    <3>1. r \in Streams
      BY TypeFacts
    <3>2. QED
      BY <1>4, <3>1, FinalKept
  <2>4. QED
    BY <1>4, <2>1, <2>2, <2>3, OldPlace
<1>5. CASE RewriteBOS
  <2>1. /\ ~RewriteFishead /\ ~RewriteIndex(r) /\ page_location' = page_location
    BY <1>5 DEF RewriteBOS, RewriteFishead, RewriteIndex, index
  <2> DEFINE b == Fishead(4, serialno, Len(file), content_offset)
  <2>2. Renewed(0, b) /\ Len(b) = 2 /\ \A i \in 1 .. 2 : Len(file[i].data) = 3
    BY <1>5, BosRenewed
  <2> HIDE DEF b
  <2>3. \A i \in 1 .. Len(file) : i \notin 0 + 1 .. 0 + 2 => file'[i] = file[i]
    BY <2>2 DEF Renewed, Over
  <2>4. \A i \in 1 .. Len(file) : Placed(r) /\ InRegion(r, i) => file'[i] = file[i]
    <3> SUFFICES ASSUME NEW i \in 1 .. Len(file), Placed(r), InRegion(r, i)
                 PROVE  file'[i] = file[i]
      OBVIOUS
    <3>1. Len(file[i].data) = 2
      BY <1>1
    <3>2. i \notin 1 .. 2
      <4> SUFFICES ASSUME i \in 1 .. 2 PROVE FALSE
        OBVIOUS
      <4>1. Len(file[i].data) = 3
        BY <2>2
      <4>2. QED
        BY <3>1, <4>1
    <3>3. QED
      BY <2>3, <3>2
  <2>5. QED
    BY <2>1, <2>4, OldPlace, FinalKept
<1>6. ASSUME NEW s \in Streams, RewriteIndex(s) PROVE PlaceHolds(r)'
  <2>1. /\ ~RewriteFishead /\ page_location' = page_location
        /\ todo' = todo \ {s} /\ indexed' = indexed
    BY <1>6 DEF RewriteIndex, RewriteFishead, index
  <2> DEFINE at == page_location[s]
             n == packet_size[s]
             b == FlushLoop(n, serialno, pageno, <<s, 1>>)
  <2>2. /\ s \in present /\ s \in indexed /\ s \in todo /\ Placed(s) /\ Renewed(at, b) /\ Len(b) = n
    BY <1>6, IndexRenewed
  <2>3. /\ \A i \in 1 .. Len(file) : i \notin at + 1 .. at + n => file'[i] = file[i]
        /\ \A k \in 1 .. n : file'[at + k] = b[k]
    BY <2>2 DEF Renewed, Over
  <2>4. CASE r = s
    <3>1. Final(r)' = 1
      BY <2>1, <2>2, <2>4 DEF Final
    <3>2. \A i \in 1 .. packet_size'[r] : file'[page_location'[r] + i] =
              FlushLoop(packet_size'[r], serialno', pageno, <<r, Final(r)'>>)[i]
      BY <1>1, <2>1, <2>3, <2>4, <3>1, Zenon
    <3>3. QED
      BY <1>1, <3>2, Zenon DEF PlaceHolds, FlushLoop
  <2>5. CASE r # s
    <3>1. ~RewriteIndex(r)
      <4>1. Turn(s) /\ (RewriteIndex(r) => Turn(r)) /\ r \in Int /\ s \in Int
        BY <1>6, <2>2, TypeFacts DEF RewriteIndex
      <4>2. QED
        BY <2>5, <4>1 DEF Turn
    <3>2. \A i \in 1 .. Len(file) : Placed(r) /\ InRegion(r, i) => file'[i] = file[i]
      <4> SUFFICES ASSUME NEW i \in 1 .. Len(file), Placed(r), InRegion(r, i)
                   PROVE  file'[i] = file[i]
        OBVIOUS
      <4>1. file[i].data[1] = r
        BY <1>1
      <4>2. ~InRegion(s, i)
        <5>1. Placed(s) /\ InRegion(s, i) => file[i].data[1] = s
          BY <2>2 DEF Located, PlaceMarks
        <5>2. QED
          BY <2>2, <2>5, <4>1, <5>1
      <4>3. QED
        BY <2>3, <4>2 DEF InRegion
    <3>3. QED
      BY <2>1, <3>1, <3>2, OldPlace, FinalKept
  <2>6. QED
    BY <2>4, <2>5
<1>7. CASE /\ file' = file /\ ~RewriteFishead /\ ~\E s \in Streams : WritePlaceholder(s)
           /\ ~\E s \in Streams : RewriteIndex(s)
  <2>1. page_location' = page_location
    BY <1>7, LocationKept
  <2>2. r \in Streams
    BY TypeFacts
  <2>3. QED
    BY <1>7, <2>1, <2>2, OldPlace, FinalKept
<1>8. QED
  <2>1. CASE \E b, stream, kind, data : Len(data) # 2 /\ Adds(b, stream, kind, data)
    <3>1. PICK b, stream, kind, data : Adds(b, stream, kind, data)
      BY <2>1
    <3>2. QED
      BY <1>2, <1>3, <1>4, <1>6, <3>1
  <2>2. QED
    BY <1>2, <1>3, <1>5, <1>6, <1>7, <2>1, WriteCases

LEMMA StepLocated ==
    ASSUME Inv, [Next]_vars
    PROVE  Located'
<1>1. present' = present
  BY Constants
<1>2. \A r \in present : PlacedWhen(r)' /\ PlaceFits(r)' /\ PlaceMarks(r)' /\ PlaceHolds(r)'
  BY StepPlacedWhen, StepPlaceFits, StepPlaceMarks, StepPlaceHolds
<1>3. QED
  BY <1>1, <1>2 DEF Located

-----------------------------------------------------------------------------
(* Page numbers. *)

(* A single page is numbered once, behind its last cell.                       *)
LEMMA CountPage ==
    ASSUME NEW f, NEW n \in Nat \ {0},
           \A i \in 1 .. n : f[i].stream = Skel /\ f[i].part = i /\ f[i].size = n
    PROVE  PagesBefore(f, n + 1) = 1 /\ \A k \in 1 .. n : PagesBefore(f, k) = 0
<1>1. ASSUME NEW k \in 1 .. n PROVE PagesBefore(f, k) = 0
  <2>1. Ends(f, k) = {}
    <3> SUFFICES ASSUME NEW j \in Ends(f, k) PROVE FALSE
      OBVIOUS
    <3>1. j \in 1 .. k - 1 /\ f[j].part = f[j].size
      BY DEF Ends
    <3>2. j \in 1 .. n /\ j # n
      BY <3>1
    <3>3. QED
      BY <3>1, <3>2
  <2>2. k \in Nat
    OBVIOUS
  <2>3. QED
    BY <2>1, <2>2, CountIs, FS_EmptySet
<1>2. Ends(f, n + 1) = {n}
  <2>1. ASSUME NEW j \in Ends(f, n + 1) PROVE j = n
    <3>1. j \in 1 .. n /\ f[j].part = f[j].size
      BY DEF Ends
    <3>2. QED
      BY <3>1
  <2>2. n \in Ends(f, n + 1)
    BY DEF Ends
  <2>3. QED
    BY <2>1, <2>2
<1>3. n + 1 \in Nat
  OBVIOUS
<1>4. Cardinality({n}) = 1
  BY FS_Singleton
<1>5. PagesBefore(f, n + 1) = Cardinality(Ends(f, n + 1))
  BY <1>3, CountIs
<1>6. QED
  BY <1>1, <1>2, <1>4, <1>5

(* Pages that go on with the count keep the file numbered.                     *)
LEMMA NumberedOn ==
    ASSUME NEW f \in Seq(Cells), NEW b \in Seq(Cells), NEW g, Appends(f, b, g), Numbered(f),
           \A k \in 1 .. Len(b) :
              b[k].stream = Skel => b[k].no = PagesBefore(f, Len(f) + 1) + PagesBefore(b, k)
    PROVE  Numbered(g)
<1> DEFINE l == Len(f)
           m == Len(b)
<1>1. l \in Nat /\ m \in Nat
  OBVIOUS
<1>2. /\ Len(g) = l + m
      /\ \A i \in 1 .. l : g[i] = f[i]
      /\ \A k \in 1 .. m : g[l + k] = b[k]
  BY DEF Appends
<1>3. \A k \in 1 .. m : PagesBefore(g, l + k) = PagesBefore(f, l + 1) + PagesBefore(b, k)
  BY CountAppend
<1>4. \A i \in 1 .. l : f[i].stream = Skel => f[i].no = PagesBefore(f, i)
  BY DEF Numbered
<1>5. \A k \in 1 .. m : b[k].stream = Skel => b[k].no = PagesBefore(f, l + 1) + PagesBefore(b, k)
  OBVIOUS
<1> HIDE DEF l, m
<1>6. SUFFICES ASSUME NEW i \in 1 .. l + m, g[i].stream = Skel
               PROVE  g[i].no = PagesBefore(g, i)
  BY <1>2 DEF Numbered
<1>7. CASE i <= l
  <2>1. i \in 1 .. l /\ i \in Nat
    BY <1>1, <1>7
  <2>2. g[i] = f[i]
    BY <1>2, <2>1
  <2>3. \A j \in 1 .. i - 1 : g[j] = f[j]
    BY <1>1, <1>2, <2>1
  <2>4. PagesBefore(g, i) = PagesBefore(f, i)
    <3>1. \A j \in 1 .. i - 1 : /\ g[j].stream = f[j].stream
                                /\ g[j].part = f[j].part /\ g[j].size = f[j].size
      BY <2>3
    <3>2. QED
      BY <2>1, <3>1, CountSame
  <2>5. QED
    BY <1>4, <1>6, <2>1, <2>2, <2>4
<1>8. CASE ~(i <= l)
  <2> DEFINE k == i - l
  <2>1. k \in 1 .. m /\ i = l + k
    BY <1>1, <1>8
  <2> HIDE DEF k
  <2>2. g[i] = b[k] /\ PagesBefore(g, i) = PagesBefore(f, l + 1) + PagesBefore(b, k)
    BY <1>2, <1>3, <2>1
  <2>3. QED
    BY <1>5, <1>6, <2>1, <2>2
<1>9. QED
  BY <1>7, <1>8

(* Only RewriteFishead changes the extent of a page.                           *)
LEMMA ExtentsKept ==
    ASSUME Inv, [Next]_vars, ~RewriteFishead
    PROVE  \A i \in 1 .. Len(file) : /\ file'[i].stream = file[i].stream
                                     /\ file'[i].part = file[i].part /\ file'[i].size = file[i].size
<1> USE DEF Inv
<1>1. CASE \E b, stream, kind, data : Adds(b, stream, kind, data)
  <2>1. \A i \in 1 .. Len(file) : file'[i] = file[i]
    BY <1>1, AddedIs
  <2>2. QED
    BY <2>1
<1>2. CASE \E at, b : Renewed(at, b)
  BY <1>2, RenewedIs, TypeFacts
<1>3. CASE file' = file
  BY <1>3
<1>4. QED
  BY <1>1, <1>2, <1>3, FileCases

(* So the number an index starts with stays.                                   *)
LEMMA NumberKept ==
    ASSUME Inv, [Next]_vars, ~RewriteFishead, NEW r \in present,
           page_location'[r] = page_location[r]
    PROVE  NumberOf(r)' = NumberOf(r)
<1> USE DEF Inv
<1> DEFINE i == page_location[r] + 1
           f == file
           g == file'
<1>1. page_location[r] \in Nat /\ page_location[r] <= Len(file) /\ Len(file) \in Nat
  BY TypeFacts
<1>2. i \in Nat /\ \A j \in 1 .. i - 1 : j \in 1 .. Len(file)
  BY <1>1
<1>3. \A j \in 1 .. i - 1 : /\ g[j].stream = f[j].stream
                            /\ g[j].part = f[j].part /\ g[j].size = f[j].size
  BY <1>2, ExtentsKept
<1> HIDE DEF f, g, i
<1>4. PagesBefore(g, i) = PagesBefore(f, i)
  BY <1>2, <1>3, CountSame
<1>5. NumberOf(r) = PagesBefore(f, i)
  BY DEF NumberOf, f, i
<1>6. NumberOf(r)' = PagesBefore(g, i)
  BY DEF NumberOf, PagesBefore, g, i
<1>7. QED
  BY <1>4, <1>5, <1>6

(* Two streams follow each other in Expected as in the turns.                  *)
LEMMA NextTurn ==
    ASSUME TypeOK, Control, NEW s \in present, Turn(s), NEW t \in todo \ {s},
           \A u \in todo \ {s} : t <= u
    PROVE  /\ s < t
           /\ \A u \in present : ~(s < u /\ u < t)
           /\ \A r \in present : r < t /\ (\A u \in present : ~(r < u /\ u < t)) => r = s
<1>1. todo \subseteq present /\ \A u \in present : u \in Int
  BY TypeFacts
<1>2. s \in todo /\ \A u \in todo : s <= u
  BY DEF Turn
<1>3. \A r \in present \ todo, u \in todo : r < u
  BY DEF Control
<1>4. s \in Int /\ t \in Int /\ s < t /\ t \in present
  BY <1>1, <1>2
<1>5. \A u \in present : ~(s < u /\ u < t)
  <2> SUFFICES ASSUME NEW u \in present, s < u, u < t PROVE FALSE
    OBVIOUS
  <2>1. u \in Int
    BY <1>1
  <2>2. CASE u \in todo
    BY <1>4, <2>1, <2>2
  <2>3. CASE u \notin todo
    BY <1>2, <1>3, <1>4, <2>1, <2>3
  <2>4. QED
    BY <2>2, <2>3
<1>6. \A r \in present : r < t /\ (\A u \in present : ~(r < u /\ u < t)) => r = s
  <2> SUFFICES ASSUME NEW r \in present, r < t, \A u \in present : ~(r < u /\ u < t), r # s
               PROVE  FALSE
    OBVIOUS
  <2>1. r \in Int
    BY <1>1
  <2>2. ~(r < s)
    BY <1>4
  <2>3. s < r
    BY <1>4, <2>1, <2>2
  <2>4. QED
    BY <1>5, <2>3
<1>7. QED
  BY <1>4, <1>5, <1>6

LEMMA ExpectedKept ==
    ASSUME present' = present, packet_size' = packet_size, NEW s, NEW n, Expected(s, n),
           \A r \in present : r < s => NumberOf(r)' = NumberOf(r)
    PROVE  Expected(s, n)'
<1>1. Recount' = Recount
  BY DEF Recount, Fisbones, PageCount
<1>2. ASSUME \A r \in present : s <= r PROVE n = Recount
  BY <1>2 DEF Expected
<1>3. ASSUME NEW r \in present, r < s, \A t \in present : ~(r < t /\ t < s)
      PROVE  n = NumberOf(r)' + PageCount(packet_size[r])
  BY <1>3 DEF Expected
<1>4. QED
  BY <1>1, <1>2, <1>3 DEF Expected, PageCount

LEMMA StepPlaceNumbers ==
    ASSUME Inv, [Next]_vars
    PROVE  PlaceNumbers'
<1> USE DEF Inv
<1>0. /\ present' = present /\ packet_size' = packet_size /\ todo \subseteq present
      /\ \A r \in present : r \in Int
  BY Constants, TypeFacts
<1>1. SUFFICES ASSUME NEW s \in present, Placed(s)'
               PROVE  Expected(s, NumberOf(s))'
  BY <1>0 DEF PlaceNumbers
<1>2. ~RewriteFishead
  <2>1. RewriteFishead => pc' = "bos"
    BY DEF RewriteFishead
  <2>2. pc' # "bos"
    BY <1>1, StepPlacedWhen DEF PlacedWhen
  <2>3. QED
    BY <2>1, <2>2
<1>3. ASSUME page_location'[s] = page_location[s],
             \A r \in present : r < s => page_location'[r] = page_location[r]
      PROVE  Expected(s, NumberOf(s))'
  <2>1. Placed(s)
    BY <1>1, <1>3 DEF Placed
  <2>2. PICK n : n = NumberOf(s)
    OBVIOUS
  <2>3. Expected(s, n)
    BY <2>1, <2>2 DEF Counted, PlaceNumbers
  <2>4. NumberOf(s)' = n
    BY <1>2, <1>3, <2>2, NumberKept
  <2>5. \A r \in present : r < s => NumberOf(r)' = NumberOf(r)
    BY <1>2, <1>3, NumberKept
  <2>6. Expected(s, n)'
    BY <1>0, <2>3, <2>5, ExpectedKept
  <2>7. QED
    BY <2>4, <2>6, Zenon DEF Expected
<1>4. CASE ~\E t \in Streams : WritePlaceholder(t)
  BY <1>3, <1>4, LocationKept
<1>5. ASSUME NEW t \in Streams, WritePlaceholder(t) PROVE Expected(s, NumberOf(s))'
  <2>1. /\ pc = "placeholders" /\ Turn(t) /\ t \in todo
    BY <1>5 DEF WritePlaceholder, Turn
  <2>2. \A r \in present : /\ r = t => page_location'[r] = Len(file)
                           /\ r # t => page_location'[r] = page_location[r] /\ (Placed(r)' <=> Placed(r))
    BY <1>5, PlaceholderPlaces
  <2>3. CASE s # t
    <3>1. Placed(s)
      BY <1>1, <2>2, <2>3
    <3>2. s \notin todo
      BY <2>1, <3>1 DEF Located, PlacedWhen
    <3>3. s < t
      BY <2>1, <3>2 DEF Control
    <3>4. \A r \in present : r < s => r # t
      BY <1>0, <2>1, <3>3
    <3>5. QED
      BY <1>3, <2>2, <2>3, <3>4
  <2>4. CASE s = t
    <3>1. \A r \in present : r < s => r # t
      BY <1>0, <2>4
    <3>2. \A r \in present : r < s => NumberOf(r)' = NumberOf(r)
      BY <1>2, <2>2, <3>1, NumberKept
    <3>3. PICK n : n = pageno
      OBVIOUS
    <3>4. Expected(s, n)
      BY <2>1, <2>4, <3>3 DEF Counted, TurnNumber
    <3>5. Expected(s, n)'
      BY <1>0, <3>2, <3>4, ExpectedKept
    <3>6. NumberOf(s)' = n
      <4> DEFINE f == file
                 g == file'
                 i == Len(file) + 1
      <4>1. Len(file) \in Nat /\ i \in Nat /\ \A j \in 1 .. i - 1 : j \in 1 .. Len(file)
        BY TypeFacts
      <4>2. \A j \in 1 .. i - 1 : /\ g[j].stream = f[j].stream
                                  /\ g[j].part = f[j].part /\ g[j].size = f[j].size
        BY <1>2, <4>1, ExtentsKept
      <4>3. pageno = PagesBefore(f, i)
        BY <2>1 DEF Counted, NextNumber, Early
      <4>4. NumberOf(s)' = PagesBefore(g, i)
        BY <2>2, <2>4, Zenon DEF NumberOf, PagesBefore
      <4> HIDE DEF f, g, i
      <4>5. PagesBefore(g, i) = PagesBefore(f, i)
        BY <4>1, <4>2, CountSame
      <4>6. QED
        BY <3>3, <4>3, <4>4, <4>5
    <3>7. QED
      BY <3>5, <3>6, Zenon DEF Expected
  <2>5. QED
    BY <2>3, <2>4
<1>6. QED
  BY <1>4, <1>5

LEMMA StepTurnNumber ==
    ASSUME Inv, [Next]_vars
    PROVE  TurnNumber'
<1> USE DEF Inv
<1>0. /\ present' = present /\ packet_size' = packet_size /\ todo \subseteq present
      /\ \A r \in present : r \in Int
  BY Constants, TypeFacts
<1>1. CASE pc' \notin {"placeholders", "index"}
  BY <1>1 DEF TurnNumber
<1>2. CASE UNCHANGED vars \/ Done
  <2>1. UNCHANGED <<present, pc, todo, indexed, pageno, file, page_location, packet_size>>
    BY <1>2 DEF Done, vars, input, so, index
  <2>2. TurnNumber
    BY DEF Counted
  <2>3. \A s : Turn(s)' <=> Turn(s)
    BY <2>1 DEF Turn
  <2>4. \A s : NumberOf(s)' = NumberOf(s)
    BY <2>1, Zenon DEF NumberOf, PagesBefore
  <2>5. ~RewriteFishead
    BY <1>2, <2>1 DEF RewriteFishead
  <2>6. ASSUME pc' = "placeholders", NEW s \in todo', Turn(s)' PROVE Expected(s, pageno)'
    <3>1. PICK n : n = pageno
      OBVIOUS
    <3>2. Expected(s, n)
      BY <2>1, <2>2, <2>3, <2>6, <3>1 DEF TurnNumber
    <3>3. Expected(s, n)'
      BY <1>0, <2>4, <3>2, ExpectedKept
    <3>4. pageno' = n
      BY <2>1, <3>1
    <3>5. QED
      BY <3>3, <3>4, Zenon DEF Expected
  <2>7. ASSUME pc' = "index", present' \ todo' \subseteq indexed', NEW s \in todo', Turn(s)'
        PROVE  pageno' = NumberOf(s)'
    BY <2>1, <2>2, <2>3, <2>4, <2>7 DEF TurnNumber
  <2>8. QED
    BY <2>6, <2>7 DEF TurnNumber
(* Then the placeholders start with the number of pages so far.                *)
<1>3. ASSUME NEW t \in Streams, WriteHeaders(t) PROVE TurnNumber'
  <2>1. /\ pc = "headers" /\ todo' = (IF todo = {t} THEN present ELSE todo \ {t})
        /\ pageno' = pageno
    BY <1>3 DEF WriteHeaders, so
  <2>2. pc' = (IF todo # {t} THEN "headers" ELSE IF option = "none" THEN "content"
               ELSE IF skeleton_3 THEN "end" ELSE "placeholders")
    BY <1>3, HeadersNext
  <2>3. ASSUME pc' = "placeholders", NEW s \in todo', Turn(s)' PROVE Expected(s, pageno)'
    <3>1. todo' = present /\ option # "none"
      BY <2>1, <2>2, <2>3
    <3>2. s \in present /\ \A r \in present : s <= r
      BY <2>3, <3>1 DEF Turn
    <3>3. pageno' = Recount'
      BY <1>0, <2>1, <3>1 DEF Counted, NextNumber, Recount, Fisbones, PageCount
    <3>4. \A r \in present : ~(r < s)
      BY <1>0, <3>2
    <3>5. QED
      BY <1>0, <3>3, <3>4 DEF Expected
  <2>4. pc' # "index"
    BY <2>1, <2>2
  <2>5. QED
    BY <2>3, <2>4 DEF TurnNumber
(* One after the other.                                                        *)
<1>4. ASSUME NEW t \in Streams, WritePlaceholder(t) PROVE TurnNumber'
  <2>1. /\ pc = "placeholders" /\ Turn(t) /\ t \in todo /\ pageno' = pageno + PageCount(packet_size[t])
        /\ todo' = (IF todo = {t} THEN present ELSE todo \ {t})
        /\ pc' = (IF todo = {t} THEN "end" ELSE "placeholders")
    BY <1>4 DEF WritePlaceholder, Turn
  <2>0. t \in present
    BY <1>0, <2>1
  <2>2. /\ t \in present /\ page_location'[t] = Len(file)
    <3>1. \A r \in present : r = t => page_location'[r] = Len(file)
      BY <1>4, PlaceholderPlaces
    <3>2. QED
      BY <2>0, <3>1
  <2>3. ASSUME pc' = "placeholders", NEW s \in todo', Turn(s)' PROVE Expected(s, pageno)'
    <3>1. todo' = todo \ {t}
      BY <2>1, <2>3
    <3>2. s \in todo \ {t} /\ \A u \in todo \ {t} : s <= u
      BY <2>3, <3>1 DEF Turn
    <3>3. /\ t < s
          /\ \A r \in present : r < s /\ (\A u \in present : ~(r < u /\ u < s)) => r = t
      BY <2>1, <2>2, <3>2, NextTurn
    <3>4. ~\A r \in present : s <= r
      BY <1>0, <2>2, <3>2, <3>3
    <3>5. NumberOf(t)' = pageno
      <4> DEFINE f == file
                 g == file'
                 i == Len(file) + 1
      <4>1. Len(file) \in Nat /\ i \in Nat /\ \A j \in 1 .. i - 1 : j \in 1 .. Len(file)
        BY TypeFacts
      <4>2. ~RewriteFishead
        BY <2>1 DEF RewriteFishead
      <4>3. \A j \in 1 .. i - 1 : /\ g[j].stream = f[j].stream
                                  /\ g[j].part = f[j].part /\ g[j].size = f[j].size
        BY <4>1, <4>2, ExtentsKept
      <4>4. pageno = PagesBefore(f, i)
        BY <2>1 DEF Counted, NextNumber, Early
      <4>5. NumberOf(t)' = PagesBefore(g, i)
        BY <2>2, Zenon DEF NumberOf, PagesBefore
      <4> HIDE DEF f, g, i
      <4>6. PagesBefore(g, i) = PagesBefore(f, i)
        BY <4>1, <4>3, CountSame
      <4>7. QED
        BY <4>4, <4>5, <4>6
    <3>6. pageno' = NumberOf(t)' + PageCount(packet_size'[t])
      BY <1>0, <2>1, <3>5
    <3>7. ASSUME NEW r \in present, r < s, \A u \in present : ~(r < u /\ u < s)
          PROVE  pageno' = NumberOf(r)' + PageCount(packet_size'[r])
      <4>1. r = t
        BY <3>3, <3>7
      <4>2. QED
        BY <3>6, <4>1, Zenon
    <3>8. QED
      BY <1>0, <3>4, <3>7 DEF Expected, PageCount
  <2>4. pc' # "index"
    BY <2>1
  <2>5. QED
    BY <2>3, <2>4 DEF TurnNumber
(* The count starts again behind the fisbones.                                 *)
<1>5. CASE RewriteBOS
  <2>1. /\ pc = "content" /\ pc' = "index" /\ todo' = present /\ pageno' = Recount /\ Indexing
    BY <1>5 DEF RewriteBOS
  <2>2. page_location' = page_location /\ ~RewriteFishead
    BY <1>5, <2>1 DEF RewriteBOS, RewriteFishead, index
  <2>3. ASSUME NEW s \in todo', Turn(s)' PROVE pageno' = NumberOf(s)'
    <3>1. s \in present /\ \A r \in present : s <= r
      BY <2>1, <2>3 DEF Turn
    <3>2. Placed(s)
      BY <2>1, <3>1 DEF Located, PlacedWhen
    <3>3. NumberOf(s) = Recount
      BY <3>1, <3>2 DEF Counted, PlaceNumbers, Expected
    <3>4. NumberOf(s)' = NumberOf(s)
      BY <2>2, <3>1, NumberKept
    <3>5. QED
      BY <2>1, <3>3, <3>4
  <2>4. QED
    BY <2>1, <2>3 DEF TurnNumber
(* And is what it was, as long as no stream is left out.                       *)
<1>6. ASSUME NEW t \in Streams, RewriteIndex(t) PROVE TurnNumber'
  <2>1. /\ pc = "index" /\ Turn(t) /\ t \in todo /\ t \in indexed
        /\ pageno' = pageno + PageCount(packet_size[t]) /\ todo' = todo \ {t} /\ indexed' = indexed
        /\ pc' \in {"index", "done"}
    BY <1>6 DEF RewriteIndex, Turn, NextIndex
  <2>2. page_location' = page_location /\ ~RewriteFishead
    BY <1>6, <2>1 DEF RewriteIndex, RewriteFishead, index
  <2>3. t \in present
    BY <1>0, <2>1
  <2>4. ASSUME present' \ todo' \subseteq indexed', NEW s \in todo', Turn(s)'
        PROVE  pageno' = NumberOf(s)'
    <3>1. present \ todo \subseteq indexed
      BY <1>0, <2>1, <2>4
    <3>2. pageno = NumberOf(t)
      BY <2>1, <3>1 DEF Counted, TurnNumber
    <3>3. s \in todo \ {t} /\ \A u \in todo \ {t} : s <= u
      BY <2>1, <2>4 DEF Turn
    <3>4. t < s /\ \A u \in present : ~(t < u /\ u < s)
      BY <2>1, <2>3, <3>3, NextTurn
    <3>5. Placed(s) /\ s \in present
      BY <1>0, <2>1, <3>3 DEF Located, PlacedWhen, Control
    <3>6. NumberOf(s) = NumberOf(t) + PageCount(packet_size[t])
      BY <2>3, <3>4, <3>5 DEF Counted, PlaceNumbers, Expected
    <3>7. NumberOf(s)' = NumberOf(s)
      BY <2>2, <3>5, NumberKept
    <3>8. QED
      BY <2>1, <3>2, <3>6, <3>7
  <2>5. QED
    BY <2>1, <2>4 DEF TurnNumber
<1>7. ASSUME NEW t \in Streams, SkipIndex(t) PROVE TurnNumber'
  <2>1. /\ t \in todo /\ t \notin indexed /\ todo' = todo \ {t} /\ indexed' = indexed
        /\ pc' \in {"index", "done"}
    BY <1>7 DEF SkipIndex, Turn, NextIndex
  <2>2. ~(present' \ todo' \subseteq indexed')
    BY <1>0, <2>1
  <2>3. QED
    BY <2>1, <2>2 DEF TurnNumber
<1>8. CASE WriteFishead \/ RewriteFishead \/ WriteFisbones \/ WriteEnd \/ NoIndex \/ Fail
  <2>1. pc' \notin {"placeholders", "index"}
    BY <1>8 DEF WriteFishead, RewriteFishead, WriteFisbones, WriteEnd, NoIndex, Fail
  <2>2. QED
    BY <1>1, <2>1
<1>9. CASE \E s \in Streams : WriteFirstPage(s) \/ WriteContent(s)
  <2>1. pc' \notin {"placeholders", "index"}
    BY <1>9 DEF WriteFirstPage, WriteContent
  <2>2. QED
    BY <1>1, <2>1
<1>10. QED
  BY <1>2, <1>3, <1>4, <1>5, <1>6, <1>7, <1>8, <1>9 DEF Next

LEMMA CountBehind ==
    ASSUME TypeOK, NextNumber, pc \in Early,
           NEW b, NEW stream, NEW kind, NEW data, Adds(b, stream, kind, data)
    PROVE  PagesBefore(file', Len(file') + 1) = pageno + PagesBefore(b, Len(b) + 1)
<1> DEFINE f == file
           g == file'
           k == Len(b) + 1
<1>1. f \in Seq(Cells) /\ b \in Seq(Cells) /\ Appends(f, b, g) /\ k \in 1 .. Len(b) + 1
  BY TypeFacts, AddedIs DEF Adds
<1>2. Len(g) + 1 = Len(f) + k
  <2>1. Len(g) = Len(f) + Len(b)
    BY <1>1 DEF Appends
  <2>2. QED
    BY <1>1, <2>1
<1>3. pageno = PagesBefore(f, Len(f) + 1)
  BY DEF NextNumber
<1> HIDE DEF f, g, k
<1>4. PagesBefore(g, Len(f) + k) = PagesBefore(f, Len(f) + 1) + PagesBefore(b, k)
  BY <1>1, CountAppend
<1>5. PagesBefore(g, Len(g) + 1) = pageno + PagesBefore(b, k)
  BY <1>2, <1>3, <1>4
<1>6. QED
  BY <1>5 DEF g, k

LEMMA StepNextNumber ==
    ASSUME Inv, [Next]_vars
    PROVE  NextNumber'
<1> USE DEF Inv
<1>0. /\ present' = present /\ option' = option /\ serialno \in Nat /\ pageno \in Nat
      /\ TypeOK /\ Control /\ NextNumber
  BY Constants, TypeFacts DEF Counted
<1>1. Recount' = Recount
  BY <1>0 DEF Recount, Fisbones, PageCount
<1>2. SUFFICES /\ pc' \in Early => pageno' = PagesBefore(file', Len(file') + 1)
               /\ pc' = "fisbones" \/ (pc' = "bos" /\ option # "none") => pageno' = 1
               /\ pc' = "headers" /\ option # "none" => pageno' = Recount
  BY <1>0, <1>1, Zenon DEF NextNumber, PagesBefore
<1>3. CASE UNCHANGED vars \/ Done
  <2>1. pc' = pc /\ pageno' = pageno /\ file' = file
    BY <1>3 DEF Done, vars, so
  <2>2. QED
    BY <1>0, <2>1 DEF NextNumber
<1>4. CASE pc' \notin Early
  BY <1>4 DEF Early
<1>5. CASE WriteFishead
  <2>1. pc = "fishead" /\ pageno' = 1 /\ pc' \in {"fishead", "bos"} /\ pc \in Early
    BY <1>5 DEF WriteFishead, Early
  <2> DEFINE b == Fishead(3, serialno, 0, 0)
  <2>2. file = << >> /\ Adds(b, Skel, "bos", <<3, 0, 0>>) /\ Len(b) = 1
    BY <1>0, <1>5, FisheadAdds
  <2>3. b = [i \in 1 .. 1 |-> Cell(Skel, "bos", serialno, 0, i, 1, <<3, 0, 0>>)]
    <3>1. serialno \in Nat /\ 3 \in {3, 4} /\ 0 \in Int
      BY <1>0
    <3>2. QED
      BY <3>1, FisheadIs
  <2> DEFINE n == 1
  <2>4. n \in Nat \ {0} /\ \A i \in 1 .. n : b[i].stream = Skel /\ b[i].part = i /\ b[i].size = n
    BY <2>3 DEF Cell
  <2>5. pageno = 0
    <3>1. pageno = PagesBefore(file, Len(file) + 1) /\ Len(file) + 1 = 1
      BY <1>0, <2>1, <2>2 DEF NextNumber
    <3>2. QED
      BY <3>1, CountFirst
  <2> HIDE DEF b, n
  <2>6. PagesBefore(b, n + 1) = 1
    BY <2>4, CountPage
  <2>7. PagesBefore(file', Len(file') + 1) = pageno + PagesBefore(b, Len(b) + 1)
    BY <1>0, <2>1, <2>2, CountBehind
  <2>8. QED
    BY <2>1, <2>2, <2>5, <2>6, <2>7 DEF n
<1>6. CASE RewriteFishead
  <2>1. pageno' = 1 /\ pc' = "bos"
    BY <1>6 DEF RewriteFishead
  <2> DEFINE g == file'
             n == 2
  <2>2. Len(g) = n /\ \A i \in 1 .. n : g[i] = Cell(Skel, "bos", serialno + 1, 0, i, 2, <<4, -1, 0>>)
    BY <1>0, <1>6, FisheadAgain
  <2>3. n \in Nat \ {0} /\ \A i \in 1 .. n : g[i].stream = Skel /\ g[i].part = i /\ g[i].size = n
    BY <2>2, CellIs
  <2> HIDE DEF g, n
  <2>4. PagesBefore(g, n + 1) = 1
    BY <2>3, CountPage
  <2>5. QED
    BY <2>1, <2>2, <2>4 DEF g
<1>7. ASSUME NEW s \in Streams, WriteFirstPage(s) \/ WriteHeaders(s)
      PROVE  pageno' = pageno /\ pc \in Early /\ PagesBefore(file', Len(file') + 1) = pageno
  <2>1. pageno' = pageno /\ pc \in Early
    BY <1>7 DEF WriteFirstPage, WriteHeaders, so, Early
  <2>2. \E b, kind : Adds(b, s, kind, << >>)
    BY <1>0, <1>7, FirstPageAdds, HeaderAdds, Zenon
  <2>3. PICK b, kind : Adds(b, s, kind, << >>)
    BY <2>2
  <2> DEFINE k == Len(b) + 1
  <2>4. k \in Nat /\ \A j \in 1 .. k - 1 : b[j].stream # Skel
    <3>1. Len(b) \in Nat /\ \A j \in 1 .. Len(b) : b[j].stream = s
      BY <2>3 DEF Adds, Block
    <3>2. s # Skel
      BY StreamIs
    <3>3. QED
      BY <3>1, <3>2
  <2>5. PagesBefore(file', Len(file') + 1) = pageno + PagesBefore(b, k)
    BY <1>0, <2>1, <2>3, CountBehind
  <2> HIDE DEF k
  <2>6. PagesBefore(b, k) = 0
    BY <2>4, CountOther
  <2>7. QED
    BY <1>0, <2>1, <2>5, <2>6
<1>8. CASE \E s \in Streams : WriteFirstPage(s)
  <2>1. PICK s \in Streams : WriteFirstPage(s)
    BY <1>8
  <2>2. /\ pc = "bos"
        /\ pc' = "bos" \/ (pc' = "fisbones" /\ option # "none") \/ (pc' = "headers" /\ option = "none")
    BY <2>1 DEF WriteFirstPage
  <2>3. QED
    BY <1>0, <1>7, <2>1, <2>2 DEF NextNumber
<1>9. CASE \E s \in Streams : WriteHeaders(s)
  <2>1. PICK s \in Streams : WriteHeaders(s)
    BY <1>9
  <2>2. pc = "headers" /\ pc' \in {"headers", "content", "end", "placeholders"}
    BY <1>0, <2>1, HeadersNext DEF WriteHeaders
  <2>3. QED
    BY <1>0, <1>7, <2>1, <2>2 DEF NextNumber
<1>10. ASSUME NEW n \in Nat \ {0}, NEW d \in Seq(Int), pc \in Early,
              NEW kind, Adds(FlushLoop(n, serialno, pageno, d), Skel, kind, d)
       PROVE  PagesBefore(file', Len(file') + 1) = pageno + PageCount(n)
  <2> DEFINE b == FlushLoop(n, serialno, pageno, d)
  <2>1. Len(b) = n /\ PagesBefore(b, n + 1) = PageCount(n)
    BY <1>0, <1>10, FlushBlock, CountFlush
  <2>2. Adds(b, Skel, kind, d)
    BY <1>10
  <2> HIDE DEF b
  <2>3. PagesBefore(file', Len(file') + 1) = pageno + PagesBefore(b, Len(b) + 1)
    BY <1>0, <1>10, <2>2, CountBehind
  <2>4. QED
    BY <2>1, <2>3
<1>11. CASE WriteFisbones
  <2>1. pc = "fisbones" /\ pageno' = pageno + PageCount(Fisbones) /\ pc' = "headers" /\ pc \in Early
    BY <1>11 DEF WriteFisbones, Early
  <2> DEFINE d == << >>
  <2>2. Adds(FlushLoop(Fisbones, serialno, pageno, d), Skel, "header", d) /\ d \in Seq(Int)
        /\ Fisbones \in Nat \ {0}
    BY <1>0, <1>11, FisbonesAdd, TypeFacts
  <2> HIDE DEF d
  <2>3. PagesBefore(file', Len(file') + 1) = pageno + PageCount(Fisbones)
    BY <1>10, <2>1, <2>2
  <2>4. pageno = 1
    BY <1>0, <2>1 DEF NextNumber
  <2>5. QED
    BY <2>1, <2>3, <2>4 DEF Recount
<1>12. CASE \E s \in Streams : WritePlaceholder(s)
  <2>1. PICK s \in Streams : WritePlaceholder(s)
    BY <1>12
  <2>2. /\ pc = "placeholders" /\ pc \in Early /\ pageno' = pageno + PageCount(packet_size[s])
        /\ pc' \in {"end", "placeholders"}
    BY <2>1 DEF WritePlaceholder, Early
  <2> DEFINE d == <<s, 0>>
             n == packet_size[s]
  <2>3. s \in present /\ Adds(FlushLoop(n, serialno, pageno, d), Skel, "header", d)
    BY <1>0, <2>1, PlaceholderAdds
  <2>4. d \in Seq(Int) /\ n \in Nat \ {0}
    BY <2>3, TypeFacts
  <2> HIDE DEF d, n
  <2>5. PagesBefore(file', Len(file') + 1) = pageno + PageCount(n)
    BY <1>10, <2>2, <2>3, <2>4
  <2>6. QED
    BY <2>2, <2>5 DEF n
<1>13. CASE WriteEnd \/ NoIndex \/ RewriteBOS \/ Fail
  <2>1. pc' \notin Early
    BY <1>13 DEF WriteEnd, NoIndex, RewriteBOS, Fail, Early
  <2>2. QED
    BY <1>4, <2>1
<1>14. CASE \E s \in Streams : WriteContent(s) \/ RewriteIndex(s) \/ SkipIndex(s)
  <2>1. pc' \notin Early
    BY <1>14 DEF WriteContent, RewriteIndex, SkipIndex, NextIndex, Early
  <2>2. QED
    BY <1>4, <2>1
<1>15. QED
  BY <1>3, <1>5, <1>6, <1>8, <1>9, <1>11, <1>12, <1>13, <1>14 DEF Next

(* Pages renewed under their numbers stay numbered.                            *)
LEMMA NumberedStill ==
    ASSUME Inv, [Next]_vars, ~RewriteFishead, Numbered(file), Len(file') = Len(file),
           \A i \in 1 .. Len(file) : file'[i].no = file[i].no
    PROVE  Numbered(file')
<1> USE DEF Inv
<1> DEFINE f == file
           g == file'
           l == Len(file)
<1>1. /\ l \in Nat /\ Len(g) = l /\ Numbered(f) /\ \A i \in 1 .. l : g[i].no = f[i].no
      /\ \A i \in 1 .. l : /\ g[i].stream = f[i].stream
                           /\ g[i].part = f[i].part /\ g[i].size = f[i].size
  BY ExtentsKept, TypeFacts
<1>2. \A i \in 1 .. l : f[i].stream = Skel => f[i].no = PagesBefore(f, i)
  BY <1>1 DEF Numbered
<1> HIDE DEF f, g, l
<1>3. ASSUME NEW i \in 1 .. l PROVE PagesBefore(g, i) = PagesBefore(f, i)
  <2>1. i \in Nat /\ \A j \in 1 .. i - 1 : j \in 1 .. l
    BY <1>1
  <2>2. \A j \in 1 .. i - 1 : /\ g[j].stream = f[j].stream
                              /\ g[j].part = f[j].part /\ g[j].size = f[j].size
    BY <1>1, <2>1
  <2>3. QED
    BY <2>1, <2>2, CountSame
<1>4. Numbered(g)
  BY <1>1, <1>2, <1>3 DEF Numbered
<1>5. QED
  BY <1>4 DEF g

(* While pages are appended there is no gap.                                   *)
LEMMA NumberedBehind ==
    ASSUME Inv, NEW b, NEW stream, NEW kind, NEW data, Adds(b, stream, kind, data),
           stream # Skel \/ (pc \in Early /\ \A k \in 1 .. Len(b) : b[k].no = pageno + PagesBefore(b, k))
    PROVE  Numbered(file')
<1> USE DEF Inv
<1> DEFINE f == file
           g == file'
<1>1. f \in Seq(Cells) /\ b \in Seq(Cells) /\ Appends(f, b, g) /\ Numbered(f)
      /\ \A k \in 1 .. Len(b) : b[k].stream = stream
  <2>1. pc \notin {"index", "done", "failed"}
    BY DEF Adds, Early
  <2>2. QED
    BY <2>1, TypeFacts, AddedIs DEF Adds, Block, Counted, NumbersRight
<1>2. pc \in Early => pageno = PagesBefore(f, Len(f) + 1)
  BY DEF Counted, NextNumber
<1>3. \A k \in 1 .. Len(b) : b[k].stream = Skel => b[k].no = PagesBefore(f, Len(f) + 1) + PagesBefore(b, k)
  BY <1>1, <1>2
<1> HIDE DEF f, g
<1>4. Numbered(g)
  BY <1>1, <1>3, NumberedOn
<1>5. QED
  BY <1>4 DEF g

LEMMA StepNumbersRight ==
    ASSUME Inv, [Next]_vars
    PROVE  NumbersRight'
<1> USE DEF Inv
<1>0. /\ present' = present /\ serialno \in Nat /\ pageno \in Nat /\ TypeOK /\ Control
      /\ Len(file) \in Nat /\ file \in Seq(Cells)
  BY Constants, TypeFacts
<1>1. SUFFICES Numbered(file') \/ (pc' \in {"index", "done", "failed"} /\ Gap /\ indexed' = indexed)
  BY <1>0, Zenon DEF NumbersRight, Numbered, PagesBefore, Gap
<1>2. CASE file' = file /\ indexed' = indexed /\ (pc \in {"index", "done", "failed"} =>
                                                     pc' \in {"index", "done", "failed"})
  BY <1>2 DEF Counted, NumbersRight
<1>3. CASE WriteFishead
  <2> DEFINE b == Fishead(3, serialno, 0, 0)
  <2>1. pc \in Early /\ file = << >> /\ Adds(b, Skel, "bos", <<3, 0, 0>>) /\ Len(b) = 1
    BY <1>0, <1>3, FisheadAdds DEF WriteFishead, Early
  <2>2. b = [i \in 1 .. 1 |-> Cell(Skel, "bos", serialno, 0, i, 1, <<3, 0, 0>>)]
    <3>1. serialno \in Nat /\ 3 \in {3, 4} /\ 0 \in Int
      BY <1>0
    <3>2. QED
      BY <3>1, FisheadIs
  <2>3. b[1].no = 0
    BY <2>2 DEF Cell
  <2>4. pageno = 0
    <3>1. pageno = PagesBefore(file, Len(file) + 1) /\ Len(file) + 1 = 1
      BY <2>1 DEF Counted, NextNumber
    <3>2. QED
      BY <3>1, CountFirst
  <2> HIDE DEF b
  <2>5. PagesBefore(b, 1) = 0
    BY CountFirst
  <2>6. \A k \in 1 .. Len(b) : b[k].no = pageno + PagesBefore(b, k)
    BY <2>1, <2>3, <2>4, <2>5
  <2>7. QED
    BY <2>1, <2>6, NumberedBehind
<1>4. CASE RewriteFishead
  <2> DEFINE g == file'
             n == 2
  <2>1. Len(g) = n /\ \A i \in 1 .. n : g[i] = Cell(Skel, "bos", serialno + 1, 0, i, 2, <<4, -1, 0>>)
    BY <1>0, <1>4, FisheadAgain
  <2>2. /\ n \in Nat \ {0}
        /\ \A i \in 1 .. n : g[i].stream = Skel /\ g[i].part = i /\ g[i].size = n /\ g[i].no = 0
    BY <2>1, CellIs
  <2> HIDE DEF g, n
  <2>3. \A k \in 1 .. n : PagesBefore(g, k) = 0
    BY <2>2, CountPage
  <2>4. Numbered(g)
    BY <2>1, <2>2, <2>3 DEF Numbered
  <2>5. QED
    BY <2>4 DEF g
<1>5. ASSUME NEW n \in Nat \ {0}, NEW d \in Seq(Int), pc \in Early,
             NEW kind, Adds(FlushLoop(n, serialno, pageno, d), Skel, kind, d)
      PROVE  Numbered(file')
  <2> DEFINE b == FlushLoop(n, serialno, pageno, d)
  <2>1. /\ Len(b) = n /\ \A k \in 1 .. n : PagesBefore(b, k) = PageOf(k)
        /\ \A k \in 1 .. n : b[k].no = pageno + PageOf(k)
    <3>1. Len(b) = n /\ \A k \in 1 .. n : b[k].no = pageno + PageOf(k)
      BY <1>0, FlushBlock
    <3>2. \A k \in 1 .. n : PagesBefore(b, k) = PageOf(k)
      BY <1>0, CountFlush
    <3>3. QED
      BY <3>1, <3>2
  <2>2. Adds(b, Skel, kind, d)
    BY <1>5
  <2> HIDE DEF b
  <2>3. \A k \in 1 .. Len(b) : b[k].no = pageno + PagesBefore(b, k)
    BY <2>1
  <2>4. QED
    BY <1>5, <2>2, <2>3, NumberedBehind
<1>6. CASE WriteFisbones
  <2> DEFINE d == << >>
  <2>1. Adds(FlushLoop(Fisbones, serialno, pageno, d), Skel, "header", d) /\ d \in Seq(Int)
        /\ Fisbones \in Nat \ {0} /\ pc \in Early
    BY <1>0, <1>6, FisbonesAdd, TypeFacts DEF WriteFisbones, Early
  <2> HIDE DEF d
  <2>2. QED
    BY <1>5, <2>1
<1>7. CASE \E s \in Streams : WritePlaceholder(s)
  <2>1. PICK s \in Streams : WritePlaceholder(s)
    BY <1>7
  <2> DEFINE d == <<s, 0>>
             n == packet_size[s]
  <2>2. s \in present /\ Adds(FlushLoop(n, serialno, pageno, d), Skel, "header", d) /\ pc \in Early
    BY <1>0, <2>1, PlaceholderAdds DEF WritePlaceholder, Early
  <2>3. d \in Seq(Int) /\ n \in Nat \ {0}
    BY <2>2, TypeFacts
  <2> HIDE DEF d, n
  <2>4. QED
    BY <1>5, <2>2, <2>3
<1>8. CASE WriteEnd
  <2> DEFINE b == Page(Skel, "header", serialno, pageno, 1, << >>)
  <2>1. Adds(b, Skel, "header", << >>) /\ Len(b) = 1 /\ pc \in Early
    BY <1>0, <1>8, EndAdds DEF WriteEnd, Early
  <2>2. b[1].no = pageno
    BY DEF Page
  <2> HIDE DEF b
  <2>3. PagesBefore(b, 1) = 0
    BY CountFirst
  <2>4. \A k \in 1 .. Len(b) : b[k].no = pageno + PagesBefore(b, k)
    BY <1>0, <2>1, <2>2, <2>3
  <2>5. QED
    BY <2>1, <2>4, NumberedBehind
<1>9. CASE \E s \in Streams : WriteFirstPage(s) \/ WriteHeaders(s) \/ WriteContent(s)
  <2>1. PICK s \in Streams : WriteFirstPage(s) \/ WriteHeaders(s) \/ WriteContent(s)
    BY <1>9
  <2>2. \E b, kind : Adds(b, s, kind, << >>)
    BY <1>0, <2>1, FirstPageAdds, HeaderAdds, ContentAdds, Zenon
  <2>3. PICK b, kind : Adds(b, s, kind, << >>)
    BY <2>2
  <2>4. s # Skel
    BY StreamIs
  <2>5. QED
    BY <2>3, <2>4, NumberedBehind
<1>10. CASE RewriteBOS
  <2>1. /\ pc = "content" /\ ~RewriteFishead /\ ~skeleton_3 /\ option # "none"
    BY <1>10 DEF RewriteBOS, RewriteFishead, Indexing
  <2>2. Numbered(file)
    BY <2>1 DEF Counted, NumbersRight
  <2> DEFINE b == Fishead(4, serialno, Len(file), content_offset)
  <2>3. /\ Renewed(0, b) /\ Len(b) = 2
        /\ \A i \in 1 .. 2 : file'[i] = Cell(Skel, "bos", serialno, 0, i, 2,
                                             <<4, Len(file), content_offset>>)
    BY <1>0, <1>10, BosRenewed
  <2>4. \E l, o \in Int : \A i \in 1 .. 2 : file[i] = Cell(Skel, "bos", serialno, 0, i, 2, <<4, l, o>>)
    BY <2>1 DEF Headed
  <2> HIDE DEF b
  <2>5. \A i \in 1 .. 2 : file'[i].no = file[i].no
    BY <2>3, <2>4, CellIs
  <2>6. /\ Len(file') = Len(file)
        /\ \A i \in 1 .. Len(file) : i \notin 0 + 1 .. 0 + 2 => file'[i] = file[i]
    BY <2>3 DEF Renewed, Over
  <2>7. \A i \in 1 .. Len(file) : file'[i].no = file[i].no
    BY <2>5, <2>6
  <2>8. QED
    BY <2>1, <2>2, <2>6, <2>7, NumberedStill
<1>11. CASE \E s \in Streams : RewriteIndex(s)
  <2>1. PICK s \in Streams : RewriteIndex(s)
    BY <1>11
  <2>2. /\ pc = "index" /\ pc' \in {"index", "done"} /\ indexed' = indexed /\ Turn(s)
        /\ ~RewriteFishead
    BY <2>1 DEF RewriteIndex, RewriteFishead, NextIndex
  <2>3. CASE Gap
    BY <2>2, <2>3
  <2>4. CASE ~Gap
    <3> DEFINE at == page_location[s]
               n == packet_size[s]
               b == FlushLoop(n, serialno, pageno, <<s, 1>>)
    <3>1. /\ s \in present /\ s \in indexed /\ s \in todo /\ Placed(s) /\ Renewed(at, b) /\ Len(b) = n
          /\ n \in Nat \ {0} /\ at \in Nat /\ s \in Int
      BY <1>0, <2>1, IndexRenewed, TypeFacts
    <3>2. Numbered(file)
      BY <2>4 DEF Counted, NumbersRight
    <3>3. present \ todo \subseteq indexed
      <4> SUFFICES ASSUME NEW r \in present \ todo, r \notin indexed PROVE FALSE
        OBVIOUS
      <4>1. r < s
        BY <3>1 DEF Control
      <4>2. QED
        BY <2>4, <3>1, <4>1 DEF Gap
    <3>4. pageno = PagesBefore(file, at + 1)
      BY <2>2, <3>1, <3>3 DEF Counted, TurnNumber, NumberOf
    <3>5. at + n <= Len(file)
      BY <3>1 DEF Located, PlaceFits
    <3>6. PICK no \in Nat : \A i \in 1 .. n :
                file[at + i] = FlushLoop(n, serialno, no, <<s, Final(s)>>)[i]
      BY <3>1 DEF Located, PlaceHolds
    <3>7. \A i \in 1 .. n : /\ file[at + i].no = no + PageOf(i) /\ file[at + i].stream = Skel
                            /\ b[i].no = pageno + PageOf(i)
      <4> DEFINE d1 == <<s, Final(s)>>
                 d2 == <<s, 1>>
      <4>1. n \in Nat /\ b = FlushLoop(n, serialno, pageno, d2)
            /\ \A i \in 1 .. n : file[at + i] = FlushLoop(n, serialno, no, d1)[i]
        BY <3>1, <3>6
      <4> HIDE DEF n, b, at, d1, d2
      <4>2. /\ \A i \in 1 .. n : FlushLoop(n, serialno, no, d1)[i] =
                  Cell(Skel, "header", serialno, no + PageOf(i), i - PageStart(i), SizeAt(n, i), d1)
            /\ \A i \in 1 .. n : FlushLoop(n, serialno, pageno, d2)[i] =
                  Cell(Skel, "header", serialno, pageno + PageOf(i), i - PageStart(i), SizeAt(n, i), d2)
        BY <4>1, FlushCell
      <4>3. QED
        BY <4>1, <4>2, CellIs
    <3> HIDE DEF at, n, b
    <3>8. no = pageno
      <4>1. 1 \in 1 .. n /\ at + 1 \in 1 .. Len(file)
        BY <1>0, <3>1, <3>5
      <4>2. file[at + 1].no = no + 0 /\ file[at + 1].stream = Skel
        BY <3>7, <4>1, FirstPage
      <4>3. file[at + 1].no = PagesBefore(file, at + 1)
        BY <3>2, <4>1, <4>2 DEF Numbered
      <4>4. QED
        BY <3>4, <4>2, <4>3
    <3>9. /\ Len(file') = Len(file)
          /\ \A k \in 1 .. n : file'[at + k] = b[k]
          /\ \A i \in 1 .. Len(file) : i \notin at + 1 .. at + n => file'[i] = file[i]
      BY <3>1 DEF Renewed, Over
    <3>10. \A i \in 1 .. Len(file) : file'[i].no = file[i].no
      <4> TAKE i \in 1 .. Len(file)
      <4>1. CASE i \notin at + 1 .. at + n
        BY <3>9, <4>1
      <4>2. CASE i \in at + 1 .. at + n
        <5> DEFINE k == i - at
        <5>1. k \in 1 .. n /\ i = at + k
          BY <3>1, <4>2
        <5> HIDE DEF k
        <5>2. QED
          BY <3>7, <3>8, <3>9, <5>1
      <4>3. QED
        BY <4>1, <4>2
    <3>11. QED
      BY <2>2, <3>2, <3>9, <3>10, NumberedStill
  <2>5. QED
    BY <2>3, <2>4
<1>12. CASE UNCHANGED vars \/ Done \/ NoIndex \/ Fail
  <2>1. file' = file /\ indexed' = indexed /\ (pc \in {"index", "done", "failed"} =>
                                                     pc' \in {"index", "done", "failed"})
    BY <1>12 DEF Done, NoIndex, Fail, vars
  <2>2. QED
    BY <1>2, <2>1
<1>13. CASE \E s \in Streams : SkipIndex(s)
  <2>1. file' = file /\ indexed' = indexed /\ (pc \in {"index", "done", "failed"} =>
                                                     pc' \in {"index", "done", "failed"})
    BY <1>13 DEF SkipIndex, NextIndex
  <2>2. QED
    BY <1>2, <2>1
<1>14. QED
  BY <1>3, <1>4, <1>6, <1>7, <1>8, <1>9, <1>10, <1>11, <1>12, <1>13 DEF Next

-----------------------------------------------------------------------------
(* The invariant, and what follows from it. *)

LEMMA InitInv ==
    ASSUME Init
    PROVE  Inv
<1>0. SkeletonAssumption
  BY SkeletonAssumption
<1>1. /\ present \in Inputs /\ option \in Options /\ outfile \in BOOLEAN /\ duration \in BOOLEAN
      /\ option \in {"none", "3", "4"} /\ pc = (IF option = "none" THEN "bos" ELSE "fishead")
      /\ todo = present /\ file = << >> /\ position = 0 /\ output_seekable = "maybe"
      /\ skeleton_3 = (option = "3" \/ (option = "4" /\ ~duration))
      /\ serialno = NextSerial /\ pageno = 0 /\ content_offset = 0 /\ indexed = {}
  BY <1>0 DEF Init
<1>2. page_location = [s \in present |-> 0] /\ packet_size \in [present -> IndexSegments]
      /\ outfile \in Outputs /\ duration \in Durations
  BY DEF Init
<1>3. present # {} /\ NextSerial \in Nat /\ \A s \in present : s \in Int
  BY <1>1, StreamsFinite, SerialsDiffer, StreamIs
<1>4. file \in Seq(Cells) /\ Len(file) = 0 /\ 0 \in 0 .. Len(file)
  BY <1>1
<1>5. \A s \in present : page_location[s] = 0
  BY <1>2
<1>6. TypeOK
  <2>1. page_location \in [present -> 0 .. Len(file)]
    BY <1>2, <1>4
  <2>2. pc \in {"fishead", "bos"} /\ skeleton_3 \in BOOLEAN
    BY <1>1
  <2>3. QED
    BY <1>1, <1>2, <1>3, <1>4, <2>1, <2>2 DEF TypeOK
<1>7. Control
  <2>1. serialno >= NextSerial /\ position = Len(file)
    BY <1>1, <1>3, <1>4
  <2>2. present \ todo = {} /\ pc \in {"fishead", "bos"}
    BY <1>1
  <2>3. QED
    BY <1>1, <2>1, <2>2 DEF Control
<1>8. Whole(file) /\ Serials /\ Ranked
  BY <1>4 DEF Whole, Serials, Ranked
<1>9. Begun
  <2>1. BosStreams(file) = {}
    BY <1>4 DEF BosStreams
  <2>2. present \ todo = {} /\ (option = "none" => pc = "bos") /\ (option # "none" => pc = "fishead")
    BY <1>1
  <2>3. QED
    BY <1>1, <2>1, <2>2 DEF Begun
<1>10. Kinds /\ Headed
  BY <1>1, <1>4 DEF Kinds, Headed, Early
<1>11. Located
  <2> SUFFICES ASSUME NEW s \in present
               PROVE  PlacedWhen(s) /\ PlaceFits(s) /\ PlaceMarks(s) /\ PlaceHolds(s)
    BY DEF Located
  <2>1. ~Placed(s) /\ page_location[s] = 0 /\ pc \in {"fishead", "bos"}
    BY <1>1, <1>5 DEF Placed
  <2>2. QED
    BY <1>4, <2>1 DEF PlacedWhen, PlaceFits, PlaceMarks, PlaceHolds
<1>12. Counted
  <2>1. Numbered(file)
    BY <1>4 DEF Numbered
  <2>2. PagesBefore(file, Len(file) + 1) = 0
    <3>1. Len(file) + 1 = 1
      BY <1>4
    <3>2. QED
      BY <3>1, CountFirst
  <2>3. NextNumber
    BY <1>1, <2>2 DEF NextNumber
  <2>4. PlaceNumbers /\ TurnNumber
    BY <1>1, <1>5 DEF PlaceNumbers, TurnNumber, Placed
  <2>5. QED
    BY <2>1, <2>3, <2>4 DEF Counted, NumbersRight
<1>13. QED
  BY <1>6, <1>7, <1>8, <1>9, <1>10, <1>11, <1>12 DEF Inv

LEMMA StepInv ==
    ASSUME Inv, [Next]_vars
    PROVE  Inv'
<1>1. TypeOK' /\ Control' /\ Located'
  BY StepType, StepControl, StepLocated
<1>2. Whole(file)'
  <2>1. Whole(file')
    BY StepWhole
  <2>2. QED
    BY <2>1 DEF Whole
<1>3. Serials' /\ Ranked' /\ Begun' /\ Kinds' /\ Headed'
  BY StepSerials, StepRanked, StepBegun, StepKinds, StepHeaded
<1>4. Counted'
  BY StepNumbersRight, StepNextNumber, StepPlaceNumbers, StepTurnNumber DEF Counted
<1>5. QED
  BY <1>1, <1>2, <1>3, <1>4 DEF Inv

(* The inductive invariant holds.                                              *)
THEOREM Invariant == Spec => []Inv
<1>1. Init => Inv
  BY InitInv
<1>2. Inv /\ [Next]_vars => Inv'
  BY StepInv
<1>3. QED
  BY <1>1, <1>2, PTL DEF Spec

(* TypeOK: the write position is in the file, and as long as streams take      *)
(* turns one is left.                                                          *)
THEOREM TypesHold == Spec => []TypeOK
<1>1. Inv => TypeOK
  BY DEF Inv
<1>2. QED
  BY <1>1, Invariant, PTL

(* NumbersKept: the pages of the Skeleton track are numbered without a gap     *)
(* before write_seek_index and after, whatever is written for how many         *)
(* streams, unless a stream without keyframes precedes one with some.          *)
THEOREM PagesNumbered == Spec => []NumbersKept
<1>1. Inv => NumbersKept
  <2> SUFFICES ASSUME NumbersRight, pc \in {"content", "done"}, ~(pc = "done" /\ Gap)
               PROVE  \A i \in DOMAIN file : file[i].stream = Skel => file[i].no = PagesBefore(file, i)
    BY Zenon DEF Inv, Counted, NumbersKept, Gap
  <2>1. Numbered(file)
    BY DEF NumbersRight
  <2>2. QED
    BY <2>1 DEF Numbered
<1>2. QED
  BY <1>1, Invariant, PTL

LEMMA StepInPlace ==
    ASSUME Inv, [Next]_vars, pc \in {"content", "index"}, pc' \in {"index", "done"}
    PROVE  /\ Len(file') = Len(file)
           /\ \A i \in DOMAIN file : file'[i] # file[i] => SamePage(file[i], file'[i])
<1> USE DEF Inv
<1>0. file \in Seq(Cells) /\ DOMAIN file = 1 .. Len(file)
  BY TypeFacts
<1>1. CASE \E at, b : Renewed(at, b)
  BY <1>0, <1>1, RenewedIs
<1>2. CASE file' = file
  BY <1>2
<1>3. CASE WriteFishead \/ RewriteFishead \/ WriteFisbones \/ WriteEnd
  BY <1>3 DEF WriteFishead, RewriteFishead, WriteFisbones, WriteEnd
<1>4. CASE \E s \in Streams : WriteFirstPage(s) \/ WriteHeaders(s) \/ WritePlaceholder(s) \/ WriteContent(s)
  BY <1>4 DEF WriteFirstPage, WriteHeaders, WritePlaceholder, WriteContent
<1>5. ASSUME NEW s \in Streams, RewriteIndex(s) PROVE \E at, b : Renewed(at, b)
  BY <1>5, IndexRenewed, Zenon
<1>6. CASE RewriteBOS
  <2>1. \E at, b : Renewed(at, b)
    BY <1>6, BosRenewed, Zenon
  <2>2. QED
    BY <1>1, <2>1
<1>7. CASE UNCHANGED vars \/ Done \/ NoIndex \/ Fail \/ \E s \in Streams : SkipIndex(s)
  <2>1. file' = file
    BY <1>7 DEF vars, Done, NoIndex, Fail, SkipIndex
  <2>2. QED
    BY <1>2, <2>1
<1>8. QED
  BY <1>1, <1>3, <1>4, <1>5, <1>6, <1>7 DEF Next

(* InPlace: the Skeleton track written a second time lies exactly over the     *)
(* first: write_index_pages cuts an index as the placeholder was cut, whatever *)
(* its size and the length of a page.                                          *)
THEOREM TrackInPlace == Spec => InPlace
<1>1. Inv /\ [Next]_vars =>
        [/\ pc \in {"content", "index"} /\ pc' \in {"index", "done"}
         => /\ Len(file') = Len(file)
            /\ \A i \in DOMAIN file : file'[i] # file[i] => SamePage(file[i], file'[i])]_vars
  BY StepInPlace
<1>2. QED
  BY <1>1, Invariant, PTL DEF Spec, InPlace

LEMMA SerialsOfStreams ==
    ASSUME TypeOK, Control, Serials
    PROVE  \A i, j \in 1 .. Len(file) : file[i].serial = file[j].serial <=> file[i].stream = file[j].stream
<1>1. \A i \in 1 .. Len(file) : /\ file[i].stream \in present \cup {Skel}
                                /\ file[i].serial = SerialOf(file[i].stream)
  BY DEF Serials
<1>2. present \in Inputs /\ serialno \in Nat /\ serialno >= NextSerial
      /\ \A s \in present : s # Skel /\ Serial(s) \in Nat
  BY TypeFacts DEF Control
<1>3. /\ NextSerial \in Nat /\ \A s \in present : Serial(s) < NextSerial
      /\ \A r, s \in present : Serial(r) = Serial(s) => r = s
  BY <1>2, SerialsDiffer
<1>4. ASSUME NEW r \in present \cup {Skel}, NEW s \in present \cup {Skel}, SerialOf(r) = SerialOf(s)
      PROVE  r = s
  <2>1. \A t \in present : SerialOf(t) = Serial(t) /\ SerialOf(t) < SerialOf(Skel)
    BY <1>2, <1>3 DEF SerialOf
  <2>2. SerialOf(Skel) \in Nat
    BY <1>2 DEF SerialOf
  <2>3. CASE r \in present /\ s \in present
    BY <1>3, <1>4, <2>1, <2>3
  <2>4. CASE r = Skel \/ s = Skel
    BY <1>4, <2>1, <2>2, <2>4
  <2>5. QED
    BY <2>3, <2>4
<1>5. QED
  BY <1>1, <1>4

(* HeadersFirst: the first pages of all streams, then the other headers, then  *)
(* the content; pages in one piece, a serial number for each stream, and the   *)
(* content offset is where the content starts.                                 *)
THEOREM HeadersInOrder == Spec => []HeadersFirst
<1>1. ASSUME Inv PROVE HeadersFirst
  <2> USE <1>1 DEF Inv
  <2> DEFINE Rank(c) == CASE c.kind = "bos" -> 1 [] c.kind = "header" -> 2 [] c.kind = "content" -> 3
             Tracks == present \cup IF option = "none" THEN {} ELSE {Skel}
  <2> SUFFICES ASSUME pc \in {"content", "done"}
               PROVE  /\ \A i \in 1 .. Len(file) - 1 :
                            LET c == file[i] next == file[i + 1]
                            IN  /\ Rank(c) <= Rank(next)
                                /\ c.part < c.size => next = [c EXCEPT !.part = @ + 1]
                                /\ c.part = c.size => next.part = 1
                      /\ {file[i].stream : i \in {j \in DOMAIN file : file[j].kind = "bos"}} = Tracks
                      /\ \A i, j \in DOMAIN file :
                            file[i].serial = file[j].serial <=> file[i].stream = file[j].stream
                      /\ option # "none" =>
                            content_offset = Cardinality({i \in DOMAIN file : file[i].kind # "content"})
    BY DEF HeadersFirst
  <2>1. file \in Seq(Cells) /\ Len(file) \in Nat /\ DOMAIN file = 1 .. Len(file) /\ content_offset \in Nat
    BY TypeFacts
  <2>2. ASSUME NEW i \in 1 .. Len(file) - 1
        PROVE  /\ Rank(file[i]) <= Rank(file[i + 1])
               /\ file[i].part < file[i].size => file[i + 1] = [file[i] EXCEPT !.part = @ + 1]
               /\ file[i].part = file[i].size => file[i + 1].part = 1
    <3>1. i \in 1 .. Len(file) /\ i < Len(file)
      BY <2>1
    <3>2. RankOf(file[i].kind) <= RankOf(file[i + 1].kind)
      BY <3>1 DEF Ranked
    <3>3. Rank(file[i]) = RankOf(file[i].kind) /\ Rank(file[i + 1]) = RankOf(file[i + 1].kind)
      BY DEF RankOf
    <3>4. /\ file[i].part < file[i].size => file[i + 1] = [file[i] EXCEPT !.part = @ + 1]
          /\ file[i].part = file[i].size => file[i + 1].part = 1
      BY <3>1, Zenon DEF Whole
    <3> HIDE DEF Rank
    <3>5. Rank(file[i]) <= Rank(file[i + 1])
      BY <3>2, <3>3
    <3>6. QED
      BY <3>4, <3>5
  <2>3. {file[i].stream : i \in {j \in DOMAIN file : file[j].kind = "bos"}} = Tracks
    <3>1. BosStreams(file) = {file[i].stream : i \in {j \in DOMAIN file : file[j].kind = "bos"}}
      BY <2>1 DEF BosStreams
    <3>2. option # "none" => file # << >>
      BY DEF Control
    <3>3. BosStreams(file) = (IF option # "none" THEN {Skel} ELSE {}) \cup present
      BY <3>2 DEF Begun
    <3>4. QED
      BY <3>1, <3>3
  <2>4. \A i, j \in DOMAIN file : file[i].serial = file[j].serial <=> file[i].stream = file[j].stream
    BY <2>1, SerialsOfStreams
  <2>5. ASSUME option # "none"
        PROVE  content_offset = Cardinality({i \in DOMAIN file : file[i].kind # "content"})
    <3>1. /\ content_offset <= Len(file)
          /\ \A i \in 1 .. Len(file) : file[i].kind # "content" <=> i <= content_offset
      BY <2>5 DEF Kinds, Early
    <3>2. {i \in DOMAIN file : file[i].kind # "content"} = 1 .. content_offset
      BY <2>1, <3>1
    <3>3. 1 \in Int /\ content_offset \in Int
      BY <2>1
    <3>4. Cardinality(1 .. content_offset) = IF 1 > content_offset THEN 0 ELSE content_offset - 1 + 1
      BY <3>3, FS_Interval
    <3>5. (IF 1 > content_offset THEN 0 ELSE content_offset - 1 + 1) = content_offset
      BY <2>1
    <3>6. QED
      BY <3>2, <3>4, <3>5
  <2> HIDE DEF Rank, Tracks
  <2>6. QED
    BY <2>2, <2>3, <2>4, <2>5
<1>2. QED
  BY <1>1, Invariant, PTL

(* The cells that hold the index or the placeholder of a stream are those of   *)
(* its packet.                                                                 *)
LEMMA IndexCells ==
    ASSUME TypeOK, Located, NEW s \in present, Placed(s)
    PROVE  Cardinality({i \in 1 .. Len(file) : file[i].data = <<s, Final(s)>>}) = packet_size[s]
<1> DEFINE at == page_location[s]
           n == packet_size[s]
           d == <<s, Final(s)>>
<1>1. at \in Nat /\ n \in Nat \ {0} /\ Len(file) \in Nat /\ at + n <= Len(file)
      /\ Len(d) = 2 /\ d[1] = s
  BY TypeFacts DEF Located, PlaceFits
<1>2. PICK no \in Nat : \A i \in 1 .. n : file[at + i] = FlushLoop(n, serialno, no, d)[i]
  BY DEF Located, PlaceHolds
<1> HIDE DEF d
<1>3. ASSUME NEW k \in 1 .. n PROVE file[at + k].data = d
  <2>1. n \in Nat
    BY <1>1
  <2> HIDE DEF n
  <2>2. FlushLoop(n, serialno, no, d)[k] =
           Cell(Skel, "header", serialno, no + PageOf(k), k - PageStart(k), SizeAt(n, k), d)
    BY <2>1, FlushCell
  <2>3. QED
    BY <1>2, <2>2, CellIs
<1>4. ASSUME NEW i \in 1 .. Len(file) PROVE file[i].data = d <=> i \in at + 1 .. at + n
  <2>1. CASE i \in at + 1 .. at + n
    <3> DEFINE k == i - at
    <3>1. k \in 1 .. n /\ i = at + k
      BY <1>1, <2>1
    <3> HIDE DEF k, at, n
    <3>2. QED
      BY <1>3, <2>1, <3>1
  <2>2. CASE file[i].data = d
    <3>1. Len(file[i].data) = 2 /\ file[i].data[1] = s
      BY <1>1, <2>2
    <3>2. InRegion(s, i)
      BY <3>1 DEF Located, PlaceMarks
    <3>3. QED
      BY <2>2, <3>2 DEF InRegion
  <2>3. QED
    BY <2>1, <2>2
<1> HIDE DEF at, n
<1>5. {i \in 1 .. Len(file) : file[i].data = d} = at + 1 .. at + n
  <2>1. \A i \in at + 1 .. at + n : i \in 1 .. Len(file)
    BY <1>1
  <2>2. QED
    BY <1>4, <2>1
<1>6. at + 1 \in Int /\ at + n \in Int
  BY <1>1
<1>7. Cardinality(at + 1 .. at + n) = IF at + 1 > at + n THEN 0 ELSE (at + n) - (at + 1) + 1
  BY <1>6, FS_Interval
<1>8. (IF at + 1 > at + n THEN 0 ELSE (at + n) - (at + 1) + 1) = n
  BY <1>1
<1>9. QED
  BY <1>5, <1>7, <1>8 DEF n, d

(* HeaderTrue: what the fishead says of the version, the length of the file    *)
(* and the start of the content is true at the end, and every stream has its   *)
(* index, or its placeholder if it has no keyframes, whole in the file.        *)
THEOREM HeaderTells == Spec => []HeaderTrue
<1>1. ASSUME Inv PROVE HeaderTrue
  <2> USE <1>1 DEF Inv
  <2> SUFFICES ASSUME pc = "done", option # "none"
               PROVE  /\ file[1].stream = Skel /\ file[1].kind = "bos"
                      /\ skeleton_3 <=> option = "3" \/ ~outfile \/ ~duration
                      /\ IF skeleton_3
                         THEN file[1].data[1] = 3 /\ position = Len(file)
                         ELSE /\ file[1].data = <<4, Len(file), content_offset>>
                              /\ \A s \in present :
                                    /\ page_location[s] > 0
                                    /\ Cardinality({i \in DOMAIN file :
                                          file[i].data = <<s, IF s \in indexed THEN 1 ELSE 0>>})
                                         = packet_size[s]
    BY DEF HeaderTrue
  <2>1. file \in Seq(Cells) /\ DOMAIN file = 1 .. Len(file)
    BY TypeFacts
  <2>2. option \in {"3", "4"} /\ skeleton_3 \in BOOLEAN
    BY SkeletonAssumption DEF TypeOK
  <2>3. output_seekable # "maybe"
    BY DEF Control
  <2>4. skeleton_3 <=> option = "3" \/ ~outfile \/ ~duration
    <3>1. CASE option = "3"
      BY <3>1 DEF Control
    <3>2. CASE option = "4"
      BY <2>3, <3>2 DEF Control
    <3>3. QED
      BY <2>2, <3>1, <3>2
  <2>5. CASE skeleton_3
    <3>1. file[1] = Cell(Skel, "bos", serialno, 0, 1, 1, <<3, 0, 0>>)
      BY <2>5 DEF Headed
    <3>2. file[1].stream = Skel /\ file[1].kind = "bos" /\ file[1].data = <<3, 0, 0>>
      BY <3>1 DEF Cell
    <3>3. position = Len(file)
      BY <2>5 DEF Control, Indexing
    <3>4. QED
      BY <2>4, <2>5, <3>2, <3>3
  <2>6. CASE ~skeleton_3
    <3>1. PICK l \in Int, o \in Int :
             /\ \A i \in 1 .. 2 : file[i] = Cell(Skel, "bos", serialno, 0, i, 2, <<4, l, o>>)
             /\ l = Len(file) /\ o = content_offset
      BY <2>6 DEF Headed
    <3>2. file[1].stream = Skel /\ file[1].kind = "bos" /\ file[1].data = <<4, Len(file), content_offset>>
      <4>1. file[1] = Cell(Skel, "bos", serialno, 0, 1, 2, <<4, l, o>>)
        BY <3>1
      <4>2. QED
        BY <3>1, <4>1 DEF Cell
    <3>3. Indexing /\ todo = {}
      BY <2>6 DEF Indexing, Control
    <3>4. ASSUME NEW s \in present
          PROVE  /\ page_location[s] > 0
                 /\ Cardinality({i \in DOMAIN file :
                       file[i].data = <<s, IF s \in indexed THEN 1 ELSE 0>>}) = packet_size[s]
      <4>1. Placed(s)
        BY <3>3 DEF Located, PlacedWhen
      <4>2. Final(s) = IF s \in indexed THEN 1 ELSE 0
        BY <3>3 DEF Final
      <4>3. Cardinality({i \in 1 .. Len(file) : file[i].data = <<s, Final(s)>>}) = packet_size[s]
        BY <4>1, IndexCells
      <4>4. QED
        BY <2>1, <4>1, <4>2, <4>3, Zenon DEF Placed
    <3>5. QED
      BY <2>4, <2>6, <3>2, <3>4, Zenon
  <2>7. QED
    BY <2>2, <2>5, <2>6
<1>2. QED
  BY <1>1, Invariant, PTL
=============================================================================
