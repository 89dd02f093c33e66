------------------------ MODULE FrontendQueueProofs ------------------------
(***************************************************************************)
(* Proofs about the queue of Simple Theora Encoder for any number of       *)
(* videos: none is encoded twice, never two at a time, and closing the     *)
(* window leaves no encoding behind but one that was just being started.   *)
(***************************************************************************)
EXTENDS FrontendQueue, FiniteSetTheorems, SequenceTheorems, WellFoundedInduction, TLAPS

-----------------------------------------------------------------------------
(* Numbers. *)

(* The order of the natural numbers is well founded.                           *)
LEMMA NatLess == \E R : IsWellFoundedOn(R, Nat) /\ \A x, y \in Nat : x < y => <<x, y>> \in R
<1>1. \A x, y \in Nat : x < y => <<x, y>> \in OpToRel(<, Nat)
  BY DEF OpToRel
<1>2. QED
  BY <1>1, NatLessThanWellFounded

(* nextItem finds the first of the keys it looks through.                      *)
LEMMA Least ==
    ASSUME NEW S, S \subseteq Nat, S # {}
    PROVE  Min(S) \in S /\ \A y \in S : Min(S) <= y
<1>1. PICK R : IsWellFoundedOn(R, Nat) /\ \A x, y \in Nat : x < y => <<x, y>> \in R
  BY NatLess
<1>2. IsWellFoundedOn(R, Nat)
  BY <1>1
<1>3. PICK x \in S : \A y \in S : ~(<<y, x>> \in R)
  BY <1>2, WFMin, Zenon
<1>4. ASSUME NEW y \in S PROVE x <= y
  <2>1. x \in Nat /\ y \in Nat
    OBVIOUS
  <2>2. y < x => <<y, x>> \in R
    BY <1>1, <2>1
  <2>3. ~(<<y, x>> \in R)
    BY <1>3
  <2>4. QED
    BY <2>1, <2>2, <2>3
<1>5. QED
  BY <1>4 DEF Min

(* A bounded set of natural numbers has a greatest one: its least bound.       *)
LEMMA Greatest ==
    ASSUME NEW n \in Nat, NEW S, S \subseteq 0 .. n, S # {}
    PROVE  Max(S) \in S /\ \A y \in S : Max(S) >= y
<1> DEFINE Bounds == {m \in Nat : \A y \in S : y <= m}
           b == Min(Bounds)
<1>1. n \in Bounds /\ Bounds \subseteq Nat
  OBVIOUS
<1>2. b \in Bounds /\ \A m \in Bounds : b <= m
  BY <1>1, Least
<1>3. b \in Nat /\ \A y \in S : y <= b
  BY <1>2
<1> HIDE DEF b
<1>4. b \in S
  <2> SUFFICES ASSUME b \notin S PROVE FALSE
    OBVIOUS
  <2>1. \A y \in S : y \in Nat /\ y < b
    BY <1>3
  <2>2. PICK z : z \in S
    OBVIOUS
  <2>3. b - 1 \in Nat /\ \A y \in S : y <= b - 1
    BY <1>3, <2>1, <2>2
  <2>4. b - 1 \in Bounds
    BY <2>3
  <2>5. QED
    BY <1>2, <1>3, <2>4
<1>5. \A y \in S : b >= y
  BY <1>3
<1>6. QED
  BY <1>4, <1>5 DEF Max

(* How many numbers of S there are up to x.                                    *)
Place(S, x) == Cardinality({y \in S : y <= x})

(* Numbers have places between 1 and the size of their set, a greater one a    *)
(* later one.                                                                  *)
LEMMA PlaceGrows ==
    ASSUME NEW S, S \subseteq Int, IsFiniteSet(S), NEW x \in S
    PROVE  /\ Place(S, x) \in 1 .. Cardinality(S)
           /\ \A y \in S : x < y => Place(S, x) < Place(S, y)
<1> DEFINE U(z) == {y \in S : y <= z}
<1>1. \A z \in S : U(z) \in SUBSET S /\ z \in U(z)
  OBVIOUS
<1>2. \A z \in S : IsFiniteSet(U(z)) /\ Cardinality(U(z)) <= Cardinality(S)
  BY <1>1, FS_Subset
<1>3. \A z \in S : Cardinality(U(z)) \in Nat /\ Cardinality(S) \in Nat
  BY <1>2, FS_CardinalityType
<1>4. Cardinality(U(x)) # 0
  <2>1. U(x) # {}
    BY <1>1
  <2> HIDE DEF U
  <2>2. QED
    BY <1>2, <2>1, FS_EmptySet
<1>5. ASSUME NEW y \in S, x < y PROVE Cardinality(U(x)) < Cardinality(U(y))
  <2>1. U(x) \in SUBSET U(y) /\ y \in U(y) /\ y \notin U(x)
    <3>1. x \in Int /\ y \in Int /\ ~(y <= x)
      BY <1>5
    <3>2. \A z \in S : z \in Int /\ (z <= x => z <= y)
      BY <1>5
    <3>3. U(x) \subseteq U(y)
      BY <3>2
    <3>4. y \in U(y) /\ y \notin U(x)
      BY <3>1
    <3>5. QED
      BY <3>3, <3>4
  <2> HIDE DEF U
  <2>2. /\ Cardinality(U(x)) <= Cardinality(U(y))
        /\ Cardinality(U(y)) = Cardinality(U(x)) => U(y) = U(x)
    BY <1>2, <2>1, FS_Subset
  <2>3. Cardinality(U(y)) # Cardinality(U(x))
    BY <2>1, <2>2
  <2>4. QED
    BY <1>3, <2>2, <2>3
<1>6. \A z : Place(S, z) = Cardinality(U(z))
  BY DEF Place
<1> HIDE DEF U
<1>7. QED
  BY <1>2, <1>3, <1>4, <1>5, <1>6

(* A set of numbers can be listed in ascending order.                          *)
LEMMA ListingExists ==
    ASSUME NEW S, S \subseteq Int, IsFiniteSet(S)
    PROVE  \E f \in [1 .. Cardinality(S) -> S] : Ascending(f)
<1> DEFINE m == Cardinality(S)
           R == [x \in S |-> Place(S, x)]
<1>1. m \in Nat
  BY FS_CardinalityType
<1>2. \A x \in S : R[x] = Place(S, x) /\ x \in Int
  OBVIOUS
<1>3. \A x \in S : R[x] \in 1 .. m
  BY <1>2, PlaceGrows
<1>4. \A x, y \in S : x < y => R[x] < R[y]
  BY <1>2, PlaceGrows
<1>5. R \in [S -> 1 .. m]
  BY <1>3
<1>6. DOMAIN R = S
  OBVIOUS
<1> HIDE DEF R
<1>7. ASSUME NEW x \in S, NEW y \in S, R[x] = R[y] PROVE x = y
  <2>1. R[x] \in Int /\ x \in Int /\ y \in Int
    BY <1>2, <1>3
  <2>2. ~(R[x] < R[y]) /\ ~(R[y] < R[x])
    BY <1>7, <2>1
  <2>3. ~(x < y) /\ ~(y < x)
    BY <1>4, <2>2
  <2>4. QED
    BY <2>1, <2>3
<1>8. R \in Injection(S, 1 .. m)
  BY <1>5, <1>6, <1>7 DEF Injection, IsInjective
<1>9. IsFiniteSet(1 .. m) /\ Cardinality(1 .. m) = m
  <2> HIDE DEF m
  <2>1. 1 \in Int /\ m \in Int /\ (1 > m => m = 0) /\ m - 1 + 1 = m
    BY <1>1
  <2>2. QED
    BY <2>1, FS_Interval
<1>10. R \in Surjection(S, 1 .. m)
  BY <1>8, <1>9, FS_Injection
<1>11. \A k \in 1 .. m : \E x \in S : R[x] = k
  BY <1>10 DEF Surjection
<1> DEFINE f == [k \in 1 .. m |-> CHOOSE x \in S : R[x] = k]
<1>12. \A k \in 1 .. m : f[k] \in S /\ R[f[k]] = k
  BY <1>11
<1>13. f \in [1 .. m -> S] /\ DOMAIN f = 1 .. m
  BY <1>12
<1> HIDE DEF f
<1>14. ASSUME NEW k \in 1 .. m, NEW l \in 1 .. m, k < l PROVE f[k] < f[l]
  <2>1. /\ f[k] \in S /\ f[l] \in S /\ f[k] \in Int /\ f[l] \in Int
        /\ R[f[k]] = k /\ R[f[l]] = l
    BY <1>2, <1>12
  <2>5. k \in Int /\ l \in Int
    OBVIOUS
  <2>2. f[l] < f[k] => l < k
    BY <1>4, <2>1
  <2>3. f[l] # f[k]
    BY <1>14, <2>1, <2>5
  <2>4. QED
    BY <1>14, <2>1, <2>2, <2>3, <2>5
<1>15. Ascending(f)
  BY <1>13, <1>14 DEF Ascending
<1>16. QED
  BY <1>13, <1>15

(* What is listed in ascending order is every number of the set, once.         *)
LEMMA AscendingIs ==
    ASSUME NEW S, S \subseteq Int, IsFiniteSet(S),
           NEW f \in [1 .. Cardinality(S) -> S], Ascending(f)
    PROVE  /\ \A k, l \in 1 .. Cardinality(S) : f[k] = f[l] => k = l
           /\ \A x \in S : \E k \in 1 .. Cardinality(S) : f[k] = x
           /\ \A k \in 1 .. Cardinality(S) : Place(S, f[k]) = k
<1> DEFINE m == Cardinality(S)
<1>1. m \in Nat
  BY FS_CardinalityType
<1> HIDE DEF m
<1>2. f \in [1 .. m -> S] /\ DOMAIN f = 1 .. m
  BY DEF m
<1>3. \A k, l \in 1 .. m : k < l => f[k] < f[l]
  BY <1>2 DEF Ascending
<1>4. \A k \in 1 .. m : f[k] \in S /\ f[k] \in Int /\ k \in Int
  <2> TAKE k \in 1 .. m
  <2>1. f[k] \in S
    BY <1>2
  <2>2. k \in Int
    BY <1>1
  <2>3. QED
    BY <2>1, <2>2
<1>5. ASSUME NEW k \in 1 .. m, NEW l \in 1 .. m, f[k] = f[l] PROVE k = l
  <2>1. ~(f[k] < f[l]) /\ ~(f[l] < f[k])
    BY <1>4, <1>5
  <2>2. ~(k < l) /\ ~(l < k)
    BY <1>3, <2>1
  <2>3. QED
    BY <1>4, <2>2
<1>6. \A n \in Nat : IsFiniteSet(1 .. n) /\ Cardinality(1 .. n) = n
  <2> TAKE n \in Nat
  <2>1. 1 \in Int /\ n \in Int /\ (1 > n => n = 0) /\ n - 1 + 1 = n
    OBVIOUS
  <2>2. QED
    BY <2>1, FS_Interval
<1>7. \A x \in S : \E k \in 1 .. m : f[k] = x
  <2>1. f \in Injection(1 .. m, S)
    BY <1>2, <1>5 DEF Injection, IsInjective
  <2>2. f \in Surjection(1 .. m, S)
    BY <1>1, <1>6, <2>1, FS_Injection DEF m
  <2>3. QED
    BY <2>2 DEF Surjection
<1>8. ASSUME NEW k \in 1 .. m PROVE Place(S, f[k]) = k
  <2> DEFINE U == {y \in S : y <= f[k]}
             g == [j \in 1 .. k |-> f[j]]
  <2>1. \A j \in 1 .. k : j \in 1 .. m /\ g[j] = f[j]
    BY <1>1, <1>4
  <2>2. \A j \in 1 .. k : g[j] \in U
    <3> TAKE j \in 1 .. k
    <3>1. j \in 1 .. m /\ (j < k \/ j = k)
      BY <1>1, <2>1
    <3>2. f[j] < f[k] \/ f[j] = f[k]
      BY <1>3, <3>1
    <3>3. f[j] <= f[k]
      BY <1>4, <3>1, <3>2
    <3>4. QED
      BY <1>4, <2>1, <3>1, <3>3
  <2>3. g \in [1 .. k -> U] /\ DOMAIN g = 1 .. k
    BY <2>2
  <2>4. \A i, j \in 1 .. k : g[i] = g[j] => i = j
    BY <1>5, <2>1
  <2>5. \A y \in U : \E j \in 1 .. k : g[j] = y
    <3> TAKE y \in U
    <3>1. y \in S /\ y \in Int /\ y <= f[k]
      OBVIOUS
    <3>2. PICK j \in 1 .. m : f[j] = y
      BY <1>7, <3>1
    <3>3. ~(k < j)
      <4>1. k < j => f[k] < f[j]
        BY <1>3
      <4>2. QED
        BY <1>4, <3>1, <3>2, <4>1
    <3>4. j \in 1 .. k
      BY <1>4, <3>3
    <3>5. QED
      BY <2>1, <3>2, <3>4
  <2> HIDE DEF g, U
  <2>6. g \in Injection(1 .. k, U) /\ g \in Surjection(1 .. k, U)
    BY <2>3, <2>4, <2>5 DEF Injection, Surjection, IsInjective
  <2>7. k \in Nat /\ IsFiniteSet(1 .. k) /\ Cardinality(1 .. k) = k
    <3>1. k \in Nat
      BY <1>1
    <3>2. QED
      BY <1>6, <3>1
  <2>8. IsFiniteSet(U)
    BY <2>6, <2>7, FS_Surjection
  <2>9. Cardinality(U) = k
    BY <2>6, <2>7, <2>8, FS_Surjection
  <2>10. QED
    BY <2>9 DEF Place, U
<1>9. QED
  BY <1>5, <1>7, <1>8 DEF m

(* There is one such list.                                                     *)
LEMMA ListingIs ==
    ASSUME NEW S, S \subseteq Int, IsFiniteSet(S)
    PROVE  /\ Listing(S) \in [1 .. Cardinality(S) -> S] /\ Ascending(Listing(S))
           /\ \A f \in [1 .. Cardinality(S) -> S] : Ascending(f) => f = Listing(S)
<1> DEFINE m == Cardinality(S)
           L == Listing(S)
<1>1. L \in [1 .. m -> S] /\ Ascending(L)
  BY ListingExists DEF Listing
<1>2. ASSUME NEW f \in [1 .. m -> S], Ascending(f) PROVE f = L
  <2> HIDE DEF L
  <2>1. /\ \A k \in 1 .. m : Place(S, f[k]) = k
        /\ \A k \in 1 .. m : Place(S, L[k]) = k
    BY <1>1, <1>2, AscendingIs
  <2>2. ASSUME NEW k \in 1 .. m PROVE f[k] = L[k]
    <3>1. f[k] \in S /\ L[k] \in S /\ f[k] \in Int /\ L[k] \in Int
      BY <1>1
    <3>2. /\ f[k] < L[k] => Place(S, f[k]) < Place(S, L[k])
          /\ L[k] < f[k] => Place(S, L[k]) < Place(S, f[k])
      BY <3>1, PlaceGrows
    <3>3. ~(k < k)
      OBVIOUS
    <3>4. QED
      BY <2>1, <3>1, <3>2, <3>3
  <2>3. f = [k \in 1 .. m |-> f[k]] /\ L = [k \in 1 .. m |-> L[k]]
    BY <1>1
  <2>4. QED
    BY <2>2, <2>3
<1>3. QED
  BY <1>1, <1>2

(* A number above all others comes last.                                       *)
LEMMA ListingLast ==
    ASSUME NEW S, S \subseteq Int, IsFiniteSet(S), NEW x \in Int, \A y \in S : y < x
    PROVE  Listing(S \cup {x}) = Append(Listing(S), x)
<1> DEFINE m == Cardinality(S)
           L == Listing(S)
           T == S \cup {x}
           f == Append(L, x)
<1>1. L \in [1 .. m -> S] /\ Ascending(L)
  BY ListingIs
<1>2. m \in Nat
  BY FS_CardinalityType
<1>3. x \notin S
  OBVIOUS
<1>4. IsFiniteSet(T) /\ Cardinality(T) = m + 1 /\ T \subseteq Int
  BY <1>3, FS_AddElement
<1> HIDE DEF L, m
<1>5. \A k, l \in 1 .. m : k < l => L[k] < L[l]
  BY <1>1 DEF Ascending
<1>6. L \in Seq(T) /\ Len(L) = m /\ x \in T
  BY <1>1, <1>2
<1>7. /\ f \in [1 .. m + 1 -> T] /\ DOMAIN f = 1 .. m + 1
      /\ f[m + 1] = x /\ \A k \in 1 .. m : f[k] = L[k]
  <2>1. f \in Seq(T) /\ Len(f) = m + 1 /\ f[m + 1] = x /\ \A k \in 1 .. m : f[k] = L[k]
    BY <1>6, AppendProperties
  <2> HIDE DEF f
  <2>2. QED
    BY <2>1, LenProperties
<1> HIDE DEF f
<1>8. ASSUME NEW k \in 1 .. m + 1, NEW l \in 1 .. m + 1, k < l PROVE f[k] < f[l]
  <2>1. k \in 1 .. m /\ (l \in 1 .. m \/ l = m + 1)
    BY <1>2, <1>8
  <2>2. L[k] \in S
    BY <1>1, <2>1
  <2>3. QED
    BY <1>5, <1>7, <1>8, <2>1, <2>2
<1>9. Ascending(f)
  BY <1>7, <1>8 DEF Ascending
<1>10. f = Listing(T)
  BY <1>4, <1>7, <1>9, ListingIs
<1>11. QED
  BY <1>10 DEF f, L

-----------------------------------------------------------------------------
(* The invariant. *)

(* A video; what row it is shown in does not matter here.                      *)
Item(S) == [key : Nat, itemID : S, encoded : BOOLEAN, p : BOOLEAN,
            child : {"none", "running", "exited", "reaped"}]

ItemsInv == \E S : items \in Seq(Item(S))

InQueue(id) == items[id].key \in DOMAIN queuedata /\ queuedata[items[id].key] = id

(* The queue knows every video that was not removed, under its own key.        *)
QueueInv ==
    /\ DOMAIN queuedata \subseteq 1 .. Len(items)
    /\ \A k \in DOMAIN queuedata : queuedata[k] \in DOMAIN items /\ items[queuedata[k]].key = k
    /\ \A id \in DOMAIN items : InQueue(id) \/ id \in removed
    /\ removed \subseteq DOMAIN items
    /\ gui \in {"cancel", "delete", "kill"} => subject \in DOMAIN items
    /\ gui \in {"cancel", "delete"} => InQueue(subject)

(* What the thread knows of its video: it has neither been encoded nor got a   *)
(* process before it is started, and no other has a running process.           *)
ThreadInv ==
    /\ thread # "idle" => encoding
    /\ thread \in {"begin", "popen", "publish", "wait", "result"} => next \in DOMAIN items
    /\ thread \in {"begin", "popen"} => items[next].encoded = FALSE
    /\ thread \in {"begin", "popen", "publish"} => items[next].p = FALSE
    /\ thread = "publish" => items[next].child # "none"
    /\ \A id \in DOMAIN items :
          items[id].child = "running" => id = next /\ thread \in {"publish", "wait", "dead"}
    /\ \A id \in DOMAIN items :
          items[id].p = TRUE =>
              /\ items[id].child # "none"
              /\ items[id].encoded = TRUE \/ (id = next /\ thread \in {"wait", "result", "dead"})

(* A process is started for a video that is encoded then, or still is.         *)
StartedInv ==
    /\ started \in Seq(Nat)
    /\ \A m \in DOMAIN started :
          /\ started[m] \in DOMAIN items
          /\ \/ items[started[m]].encoded = TRUE
             \/ started[m] = next /\ thread \in {"publish", "wait", "result", "dead"}
    /\ \A m, n \in DOMAIN started : started[m] = started[n] => m = n

(* A video that OnClose has dealt with has no process that could still run.    *)
Settled(id) ==
    /\ items[id].p = TRUE
    /\ items[id].child \in {"exited", "reaped"} \/ (gui = "kill" /\ id = subject)

CloseInv ==
    /\ quit <=> gui \in {"close", "kill", "closed"}
    /\ pending \subseteq DOMAIN queuedata
    /\ ~quit \/ gui = "closed" => pending = {}
    /\ quit => \A id \in DOMAIN items :
                  \/ id \in missed \cup removed
                  \/ \E k \in pending : queuedata[k] = id
                  \/ Settled(id)

QuitInv ==
    \/ afterQuit = 0
    \/ afterQuit = 1 /\ quit /\ thread \notin {"begin", "popen"}

Inv == ItemsInv /\ QueueInv /\ ThreadInv /\ StartedInv /\ CloseInv /\ QuitInv

(* There is no video at first.                                                 *)
LEMMA InitInv == Init => Inv
<1> SUFFICES ASSUME Init PROVE Inv
  OBVIOUS
<1>1. /\ Len(items) = 0 /\ items = << >> /\ queuedata = << >> /\ started = << >>
      /\ removed = {} /\ gui = "idle" /\ thread = "idle" /\ ~quit /\ pending = {} /\ afterQuit = 0
  BY EmptySeq DEF Init
<1>2. DOMAIN items = {} /\ DOMAIN queuedata = {} /\ DOMAIN started = {}
  BY <1>1, EmptySeq
<1>3. \A S : << >> \in Seq(S)
  BY EmptySeq
<1>4. ItemsInv
  BY <1>1, <1>3 DEF ItemsInv
<1>5. QueueInv
  BY <1>1, <1>2 DEF QueueInv
<1>6. ThreadInv
  BY <1>1, <1>2 DEF ThreadInv
<1>7. StartedInv
  BY <1>1, <1>2, <1>3 DEF StartedInv
<1>8. CloseInv /\ QuitInv
  BY <1>1, <1>2 DEF CloseInv, QuitInv
<1>9. QED
  BY <1>4, <1>5, <1>6, <1>7, <1>8 DEF Inv

-----------------------------------------------------------------------------
(* Changes of one field of one video. *)

(* The fields a video has, whatever row it is in.                              *)
Same(id) ==
    /\ items'[id].key = items[id].key /\ items'[id].encoded = items[id].encoded
    /\ items'[id].p = items[id].p /\ items'[id].child = items[id].child

SameDomain == DOMAIN items' = DOMAIN items /\ Len(items') = Len(items)

(* A process is started, ends or is waited for.                                *)
LEMMA ChildChange ==
    ASSUME ItemsInv, NEW id \in DOMAIN items,
           NEW c \in {"none", "running", "exited", "reaped"},
           items' = [items EXCEPT ![id].child = c]
    PROVE  /\ ItemsInv' /\ SameDomain
           /\ \A j \in DOMAIN items : j # id => Same(j)
           /\ items'[id].key = items[id].key /\ items'[id].encoded = items[id].encoded
           /\ items'[id].p = items[id].p /\ items'[id].child = c
<1>1. PICK S : items \in Seq(Item(S))
  BY DEF ItemsInv
<1>2. items \in [1 .. Len(items) -> Item(S)] /\ Len(items) \in Nat /\ DOMAIN items = 1 .. Len(items)
  BY <1>1, LenProperties
<1>3. items[id] \in Item(S)
  BY <1>2
<1>4. [items[id] EXCEPT !.child = c] \in Item(S)
  BY <1>3 DEF Item
<1>5. items' = [items EXCEPT ![id] = [items[id] EXCEPT !.child = c]]
  OBVIOUS
<1>6. items' \in Seq(Item(S)) /\ Len(items') = Len(items) /\ DOMAIN items' = DOMAIN items
  BY <1>1, <1>4, <1>5, ExceptSeq
<1>7. items'[id] = [items[id] EXCEPT !.child = c] /\ \A j \in DOMAIN items : j # id => items'[j] = items[j]
  BY <1>2, <1>5
<1>8. ItemsInv'
  BY <1>6 DEF ItemsInv
<1>9. /\ items'[id].key = items[id].key /\ items'[id].encoded = items[id].encoded
      /\ items'[id].p = items[id].p /\ items'[id].child = c
  BY <1>3, <1>7 DEF Item
<1>10. QED
  BY <1>6, <1>7, <1>8, <1>9 DEF Same, SameDomain

(* self.p is set.                                                              *)
LEMMA PChange ==
    ASSUME ItemsInv, NEW id \in DOMAIN items, items' = [items EXCEPT ![id].p = TRUE]
    PROVE  /\ ItemsInv' /\ SameDomain
           /\ \A j \in DOMAIN items : j # id => Same(j)
           /\ items'[id].key = items[id].key /\ items'[id].encoded = items[id].encoded
           /\ items'[id].p = TRUE /\ items'[id].child = items[id].child
<1>1. PICK S : items \in Seq(Item(S))
  BY DEF ItemsInv
<1>2. items \in [1 .. Len(items) -> Item(S)] /\ Len(items) \in Nat /\ DOMAIN items = 1 .. Len(items)
  BY <1>1, LenProperties
<1>3. items[id] \in Item(S)
  BY <1>2
<1>4. [items[id] EXCEPT !.p = TRUE] \in Item(S)
  BY <1>3 DEF Item
<1>5. items' = [items EXCEPT ![id] = [items[id] EXCEPT !.p = TRUE]]
  OBVIOUS
<1>6. items' \in Seq(Item(S)) /\ Len(items') = Len(items) /\ DOMAIN items' = DOMAIN items
  BY <1>1, <1>4, <1>5, ExceptSeq
<1>7. items'[id] = [items[id] EXCEPT !.p = TRUE] /\ \A j \in DOMAIN items : j # id => items'[j] = items[j]
  BY <1>2, <1>5
<1>8. ItemsInv'
  BY <1>6 DEF ItemsInv
<1>9. /\ items'[id].key = items[id].key /\ items'[id].encoded = items[id].encoded
      /\ items'[id].p = TRUE /\ items'[id].child = items[id].child
  BY <1>3, <1>7 DEF Item
<1>10. QED
  BY <1>6, <1>7, <1>8, <1>9 DEF Same, SameDomain

(* item['encoded'] is set.                                                     *)
LEMMA EncodedChange ==
    ASSUME ItemsInv, NEW id \in DOMAIN items, items' = [items EXCEPT ![id].encoded = TRUE]
    PROVE  /\ ItemsInv' /\ SameDomain
           /\ \A j \in DOMAIN items : j # id => Same(j)
           /\ items'[id].key = items[id].key /\ items'[id].encoded = TRUE
           /\ items'[id].p = items[id].p /\ items'[id].child = items[id].child
<1>1. PICK S : items \in Seq(Item(S))
  BY DEF ItemsInv
<1>2. items \in [1 .. Len(items) -> Item(S)] /\ Len(items) \in Nat /\ DOMAIN items = 1 .. Len(items)
  BY <1>1, LenProperties
<1>3. items[id] \in Item(S)
  BY <1>2
<1>4. [items[id] EXCEPT !.encoded = TRUE] \in Item(S)
  BY <1>3 DEF Item
<1>5. items' = [items EXCEPT ![id] = [items[id] EXCEPT !.encoded = TRUE]]
  OBVIOUS
<1>6. items' \in Seq(Item(S)) /\ Len(items') = Len(items) /\ DOMAIN items' = DOMAIN items
  BY <1>1, <1>4, <1>5, ExceptSeq
<1>7. items'[id] = [items[id] EXCEPT !.encoded = TRUE] /\ \A j \in DOMAIN items : j # id => items'[j] = items[j]
  BY <1>2, <1>5
<1>8. ItemsInv'
  BY <1>6 DEF ItemsInv
<1>9. /\ items'[id].key = items[id].key /\ items'[id].encoded = TRUE
      /\ items'[id].p = items[id].p /\ items'[id].child = items[id].child
  BY <1>3, <1>7 DEF Item
<1>10. QED
  BY <1>6, <1>7, <1>8, <1>9 DEF Same, SameDomain

(* Filling the list numbers the rows and leaves the videos as they are.        *)
LEMMA FillChange ==
    ASSUME ItemsInv, Fill
    PROVE  ItemsInv' /\ SameDomain /\ \A j \in DOMAIN items : Same(j)
<1> DEFINE row(id) == CHOOSE r \in DOMAIN Keys : queuedata[Keys[r]] = id
           shown(id) == \E r \in DOMAIN Keys : queuedata[Keys[r]] = id
<1>1. PICK S : items \in Seq(Item(S))
  BY DEF ItemsInv
<1>2. items \in [1 .. Len(items) -> Item(S)] /\ Len(items) \in Nat /\ DOMAIN items = 1 .. Len(items)
  BY <1>1, LenProperties
<1>3. items' = [id \in DOMAIN items |->
                   IF shown(id) THEN [items[id] EXCEPT !.itemID = row(id)] ELSE items[id]]
  BY DEF Fill
<1> HIDE DEF row, shown
<1> DEFINE T == S \cup {row(id) : id \in DOMAIN items}
<1>4. ASSUME NEW id \in DOMAIN items
      PROVE  items'[id] \in Item(T) /\ Same(id)
  <2>1. items[id] \in Item(S)
    BY <1>2, <1>4
  <2>2. row(id) \in T /\ S \subseteq T
    OBVIOUS
  <2> HIDE DEF T
  <2>3. items[id] \in Item(T)
    BY <2>1, <2>2 DEF Item
  <2>4. [items[id] EXCEPT !.itemID = row(id)] \in Item(T)
    BY <2>2, <2>3 DEF Item
  <2>5. items'[id] = [items[id] EXCEPT !.itemID = row(id)] \/ items'[id] = items[id]
    BY <1>3
  <2>6. Same(id)
    BY <2>1, <2>5 DEF Item, Same
  <2>7. QED
    BY <2>3, <2>4, <2>5, <2>6
<1> HIDE DEF T
<1>5. items' \in [1 .. Len(items) -> Item(T)]
  <2>1. DOMAIN items' = 1 .. Len(items)
    BY <1>2, <1>3
  <2>2. items' = [id \in 1 .. Len(items) |-> items'[id]]
    BY <1>2, <1>3
  <2>3. QED
    BY <1>2, <1>4, <2>2
<1>6. items' \in Seq(Item(T)) /\ Len(items') = Len(items) /\ DOMAIN items' = DOMAIN items
  BY <1>2, <1>5
<1>7. QED
  BY <1>4, <1>6 DEF ItemsInv, SameDomain

-----------------------------------------------------------------------------
(* What a step leaves alone stays right. *)

(* A step that changes no key and not the queue leaves every video under its   *)
(* key.                                                                        *)
LEMMA QueueKept ==
    ASSUME QueueInv, SameDomain, \A j \in DOMAIN items : Same(j), UNCHANGED <<queuedata, removed>>,
           gui' \in {"cancel", "delete", "kill"} => subject' \in DOMAIN items,
           gui' \in {"cancel", "delete"} => InQueue(subject')
    PROVE  QueueInv'
<1>1. \A j \in DOMAIN items : items'[j].key = items[j].key
  BY DEF Same
<1>2. DOMAIN items' = DOMAIN items /\ Len(items') = Len(items) /\ queuedata' = queuedata
      /\ removed' = removed
  BY DEF SameDomain
<1>3. \A j \in DOMAIN items : InQueue(j) => InQueue(j)'
  BY <1>1, <1>2 DEF InQueue
<1>4. gui' \in {"cancel", "delete"} => InQueue(subject)'
  BY <1>1, <1>2 DEF InQueue
<1>5. QED
  BY <1>1, <1>2, <1>3, <1>4 DEF QueueInv

(* The thread's view of the videos holds while they and the thread are left    *)
(* alone.                                                                      *)
LEMMA ThreadKept ==
    ASSUME ThreadInv, SameDomain, \A j \in DOMAIN items : Same(j), UNCHANGED <<thread, next, encoding>>
    PROVE  ThreadInv'
BY DEF ThreadInv, SameDomain, Same

(* So does what is known of the videos that were started.                      *)
LEMMA StartedKept ==
    ASSUME StartedInv, SameDomain, UNCHANGED <<started, thread, next>>,
           \A j \in DOMAIN items : items'[j].encoded = items[j].encoded
    PROVE  StartedInv'
BY DEF StartedInv, SameDomain

(* While the window is open nothing is to be settled.                          *)
LEMMA CloseOpen ==
    ASSUME CloseInv, gui \notin {"close", "kill", "closed"}, gui' \notin {"close", "kill", "closed"},
           UNCHANGED <<quit, pending>>
    PROVE  CloseInv'
BY DEF CloseInv

(* The thread settles nothing, and spoils nothing that is settled.             *)
LEMMA CloseKept ==
    ASSUME CloseInv, SameDomain, UNCHANGED <<quit, gui, subject, pending, queuedata, missed, removed>>,
           \A j \in DOMAIN items : Settled(j) => Settled(j)'
    PROVE  CloseInv'
BY DEF CloseInv, SameDomain

(* Without a step of the thread no process is started after quit was set.      *)
LEMMA QuitKept ==
    ASSUME QuitInv, UNCHANGED <<afterQuit, thread>>, quit => quit'
    PROVE  QuitInv'
BY DEF QuitInv

(* A step that changes no video.                                               *)
LEMMA ItemsKept ==
    ASSUME ItemsInv, items' = items
    PROVE  ItemsInv' /\ SameDomain /\ \A j \in DOMAIN items : Same(j)
BY DEF ItemsInv, SameDomain, Same

-----------------------------------------------------------------------------
(* The GUI thread. *)

(* Looking, selecting, showing: nothing but the list control changes.          *)
LEMMA ShowSteps ==
    ASSUME Inv, Show \/ Offer \/ Select \/ Clear \/ ClickRemove
    PROVE  Inv'
<1> USE DEF list, guiState, history
<1>1. /\ UNCHANGED <<items, queuedata, removed, thread, next, encoding, started, quit, pending, afterQuit>>
      /\ gui \notin {"close", "kill", "closed"} /\ gui' \notin {"close", "kill", "closed"}
  BY DEF Show, Offer, Select, Clear, ClickRemove
<1>2. ItemsInv' /\ SameDomain /\ \A j \in DOMAIN items : Same(j)
  BY <1>1, ItemsKept DEF Inv
<1>3. /\ gui' \in {"cancel", "delete", "kill"} => subject' \in DOMAIN items
      /\ gui' \in {"cancel", "delete"} => InQueue(subject')
  <2>1. CASE ClickRemove
    <3>1. rows[currentItem] \in DOMAIN queuedata /\ subject' = queuedata[rows[currentItem]]
      BY <2>1 DEF ClickRemove
    <3>2. QED
      BY <3>1 DEF Inv, QueueInv, InQueue
  <2>2. CASE Show \/ Offer \/ Select \/ Clear
    <3>1. gui' \notin {"cancel", "delete", "kill"}
      BY <2>2 DEF Show, Offer, Select, Clear
    <3>2. QED
      BY <3>1
  <2>3. QED
    BY <2>1, <2>2
<1>4. QueueInv'
  BY <1>1, <1>2, <1>3, QueueKept DEF Inv
<1>5. ThreadInv' /\ StartedInv'
  <2>1. \A j \in DOMAIN items : items'[j].encoded = items[j].encoded
    BY <1>2 DEF Same
  <2>2. QED
    BY <1>1, <1>2, <2>1, ThreadKept, StartedKept DEF Inv
<1>6. CloseInv' /\ QuitInv'
  BY <1>1, CloseOpen, QuitKept DEF Inv
<1>7. QED
  BY <1>2, <1>4, <1>5, <1>6 DEF Inv

(* OnEncode starts the thread when there is none.                              *)
LEMMA EncodeStep == ASSUME Inv, Encode PROVE Inv'
<1> USE DEF list, guiState, history
<1>1. /\ UNCHANGED <<items, queuedata, removed, next, started, quit, pending, afterQuit, gui, subject>>
      /\ gui = "idle" /\ encoding' = TRUE /\ thread' = "next"
  BY DEF Encode
<1>2. ItemsInv' /\ SameDomain /\ \A j \in DOMAIN items : Same(j)
  BY <1>1, ItemsKept DEF Inv
<1>3. QueueInv'
  BY <1>1, <1>2, QueueKept DEF Inv
<1>4. thread = "idle"
  BY DEF Inv, ThreadInv, Encode
<1>5. ThreadInv'
  BY <1>1, <1>4 DEF Inv, ThreadInv
<1>6. StartedInv'
  BY <1>1, <1>4 DEF Inv, StartedInv
<1>7. CloseInv'
  BY <1>1, CloseOpen DEF Inv
<1>8. QuitInv'
  BY <1>1 DEF Inv, QuitInv
<1>9. QED
  BY <1>2, <1>3, <1>5, <1>6, <1>7, <1>8 DEF Inv

(* The key is free, so no video in the queue is lost.                          *)
LEMMA KeyIsNew ==
    ASSUME ItemsInv, QueueInv
    PROVE  NewKey \in 1 .. Len(items) + 1 /\ NewKey \notin DOMAIN queuedata
<1>1. Len(items) \in Nat
  BY LenProperties DEF ItemsInv
<1> DEFINE S == DOMAIN queuedata \cup {0}
           m == Max(S)
<1>2. S \subseteq 0 .. Len(items) /\ S # {}
  BY <1>1 DEF QueueInv
<1> HIDE DEF S
<1>3. m \in S /\ \A y \in S : m >= y
  BY <1>1, <1>2, Greatest
<1>4. NewKey = m + 1
  BY DEF NewKey, S
<1> HIDE DEF m
<1>5. NewKey \in 1 .. Len(items) + 1
  BY <1>1, <1>2, <1>3, <1>4
<1>6. NewKey \notin S
  BY <1>1, <1>2, <1>3, <1>4
<1>7. QED
  BY <1>5, <1>6 DEF S

(* A video that is added has neither been encoded nor started.                 *)
LEMMA AddStep == ASSUME Inv, Add PROVE Inv'
<1> USE DEF list, guiState, history
<1> DEFINE n == Len(items)
           c == [key |-> NewKey, itemID |-> NewRow, encoded |-> FALSE, p |-> FALSE, child |-> "none"]
<1>1. PICK S : items \in Seq(Item(S))
  BY DEF Inv, ItemsInv
<1>2. n \in Nat /\ DOMAIN items = 1 .. n
  BY <1>1, LenProperties
<1>3. NewKey \in 1 .. n + 1 /\ NewKey \notin DOMAIN queuedata
  BY KeyIsNew DEF Inv
<1>4. /\ items' = Append(items, c)
      /\ queuedata' = [k \in DOMAIN queuedata \cup {NewKey} |-> IF k = NewKey THEN n + 1 ELSE queuedata[k]]
      /\ UNCHANGED <<thread, next, encoding, started, quit, pending, afterQuit, removed>>
      /\ gui = "idle" /\ gui' = "show"
  BY DEF Add
<1> DEFINE T == S \cup {NewRow}
<1>5. c \in Item(T) /\ items \in Seq(Item(T))
  <2>1. NewKey \in Nat
    BY <1>2, <1>3
  <2>2. c \in Item(T)
    BY <2>1 DEF Item
  <2>3. Item(S) \subseteq Item(T)
    BY DEF Item
  <2>4. items \in [1 .. n -> Item(S)]
    BY <1>1, LenProperties
  <2>5. items \in [1 .. n -> Item(T)]
    BY <2>3, <2>4
  <2>6. QED
    BY <1>2, <2>2, <2>5, SMTT(20)
<1>6. c.key = NewKey /\ c.encoded = FALSE /\ c.p = FALSE /\ c.child = "none"
  OBVIOUS
<1> HIDE DEF c, T
<1>7. /\ items' \in Seq(Item(T)) /\ Len(items') = n + 1 /\ items'[n + 1] = c
      /\ \A j \in 1 .. n : items'[j] = items[j]
  BY <1>4, <1>5, AppendProperties
<1>8. DOMAIN items' = 1 .. n + 1 /\ \A j \in 1 .. n + 1 : j \in 1 .. n \/ j = n + 1
  BY <1>2, <1>7, LenProperties
<1>9. ItemsInv'
  BY <1>7 DEF ItemsInv
<1>10. QueueInv'
  <2>1. /\ DOMAIN queuedata' = DOMAIN queuedata \cup {NewKey} /\ queuedata'[NewKey] = n + 1
        /\ \A k \in DOMAIN queuedata : k # NewKey /\ queuedata'[k] = queuedata[k]
    BY <1>3, <1>4
  <2>2. DOMAIN queuedata' \subseteq 1 .. n + 1
    BY <1>2, <1>3, <2>1 DEF Inv, QueueInv
  <2>3. ASSUME NEW k \in DOMAIN queuedata'
        PROVE  queuedata'[k] \in DOMAIN items' /\ items'[queuedata'[k]].key = k
    <3>1. CASE k = NewKey
      BY <1>2, <1>6, <1>7, <1>8, <2>1, <3>1
    <3>2. CASE k # NewKey
      <4>1. k \in DOMAIN queuedata /\ queuedata'[k] = queuedata[k]
        BY <2>1, <3>2
      <4>2. queuedata[k] \in 1 .. n /\ items[queuedata[k]].key = k
        BY <1>2, <4>1 DEF Inv, QueueInv
      <4>3. QED
        BY <1>2, <1>7, <1>8, <4>1, <4>2
    <3>3. QED
      BY <3>1, <3>2
  <2>4. ASSUME NEW id \in DOMAIN items' PROVE InQueue(id)' \/ id \in removed'
    <3>1. CASE id = n + 1
      BY <1>6, <1>7, <2>1, <3>1 DEF InQueue
    <3>2. CASE id \in 1 .. n
      <4>1. InQueue(id) \/ id \in removed
        BY <1>2, <3>2 DEF Inv, QueueInv
      <4>2. InQueue(id) => InQueue(id)'
        BY <1>7, <2>1, <3>2 DEF InQueue
      <4>3. QED
        BY <1>4, <4>1, <4>2
    <3>3. QED
      BY <1>8, <3>1, <3>2
  <2>5. removed' \subseteq DOMAIN items'
    BY <1>2, <1>4, <1>8 DEF Inv, QueueInv
  <2>6. QED
    BY <1>4, <1>7, <2>2, <2>3, <2>4, <2>5 DEF QueueInv
<1>11. ThreadInv'
  <2>1. ThreadInv
    BY DEF Inv
  <2>2. QED
    BY <1>2, <1>4, <1>6, <1>7, <1>8, <2>1 DEF ThreadInv
<1>12. StartedInv'
  BY <1>2, <1>4, <1>7, <1>8 DEF Inv, StartedInv
<1>13. CloseInv' /\ QuitInv'
  BY <1>4, CloseOpen, QuitKept DEF Inv
<1>14. QED
  BY <1>9, <1>10, <1>11, <1>12, <1>13 DEF Inv

(* A cancelled process has ended, and its status may have been taken.          *)
LEMMA CancelChange ==
    ASSUME Inv, subject \in DOMAIN items, Cancelled
    PROVE  /\ ItemsInv' /\ SameDomain
           /\ \A j \in DOMAIN items : j # subject => Same(j)
           /\ items'[subject].key = items[subject].key
           /\ items'[subject].encoded = items[subject].encoded
           /\ items'[subject].p = items[subject].p
           /\ items'[subject].child \in {"exited", "reaped"}
<1>1. PICK status \in {"exited", "reaped"} :
         items' = [items EXCEPT ![subject].child = IF @ = "reaped" THEN @ ELSE status]
  BY DEF Cancelled
<1> DEFINE c == IF items[subject].child = "reaped" THEN "reaped" ELSE status
<1>2. c \in {"exited", "reaped"}
  OBVIOUS
<1>3. items' = [items EXCEPT ![subject].child = c]
  BY <1>1
<1> HIDE DEF c
<1>4. QED
  BY <1>2, <1>3, ChildChange DEF Inv

(* What a step does that lets processes end and changes nothing else about     *)
(* the videos.                                                                 *)
Ended(j) ==
    /\ items'[j].key = items[j].key /\ items'[j].encoded = items[j].encoded
    /\ items'[j].p = items[j].p
    /\ \/ items'[j].child = items[j].child
       \/ items'[j].child \in {"exited", "reaped"}

(* A process that ends changes no key.                                         *)
LEMMA QueueEnded ==
    ASSUME QueueInv, SameDomain, \A j \in DOMAIN items : Ended(j), UNCHANGED <<queuedata, removed, subject>>,
           gui' \in {"cancel", "delete", "kill"} => gui \in {"cancel", "delete", "kill"},
           gui' \in {"cancel", "delete"} => gui \in {"cancel", "delete"}
    PROVE  QueueInv'
<1>1. \A j \in DOMAIN items : items'[j].key = items[j].key
  BY DEF Ended
<1>2. DOMAIN items' = DOMAIN items /\ Len(items') = Len(items)
  BY DEF SameDomain
<1>3. \A j \in DOMAIN items : InQueue(j) => InQueue(j)'
  BY <1>1, <1>2 DEF InQueue
<1>4. QED
  BY <1>1, <1>2, <1>3 DEF QueueInv

(* A process that ends is not running and not started again.                   *)
LEMMA ThreadEnded ==
    ASSUME ThreadInv, SameDomain, \A j \in DOMAIN items : Ended(j), UNCHANGED <<thread, next, encoding>>
    PROVE  ThreadInv'
<1>1. \A j \in DOMAIN items :
         /\ items'[j].child = "running" => items[j].child = "running"
         /\ items'[j].child = "none" => items[j].child = "none"
         /\ items'[j].encoded = items[j].encoded /\ items'[j].p = items[j].p
  BY DEF Ended
<1>2. DOMAIN items' = DOMAIN items
  BY DEF SameDomain
<1>3. QED
  BY <1>1, <1>2 DEF ThreadInv

(* Cancelling is such a step.                                                  *)
LEMMA CancelEnds ==
    ASSUME Inv, subject \in DOMAIN items, Cancelled
    PROVE  \A j \in DOMAIN items : Ended(j)
<1> TAKE j \in DOMAIN items
<1>1. CASE j # subject
  <2>1. Same(j)
    BY <1>1, CancelChange
  <2>2. QED
    BY <2>1 DEF Same, Ended
<1>2. CASE j = subject
  <2>1. /\ items'[subject].key = items[subject].key
        /\ items'[subject].encoded = items[subject].encoded
        /\ items'[subject].p = items[subject].p
    BY CancelChange
  <2>2. items'[subject].child \in {"exited", "reaped"}
    BY CancelChange
  <2>3. QED
    BY <1>2, <2>1, <2>2 DEF Ended
<1>3. QED
  BY <1>1, <1>2

(* The process of the video to be removed is over.                             *)
LEMMA CancelStep == ASSUME Inv, EndCancel PROVE Inv'
<1> USE DEF list, guiState, history
<1>1. /\ UNCHANGED <<queuedata, removed, subject, thread, next, encoding, started, quit, pending, afterQuit>>
      /\ gui = "cancel" /\ gui' = "delete" /\ Cancelled
  BY DEF EndCancel
<1>2. subject \in DOMAIN items
  BY <1>1 DEF Inv, QueueInv
<1>3. ItemsInv' /\ SameDomain
  BY <1>1, <1>2, CancelChange
<1>4. \A j \in DOMAIN items : Ended(j)
  BY <1>1, <1>2, CancelEnds
<1>5. QueueInv' /\ ThreadInv'
  BY <1>1, <1>3, <1>4, QueueEnded, ThreadEnded DEF Inv
<1>6. StartedInv'
  BY <1>1, <1>3, <1>4, StartedKept DEF Inv, Ended
<1>7. CloseInv' /\ QuitInv'
  BY <1>1, CloseOpen, QuitKept DEF Inv
<1>8. QED
  BY <1>3, <1>5, <1>6, <1>7 DEF Inv

(* Only the key of the video that is removed goes.                             *)
LEMMA DeleteStep == ASSUME Inv, Delete PROVE Inv'
<1> USE DEF list, guiState, history
<1>1. /\ UNCHANGED <<items, subject, thread, next, encoding, started, quit, pending, afterQuit>>
      /\ gui = "delete" /\ gui' = "clear"
      /\ queuedata' = [k \in DOMAIN queuedata \ {items[subject].key} |-> queuedata[k]]
      /\ removed' = removed \cup {subject}
  BY DEF Delete
<1>2. ItemsInv' /\ SameDomain /\ \A j \in DOMAIN items : Same(j)
  BY <1>1, ItemsKept DEF Inv
<1>3. subject \in DOMAIN items /\ InQueue(subject)
  BY <1>1 DEF Inv, QueueInv
<1>4. QueueInv'
  <2>1. /\ DOMAIN queuedata' = DOMAIN queuedata \ {items[subject].key}
        /\ \A k \in DOMAIN queuedata' : k \in DOMAIN queuedata /\ queuedata'[k] = queuedata[k]
    BY <1>1
  <2>2. ASSUME NEW id \in DOMAIN items PROVE InQueue(id)' \/ id \in removed'
    <3>1. CASE id = subject
      BY <1>1, <3>1
    <3>2. CASE id # subject /\ InQueue(id)
      <4>1. items[id].key # items[subject].key
        BY <1>3, <3>2 DEF InQueue
      <4>2. QED
        BY <1>1, <2>1, <3>2, <4>1 DEF InQueue
    <3>3. CASE id \in removed
      BY <1>1, <3>3
    <3>4. QED
      BY <3>1, <3>2, <3>3 DEF Inv, QueueInv
  <2>3. QED
    BY <1>1, <1>3, <2>1, <2>2 DEF Inv, QueueInv
<1>5. ThreadInv'
  BY <1>1, <1>2, ThreadKept DEF Inv
<1>6. StartedInv'
  BY <1>1, <1>2, StartedKept DEF Inv, Same
<1>7. CloseInv'
  <2>1. ~quit /\ pending = {}
    BY <1>1 DEF Inv, CloseInv
  <2>2. QED
    BY <1>1, <2>1 DEF CloseInv
<1>8. QuitInv'
  BY <1>1, QuitKept DEF Inv
<1>9. QED
  BY <1>2, <1>4, <1>5, <1>6, <1>7, <1>8 DEF Inv

(* Numbering the rows changes nothing the thread knows.                        *)
LEMMA FillStep == ASSUME Inv, Fill PROVE Inv'
<1> USE DEF list, guiState, history
<1>1. /\ UNCHANGED <<queuedata, removed, subject, thread, next, encoding, started, quit, pending, afterQuit>>
      /\ gui = "fill" /\ gui' = "idle"
  BY DEF Fill
<1>2. ItemsInv' /\ SameDomain /\ \A j \in DOMAIN items : Same(j)
  BY FillChange DEF Inv
<1>3. QueueInv' /\ ThreadInv'
  BY <1>1, <1>2, QueueKept, ThreadKept DEF Inv
<1>4. StartedInv'
  BY <1>1, <1>2, StartedKept DEF Inv, Same
<1>5. CloseInv' /\ QuitInv'
  BY <1>1, CloseOpen, QuitKept DEF Inv
<1>6. QED
  BY <1>2, <1>3, <1>4, <1>5 DEF Inv

(* Closing begins with every video of the queue to be cancelled.               *)
LEMMA CloseStep == ASSUME Inv, Close PROVE Inv'
<1> USE DEF list, guiState, history
<1>1. /\ UNCHANGED <<items, queuedata, removed, missed, subject, thread, next, encoding, started, afterQuit>>
      /\ gui = "idle" /\ gui' = "close" /\ quit' = TRUE /\ pending' = DOMAIN queuedata
  BY DEF Close
<1>2. ItemsInv' /\ SameDomain /\ \A j \in DOMAIN items : Same(j)
  BY <1>1, ItemsKept DEF Inv
<1>3. QueueInv' /\ ThreadInv'
  BY <1>1, <1>2, QueueKept, ThreadKept DEF Inv
<1>4. StartedInv'
  BY <1>1, <1>2, StartedKept DEF Inv, Same
<1>5. CloseInv'
  <2>1. \A id \in DOMAIN items : id \in removed \/ \E k \in pending' : queuedata[k] = id
    BY <1>1 DEF Inv, QueueInv, InQueue
  <2>2. QED
    BY <1>1, <2>1 DEF CloseInv
<1>6. QuitInv'
  BY <1>1, QuitKept DEF Inv
<1>7. QED
  BY <1>2, <1>3, <1>4, <1>5, <1>6 DEF Inv

(* Each of them is cancelled, or it had no process yet.                        *)
LEMMA CloseItemStep == ASSUME Inv, CloseItem PROVE Inv'
<1> USE DEF list, guiState, history
<1>1. PICK k \in pending :
        /\ pending' = pending \ {k}
        /\ subject' = queuedata[k]
        /\ missed' = IF items[queuedata[k]].p THEN missed ELSE missed \cup {queuedata[k]}
        /\ gui' = IF items[queuedata[k]].p /\ ~Reaped(queuedata[k]) THEN "kill" ELSE "close"
  BY DEF CloseItem
<1>2. /\ UNCHANGED <<items, queuedata, removed, thread, next, encoding, started, afterQuit, quit>>
      /\ gui = "close" /\ gui' \in {"close", "kill"}
  BY <1>1 DEF CloseItem
<1>3. ItemsInv' /\ SameDomain /\ \A j \in DOMAIN items : Same(j)
  BY <1>2, ItemsKept DEF Inv
<1>4. k \in DOMAIN queuedata /\ queuedata[k] \in DOMAIN items
  BY <1>1 DEF Inv, CloseInv, QueueInv
<1>5. QueueInv' /\ ThreadInv'
  BY <1>1, <1>2, <1>3, <1>4, QueueKept, ThreadKept DEF Inv
<1>6. StartedInv'
  BY <1>2, <1>3, StartedKept DEF Inv, Same
<1>7. CloseInv'
  <2> DEFINE id == queuedata[k]
  <2>1. quit
    BY <1>2 DEF Inv, CloseInv
  <2> DEFINE S(j) == /\ items[j].p = TRUE
                     /\ items[j].child \in {"exited", "reaped"} \/ (gui' = "kill" /\ j = subject')
  <2>2. id \in missed' \/ S(id)
    <3>1. CASE ~items[id].p
      BY <1>1, <3>1
    <3>2. CASE items[id].p /\ ~Reaped(id)
      BY <1>1, <3>2
    <3>3. CASE items[id].p /\ Reaped(id)
      BY <3>3 DEF Reaped
    <3>4. QED
      BY <3>1, <3>2, <3>3
  <2>3. missed \subseteq missed'
    BY <1>1
  <2>4. ASSUME NEW j \in DOMAIN items
        PROVE  j \in missed' \cup removed \/ (\E m \in pending' : queuedata[m] = j) \/ S(j)
    <3>1. CASE j \in missed \cup removed
      BY <2>3, <3>1
    <3>2. CASE \E m \in pending : queuedata[m] = j
      <4>1. PICK m \in pending : queuedata[m] = j
        BY <3>2
      <4>2. CASE m = k
        BY <2>2, <4>1, <4>2
      <4>3. CASE m # k
        BY <1>1, <4>1, <4>3
      <4>4. QED
        BY <4>2, <4>3
    <3>3. CASE Settled(j)
      BY <1>2, <3>3 DEF Settled
    <3>4. QED
      BY <2>1, <3>1, <3>2, <3>3 DEF Inv, CloseInv
  <2>5. \A j \in DOMAIN items : S(j) => Settled(j)'
    BY <1>2 DEF Settled
  <2> HIDE DEF S
  <2>6. pending' \subseteq DOMAIN queuedata
    BY <1>1 DEF Inv, CloseInv
  <2>7. QED
    BY <1>2, <2>1, <2>4, <2>5, <2>6 DEF CloseInv
<1>8. QuitInv'
  BY <1>2, QuitKept DEF Inv
<1>9. QED
  BY <1>3, <1>5, <1>6, <1>7, <1>8 DEF Inv

(* The process that OnClose cancels is over, and its video settled.            *)
LEMMA KillStep == ASSUME Inv, EndKill PROVE Inv'
<1> USE DEF list, guiState, history
<1>1. /\ UNCHANGED <<queuedata, removed, missed, subject, thread, next, encoding, started, quit, pending, afterQuit>>
      /\ gui = "kill" /\ gui' = "close" /\ Cancelled
  BY DEF EndKill
<1>2. subject \in DOMAIN items
  BY <1>1 DEF Inv, QueueInv
<1>3. ItemsInv' /\ SameDomain
  BY <1>1, <1>2, CancelChange
<1>4. \A j \in DOMAIN items : Ended(j)
  BY <1>1, <1>2, CancelEnds
<1>5. QueueInv' /\ ThreadInv'
  BY <1>1, <1>3, <1>4, QueueEnded, ThreadEnded DEF Inv
<1>6. StartedInv'
  BY <1>1, <1>3, <1>4, StartedKept DEF Inv, Ended
<1>7. CloseInv'
  <2>1. ASSUME NEW j \in DOMAIN items, Settled(j) PROVE Settled(j)'
    <3>1. items'[j].p = TRUE
      BY <1>4, <2>1 DEF Ended, Settled
    <3>2. CASE items[j].child \in {"exited", "reaped"}
      BY <1>4, <3>1, <3>2 DEF Ended, Settled
    <3>3. CASE j = subject
      <4>1. items'[j].child \in {"exited", "reaped"}
        BY <1>1, <1>2, <3>3, CancelChange
      <4>2. QED
        BY <3>1, <4>1 DEF Settled
    <3>4. QED
      BY <2>1, <3>2, <3>3 DEF Settled
  <2>2. DOMAIN items' = DOMAIN items /\ quit
    BY <1>1, <1>3 DEF SameDomain, Inv, CloseInv
  <2>3. QED
    BY <1>1, <2>1, <2>2 DEF Inv, CloseInv
<1>8. QuitInv'
  BY <1>1, QuitKept DEF Inv
<1>9. QED
  BY <1>3, <1>5, <1>6, <1>7, <1>8 DEF Inv

(* The window goes when every video was cancelled.                             *)
LEMMA DestroyStep == ASSUME Inv, Destroy PROVE Inv'
<1> USE DEF list, guiState, history
<1>1. /\ UNCHANGED <<items, queuedata, removed, missed, subject, thread, next, encoding, started, quit, pending, afterQuit>>
      /\ gui = "close" /\ gui' = "closed" /\ pending = {}
  BY DEF Destroy
<1>2. ItemsInv' /\ SameDomain /\ \A j \in DOMAIN items : Same(j)
  BY <1>1, ItemsKept DEF Inv
<1>3. QueueInv' /\ ThreadInv'
  BY <1>1, <1>2, QueueKept, ThreadKept DEF Inv
<1>4. StartedInv'
  BY <1>1, <1>2, StartedKept DEF Inv, Same
<1>5. CloseInv'
  BY <1>1 DEF Inv, CloseInv, Settled
<1>6. QuitInv'
  BY <1>1, QuitKept DEF Inv
<1>7. QED
  BY <1>2, <1>3, <1>4, <1>5, <1>6 DEF Inv

-----------------------------------------------------------------------------
(* The encoding thread. *)

(* A step of the thread that changes no video.                                 *)
LEMMA ThreadQuiet ==
    ASSUME Inv, UNCHANGED <<items, queuedata, removed, missed, subject, gui, quit, pending>>
    PROVE  ItemsInv' /\ QueueInv' /\ CloseInv' /\ SameDomain
<1>1. ItemsInv' /\ SameDomain /\ \A j \in DOMAIN items : Same(j)
  BY ItemsKept DEF Inv
<1>2. \A j \in DOMAIN items : Settled(j) => Settled(j)'
  BY DEF Settled
<1>3. CloseInv'
  BY <1>1, <1>2, CloseKept DEF Inv
<1>4. QueueInv'
  BY <1>1, QueueKept DEF Inv, QueueInv
<1>5. QED
  BY <1>1, <1>3, <1>4

(* The video picked has not been encoded, so it has never been started.        *)
LEMMA PickStep == ASSUME Inv, Pick PROVE Inv'
<1> USE DEF list, guiState, history
<1> DEFINE waiting == {k \in DOMAIN queuedata : Waiting(k)}
<1>1. /\ UNCHANGED <<items, queuedata, removed, missed, subject, gui, quit, pending>>
      /\ UNCHANGED <<encoding, started, afterQuit>> /\ thread = "next"
  BY DEF Pick
<1>2. ItemsInv' /\ QueueInv' /\ CloseInv'
  BY <1>1, ThreadQuiet
<1>3. /\ \A m \in DOMAIN started : items[started[m]].encoded = TRUE
      /\ \A id \in DOMAIN items : items[id].child # "running"
      /\ \A id \in DOMAIN items : items[id].p = TRUE =>
            items[id].child # "none" /\ items[id].encoded = TRUE
  BY <1>1 DEF Inv, StartedInv, ThreadInv
<1>4. CASE waiting = {} \/ Quitting
  <2>1. thread' = "end" /\ next' = next
    BY <1>4 DEF Pick
  <2>2. ThreadInv'
    BY <1>1, <1>3, <2>1 DEF Inv, ThreadInv
  <2>3. StartedInv'
    BY <1>1, <1>3, <2>1 DEF Inv, StartedInv
  <2>4. QuitInv'
    BY <1>1, <2>1 DEF Inv, QuitInv
  <2>5. QED
    BY <1>2, <2>2, <2>3, <2>4 DEF Inv
<1>5. CASE ~(waiting = {} \/ Quitting)
  <2>1. thread' = "begin" /\ next' = queuedata[Min(waiting)] /\ ~quit
    BY <1>5 DEF Pick, Quitting
  <2>2. waiting \subseteq Nat
    BY DEF Inv, QueueInv
  <2>3. Min(waiting) \in waiting
    <3> HIDE DEF waiting
    <3>1. QED
      BY <1>5, <2>2, Least
  <2>4. next' \in DOMAIN items /\ ~items[next'].encoded
    BY <2>1, <2>3 DEF Waiting, Inv, QueueInv
  <2>5. PICK S : items \in Seq(Item(S))
    BY DEF Inv, ItemsInv
  <2>6. items[next'] \in Item(S)
    BY <2>4, <2>5, LenProperties
  <2>7. items[next'].encoded \in BOOLEAN /\ items[next'].p \in BOOLEAN
    BY <2>6 DEF Item
  <2>8. items[next'].encoded = FALSE
    BY <2>4, <2>7
  <2>9. items[next'].p = FALSE
    BY <1>3, <2>4, <2>7
  <2>10. thread # "idle" => encoding
    BY DEF Inv, ThreadInv
  <2>11. ThreadInv'
    BY <1>1, <1>3, <2>1, <2>4, <2>8, <2>9, <2>10 DEF ThreadInv
  <2>12. StartedInv'
    BY <1>1, <1>3, <2>1 DEF Inv, StartedInv
  <2>13. QuitInv'
    BY <1>1, <2>1 DEF Inv, QuitInv
  <2>14. QED
    BY <1>2, <2>11, <2>12, <2>13 DEF Inv
<1>6. QED
  BY <1>4, <1>5

(* The thread ends, dies or goes on to Popen.                                  *)
LEMMA ThreadSteps ==
    ASSUME Inv, Die \/ Begin \/ End \/ Exit \/ Raise
    PROVE  Inv'
<1> USE DEF list, guiState, history
<1>1. /\ UNCHANGED <<items, queuedata, removed, missed, subject, gui, quit, pending>>
      /\ UNCHANGED <<started, next, afterQuit>>
  BY DEF Die, Begin, End, Exit, Raise
<1>2. ItemsInv' /\ QueueInv' /\ CloseInv'
  BY <1>1, ThreadQuiet
<1>3. CASE End
  <2>1. thread = "end" /\ thread' = "idle"
    BY <1>3 DEF End
  <2>2. ThreadInv'
    BY <1>1, <2>1 DEF Inv, ThreadInv
  <2>3. StartedInv'
    BY <1>1, <2>1 DEF Inv, StartedInv
  <2>4. QuitInv'
    BY <1>1, <2>1 DEF Inv, QuitInv
  <2>5. QED
    BY <1>2, <2>2, <2>3, <2>4 DEF Inv
<1>4. CASE Begin
  <2>1. thread = "begin" /\ thread' = "popen" /\ encoding' = encoding
    BY <1>4 DEF Begin
  <2>2. ThreadInv'
    BY <1>1, <2>1 DEF Inv, ThreadInv
  <2>3. StartedInv'
    BY <1>1, <2>1 DEF Inv, StartedInv
  <2>4. QuitInv'
    BY <1>1, <2>1 DEF Inv, QuitInv
  <2>5. QED
    BY <1>2, <2>2, <2>3, <2>4 DEF Inv
<1>5. CASE Die \/ Exit \/ Raise
  <2>1. thread # "idle" /\ thread' = "dead" /\ encoding' = encoding
    BY <1>5 DEF Die, Exit, Raise
  <2>2. ThreadInv'
    BY <1>1, <2>1 DEF Inv, ThreadInv
  <2>3. StartedInv'
    BY <1>1, <2>1 DEF Inv, StartedInv
  <2>4. QuitInv'
    BY <1>1, <2>1 DEF Inv, QuitInv
  <2>5. QED
    BY <1>2, <2>2, <2>3, <2>4 DEF Inv
<1>6. QED
  BY <1>3, <1>4, <1>5

(* What is settled stays settled when a step does not touch it.                *)
LEMMA SettledOthers ==
    ASSUME CloseInv, SameDomain, UNCHANGED <<quit, gui, subject, pending, queuedata, missed, removed>>,
           NEW id \in DOMAIN items, \A j \in DOMAIN items : j # id => Same(j),
           Settled(id) => Settled(id)'
    PROVE  CloseInv'
<1>1. \A j \in DOMAIN items : Settled(j) => Settled(j)'
  BY DEF Settled, Same
<1>2. QED
  BY <1>1, CloseKept

(* A process is started once, for a video that had none.                       *)
LEMMA PopenStep == ASSUME Inv, Popen PROVE Inv'
<1> USE DEF list, guiState, history
<1>1. /\ UNCHANGED <<queuedata, removed, missed, subject, gui, quit, pending, next, encoding>>
      /\ thread = "popen" /\ thread' = "publish"
      /\ items' = [items EXCEPT ![next].child = "running"]
      /\ started' = Append(started, next)
      /\ afterQuit' = IF quit THEN afterQuit + 1 ELSE afterQuit
  BY DEF Popen
<1>2. next \in DOMAIN items /\ items[next].encoded = FALSE /\ items[next].p = FALSE
  BY <1>1 DEF Inv, ThreadInv
<1>3. /\ ItemsInv' /\ SameDomain
      /\ \A j \in DOMAIN items : j # next => Same(j)
      /\ items'[next].key = items[next].key /\ items'[next].encoded = items[next].encoded
      /\ items'[next].p = items[next].p /\ items'[next].child = "running"
  BY <1>1, <1>2, ChildChange DEF Inv
<1>4. DOMAIN items' = DOMAIN items /\ Len(items') = Len(items)
  BY <1>3 DEF SameDomain
<1>5. \A j \in DOMAIN items :
         items'[j].key = items[j].key /\ items'[j].encoded = items[j].encoded /\ items'[j].p = items[j].p
  BY <1>3 DEF Same
<1>6. QueueInv'
  <2>1. \A j \in DOMAIN items : InQueue(j) => InQueue(j)'
    BY <1>1, <1>5 DEF InQueue
  <2>2. QED
    BY <1>1, <1>4, <1>5, <2>1 DEF Inv, QueueInv
<1>7. ThreadInv'
  <2>1. \A j \in DOMAIN items : items[j].child # "running"
    BY <1>1 DEF Inv, ThreadInv
  <2>2. \A j \in DOMAIN items : j # next => items'[j].child = items[j].child
    BY <1>3 DEF Same
  <2>3. \A j \in DOMAIN items : items[j].p = TRUE => items[j].child # "none" /\ items[j].encoded = TRUE
    BY <1>1 DEF Inv, ThreadInv
  <2>4. encoding
    BY <1>1 DEF Inv, ThreadInv
  <2>5. \A j \in DOMAIN items : items'[j].child = "running" => j = next
    BY <2>1, <2>2
  <2>6. \A j \in DOMAIN items : items'[j].p = TRUE => items'[j].child # "none" /\ items'[j].encoded = TRUE
    <3>1. items'[next].p = FALSE
      BY <1>2, <1>3
    <3>2. QED
      BY <1>5, <2>2, <2>3, <3>1
  <2>7. QED
    BY <1>1, <1>2, <1>3, <1>4, <2>4, <2>5, <2>6 DEF ThreadInv
<1>8. StartedInv'
  <2>1. started \in Seq(Nat) /\ next \in Nat /\ Len(started) \in Nat
    <3>1. \E S : items \in Seq(Item(S))
      BY DEF Inv, ItemsInv
    <3>2. DOMAIN items \subseteq Nat
      BY <3>1, LenProperties
    <3>3. started \in Seq(Nat)
      BY DEF Inv, StartedInv
    <3>4. QED
      BY <1>2, <3>2, <3>3, LenProperties
  <2>2. /\ started' \in Seq(Nat) /\ Len(started') = Len(started) + 1
        /\ started'[Len(started) + 1] = next
        /\ \A m \in 1 .. Len(started) : started'[m] = started[m]
    BY <1>1, <2>1, AppendProperties
  <2>3. /\ DOMAIN started = 1 .. Len(started) /\ DOMAIN started' = 1 .. Len(started) + 1
        /\ \A m \in DOMAIN started' : m \in DOMAIN started \/ m = Len(started) + 1
    BY <2>1, <2>2, LenProperties
  <2>4. \A m \in DOMAIN started : started[m] \in DOMAIN items /\ items[started[m]].encoded = TRUE
    BY <1>1 DEF Inv, StartedInv
  <2>5. \A m \in DOMAIN started : started[m] # next
    <3>1. TRUE # FALSE
      OBVIOUS
    <3>2. QED
      BY <1>2, <2>4, <3>1
  <2>6. \A m \in DOMAIN started' :
           /\ started'[m] \in DOMAIN items'
           /\ \/ items'[started'[m]].encoded = TRUE
              \/ started'[m] = next
    BY <1>2, <1>4, <1>5, <2>2, <2>3, <2>4
  <2>7. \A m, n \in DOMAIN started' : started'[m] = started'[n] => m = n
    <3>1. \A m, n \in DOMAIN started : started[m] = started[n] => m = n
      BY DEF Inv, StartedInv
    <3>2. QED
      BY <2>2, <2>3, <2>5, <3>1
  <2>8. QED
    BY <1>1, <2>2, <2>6, <2>7 DEF StartedInv
<1>9. CloseInv'
  <2>1. ~Settled(next)
    <3>1. TRUE # FALSE
      OBVIOUS
    <3>2. QED
      BY <1>2, <3>1 DEF Settled
  <2>2. QED
    BY <1>1, <1>2, <1>3, <2>1, SettledOthers DEF Inv
<1>10. QuitInv'
  <2>1. afterQuit = 0
    BY <1>1 DEF Inv, QuitInv
  <2>2. QED
    BY <1>1, <2>1 DEF QuitInv
<1>11. QED
  BY <1>3, <1>6, <1>7, <1>8, <1>9, <1>10 DEF Inv

(* OnClose finds the process only from here on.                                *)
LEMMA PublishStep == ASSUME Inv, Publish PROVE Inv'
<1> USE DEF list, guiState, history
<1>1. /\ UNCHANGED <<queuedata, removed, missed, subject, gui, quit, pending, next, encoding, started, afterQuit>>
      /\ thread = "publish" /\ thread' = "wait"
      /\ items' = [items EXCEPT ![next].p = TRUE]
  BY DEF Publish
<1>2. next \in DOMAIN items /\ items[next].p = FALSE /\ items[next].child # "none"
  BY <1>1 DEF Inv, ThreadInv
<1>3. /\ ItemsInv' /\ SameDomain
      /\ \A j \in DOMAIN items : j # next => Same(j)
      /\ items'[next].key = items[next].key /\ items'[next].encoded = items[next].encoded
      /\ items'[next].p = TRUE /\ items'[next].child = items[next].child
  BY <1>1, <1>2, PChange DEF Inv
<1>4. DOMAIN items' = DOMAIN items /\ Len(items') = Len(items)
  BY <1>3 DEF SameDomain
<1>5. \A j \in DOMAIN items :
         items'[j].key = items[j].key /\ items'[j].encoded = items[j].encoded /\ items'[j].child = items[j].child
  BY <1>3 DEF Same
<1>6. QueueInv'
  <2>1. \A j \in DOMAIN items : InQueue(j) => InQueue(j)'
    BY <1>1, <1>5 DEF InQueue
  <2>2. QED
    BY <1>1, <1>4, <1>5, <2>1 DEF Inv, QueueInv
<1>7. ThreadInv'
  <2>1. encoding
    BY <1>1 DEF Inv, ThreadInv
  <2>2. \A j \in DOMAIN items : items'[j].child = "running" => j = next
    BY <1>5 DEF Inv, ThreadInv
  <2>3. \A j \in DOMAIN items : items'[j].p = TRUE =>
           items'[j].child # "none" /\ (items'[j].encoded = TRUE \/ j = next)
    <3>1. \A j \in DOMAIN items : j # next => items'[j].p = items[j].p
      BY <1>3 DEF Same
    <3>2. \A j \in DOMAIN items : items[j].p = TRUE =>
             items[j].child # "none" /\ (items[j].encoded = TRUE \/ j = next)
      BY DEF Inv, ThreadInv
    <3>3. QED
      BY <1>2, <1>5, <3>1, <3>2
  <2>4. QED
    BY <1>1, <1>2, <1>4, <2>1, <2>2, <2>3 DEF ThreadInv
<1>8. StartedInv'
  BY <1>1, <1>4, <1>5 DEF Inv, StartedInv
<1>9. CloseInv'
  <2>1. ~Settled(next)
    <3>1. TRUE # FALSE
      OBVIOUS
    <3>2. QED
      BY <1>2, <3>1 DEF Settled
  <2>2. QED
    BY <1>1, <1>2, <1>3, <2>1, SettledOthers DEF Inv
<1>10. QuitInv'
  BY <1>1 DEF Inv, QuitInv
<1>11. QED
  BY <1>3, <1>6, <1>7, <1>8, <1>9, <1>10 DEF Inv

(* The process the thread has waited for is not running.                       *)
LEMMA WaitStep == ASSUME Inv, Wait PROVE Inv'
<1> USE DEF list, guiState, history
<1>1. /\ UNCHANGED <<queuedata, removed, missed, subject, gui, quit, pending, next, encoding, started, afterQuit>>
      /\ thread = "wait" /\ thread' = "result" /\ items[next].child # "running"
      /\ items' = [items EXCEPT ![next].child = "reaped"]
  BY DEF Wait
<1>2. next \in DOMAIN items
  BY <1>1 DEF Inv, ThreadInv
<1>3. /\ ItemsInv' /\ SameDomain
      /\ \A j \in DOMAIN items : j # next => Same(j)
      /\ items'[next].key = items[next].key /\ items'[next].encoded = items[next].encoded
      /\ items'[next].p = items[next].p /\ items'[next].child = "reaped"
  BY <1>1, <1>2, ChildChange DEF Inv
<1>4. DOMAIN items' = DOMAIN items /\ Len(items') = Len(items)
  BY <1>3 DEF SameDomain
<1>5. \A j \in DOMAIN items :
         /\ items'[j].key = items[j].key /\ items'[j].encoded = items[j].encoded
         /\ items'[j].p = items[j].p
         /\ items'[j].child \in {items[j].child, "reaped"}
  BY <1>3 DEF Same
<1>6. QueueInv'
  <2>1. \A j \in DOMAIN items : InQueue(j) => InQueue(j)'
    BY <1>1, <1>5 DEF InQueue
  <2>2. QED
    BY <1>1, <1>4, <1>5, <2>1 DEF Inv, QueueInv
<1>7. ThreadInv'
  <2>1. encoding
    BY <1>1 DEF Inv, ThreadInv
  <2>2. \A j \in DOMAIN items : items'[j].child # "running"
    <3>1. \A j \in DOMAIN items : items[j].child = "running" => j = next
      BY DEF Inv, ThreadInv
    <3>2. \A j \in DOMAIN items : items[j].child # "running"
      BY <1>1, <3>1
    <3>3. QED
      BY <1>5, <3>2
  <2>3. \A j \in DOMAIN items : items'[j].p = TRUE =>
           items'[j].child # "none" /\ (items'[j].encoded = TRUE \/ j = next)
    <3>1. \A j \in DOMAIN items : items[j].p = TRUE =>
             items[j].child # "none" /\ (items[j].encoded = TRUE \/ j = next)
      BY DEF Inv, ThreadInv
    <3>2. QED
      BY <1>5, <3>1
  <2>4. QED
    BY <1>1, <1>2, <1>4, <2>1, <2>2, <2>3 DEF ThreadInv
<1>8. StartedInv'
  BY <1>1, <1>4, <1>5 DEF Inv, StartedInv
<1>9. CloseInv'
  <2>1. Settled(next) => Settled(next)'
    BY <1>1, <1>3 DEF Settled
  <2>2. QED
    BY <1>1, <1>2, <1>3, <2>1, SettledOthers DEF Inv
<1>10. QuitInv'
  BY <1>1 DEF Inv, QuitInv
<1>11. QED
  BY <1>3, <1>6, <1>7, <1>8, <1>9, <1>10 DEF Inv

(* The video is marked before the thread looks for the next.                   *)
LEMMA ResultStep == ASSUME Inv, Result PROVE Inv'
<1> USE DEF list, guiState, history
<1>1. /\ UNCHANGED <<queuedata, removed, missed, subject, gui, quit, pending, next, encoding, started, afterQuit>>
      /\ thread = "result" /\ thread' = "next"
      /\ items' = [items EXCEPT ![next].encoded = TRUE]
  BY DEF Result, Encoded
<1>2. next \in DOMAIN items
  BY <1>1 DEF Inv, ThreadInv
<1>3. /\ ItemsInv' /\ SameDomain
      /\ \A j \in DOMAIN items : j # next => Same(j)
      /\ items'[next].key = items[next].key /\ items'[next].encoded = TRUE
      /\ items'[next].p = items[next].p /\ items'[next].child = items[next].child
  BY <1>1, <1>2, EncodedChange DEF Inv
<1>4. DOMAIN items' = DOMAIN items /\ Len(items') = Len(items)
  BY <1>3 DEF SameDomain
<1>5. \A j \in DOMAIN items :
         /\ items'[j].key = items[j].key /\ items'[j].p = items[j].p
         /\ items'[j].child = items[j].child
         /\ items[j].encoded = TRUE \/ j = next => items'[j].encoded = TRUE
  BY <1>3 DEF Same
<1>6. QueueInv'
  <2>1. \A j \in DOMAIN items : InQueue(j) => InQueue(j)'
    BY <1>1, <1>5 DEF InQueue
  <2>2. QED
    BY <1>1, <1>4, <1>5, <2>1 DEF Inv, QueueInv
<1>7. ThreadInv'
  <2>1. encoding
    BY <1>1 DEF Inv, ThreadInv
  <2>2. \A j \in DOMAIN items : items[j].child # "running"
    BY <1>1 DEF Inv, ThreadInv
  <2>3. \A j \in DOMAIN items : items[j].p = TRUE =>
           items[j].child # "none" /\ (items[j].encoded = TRUE \/ j = next)
    BY DEF Inv, ThreadInv
  <2>4. \A j \in DOMAIN items : items'[j].p = TRUE =>
           items'[j].child # "none" /\ items'[j].encoded = TRUE
    BY <1>5, <2>3
  <2>5. QED
    BY <1>1, <1>4, <1>5, <2>1, <2>2, <2>4 DEF ThreadInv
<1>8. StartedInv'
  <2>1. \A m \in DOMAIN started : started[m] \in DOMAIN items
          /\ (items[started[m]].encoded = TRUE \/ started[m] = next)
    BY DEF Inv, StartedInv
  <2>2. \A m \in DOMAIN started : items'[started[m]].encoded = TRUE
    BY <1>5, <2>1
  <2>3. QED
    BY <1>1, <1>4, <2>1, <2>2 DEF Inv, StartedInv
<1>9. CloseInv'
  <2>1. Settled(next) => Settled(next)'
    BY <1>1, <1>3 DEF Settled
  <2>2. QED
    BY <1>1, <1>2, <1>3, <2>1, SettledOthers DEF Inv
<1>10. QuitInv'
  BY <1>1 DEF Inv, QuitInv
<1>11. QED
  BY <1>3, <1>6, <1>7, <1>8, <1>9, <1>10 DEF Inv

(* A process may end at any time.                                              *)
LEMMA ChildStep == ASSUME Inv, ChildEnds PROVE Inv'
<1> USE DEF list, guiState, history
<1>1. PICK id \in DOMAIN items :
        items[id].child = "running" /\ items' = [items EXCEPT ![id].child = "exited"]
  BY DEF ChildEnds
<1>2. UNCHANGED <<queuedata, removed, missed, subject, gui, quit, pending, next, thread, encoding, started, afterQuit>>
  BY DEF ChildEnds
<1>3. /\ ItemsInv' /\ SameDomain
      /\ \A j \in DOMAIN items : j # id => Same(j)
      /\ items'[id].key = items[id].key /\ items'[id].encoded = items[id].encoded
      /\ items'[id].p = items[id].p /\ items'[id].child = "exited"
  BY <1>1, ChildChange DEF Inv
<1>4. ASSUME NEW j \in DOMAIN items PROVE Ended(j)
  BY <1>1, <1>3 DEF Ended, Same
<1>5. QueueInv' /\ ThreadInv'
  BY <1>2, <1>3, <1>4, QueueEnded, ThreadEnded DEF Inv
<1>6. StartedInv'
  BY <1>2, <1>3, <1>4, StartedKept DEF Inv, Ended
<1>7. CloseInv'
  <2>1. Settled(id) => Settled(id)'
    BY <1>3 DEF Settled
  <2>2. QED
    BY <1>2, <1>3, <2>1, SettledOthers DEF Inv
<1>8. QuitInv'
  BY <1>2, QuitKept DEF Inv
<1>9. QED
  BY <1>3, <1>5, <1>6, <1>7, <1>8 DEF Inv

(* Nothing happens.                                                            *)
LEMMA QuietStep == ASSUME Inv, UNCHANGED vars PROVE Inv'
<1> USE DEF list, guiState, history, vars
<1>1. ItemsInv' /\ QueueInv' /\ CloseInv' /\ SameDomain
  BY ThreadQuiet
<1>2. \A j \in DOMAIN items : Same(j)
  BY DEF Same
<1>3. ThreadInv' /\ QuitInv'
  BY <1>1, <1>2, ThreadKept, QuitKept DEF Inv
<1>4. StartedInv'
  BY <1>1, <1>2, StartedKept DEF Inv, Same
<1>5. QED
  BY <1>1, <1>3, <1>4 DEF Inv

-----------------------------------------------------------------------------
(* The videos that were removed. *)

(* A process that is known and over.                                           *)
Over(id) == items[id].p = TRUE /\ items[id].child \in {"exited", "reaped"}

(* A video that is removed is one whose process is over, unless it had none    *)
(* that could be cancelled.                                                    *)
GoneInv ==
    /\ \A id \in removed \ missed : Over(id)
    /\ gui = "cancel" => items[subject].p = TRUE
    /\ gui = "delete" => subject \in missed \/ Over(subject)

(* A process that is over stays so: the thread starts none for such a video.   *)
LEMMA OverKept ==
    ASSUME Inv, Next \/ UNCHANGED vars, ~Add
    PROVE  \A j \in DOMAIN items : Over(j) => Over(j)'
<1> USE DEF list, guiState, history, vars
<1> SUFFICES ASSUME NEW j \in DOMAIN items, Over(j) PROVE Over(j)'
  OBVIOUS
<1>1. ASSUME items' = items PROVE Over(j)'
  BY <1>1 DEF Over
<1>2. ASSUME Same(j) PROVE Over(j)'
  BY <1>2 DEF Same, Over
<1>3. CASE Fill
  BY <1>2, <1>3, FillChange DEF Inv
<1>4. CASE EndCancel \/ EndKill
  <2>1. Cancelled /\ subject \in DOMAIN items
    BY <1>4 DEF EndCancel, EndKill, Inv, QueueInv
  <2>2. Ended(j)
    BY <2>1, CancelEnds
  <2>3. QED
    BY <2>2 DEF Ended, Over
<1>5. CASE Popen
  <2>1. next \in DOMAIN items /\ items[next].p = FALSE
    BY <1>5 DEF Popen, Inv, ThreadInv
  <2>2. j # next
    BY <2>1 DEF Over
  <2>3. QED
    BY <1>2, <1>5, <2>1, <2>2, ChildChange DEF Popen, Inv
<1>6. CASE Publish
  <2>1. next \in DOMAIN items /\ items[next].p = FALSE
    BY <1>6 DEF Publish, Inv, ThreadInv
  <2>2. j # next
    BY <2>1 DEF Over
  <2>3. QED
    BY <1>2, <1>6, <2>1, <2>2, PChange DEF Publish, Inv
<1>7. CASE Wait
  <2>1. next \in DOMAIN items /\ items' = [items EXCEPT ![next].child = "reaped"]
    BY <1>7 DEF Wait, Inv, ThreadInv
  <2>2. /\ j # next => Same(j)
        /\ items'[next].p = items[next].p /\ items'[next].child = "reaped"
    BY <2>1, ChildChange DEF Inv
  <2>3. QED
    BY <1>2, <2>2 DEF Over
<1>8. CASE Result
  <2>1. next \in DOMAIN items /\ items' = [items EXCEPT ![next].encoded = TRUE]
    BY <1>8 DEF Result, Encoded, Inv, ThreadInv
  <2>2. /\ j # next => Same(j)
        /\ items'[next].p = items[next].p /\ items'[next].child = items[next].child
    BY <2>1, EncodedChange DEF Inv
  <2>3. QED
    BY <1>2, <2>2 DEF Over
<1>9. CASE ChildEnds
  <2>1. PICK id \in DOMAIN items :
          items[id].child = "running" /\ items' = [items EXCEPT ![id].child = "exited"]
    BY <1>9 DEF ChildEnds
  <2>2. j # id
    BY <2>1 DEF Over
  <2>3. QED
    BY <1>2, <2>1, <2>2, ChildChange DEF Inv
<1>10. CASE \/ Show \/ Offer \/ Select \/ ClickRemove \/ Delete \/ Clear
            \/ Encode \/ Close \/ CloseItem \/ Destroy
  BY <1>1, <1>10 DEF Show, Offer, Select, ClickRemove, Delete, Clear, Encode, Close, CloseItem, Destroy
<1>11. CASE Pick \/ Die \/ Begin \/ Raise \/ End \/ Exit \/ UNCHANGED vars
  BY <1>1, <1>11 DEF Pick, Die, Begin, Raise, End, Exit
<1>12. QED
  BY <1>3, <1>4, <1>5, <1>6, <1>7, <1>8, <1>9, <1>10, <1>11 DEF Next, GUI, Thread

(* So it does when a video is added.                                           *)
LEMMA AddGone == ASSUME Inv, GoneInv, Add PROVE GoneInv'
<1>1. /\ items' = Append(items, [key |-> NewKey, itemID |-> NewRow, encoded |-> FALSE,
                                 p |-> FALSE, child |-> "none"])
      /\ gui' = "show" /\ removed' = removed /\ missed' = missed
  BY DEF Add, history
<1>2. PICK S : items \in Seq(Item(S))
  BY DEF Inv, ItemsInv
<1>3. \A id \in DOMAIN items : items'[id] = items[id]
  BY <1>1, <1>2
<1>4. \A id \in removed : items'[id] = items[id]
  BY <1>3 DEF Inv, QueueInv
<1>5. QED
  BY <1>1, <1>4 DEF GoneInv, Over

(* self.p stays set.                                                           *)
LEMMA KnownKept ==
    ASSUME Inv, Thread \/ Exit \/ ChildEnds \/ UNCHANGED vars,
           NEW j \in DOMAIN items, items[j].p = TRUE
    PROVE  items'[j].p = TRUE
<1> USE DEF list, guiState, history, vars
<1>1. CASE Popen
  BY <1>1, ChildChange DEF Popen, Same, Inv, ThreadInv
<1>2. CASE Publish
  BY <1>2, PChange DEF Publish, Same, Inv, ThreadInv
<1>3. CASE Wait
  BY <1>3, ChildChange DEF Wait, Same, Inv, ThreadInv
<1>4. CASE Result
  BY <1>4, EncodedChange DEF Result, Encoded, Same, Inv, ThreadInv
<1>5. CASE ChildEnds
  <2>1. PICK id \in DOMAIN items : items' = [items EXCEPT ![id].child = "exited"]
    BY <1>5 DEF ChildEnds
  <2>2. QED
    BY <2>1, ChildChange DEF Same, Inv
<1>6. CASE Pick \/ Die \/ Begin \/ Raise \/ End \/ Exit \/ UNCHANGED vars
  BY <1>6 DEF Pick, Die, Begin, Raise, End, Exit
<1>7. QED
  BY <1>1, <1>2, <1>3, <1>4, <1>5, <1>6 DEF Thread

(* A video is removed after its process was cancelled, or without one.         *)
LEMMA GoneStep == ASSUME Inv, GoneInv, Next \/ UNCHANGED vars PROVE GoneInv'
<1> USE DEF list, guiState, history, vars
<1>1. CASE Add
  BY <1>1, AddGone
<1>2. ASSUME ~Add, NEW id \in DOMAIN items, Over(id) PROVE Over(id)'
  BY <1>2, OverKept
<1>3. removed \subseteq DOMAIN items /\ (gui \in {"cancel", "delete"} => subject \in DOMAIN items)
  BY DEF Inv, QueueInv
<1>4. ASSUME ~Add, removed' = removed, missed \subseteq missed'
      PROVE  \A id \in removed' \ missed' : Over(id)'
  BY <1>2, <1>3, <1>4 DEF GoneInv
<1>5. CASE ClickRemove
  <2>1. /\ UNCHANGED <<items, removed>> /\ missed \subseteq missed'
        /\ gui' = IF items[subject'].p THEN "cancel" ELSE "delete"
        /\ ~items[subject'].p => subject' \in missed'
        /\ subject' \in DOMAIN items
    BY <1>5 DEF ClickRemove, Inv, QueueInv
  <2>2. PICK S : items \in Seq(Item(S))
    BY DEF Inv, ItemsInv
  <2>3. items[subject'].p \in BOOLEAN
    <3>1. items[subject'] \in Item(S)
      BY <2>1, <2>2, LenProperties
    <3>2. QED
      BY <3>1 DEF Item
  <2>4. \A id \in removed' \ missed' : Over(id)'
    BY <2>1 DEF GoneInv, Over
  <2>5. CASE items[subject'].p
    BY <2>1, <2>3, <2>4, <2>5 DEF GoneInv
  <2>6. CASE ~items[subject'].p
    BY <2>1, <2>4, <2>6 DEF GoneInv
  <2>7. QED
    BY <2>5, <2>6
<1>6. CASE EndCancel
  <2>1. /\ UNCHANGED <<removed, missed, subject>> /\ Cancelled
        /\ gui = "cancel" /\ gui' = "delete" /\ ~Add
    BY <1>6 DEF EndCancel, Add
  <2>2. items'[subject].p = TRUE /\ items'[subject].child \in {"exited", "reaped"}
    BY <1>3, <2>1, CancelChange DEF GoneInv
  <2>3. QED
    BY <1>4, <2>1, <2>2 DEF GoneInv, Over
<1>7. CASE Delete
  <2>1. /\ UNCHANGED <<items, missed>> /\ removed' = removed \cup {subject}
        /\ gui = "delete" /\ gui' = "clear"
    BY <1>7 DEF Delete
  <2>2. QED
    BY <2>1 DEF GoneInv, Over
<1>8. CASE \/ Show \/ Offer \/ Select \/ Clear \/ Fill \/ Encode
           \/ Close \/ CloseItem \/ EndKill \/ Destroy
  <2>1. removed' = removed /\ missed \subseteq missed' /\ gui' \notin {"cancel", "delete"} /\ ~Add
    BY <1>8 DEF Show, Offer, Select, Clear, Fill, Encode, Close, CloseItem, EndKill, Destroy, Add
  <2>2. QED
    BY <1>4, <2>1 DEF GoneInv
<1>9. CASE Thread \/ Exit \/ ChildEnds \/ UNCHANGED vars
  <2>1. UNCHANGED <<removed, missed, gui, subject>>
    BY <1>9 DEF Thread, Pick, Die, Begin, Popen, Publish, Wait, Raise, Result, End, Exit, ChildEnds
  <2>2. CASE Add
    BY <2>2, AddGone
  <2>3. CASE ~Add
    <3>1. ASSUME gui = "cancel" PROVE items'[subject].p = TRUE
      BY <1>3, <1>9, <2>3, <3>1, KnownKept DEF GoneInv
    <3>2. gui = "delete" => subject \in missed \/ Over(subject)'
      BY <1>2, <1>3, <2>1, <2>3 DEF GoneInv
    <3>3. QED
      BY <1>4, <2>1, <2>3, <3>1, <3>2 DEF GoneInv, Over
  <2>4. QED
    BY <2>2, <2>3
<1>10. QED
  BY <1>1, <1>5, <1>6, <1>7, <1>8, <1>9 DEF Next, GUI

(* What is proved follows from it.                                             *)
LEMMA InvImplies == Inv /\ GoneInv => OnceEach /\ ClosedStops
<1> SUFFICES ASSUME Inv, GoneInv PROVE OnceEach /\ ClosedStops
  OBVIOUS
<1> DEFINE Running == {id \in DOMAIN items : items[id].child = "running"}
<1>1. \A id \in DOMAIN items : items[id].child = "running" => id = next
  BY DEF Inv, ThreadInv
<1>2. Cardinality(Running) <= 1
  <2>1. CASE Running = {}
    <3>1. Cardinality({}) = 0
      BY FS_EmptySet
    <3>2. QED
      BY <2>1, <3>1
  <2>2. CASE Running # {}
    <3>1. Running = {next}
      BY <1>1, <2>2
    <3>2. Cardinality({next}) = 1
      BY FS_Singleton
    <3> HIDE DEF Running
    <3>3. QED
      BY <3>1, <3>2
  <2>3. QED
    BY <2>1, <2>2
<1>3. OnceEach
  <2>1. \A id \in removed \ missed : items[id].child # "running"
    BY DEF GoneInv, Over
  <2>2. QED
    BY <1>2, <2>1 DEF Inv, StartedInv, OnceEach
<1>4. afterQuit <= 1
  BY DEF Inv, QuitInv
<1>5. ASSUME gui = "closed", NEW id \in DOMAIN items, items[id].child = "running"
      PROVE  id \in missed
  <2>1. quit /\ pending = {}
    BY <1>5 DEF Inv, CloseInv
  <2>2. ~Settled(id)
    BY <1>5 DEF Settled
  <2>3. ~Over(id)
    BY <1>5 DEF Over
  <2>4. QED
    BY <2>1, <2>2, <2>3 DEF Inv, CloseInv, GoneInv
<1>6. QED
  BY <1>3, <1>4, <1>5 DEF ClosedStops

-----------------------------------------------------------------------------
(* The list and the button: what the user sees and can click. *)

Child == {"none", "running", "exited", "reaped"}

Video == [key : Ids, itemID : Ids, encoded : BOOLEAN, p : BOOLEAN, child : Child]

(* A list that shows the keys of S, each video in the row it is numbered with. *)
Shows(shown, S) ==
    /\ shown = Listing(S)
    /\ \A r \in DOMAIN shown : items[queuedata[shown[r]]].itemID = r

Latest == items[subject].key

(* A video that is added has the greatest key and the number of the next row   *)
(* until it is shown there.                                                    *)
RowsInv ==
    /\ \A k \in DOMAIN queuedata : queuedata[k] \notin removed
    /\ gui \in {"idle", "offer"} => Shows(rows, DOMAIN queuedata)
    /\ gui \in {"show", "offer"} =>
          subject \in DOMAIN items /\ Latest \in DOMAIN queuedata /\ queuedata[Latest] = subject
    /\ gui = "show" =>
          /\ Shows(rows, DOMAIN queuedata \ {Latest})
          /\ \A k \in DOMAIN queuedata \ {Latest} : k < Latest
          /\ items[subject].itemID = Len(rows) + 1

(* Nothing has to be offered for this video, or it is about to be.             *)
Offered(id) ==
    \/ encodeEnabled \/ id \in late \/ quit
    \/ gui \in {"show", "offer"} /\ id = subject

(* The thread ends when it has found no video, and what is added before it     *)
(* clears the flag is late.                                                    *)
ButtonInv ==
    /\ encodeEnabled => ~encoding
    /\ encoding => thread # "idle"
    /\ thread \in {"idle", "end"} =>
          \A k \in DOMAIN queuedata : Waiting(k) => Offered(queuedata[k])

(* The keys of the queue, and how they are listed.                             *)
LEMMA KeysListed ==
    ASSUME Inv, NEW S, S \subseteq DOMAIN queuedata
    PROVE  /\ Len(items) \in Nat /\ DOMAIN items = 1 .. Len(items)
           /\ S \subseteq Int /\ IsFiniteSet(S)
           /\ Cardinality(S) \in Nat /\ Cardinality(S) <= Len(items)
           /\ Listing(S) \in [1 .. Cardinality(S) -> S]
           /\ Len(Listing(S)) = Cardinality(S) /\ Listing(S) \in Seq(S)
<1>1. Len(items) \in Nat /\ DOMAIN items = 1 .. Len(items)
  BY LenProperties DEF Inv, ItemsInv
<1>2. S \in SUBSET (1 .. Len(items)) /\ S \subseteq Int
  BY DEF Inv, QueueInv
<1>3. IsFiniteSet(1 .. Len(items)) /\ Cardinality(1 .. Len(items)) = Len(items)
  <2>1. \A n \in Nat : IsFiniteSet(1 .. n) /\ Cardinality(1 .. n) = n
    <3> TAKE n \in Nat
    <3>1. 1 \in Int /\ n \in Int /\ (1 > n => n = 0) /\ n - 1 + 1 = n
      OBVIOUS
    <3>2. QED
      BY <3>1, FS_Interval
  <2>2. QED
    BY <1>1, <2>1
<1>4. IsFiniteSet(S) /\ Cardinality(S) <= Len(items)
  BY <1>2, <1>3, FS_Subset
<1>5. Cardinality(S) \in Nat
  BY <1>4, FS_CardinalityType
<1>6. Listing(S) \in [1 .. Cardinality(S) -> S]
  BY <1>2, <1>4, ListingIs
<1>7. \A m \in Nat : \A f \in [1 .. m -> S] : Len(f) = m /\ f \in Seq(S)
  OBVIOUS
<1>8. QED
  BY <1>1, <1>2, <1>4, <1>5, <1>6, <1>7

(* What is changed of a video but when it is added and when the rows are       *)
(* numbered: neither its key nor its row, and what is encoded stays so.        *)
SameRow(j) ==
    /\ items'[j].key = items[j].key /\ items'[j].itemID = items[j].itemID
    /\ items[j].encoded => items'[j].encoded

VideosKept == items' \in Seq(Video) /\ SameDomain /\ \A j \in DOMAIN items : SameRow(j)

(* A field of one video is set.                                                *)
LEMMA OneChanged ==
    ASSUME TypeOK, NEW id \in DOMAIN items, NEW c \in Video, items' = [items EXCEPT ![id] = c],
           c.key = items[id].key, c.itemID = items[id].itemID, items[id].encoded => c.encoded
    PROVE  VideosKept
<1>1. items \in Seq(Video) /\ Len(items) \in Nat /\ DOMAIN items = 1 .. Len(items)
  BY LenProperties DEF TypeOK, Video, Child
<1>2. items' \in Seq(Video) /\ Len(items') = Len(items) /\ DOMAIN items' = DOMAIN items
  BY <1>1, ExceptSeq
<1>3. items'[id] = c /\ \A j \in DOMAIN items : j # id => items'[j] = items[j]
  BY <1>1
<1>4. QED
  BY <1>2, <1>3 DEF VideosKept, SameDomain, SameRow

(* The fields the threads set.                                                 *)
LEMMA FieldChanged ==
    ASSUME TypeOK, NEW id \in DOMAIN items,
           \/ \E c \in Child : items' = [items EXCEPT ![id].child = c]
           \/ items' = [items EXCEPT ![id].p = TRUE]
           \/ items' = [items EXCEPT ![id].encoded = TRUE]
    PROVE  VideosKept
<1>1. items[id] \in Video
  <2>1. items \in Seq(Video)
    BY DEF TypeOK, Video, Child
  <2>2. QED
    BY <2>1, LenProperties
<1>2. CASE \E c \in Child : items' = [items EXCEPT ![id].child = c]
  <2>1. PICK c \in Child : items' = [items EXCEPT ![id].child = c]
    BY <1>2
  <2> DEFINE v == [items[id] EXCEPT !.child = c]
  <2>2. /\ v \in Video /\ v.key = items[id].key /\ v.itemID = items[id].itemID
        /\ v.encoded = items[id].encoded
    BY <1>1 DEF Video
  <2>3. items' = [items EXCEPT ![id] = v]
    BY <2>1
  <2> HIDE DEF v
  <2>4. QED
    BY <2>2, <2>3, OneChanged
<1>3. CASE items' = [items EXCEPT ![id].p = TRUE]
  <2> DEFINE v == [items[id] EXCEPT !.p = TRUE]
  <2>2. /\ v \in Video /\ v.key = items[id].key /\ v.itemID = items[id].itemID
        /\ v.encoded = items[id].encoded
    BY <1>1 DEF Video
  <2>3. items' = [items EXCEPT ![id] = v]
    BY <1>3
  <2> HIDE DEF v
  <2>4. QED
    BY <2>2, <2>3, OneChanged
<1>4. CASE items' = [items EXCEPT ![id].encoded = TRUE]
  <2> DEFINE v == [items[id] EXCEPT !.encoded = TRUE]
  <2>2. /\ v \in Video /\ v.key = items[id].key /\ v.itemID = items[id].itemID
        /\ v.encoded = TRUE
    BY <1>1 DEF Video
  <2>3. items' = [items EXCEPT ![id] = v]
    BY <1>4
  <2> HIDE DEF v
  <2>4. QED
    BY <2>2, <2>3, OneChanged
<1>5. QED
  BY <1>2, <1>3, <1>4

(* No other step renames a video or puts it into another row.                  *)
LEMMA OthersKeepVideos ==
    ASSUME Inv, TypeOK, [Next]_vars, ~Add, ~Fill
    PROVE  VideosKept
<1> USE DEF list, guiState, history
<1>1. ASSUME items' = items PROVE VideosKept
  <2>1. items \in Seq(Video)
    BY DEF TypeOK, Video, Child
  <2>2. QED
    BY <1>1, <2>1 DEF VideosKept, SameDomain, SameRow
<1>2. CASE EndCancel \/ EndKill
  <2>1. subject \in DOMAIN items /\ Cancelled
    BY <1>2 DEF EndCancel, EndKill, Inv, QueueInv
  <2>2. PICK status \in {"exited", "reaped"} :
           items' = [items EXCEPT ![subject].child = IF @ = "reaped" THEN @ ELSE status]
    BY <2>1 DEF Cancelled
  <2> DEFINE c == IF items[subject].child = "reaped" THEN "reaped" ELSE status
  <2>3. c \in Child
    BY DEF Child
  <2>4. items' = [items EXCEPT ![subject].child = c]
    BY <2>2
  <2>5. QED
    BY <2>1, <2>3, <2>4, FieldChanged
<1>3. CASE Popen \/ Publish \/ Wait \/ Result
  <2>1. next \in DOMAIN items
    BY <1>3 DEF Popen, Publish, Wait, Result, Inv, ThreadInv
  <2>2. \/ \E c \in Child : items' = [items EXCEPT ![next].child = c]
        \/ items' = [items EXCEPT ![next].p = TRUE]
        \/ items' = [items EXCEPT ![next].encoded = TRUE]
    BY <1>3 DEF Popen, Publish, Wait, Result, Encoded, Child
  <2>3. QED
    BY <2>1, <2>2, FieldChanged
<1>4. CASE ChildEnds
  <2>1. PICK id \in DOMAIN items : items' = [items EXCEPT ![id].child = "exited"]
    BY <1>4 DEF ChildEnds
  <2>2. "exited" \in Child
    BY DEF Child
  <2>3. QED
    BY <2>1, <2>2, FieldChanged
<1>5. CASE Show \/ Offer \/ Select \/ ClickRemove \/ Delete \/ Clear \/ Encode \/ Close \/ CloseItem \/ Destroy
  BY <1>1, <1>5 DEF Show, Offer, Select, ClickRemove, Delete, Clear, Encode, Close, CloseItem, Destroy
<1>6. CASE Pick \/ Die \/ Begin \/ Raise \/ End \/ Exit \/ UNCHANGED vars
  BY <1>1, <1>6 DEF Pick, Die, Begin, Raise, End, Exit, vars
<1>7. QED
  BY <1>2, <1>3, <1>4, <1>5, <1>6 DEF Next, GUI, Thread

(* A step that leaves the queue and the list alone.                            *)
LEMMA RowsKept ==
    ASSUME Inv, RowsInv, VideosKept, UNCHANGED <<queuedata, rows, gui, subject, removed>>
    PROVE  RowsInv'
<1>1. /\ DOMAIN items' = DOMAIN items
      /\ \A j \in DOMAIN items : items'[j].key = items[j].key /\ items'[j].itemID = items[j].itemID
  BY DEF VideosKept, SameDomain, SameRow
<1>2. ASSUME NEW S, S \subseteq DOMAIN queuedata, Shows(rows, S)
      PROVE  /\ rows = Listing(S)
             /\ \A r \in DOMAIN rows : items'[queuedata[rows[r]]].itemID = r
  <2>1. rows \in [1 .. Cardinality(S) -> S]
    BY <1>2, KeysListed DEF Shows
  <2>2. \A r \in DOMAIN rows : queuedata[rows[r]] \in DOMAIN items
    BY <1>2, <2>1 DEF Inv, QueueInv
  <2>3. QED
    BY <1>1, <1>2, <2>2 DEF Shows
<1>3. gui \in {"idle", "offer"} => Shows(rows, DOMAIN queuedata)'
  <2>1. gui \in {"idle", "offer"} => Shows(rows, DOMAIN queuedata)
    BY DEF RowsInv
  <2>2. QED
    BY <1>2, <2>1 DEF Shows
<1>4. gui \in {"show", "offer"} =>
         /\ subject \in DOMAIN items' /\ Latest' = Latest
         /\ Latest \in DOMAIN queuedata /\ queuedata[Latest] = subject
  BY <1>1 DEF RowsInv, Latest
<1>5. gui = "show" => Shows(rows, DOMAIN queuedata \ {Latest})'
  <2>1. gui = "show" => Shows(rows, DOMAIN queuedata \ {Latest}) /\ Latest' = Latest
    BY <1>4 DEF RowsInv
  <2>2. QED
    BY <1>2, <2>1 DEF Shows
<1>6. gui = "show" =>
         /\ \A k \in DOMAIN queuedata \ {Latest} : k < Latest
         /\ items'[subject].itemID = Len(rows) + 1
  BY <1>1 DEF RowsInv
<1>7. QED
  BY <1>3, <1>4, <1>5, <1>6 DEF RowsInv

(* While a handler removes a video or closes the window the list is not read.  *)
LEMMA RowsHidden ==
    ASSUME RowsInv, gui' \notin {"idle", "show", "offer"},
           UNCHANGED <<queuedata, removed>>
    PROVE  RowsInv'
BY DEF RowsInv

(* A video that is removed is no longer in the queue.                          *)
LEMMA RowsDeleted == ASSUME Inv, RowsInv, Delete PROVE RowsInv'
<1>1. /\ gui = "delete" /\ gui' = "clear" /\ removed' = removed \cup {subject}
      /\ queuedata' = [k \in DOMAIN queuedata \ {items[subject].key} |-> queuedata[k]]
  BY DEF Delete
<1>2. ASSUME NEW k \in DOMAIN queuedata' PROVE queuedata'[k] \notin removed'
  <2>1. k \in DOMAIN queuedata /\ k # items[subject].key /\ queuedata'[k] = queuedata[k]
    BY <1>1
  <2>2. queuedata[k] \notin removed /\ items[queuedata[k]].key = k
    BY <2>1 DEF RowsInv, Inv, QueueInv
  <2>3. QED
    BY <1>1, <2>1, <2>2
<1>3. QED
  BY <1>1, <1>2 DEF RowsInv

(* The new key is greater than all others.                                     *)
LEMMA KeyIsGreatest ==
    ASSUME ItemsInv, QueueInv
    PROVE  NewKey \in Nat /\ \A k \in DOMAIN queuedata : k < NewKey
<1>1. Len(items) \in Nat
  BY LenProperties DEF ItemsInv
<1> DEFINE S == DOMAIN queuedata \cup {0}
           m == Max(S)
<1>2. S \subseteq 0 .. Len(items) /\ S # {}
  BY <1>1 DEF QueueInv
<1> HIDE DEF S
<1>3. m \in S /\ \A y \in S : m >= y
  BY <1>1, <1>2, Greatest
<1>4. NewKey = m + 1
  BY DEF NewKey, S
<1> HIDE DEF m
<1>5. m \in Nat /\ \A y \in S : y \in Int /\ y < m + 1
  <2>1. m \in Nat /\ \A y \in S : y \in Int
    BY <1>1, <1>2, <1>3
  <2>2. QED
    BY <1>3, <2>1
<1>6. QED
  BY <1>4, <1>5 DEF S

(* What addItemToQueue leaves: one more video, under a key above all others.   *)
LEMMA VideoAdded ==
    ASSUME Inv, TypeOK, Add
    PROVE  LET n == Len(items)
           IN  /\ n \in Nat /\ n < MaxItems /\ DOMAIN items = 1 .. n
               /\ Len(items') = n + 1 /\ DOMAIN items' = 1 .. n + 1
               /\ items'[n + 1] = [key |-> NewKey, itemID |-> NewRow, encoded |-> FALSE,
                                   p |-> FALSE, child |-> "none"]
               /\ \A j \in 1 .. n : items'[j] = items[j]
               /\ NewKey \in 1 .. n + 1 /\ NewKey \notin DOMAIN queuedata
               /\ \A k \in DOMAIN queuedata : k < NewKey
               /\ DOMAIN queuedata' = DOMAIN queuedata \cup {NewKey}
               /\ queuedata'[NewKey] = n + 1
               /\ \A k \in DOMAIN queuedata : queuedata'[k] = queuedata[k]
<1> DEFINE n == Len(items)
           c == [key |-> NewKey, itemID |-> NewRow, encoded |-> FALSE, p |-> FALSE, child |-> "none"]
<1>1. items \in Seq(Video) /\ n \in Nat /\ DOMAIN items = 1 .. n
  BY LenProperties DEF TypeOK, Video, Child
<1>2. /\ NewKey \in 1 .. n + 1 /\ NewKey \notin DOMAIN queuedata
      /\ \A k \in DOMAIN queuedata : k < NewKey
  BY KeyIsNew, KeyIsGreatest DEF Inv
<1>3. /\ items' = Append(items, c) /\ n < MaxItems
      /\ queuedata' = [k \in DOMAIN queuedata \cup {NewKey} |-> IF k = NewKey THEN n + 1 ELSE queuedata[k]]
  BY DEF Add
<1>4. /\ DOMAIN queuedata' = DOMAIN queuedata \cup {NewKey}
      /\ queuedata'[NewKey] = n + 1
      /\ \A k \in DOMAIN queuedata : queuedata'[k] = queuedata[k]
  BY <1>2, <1>3
<1>5. /\ Len(items') = n + 1 /\ DOMAIN items' = 1 .. n + 1
      /\ items'[n + 1] = c /\ \A j \in 1 .. n : items'[j] = items[j]
  <2> DEFINE T == Video \cup {c}
  <2>1. items \in Seq(T) /\ c \in T
    BY <1>1
  <2> HIDE DEF c, T
  <2>2. items' \in Seq(T) /\ Len(items') = n + 1 /\ items'[n + 1] = c
        /\ \A j \in 1 .. n : items'[j] = items[j]
    BY <1>3, <2>1, AppendProperties
  <2>3. QED
    BY <2>2, LenProperties
<1>6. QED
  BY <1>1, <1>2, <1>3, <1>4, <1>5

(* The list does not show it yet.                                              *)
LEMMA RowsAdded == ASSUME Inv, TypeOK, RowsInv, Add PROVE RowsInv'
<1> DEFINE n == Len(items)
           D == DOMAIN queuedata
<1>1. /\ n \in Nat /\ DOMAIN items = 1 .. n /\ DOMAIN items' = 1 .. n + 1
      /\ items'[n + 1].key = NewKey /\ items'[n + 1].itemID = NewRow
      /\ \A j \in 1 .. n : items'[j] = items[j]
      /\ NewKey \notin D /\ \A k \in D : k < NewKey
      /\ DOMAIN queuedata' = D \cup {NewKey} /\ queuedata'[NewKey] = n + 1
      /\ \A k \in D : queuedata'[k] = queuedata[k]
  BY VideoAdded
<1>2. /\ gui = "idle" /\ gui' = "show" /\ subject' = n + 1
      /\ rows' = rows /\ removed' = removed
  BY DEF Add, history
<1>3. \A k \in D : queuedata[k] \in 1 .. n /\ queuedata[k] \notin removed
  BY <1>1 DEF Inv, QueueInv, RowsInv
<1>4. n + 1 \in 1 .. n + 1 /\ n + 1 \notin removed
  BY <1>1 DEF Inv, QueueInv
<1>5. Latest' = NewKey /\ (DOMAIN queuedata \ {Latest})' = D
  BY <1>1, <1>2 DEF Latest
<1>6. Shows(rows, D)
  BY <1>2 DEF RowsInv
<1>7. rows \in [1 .. Cardinality(D) -> D] /\ Len(rows) = Cardinality(D)
  BY <1>6, KeysListed DEF Shows
<1>8. \A r \in DOMAIN rows : items'[queuedata'[rows[r]]].itemID = r
  <2> TAKE r \in DOMAIN rows
  <2>1. rows[r] \in D
    BY <1>7
  <2>2. queuedata'[rows[r]] = queuedata[rows[r]] /\ queuedata[rows[r]] \in 1 .. n
    BY <1>1, <1>3, <2>1
  <2>3. items'[queuedata[rows[r]]] = items[queuedata[rows[r]]]
    BY <1>1, <2>2
  <2>4. QED
    BY <1>6, <2>2, <2>3 DEF Shows
<1>9. Shows(rows, DOMAIN queuedata \ {Latest})'
  BY <1>2, <1>5, <1>6, <1>8 DEF Shows
<1>10. \A k \in DOMAIN queuedata' : queuedata'[k] \notin removed'
  BY <1>1, <1>2, <1>3, <1>4
<1>11. /\ subject' \in DOMAIN items' /\ Latest' \in DOMAIN queuedata' /\ queuedata'[Latest'] = subject'
       /\ items'[subject'].itemID = Len(rows') + 1
       /\ \A k \in (DOMAIN queuedata \ {Latest})' : k < Latest'
  BY <1>1, <1>2, <1>4, <1>5 DEF NewRow
<1>12. QED
  BY <1>2, <1>9, <1>10, <1>11 DEF RowsInv

(* Its row is the last one, as its key is.                                     *)
LEMMA RowsShown == ASSUME Inv, TypeOK, RowsInv, Show PROVE RowsInv'
<1> DEFINE D == DOMAIN queuedata
           S == D \ {Latest}
           m == Cardinality(S)
<1>1. /\ gui = "show" /\ gui' = "offer" /\ rows' = Append(rows, Latest)
      /\ UNCHANGED <<items, queuedata, subject, removed>>
  BY DEF Show, Latest, history
<1>2. /\ subject \in DOMAIN items /\ Latest \in D /\ queuedata[Latest] = subject
      /\ Shows(rows, S) /\ \A k \in S : k < Latest
      /\ items[subject].itemID = Len(rows) + 1
  BY <1>1 DEF RowsInv
<1>3. S \subseteq Int /\ IsFiniteSet(S) /\ m \in Nat /\ Latest \in Int
      /\ rows \in [1 .. m -> S] /\ Len(rows) = m /\ rows \in Seq(S)
  <2>1. D \subseteq Int
    BY KeysListed
  <2>2. QED
    BY <1>2, <2>1, KeysListed DEF Shows
<1>4. rows' = Listing(D)
  <2>1. S \cup {Latest} = D
    BY <1>2
  <2> HIDE DEF S, D
  <2>2. Listing(S \cup {Latest}) = Append(Listing(S), Latest)
    BY <1>2, <1>3, ListingLast
  <2>3. QED
    BY <1>1, <1>2, <2>1, <2>2 DEF Shows
<1> HIDE DEF m
<1>5. /\ DOMAIN rows' = 1 .. m + 1 /\ rows'[m + 1] = Latest
      /\ \A r \in 1 .. m : rows'[r] = rows[r]
  <2>1. rows \in Seq(D) /\ Latest \in D
    BY <1>2, <1>3
  <2>2. /\ rows' \in Seq(D) /\ Len(rows') = m + 1 /\ rows'[m + 1] = Latest
        /\ \A r \in 1 .. m : rows'[r] = rows[r]
    BY <1>1, <1>3, <2>1, AppendProperties
  <2>3. QED
    BY <2>2, LenProperties
<1>6. \A r \in DOMAIN rows' : items[queuedata[rows'[r]]].itemID = r
  <2> TAKE r \in DOMAIN rows'
  <2>1. CASE r \in 1 .. m
    <3>1. r \in DOMAIN rows
      BY <1>3, <2>1
    <3>2. QED
      BY <1>2, <1>5, <2>1, <3>1 DEF Shows
  <2>2. CASE r = m + 1
    BY <1>2, <1>3, <1>5, <2>2
  <2>3. QED
    BY <1>3, <1>5, <2>1, <2>2
<1>7. Shows(rows, DOMAIN queuedata)'
  BY <1>1, <1>4, <1>6 DEF Shows
<1>8. QED
  BY <1>1, <1>2, <1>7 DEF RowsInv, Latest

(* initializeUploadQueue numbers the rows from the first.                      *)
LEMMA RowsFilled == ASSUME Inv, RowsInv, Fill PROVE RowsInv'
<1> DEFINE D == DOMAIN queuedata
           m == Cardinality(D)
           shown(id) == \E r \in DOMAIN Keys : queuedata[Keys[r]] = id
           row(id) == CHOOSE r \in DOMAIN Keys : queuedata[Keys[r]] = id
<1>1. /\ gui' = "idle" /\ rows' = Keys /\ UNCHANGED <<queuedata, subject, removed>>
      /\ items' = [id \in DOMAIN items |->
                     IF shown(id) THEN [items[id] EXCEPT !.itemID = row(id)] ELSE items[id]]
  BY DEF Fill, history
<1>2. /\ D \subseteq Int /\ IsFiniteSet(D) /\ m \in Nat
      /\ Keys \in [1 .. m -> D] /\ Ascending(Keys)
  BY KeysListed, ListingIs DEF Keys
<1>3. \A k, l \in 1 .. m : Keys[k] = Keys[l] => k = l
  BY <1>2, AscendingIs
<1> HIDE DEF shown, row, m
<1>4. ASSUME NEW r \in DOMAIN Keys PROVE items'[queuedata[Keys[r]]].itemID = r
  <2> DEFINE id == queuedata[Keys[r]]
  <2>1. id \in DOMAIN items /\ shown(id)
    BY <1>2 DEF Inv, QueueInv, shown
  <2>2. row(id) \in DOMAIN Keys /\ queuedata[Keys[row(id)]] = id
    BY <2>1 DEF shown, row
  <2>3. \A k \in D : items[queuedata[k]].key = k
    BY DEF Inv, QueueInv
  <2>4. Keys[row(id)] = Keys[r]
    <3>1. Keys[row(id)] \in D /\ Keys[r] \in D
      BY <1>2, <2>2
    <3>2. QED
      BY <2>2, <2>3, <3>1
  <2>5. row(id) = r
    BY <1>2, <1>3, <2>2, <2>4
  <2>6. items'[id] = [items[id] EXCEPT !.itemID = row(id)]
    BY <1>1, <2>1
  <2>7. PICK S : items \in Seq(Item(S))
    BY DEF Inv, ItemsInv
  <2>8. items[id] \in Item(S)
    BY <2>1, <2>7, LenProperties
  <2>9. items'[id].itemID = row(id)
    BY <2>6, <2>8 DEF Item
  <2>10. QED
    BY <2>5, <2>9
<1>5. Shows(rows, DOMAIN queuedata)'
  BY <1>1, <1>4 DEF Shows, Keys
<1>6. QED
  BY <1>1, <1>5 DEF RowsInv

(* Every step leaves the list right.                                           *)
LEMMA RowsStep == ASSUME Inv, TypeOK, RowsInv, [Next]_vars PROVE RowsInv'
<1> USE DEF list, guiState, history
<1>1. CASE Add
  BY <1>1, RowsAdded
<1>2. CASE Fill
  BY <1>2, RowsFilled
<1>3. CASE Show
  BY <1>3, RowsShown
<1>4. CASE Delete
  BY <1>4, RowsDeleted
<1>5. CASE ~Add /\ ~Fill /\ UNCHANGED <<queuedata, rows, gui, subject, removed>>
  BY <1>5, OthersKeepVideos, RowsKept
<1>6. CASE Offer
  <2>1. /\ gui = "offer" /\ gui' = "idle"
        /\ UNCHANGED <<items, queuedata, rows, subject, removed>>
    BY <1>6 DEF Offer
  <2>2. QED
    BY <2>1 DEF RowsInv, Shows
<1>7. CASE ClickRemove \/ EndCancel \/ Clear \/ Close \/ CloseItem \/ EndKill \/ Destroy
  <2>1. gui' \notin {"idle", "show", "offer"} /\ UNCHANGED <<queuedata, removed>>
    BY <1>7 DEF ClickRemove, EndCancel, Clear, Close, CloseItem, EndKill, Destroy
  <2>2. QED
    BY <2>1, RowsHidden
<1>8. CASE Select \/ Encode
  <2>1. ~Add /\ ~Fill /\ UNCHANGED <<queuedata, rows, gui, subject, removed>>
    BY <1>8 DEF Select, Encode, Add, Fill
  <2>2. QED
    BY <1>5, <2>1
<1>9. CASE Thread \/ Exit \/ ChildEnds \/ UNCHANGED vars
  <2>1. UNCHANGED <<queuedata, rows, gui, subject, removed>>
    BY <1>9 DEF Thread, Pick, Die, Begin, Popen, Publish, Wait, Raise, Result, End, Exit, ChildEnds, vars
  <2>2. QED
    BY <1>1, <1>2, <1>5, <2>1
<1>10. QED
  BY <1>1, <1>2, <1>3, <1>4, <1>6, <1>7, <1>8, <1>9 DEF Next, GUI

(* No video comes into the queue, and none is waiting again.                   *)
NoneAdded ==
    /\ SameDomain
    /\ \A j \in DOMAIN items : items[j].encoded => items'[j].encoded
    /\ \A k \in DOMAIN queuedata' : k \in DOMAIN queuedata /\ queuedata'[k] = queuedata[k]

(* A step that gives the queue no video and ends no search.                    *)
LEMMA ButtonKept ==
    ASSUME Inv, ButtonInv, NoneAdded, UNCHANGED <<encodeEnabled, encoding>>, late \subseteq late', quit => quit',
           encoding => thread' # "idle",
           thread' \in {"idle", "end"} => thread \in {"idle", "end"} \/ quit,
           \/ gui' = gui /\ subject' = subject
           \/ gui = "show" /\ gui' = "offer" /\ subject' = subject
           \/ gui \notin {"show", "offer"}
           \/ quit'
    PROVE  ButtonInv'
<1>1. ASSUME thread' \in {"idle", "end"}, NEW k \in DOMAIN queuedata', Waiting(k)'
      PROVE  Offered(queuedata[k])'
  <2>1. k \in DOMAIN queuedata /\ queuedata'[k] = queuedata[k]
    BY <1>1 DEF NoneAdded
  <2>2. queuedata[k] \in DOMAIN items
    BY <2>1 DEF Inv, QueueInv
  <2>3. Waiting(k)
    BY <1>1, <2>1, <2>2 DEF Waiting, NoneAdded
  <2>4. quit \/ Offered(queuedata[k])
    BY <1>1, <2>1, <2>3 DEF ButtonInv
  <2>5. QED
    BY <2>1, <2>4 DEF Offered
<1>2. QED
  BY <1>1 DEF ButtonInv

(* Encode can be clicked as long as there is something to encode.              *)
LEMMA ButtonStep == ASSUME Inv, TypeOK, ButtonInv, [Next]_vars PROVE ButtonInv'
<1> USE DEF list, guiState, history
<1>1. CASE Add
  <2>1. /\ DOMAIN items = 1 .. Len(items) /\ Len(items) \in Nat
        /\ \A j \in 1 .. Len(items) : items'[j] = items[j]
        /\ DOMAIN queuedata' = DOMAIN queuedata \cup {NewKey}
        /\ queuedata'[NewKey] = Len(items) + 1
        /\ \A k \in DOMAIN queuedata : queuedata'[k] = queuedata[k]
    BY <1>1, VideoAdded
  <2>2. /\ gui = "idle" /\ gui' = "show" /\ subject' = Len(items) + 1
        /\ UNCHANGED <<encodeEnabled, encoding, quit, late, thread>>
    BY <1>1 DEF Add
  <2>3. ASSUME thread \in {"idle", "end"}, NEW k \in DOMAIN queuedata, Waiting(k)'
        PROVE  Offered(queuedata[k])'
    <3>1. queuedata[k] \in 1 .. Len(items)
      BY <2>1 DEF Inv, QueueInv
    <3>2. Waiting(k)
      BY <2>1, <2>3, <3>1 DEF Waiting
    <3>3. Offered(queuedata[k])
      BY <2>3, <3>2 DEF ButtonInv
    <3>4. QED
      BY <2>1, <2>2, <3>3 DEF Offered
  <2>4. \A k \in DOMAIN queuedata' : k \in DOMAIN queuedata \/ queuedata'[k] = subject'
    BY <2>1, <2>2
  <2>5. \A k : queuedata'[k] = subject' => Offered(queuedata[k])'
    BY <2>2 DEF Offered
  <2>6. QED
    BY <2>2, <2>3, <2>4, <2>5 DEF ButtonInv
<1>2. CASE Fill
  <2>1. SameDomain /\ \A j \in DOMAIN items : items'[j].encoded = items[j].encoded
    BY <1>2, FillChange DEF Inv, Same
  <2>2. /\ gui = "fill"
        /\ UNCHANGED <<queuedata, encodeEnabled, encoding, quit, late, thread>>
    BY <1>2 DEF Fill
  <2>3. encoding => thread # "idle"
    BY DEF ButtonInv
  <2>4. QED
    BY <2>1, <2>2, <2>3, ButtonKept DEF NoneAdded
<1>3. ASSUME VideosKept
      PROVE  SameDomain /\ \A j \in DOMAIN items : items[j].encoded => items'[j].encoded
  BY <1>3 DEF VideosKept, SameRow
<1>4. CASE Offer
  <2>1. /\ gui = "offer" /\ gui' = "idle" /\ UNCHANGED <<items, queuedata, encoding, quit, subject, thread>>
        /\ late \subseteq late' /\ (encodeEnabled => encodeEnabled')
        /\ encodeEnabled' => encodeEnabled \/ ~encoding
        /\ thread \in {"idle", "end"} => encodeEnabled' \/ subject \in late'
    BY <1>4 DEF Offer, ButtonInv
  <2>2. thread \in {"idle", "end"} => \A k : Offered(queuedata[k]) => Offered(queuedata[k])'
    BY <2>1 DEF Offered
  <2>3. \A k \in DOMAIN queuedata : Waiting(k)' => Waiting(k)
    BY <2>1 DEF Waiting
  <2>4. encodeEnabled' => ~encoding'
    BY <2>1 DEF ButtonInv
  <2>5. QED
    BY <2>1, <2>2, <2>3, <2>4 DEF ButtonInv
<1>5. CASE Encode
  <2>1. encoding' = TRUE /\ encodeEnabled' = FALSE /\ thread' = "next"
    BY <1>5 DEF Encode
  <2>2. QED
    BY <2>1 DEF ButtonInv
<1>6. CASE End
  <2>1. /\ thread = "end" /\ thread' = "idle" /\ encoding' = FALSE
        /\ UNCHANGED <<items, queuedata, encodeEnabled, quit, gui, subject, late>>
    BY <1>6 DEF End
  <2>2. \A k \in DOMAIN queuedata : Waiting(k)' => Waiting(k)
    BY <2>1 DEF Waiting
  <2>3. \A k : Offered(queuedata[k]) => Offered(queuedata[k])'
    BY <2>1 DEF Offered
  <2>4. QED
    BY <2>1, <2>2, <2>3 DEF ButtonInv
<1>7. CASE Pick
  <2>1. /\ thread = "next"
        /\ UNCHANGED <<items, queuedata, encodeEnabled, encoding, quit, gui, subject, late>>
    BY <1>7 DEF Pick
  <2>2. CASE quit
    <3>1. thread' # "idle"
      BY <1>7 DEF Pick
    <3>2. NoneAdded
      BY <2>1 DEF SameDomain, NoneAdded
    <3>3. QED
      BY <2>1, <2>2, <3>1, <3>2, ButtonKept
  <2>3. CASE ~quit
    <3>1. \/ thread' = "begin"
          \/ thread' = "end" /\ \A k \in DOMAIN queuedata : ~Waiting(k)
      BY <1>7, <2>3 DEF Pick, Quitting
    <3>2. \A k \in DOMAIN queuedata : Waiting(k)' => Waiting(k)
      BY <2>1 DEF Waiting
    <3>3. QED
      BY <2>1, <3>1, <3>2 DEF ButtonInv
  <2>4. QED
    BY <2>2, <2>3
<1>8. CASE \/ Show \/ Select \/ ClickRemove \/ EndCancel \/ Delete \/ Clear
           \/ Close \/ CloseItem \/ EndKill \/ Destroy
  <2>1. /\ UNCHANGED <<encodeEnabled, encoding, thread, late>> /\ (quit => quit')
        /\ \A k \in DOMAIN queuedata' : k \in DOMAIN queuedata /\ queuedata'[k] = queuedata[k]
        /\ \/ gui = "show" /\ gui' = "offer" /\ subject' = subject
           \/ gui \notin {"show", "offer"}
    BY <1>8 DEF Show, Select, ClickRemove, EndCancel, Delete, Clear, Close, CloseItem, EndKill, Destroy
  <2>2. ~Add /\ ~Fill
    BY <1>8 DEF Show, Select, ClickRemove, EndCancel, Delete, Clear, Close, CloseItem, EndKill, Destroy,
                Add, Fill
  <2>3. VideosKept
    BY <2>2, OthersKeepVideos
  <2>4. encoding => thread' # "idle"
    BY <2>1 DEF ButtonInv
  <2>5. NoneAdded
    BY <1>3, <2>1, <2>3 DEF NoneAdded
  <2>6. QED
    BY <2>1, <2>4, <2>5, ButtonKept
<1>9. CASE Die \/ Begin \/ Popen \/ Publish \/ Wait \/ Raise \/ Result \/ Exit \/ ChildEnds \/ UNCHANGED vars
  <2>1. /\ UNCHANGED <<queuedata, encodeEnabled, encoding, quit, gui, subject, late>>
        /\ thread' = thread \/ thread' \notin {"idle", "end"}
    BY <1>9 DEF Die, Begin, Popen, Publish, Wait, Raise, Result, Exit, ChildEnds, vars
  <2>2. CASE Add \/ Fill
    BY <1>1, <1>2, <2>2
  <2>3. CASE ~Add /\ ~Fill
    <3>1. VideosKept
      BY <2>3, OthersKeepVideos
    <3>2. encoding => thread' # "idle"
      BY <2>1 DEF ButtonInv
    <3>3. NoneAdded
      BY <1>3, <2>1, <3>1 DEF NoneAdded
    <3>4. QED
      BY <2>1, <3>2, <3>3, ButtonKept
  <2>4. QED
    BY <2>2, <2>3
<1>10. QED
  BY <1>1, <1>2, <1>4, <1>5, <1>6, <1>7, <1>8, <1>9 DEF Next, GUI, Thread

Guis == {"idle", "show", "offer", "cancel", "delete", "clear", "fill", "close", "kill", "closed"}

Threads == {"idle", "next", "begin", "popen", "publish", "wait", "result", "end", "dead"}

(* The parts of the type invariant.                                            *)
VideosTyped == items \in Seq(Video) /\ Len(items) <= MaxItems

QueueTyped ==
    /\ DOMAIN queuedata \subseteq Ids /\ \A k \in DOMAIN queuedata : queuedata[k] \in DOMAIN items
    /\ pending \subseteq DOMAIN queuedata

ListTyped == rows \in Seq(Ids) /\ currentItem \in 0 .. MaxItems

StepsTyped ==
    /\ encodeEnabled \in BOOLEAN /\ encoding \in BOOLEAN /\ quit \in BOOLEAN
    /\ gui \in Guis /\ thread \in Threads

NamesTyped ==
    /\ subject \in {0} \cup DOMAIN items /\ next \in {0} \cup DOMAIN items
    /\ removed \subseteq DOMAIN items /\ late \subseteq DOMAIN items /\ missed \subseteq DOMAIN items

HistoryTyped == started \in Seq(Ids) /\ afterQuit \in Nat /\ torn \in BOOLEAN /\ raised \in BOOLEAN

Parts == VideosTyped /\ QueueTyped /\ ListTyped /\ StepsTyped /\ NamesTyped /\ HistoryTyped

LEMMA TypeParts == TypeOK <=> Parts
BY DEF TypeOK, Parts, VideosTyped, QueueTyped, ListTyped, StepsTyped, NamesTyped, HistoryTyped,
       Video, Child, Guis, Threads

(* As many videos as are added, at most.                                       *)
LEMMA VideosStep == ASSUME Inv, TypeOK, RowsInv, [Next]_vars PROVE VideosTyped'
<1>1. /\ items \in Seq(Video) /\ Len(items) <= MaxItems
      /\ Len(items) \in Nat /\ DOMAIN items = 1 .. Len(items)
  BY TypeParts, LenProperties DEF Parts, VideosTyped
<1>2. CASE Add
  <2>1. /\ items' = Append(items, [key |-> NewKey, itemID |-> NewRow, encoded |-> FALSE,
                                    p |-> FALSE, child |-> "none"])
        /\ Len(items) < MaxItems /\ NewKey \in 1 .. Len(items) + 1 /\ Len(items') = Len(items) + 1
    BY <1>2, VideoAdded DEF Add
  <2>2. NewRow \in Ids
    <3>1. Shows(rows, DOMAIN queuedata)
      BY <1>2 DEF Add, RowsInv
    <3>2. Len(rows) \in Nat /\ Len(rows) <= Len(items)
      BY <3>1, KeysListed DEF Shows
    <3>3. QED
      BY <1>1, <2>1, <3>2, FrontendAssumption DEF NewRow, Ids
  <2>3. NewKey \in Ids
    BY <1>1, <2>1, FrontendAssumption DEF Ids
  <2>4. [key |-> NewKey, itemID |-> NewRow, encoded |-> FALSE, p |-> FALSE, child |-> "none"] \in Video
    BY <2>2, <2>3 DEF Video, Child
  <2>5. items' \in Seq(Video)
    BY <1>1, <2>1, <2>4, AppendProperties
  <2>6. QED
    BY <1>1, <2>1, <2>5, FrontendAssumption DEF VideosTyped
<1>3. CASE Fill
  <2> DEFINE shown(id) == \E r \in DOMAIN Keys : queuedata[Keys[r]] = id
             row(id) == CHOOSE r \in DOMAIN Keys : queuedata[Keys[r]] = id
  <2>1. items' = [id \in DOMAIN items |->
                    IF shown(id) THEN [items[id] EXCEPT !.itemID = row(id)] ELSE items[id]]
    BY <1>3 DEF Fill
  <2>2. \A r \in DOMAIN Keys : r \in Ids
    <3>1. /\ Keys \in [1 .. Cardinality(DOMAIN queuedata) -> DOMAIN queuedata]
          /\ Cardinality(DOMAIN queuedata) \in Nat /\ Cardinality(DOMAIN queuedata) <= Len(items)
      BY KeysListed DEF Keys
    <3>2. QED
      BY <1>1, <3>1, FrontendAssumption DEF Ids
  <2>3. \A id : shown(id) => row(id) \in Ids
    BY <2>2
  <2> HIDE DEF shown, row
  <2>4. ASSUME NEW id \in DOMAIN items PROVE items'[id] \in Video
    <3>1. items[id] \in Video
      BY <1>1
    <3>2. shown(id) => [items[id] EXCEPT !.itemID = row(id)] \in Video
      BY <2>3, <3>1 DEF Video
    <3>3. QED
      BY <2>1, <3>1, <3>2
  <2>5. items' \in [1 .. Len(items) -> Video]
    <3>1. items' = [id \in 1 .. Len(items) |-> items'[id]]
      BY <1>1, <2>1
    <3>2. QED
      BY <1>1, <2>4, <3>1
  <2>6. items' \in Seq(Video) /\ Len(items') = Len(items)
    BY <1>1, <2>5
  <2>7. QED
    BY <1>1, <2>6 DEF VideosTyped
<1>4. CASE ~Add /\ ~Fill
  <2>1. VideosKept
    BY <1>4, OthersKeepVideos
  <2>2. QED
    BY <1>1, <2>1 DEF VideosKept, VideosTyped, SameDomain
<1>5. QED
  BY <1>2, <1>3, <1>4

(* The videos that were added stay.                                            *)
LEMMA VideosStay == ASSUME Inv, TypeOK, [Next]_vars
                    PROVE  DOMAIN items \subseteq DOMAIN items'
<1>1. CASE Add
  BY <1>1, VideoAdded
<1>2. CASE Fill
  BY <1>2, FillChange DEF Inv, SameDomain
<1>3. CASE ~Add /\ ~Fill
  BY <1>3, OthersKeepVideos DEF VideosKept, SameDomain
<1>4. QED
  BY <1>1, <1>2, <1>3

(* The queue holds videos that were added, under keys there can be.            *)
LEMMA QueueStep == ASSUME Inv, TypeOK, [Next]_vars PROVE QueueTyped'
<1> USE DEF list, guiState, history
<1>1. QueueTyped /\ DOMAIN items \subseteq DOMAIN items'
  BY TypeParts, VideosStay DEF Parts
<1>2. CASE Add
  <2>1. /\ DOMAIN items' = 1 .. Len(items) + 1 /\ Len(items) \in Nat /\ Len(items) < MaxItems
        /\ NewKey \in 1 .. Len(items) + 1
        /\ DOMAIN queuedata' = DOMAIN queuedata \cup {NewKey}
        /\ queuedata'[NewKey] = Len(items) + 1
        /\ \A k \in DOMAIN queuedata : queuedata'[k] = queuedata[k]
    BY <1>2, VideoAdded
  <2>2. NewKey \in Ids
    BY <2>1, FrontendAssumption DEF Ids
  <2>3. pending' = pending
    BY <1>2 DEF Add
  <2>4. \A k \in DOMAIN queuedata' : queuedata'[k] \in DOMAIN items'
    <3>1. Len(items) + 1 \in DOMAIN items'
      BY <2>1
    <3>2. QED
      BY <1>1, <2>1, <3>1 DEF QueueTyped
  <2>5. QED
    BY <1>1, <2>1, <2>2, <2>3, <2>4 DEF QueueTyped
<1>3. CASE Delete
  <2>1. /\ DOMAIN queuedata' = DOMAIN queuedata \ {items[subject].key}
        /\ \A k \in DOMAIN queuedata' : queuedata'[k] = queuedata[k]
        /\ pending' = pending /\ gui = "delete"
    BY <1>3 DEF Delete
  <2>2. pending = {}
    BY <2>1 DEF Inv, CloseInv
  <2>3. QED
    BY <1>1, <2>1, <2>2 DEF QueueTyped
<1>4. CASE ~Add /\ ~Delete
  <2>1. /\ queuedata' = queuedata
        /\ pending' \subseteq pending \/ pending' = DOMAIN queuedata
    BY <1>4 DEF Next, GUI, Thread, Show, Offer, Select, ClickRemove, EndCancel, Clear, Fill, Encode,
                Close, CloseItem, EndKill, Destroy, Pick, Die, Begin, Popen, Publish, Wait, Raise, Result, End,
                Exit, ChildEnds, vars
  <2>2. QED
    BY <1>1, <2>1 DEF QueueTyped
<1>5. QED
  BY <1>2, <1>3, <1>4

(* The rows are the keys of videos, and one of them is selected.               *)
LEMMA ListStep == ASSUME Inv, TypeOK, RowsInv, [Next]_vars PROVE ListTyped'
<1> USE DEF list, guiState, history
<1>1. ListTyped /\ VideosTyped /\ QueueTyped
  BY TypeParts DEF Parts
<1>2. Len(items) \in Nat /\ Len(items) <= MaxItems /\ MaxItems \in Nat
  BY <1>1, LenProperties, FrontendAssumption DEF VideosTyped
<1>3. CASE Show
  <2>1. subject \in DOMAIN items /\ Latest \in DOMAIN queuedata /\ rows' = Append(rows, Latest)
    BY <1>3 DEF Show, RowsInv, Latest
  <2>2. Latest \in Ids
    BY <1>1, <2>1 DEF QueueTyped
  <2>3. rows' \in Seq(Ids)
    BY <1>1, <2>1, <2>2, AppendProperties DEF ListTyped
  <2>4. 1 <= MaxItems
    BY <1>2, <2>2 DEF Ids
  <2>5. currentItem' = 1 \/ currentItem' = currentItem
    BY <1>3 DEF Show
  <2>6. QED
    BY <1>1, <1>2, <2>3, <2>4, <2>5 DEF ListTyped
<1>4. CASE Select
  <2>1. PICK r \in DOMAIN rows : currentItem' = r
    BY <1>4 DEF Select
  <2>2. rows' = rows /\ Shows(rows, DOMAIN queuedata)
    BY <1>4 DEF Select, RowsInv
  <2>3. r \in 1 .. Len(rows) /\ Len(rows) \in Nat /\ Len(rows) <= Len(items)
    BY <2>1, <2>2, KeysListed DEF Shows
  <2>4. r \in 0 .. MaxItems
    BY <1>2, <2>3
  <2>5. QED
    BY <1>1, <2>1, <2>2, <2>4 DEF ListTyped
<1>5. CASE Clear
  <2>1. rows' = << >> /\ currentItem' = currentItem
    BY <1>5 DEF Clear
  <2>2. << >> \in Seq(Ids)
    BY EmptySeq
  <2>3. QED
    BY <1>1, <2>1, <2>2 DEF ListTyped
<1>6. CASE Fill
  <2>1. rows' = Keys /\ (currentItem' = currentItem \/ currentItem' = 0)
    BY <1>6 DEF Fill
  <2>2. Keys \in Seq(Ids)
    <3>1. Keys \in [1 .. Cardinality(DOMAIN queuedata) -> DOMAIN queuedata]
          /\ Cardinality(DOMAIN queuedata) \in Nat
      BY KeysListed DEF Keys
    <3>2. Keys \in [1 .. Cardinality(DOMAIN queuedata) -> Ids]
      BY <1>1, <3>1 DEF QueueTyped
    <3>3. QED
      BY <3>1, <3>2
  <2>3. 0 \in 0 .. MaxItems
    BY <1>2
  <2>4. QED
    BY <1>1, <2>1, <2>2, <2>3 DEF ListTyped
<1>7. CASE ~Show /\ ~Select /\ ~Clear /\ ~Fill
  <2>1. UNCHANGED <<rows, currentItem>>
    BY <1>7 DEF Next, GUI, Thread, Add, Offer, ClickRemove, EndCancel, Delete, Encode,
                Close, CloseItem, EndKill, Destroy, Pick, Die, Begin, Popen, Publish, Wait, Raise, Result, End,
                Exit, ChildEnds, vars
  <2>2. QED
    BY <1>1, <2>1 DEF ListTyped
<1>8. QED
  BY <1>3, <1>4, <1>5, <1>6, <1>7

(* The flags and the next steps of both threads.                               *)
LEMMA FlagsStep == ASSUME Inv, TypeOK, [Next]_vars PROVE StepsTyped'
<1> USE DEF list, guiState, history
<1>1. StepsTyped
  BY TypeParts DEF Parts
<1>2. CASE GUI
  <2>1. encodeEnabled' \in BOOLEAN /\ encoding' \in BOOLEAN /\ quit' \in BOOLEAN
    BY <1>1, <1>2 DEF GUI, Add, Show, Offer, Select, ClickRemove, EndCancel, Delete, Clear, Fill, Encode,
                      Close, CloseItem, EndKill, Destroy, StepsTyped
  <2>2. gui' \in Guis
    BY <1>1, <1>2 DEF GUI, Add, Show, Offer, Select, ClickRemove, EndCancel, Delete, Clear, Fill, Encode,
                      Close, CloseItem, EndKill, Destroy, StepsTyped, Guis
  <2>3. thread' \in Threads
    BY <1>1, <1>2 DEF GUI, Add, Show, Offer, Select, ClickRemove, EndCancel, Delete, Clear, Fill, Encode,
                      Close, CloseItem, EndKill, Destroy, StepsTyped, Threads
  <2>4. QED
    BY <2>1, <2>2, <2>3 DEF StepsTyped
<1>3. CASE Thread \/ Exit \/ ChildEnds \/ UNCHANGED vars
  <2>1. /\ UNCHANGED <<encodeEnabled, quit, gui>> /\ (encoding' = encoding \/ encoding' = FALSE)
        /\ thread' \in Threads \/ thread' = thread
    BY <1>3 DEF Thread, Pick, Die, Begin, Popen, Publish, Wait, Raise, Result, End, Exit, ChildEnds, vars, Threads
  <2>2. QED
    BY <1>1, <2>1 DEF StepsTyped
<1>4. QED
  BY <1>2, <1>3 DEF Next

(* Every video the handlers and the thread speak of was added.                 *)
LEMMA NamesStep == ASSUME Inv, Inv', TypeOK, RowsInv, [Next]_vars PROVE NamesTyped'
<1> USE DEF list, guiState, history
<1>1. NamesTyped /\ QueueTyped /\ DOMAIN items \subseteq DOMAIN items'
  BY TypeParts, VideosStay DEF Parts
<1>2. subject' \in {0} \cup DOMAIN items'
  <2>1. CASE Add
    <3>1. subject' = Len(items) + 1 /\ DOMAIN items' = 1 .. Len(items) + 1 /\ Len(items) \in Nat
      BY <2>1, VideoAdded DEF Add
    <3>2. QED
      BY <3>1
  <2>2. CASE ClickRemove
    <3>1. rows[currentItem] \in DOMAIN queuedata /\ subject' = queuedata[rows[currentItem]]
      BY <2>2 DEF ClickRemove
    <3>2. QED
      BY <1>1, <3>1 DEF QueueTyped
  <2>3. CASE CloseItem
    <3>1. PICK k \in pending : subject' = queuedata[k]
      BY <2>3 DEF CloseItem
    <3>2. QED
      BY <1>1, <3>1 DEF QueueTyped
  <2>4. CASE ~Add /\ ~ClickRemove /\ ~CloseItem
    <3>1. subject' = subject
      BY <2>4 DEF Next, GUI, Thread, Show, Offer, Select, EndCancel, Delete, Clear, Fill, Encode,
                  Close, EndKill, Destroy, Pick, Die, Begin, Popen, Publish, Wait, Raise, Result, End,
                  Exit, ChildEnds, vars
    <3>2. QED
      BY <1>1, <3>1 DEF NamesTyped
  <2>5. QED
    BY <2>1, <2>2, <2>3, <2>4
<1>3. next' \in {0} \cup DOMAIN items'
  <2>1. CASE Pick
    <3>1. next' = next \/ thread' = "begin"
      BY <2>1 DEF Pick
    <3>2. thread' = "begin" => next' \in DOMAIN items'
      BY DEF Inv, ThreadInv
    <3>3. QED
      BY <1>1, <3>1, <3>2 DEF NamesTyped
  <2>2. CASE ~Pick
    <3>1. next' = next
      BY <2>2 DEF Next, GUI, Thread, Add, Show, Offer, Select, ClickRemove, EndCancel, Delete, Clear, Fill,
                  Encode, Close, CloseItem, EndKill, Destroy, Die, Begin, Popen, Publish, Wait, Raise, Result, End,
                  Exit, ChildEnds, vars
    <3>2. QED
      BY <1>1, <3>1 DEF NamesTyped
  <2>3. QED
    BY <2>1, <2>2
<1>4. removed' \subseteq DOMAIN items'
  BY DEF Inv, QueueInv
<1>5. late' \subseteq DOMAIN items'
  <2>1. CASE Offer
    <3>1. subject \in DOMAIN items /\ late' \subseteq late \cup {subject}
      BY <2>1 DEF Offer, RowsInv
    <3>2. QED
      BY <1>1, <3>1 DEF NamesTyped
  <2>2. CASE ~Offer
    <3>1. late' = late
      BY <2>2 DEF Next, GUI, Thread, Add, Show, Select, ClickRemove, EndCancel, Delete, Clear, Fill,
                  Encode, Close, CloseItem, EndKill, Destroy, Pick, Die, Begin, Popen, Publish, Wait, Raise, Result,
                  End, Exit, ChildEnds, vars
    <3>2. QED
      BY <1>1, <3>1 DEF NamesTyped
  <2>3. QED
    BY <2>1, <2>2
<1>6. missed' \subseteq DOMAIN items'
  <2>1. CASE CloseItem
    <3>1. PICK k \in pending : missed' \subseteq missed \cup {queuedata[k]}
      BY <2>1 DEF CloseItem
    <3>2. QED
      BY <1>1, <3>1 DEF NamesTyped, QueueTyped
  <2>2. CASE ClickRemove
    <3>1. rows[currentItem] \in DOMAIN queuedata /\ missed' \subseteq missed \cup {queuedata[rows[currentItem]]}
      BY <2>2 DEF ClickRemove
    <3>2. QED
      BY <1>1, <3>1 DEF NamesTyped, QueueTyped
  <2>3. CASE ~CloseItem /\ ~ClickRemove
    <3>1. missed' = missed
      BY <2>3 DEF Next, GUI, Thread, Add, Show, Offer, Select, EndCancel, Delete, Clear, Fill,
                  Encode, Close, EndKill, Destroy, Pick, Die, Begin, Popen, Publish, Wait, Raise, Result,
                  End, Exit, ChildEnds, vars
    <3>2. QED
      BY <1>1, <3>1 DEF NamesTyped
  <2>4. QED
    BY <2>1, <2>2, <2>3
<1>7. QED
  BY <1>2, <1>3, <1>4, <1>5, <1>6 DEF NamesTyped

(* What was started was added.                                                 *)
LEMMA HistoryStep == ASSUME Inv, TypeOK, [Next]_vars PROVE HistoryTyped'
<1> USE DEF list, guiState, history
<1>1. HistoryTyped /\ VideosTyped
  BY TypeParts DEF Parts
<1>2. CASE Popen
  <2>1. next \in DOMAIN items /\ started' = Append(started, next) /\ UNCHANGED <<torn, raised>>
        /\ (afterQuit' = afterQuit + 1 \/ afterQuit' = afterQuit)
    BY <1>2 DEF Popen, Inv, ThreadInv
  <2>2. next \in Ids
    <3>1. DOMAIN items = 1 .. Len(items) /\ Len(items) \in Nat /\ Len(items) <= MaxItems
      BY <1>1, LenProperties DEF VideosTyped
    <3>2. QED
      BY <2>1, <3>1, FrontendAssumption DEF Ids
  <2>3. QED
    BY <1>1, <2>1, <2>2, AppendProperties DEF HistoryTyped
<1>3. CASE ~Popen
  <2>1. UNCHANGED <<started, afterQuit>> /\ torn' \in BOOLEAN /\ raised' \in BOOLEAN
    BY <1>1, <1>3 DEF HistoryTyped, Next, GUI, Thread, Add, Show, Offer, Select, ClickRemove, EndCancel,
                  Delete, Clear, Fill, Encode, Close, CloseItem, EndKill, Destroy, Pick, Die, Begin, Publish,
                  Wait, Raise, Result, End, Exit, ChildEnds, vars
  <2>2. QED
    BY <1>1, <2>1 DEF HistoryTyped
<1>4. QED
  BY <1>2, <1>3

-----------------------------------------------------------------------------
(* The theorems. *)

(* Every step keeps the invariant.                                             *)
LEMMA StepInv == Inv /\ [Next]_vars => Inv'
<1> SUFFICES ASSUME Inv, [Next]_vars PROVE Inv'
  OBVIOUS
<1>1. CASE GUI
  BY <1>1, AddStep, ShowSteps, CancelStep, DeleteStep, FillStep, EncodeStep, CloseStep,
     CloseItemStep, KillStep, DestroyStep DEF GUI
<1>2. CASE Thread
  BY <1>2, PickStep, ThreadSteps, PopenStep, PublishStep, WaitStep, ResultStep DEF Thread
<1>3. CASE Exit
  BY <1>3, ThreadSteps
<1>4. CASE ChildEnds
  BY <1>4, ChildStep
<1>5. CASE UNCHANGED vars
  BY <1>5, QuietStep
<1>6. QED
  BY <1>1, <1>2, <1>3, <1>4, <1>5 DEF Next

(* At first the list is empty and Encode cannot be clicked.                    *)
LEMMA ShownInit == Init => TypeOK /\ RowsInv /\ ButtonInv
<1> SUFFICES ASSUME Init PROVE TypeOK /\ RowsInv /\ ButtonInv
  OBVIOUS
<1>1. /\ items = << >> /\ queuedata = << >> /\ rows = << >> /\ currentItem = 0 /\ subject = 0 /\ next = 0
      /\ encodeEnabled = FALSE /\ encoding = FALSE /\ quit = FALSE /\ gui = "idle" /\ thread = "idle"
      /\ removed = {} /\ late = {} /\ missed = {} /\ pending = {}
      /\ started = << >> /\ afterQuit = 0 /\ torn = FALSE /\ raised = FALSE
  BY DEF Init
<1>2. /\ DOMAIN items = {} /\ DOMAIN queuedata = {} /\ DOMAIN rows = {} /\ Len(items) = 0
      /\ \A S : << >> \in Seq(S)
  BY <1>1, EmptySeq
<1>3. VideosTyped /\ QueueTyped /\ ListTyped
  BY <1>1, <1>2, FrontendAssumption DEF VideosTyped, QueueTyped, ListTyped
<1>4. StepsTyped /\ NamesTyped /\ HistoryTyped
  BY <1>1, <1>2 DEF StepsTyped, NamesTyped, HistoryTyped, Guis, Threads
<1>5. rows = Listing(DOMAIN queuedata)
  <2>1. Inv
    BY InitInv
  <2>2. /\ Listing({}) \in [1 .. Cardinality({}) -> {}] /\ Cardinality({}) = 0
        /\ Len(Listing({})) = Cardinality({}) /\ Listing({}) \in Seq({})
    BY <1>2, <2>1, KeysListed, FS_EmptySet
  <2>3. Listing({}) = << >>
    BY <2>2, EmptySeq
  <2>4. QED
    BY <1>1, <1>2, <2>3
<1>6. RowsInv /\ ButtonInv
  BY <1>1, <1>2, <1>5 DEF RowsInv, Shows, ButtonInv
<1>7. QED
  BY <1>3, <1>4, <1>6, TypeParts DEF Parts

(* The types, the list and the button stay right with every step.              *)
LEMMA ShownStep ==
    Inv /\ TypeOK /\ RowsInv /\ ButtonInv /\ [Next]_vars => TypeOK' /\ RowsInv' /\ ButtonInv'
<1> SUFFICES ASSUME Inv, TypeOK, RowsInv, ButtonInv, [Next]_vars
             PROVE  TypeOK' /\ RowsInv' /\ ButtonInv'
  OBVIOUS
<1>1. Inv'
  BY StepInv
<1>2. Parts'
  BY <1>1, VideosStep, QueueStep, ListStep, FlagsStep, NamesStep, HistoryStep DEF Parts
<1>3. TypeOK'
  BY <1>2, TypeParts, PTL
<1>4. QED
  BY <1>3, RowsStep, ButtonStep

(* Between two clicks the list shows the queue.                                *)
LEMMA ShownImplies == Inv /\ TypeOK /\ RowsInv /\ ButtonInv => QueueShown
<1> SUFFICES ASSUME Inv, TypeOK, RowsInv, ButtonInv, gui = "idle"
             PROVE  /\ encodeEnabled => ~encoding
                    /\ {queuedata[k] : k \in DOMAIN queuedata} = DOMAIN items \ removed
                    /\ rows = Keys
                    /\ \A r \in DOMAIN rows : items[queuedata[rows[r]]].itemID = r
                    /\ ~encoding => \A k \in DOMAIN queuedata :
                          Waiting(k) => encodeEnabled \/ queuedata[k] \in late
  BY DEF QueueShown
<1>1. {queuedata[k] : k \in DOMAIN queuedata} \subseteq DOMAIN items \ removed
  BY DEF Inv, QueueInv, RowsInv
<1>2. ASSUME NEW id \in DOMAIN items \ removed
      PROVE  id \in {queuedata[k] : k \in DOMAIN queuedata}
  BY <1>2 DEF Inv, QueueInv, InQueue
<1>3. Shows(rows, DOMAIN queuedata)
  BY DEF RowsInv
<1>4. ~encoding => thread = "idle"
  BY DEF Inv, ThreadInv
<1>5. ~quit
  BY DEF Inv, CloseInv
<1>6. ~encoding => \A k \in DOMAIN queuedata : Waiting(k) => encodeEnabled \/ queuedata[k] \in late
  BY <1>4, <1>5 DEF ButtonInv, Offered
<1>7. QED
  BY <1>1, <1>2, <1>3, <1>6 DEF Shows, Keys, ButtonInv

(* In every state the invariant holds.                                         *)
THEOREM Invariant == Spec => []Inv
BY InitInv, StepInv, PTL DEF Spec

(* No video is removed while a process it is known to have goes on.            *)
LEMMA GoneAlways == Spec => []GoneInv
<1>1. Init => GoneInv
  BY DEF Init, GoneInv
<1>2. Inv /\ GoneInv /\ [Next]_vars => GoneInv'
  BY GoneStep
<1>3. QED
  BY <1>1, <1>2, Invariant, PTL DEF Spec

(* However the clicks and the thread interleave, no video is encoded twice and *)
(* no two at a time; and the process of a video that was removed, if there was *)
(* one when Remove was clicked, is over.                                       *)
THEOREM EncodedOnce == Spec => []OnceEach
<1>1. Inv /\ GoneInv => OnceEach
  BY InvImplies
<1>2. QED
  BY Invariant, GoneAlways, <1>1, PTL

(* A closed window leaves no process running but one that had none yet when    *)
(* OnClose looked or Remove was clicked, and at most one is started after the  *)
(* flag quit is set.                                                           *)
THEOREM ClosingStops == Spec => []ClosedStops
<1>1. Inv /\ GoneInv => ClosedStops
  BY InvImplies
<1>2. QED
  BY Invariant, GoneAlways, <1>1, PTL

(* The types, the list and the button are right in every state.                *)
LEMMA ShownAlways == Spec => [](TypeOK /\ RowsInv /\ ButtonInv)
BY Invariant, ShownInit, ShownStep, PTL DEF Spec

(* Numbers of videos, of rows and of keys stay within the videos added, and    *)
(* both threads name only such videos.                                         *)
THEOREM TypesHold == Spec => []TypeOK
BY ShownAlways, PTL

(* Between two clicks the list shows every video of the queue, each in the row *)
(* it is numbered with, in the order of the keys; and Encode can be clicked    *)
(* when there is a video to encode and no encoding, but for one that was added *)
(* while the thread was about to end.                                          *)
THEOREM ListRight == Spec => []QueueShown
<1>1. Inv /\ TypeOK /\ RowsInv /\ ButtonInv => QueueShown
  BY ShownImplies
<1>2. QED
  BY <1>1, Invariant, ShownAlways, PTL

=============================================================================
