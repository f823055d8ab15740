----------------------------- MODULE PipeProofs -----------------------------
(***************************************************************************)
(* Proofs about the pipe, for any number of processes, any bytes, any size *)
(* of the ring and any width of the counters that the size divides.        *)
(* First the arithmetic of the counters and the ring; then the inductive   *)
(* invariant IInv (Pipe), one lemma for each loop and action; last, that   *)
(* the ring implements ByteStream.                                         *)
(***************************************************************************)
EXTENDS Pipe, Integers, SequenceTheorems, TLAPS

-----------------------------------------------------------------------------
(* Arithmetic *)

\* Division with remainder.
LEMMA DivMod ==
  ASSUME NEW m \in Nat \ {0}, NEW x \in Int
  PROVE  x = m * (x \div m) + (x % m) /\ x \div m \in Int /\ x % m \in 0 .. m - 1
  OBVIOUS

\* The remainder is the only number below m that leaves a multiple of m.
LEMMA ModUnique ==
  ASSUME NEW m \in Nat \ {0}, NEW q \in Int, NEW r \in 0 .. m - 1
  PROVE  (m * q + r) % m = r
  OBVIOUS

\* The remainder of a number below 2 * m.
LEMMA ModBelow ==
  ASSUME NEW m \in Nat \ {0}, NEW x \in 0 .. 2 * m - 1
  PROVE  x % m = IF x < m THEN x ELSE x - m
<1>1. x < m => x % m = x
  OBVIOUS
<1>2. x >= m => x % m = x - m
  <2>1. x >= m => (m * 1 + (x - m)) % m = x - m
    BY ModUnique
  <2> QED
    BY <2>1
<1> QED
  BY <1>1, <1>2

\* Two numbers less than m apart have different remainders: no two of the
\* bytes in the ring share a place.
LEMMA ModInjective ==
  ASSUME NEW m \in Nat \ {0}, NEW x \in Nat, NEW y \in Nat, x < y, y < x + m
  PROVE  x % m # y % m
<1> DEFINE a == x \div m
           b == y \div m
           r == x % m
           s == y % m
<1>1. a \in Int /\ b \in Int /\ r \in Int /\ s \in Int /\ x = m * a + r /\ y = m * b + s
  BY DivMod
<1> HIDE DEF a, b, r, s
<1>2. SUFFICES ASSUME r = s PROVE FALSE
  BY DEF r, s
<1>3. y - x = m * (b - a)
  BY <1>1, <1>2
<1>4. b - a \in Int /\ 0 < m * (b - a) /\ m * (b - a) < m
  BY <1>1, <1>3
<1> QED
  BY <1>4

\* The wrap of a counter does not move its place in the ring, because the
\* size of the ring divides 2^32.
LEMMA ModMod ==
  ASSUME NEW m \in Nat \ {0}, NEW u \in Nat \ {0}, u % m = 0, NEW x \in Nat
  PROVE  (x % u) % m = x % m
<1> DEFINE c == u \div m
           q == x \div u
           w == x % u
           d == w \div m
           r == w % m
<1>1. c \in Int /\ q \in Int /\ d \in Int /\ w \in Int /\ r \in 0 .. m - 1
  BY DivMod
<1>2. u = m * c
  BY DivMod
<1>3. x = u * q + w
  BY DivMod
<1>4. w = m * d + r
  BY <1>1, DivMod
<1> HIDE DEF c, q, d, w, r
<1>5. x = m * (c * q + d) + r
  <2>1. u * q = m * (c * q)
    BY <1>1, <1>2
  <2>2. m * (c * q + d) = m * (c * q) + m * d
    BY <1>1
  <2>3. m * d \in Int /\ m * (c * q) \in Int
    BY <1>1
  <2> QED
    BY <1>1, <1>3, <1>4, <2>1, <2>2, <2>3
<1>6. c * q + d \in Int
  BY <1>1
<1>7. (m * (c * q + d) + r) % m = r
  BY <1>1, <1>6, ModUnique
<1> QED
  BY <1>5, <1>7 DEF r, w

\* Addition on uint wraps at most once.
LEMMA PlusValue ==
  ASSUME NEW a \in Uint, NEW i \in 0 .. UMod
  PROVE  /\ Plus(a, i) = IF a + i < UMod THEN a + i ELSE a + i - UMod
         /\ Plus(a, i) \in Uint
<1>1. UMod \in Nat \ {0} /\ a + i \in 0 .. 2 * UMod - 1
  BY PipeAssumption DEF Uint
<1> DEFINE x == a + i
<1>2. x % UMod = IF x < UMod THEN x ELSE x - UMod
  BY <1>1, ModBelow
<1>3. Plus(a, i) = x % UMod
  BY DEF Plus
<1> HIDE DEF x
<1>4. Plus(a, i) = IF x < UMod THEN x ELSE x - UMod
  BY <1>2, <1>3
<1> QED
  BY <1>1, <1>4 DEF Uint, x

\* A counter is a uint whatever is added to it.
LEMMA PlusUint ==
  ASSUME NEW a \in Uint, NEW i \in Nat
  PROVE  Plus(a, i) \in Uint
  BY PipeAssumption DEF Plus, Uint

\* The distance of two counters, by which nwrite is ahead of nread.
Ahead(w, r) == (w + UMod - r) % UMod

\* Adding the distance leads from the one counter to the other.
LEMMA AheadValue ==
  ASSUME NEW r \in Uint, NEW w \in Uint
  PROVE  Ahead(w, r) \in Uint /\ w = Plus(r, Ahead(w, r))
<1> DEFINE c == Ahead(w, r)
           x == w + UMod - r
<1>1. UMod \in Nat \ {0} /\ x \in 0 .. 2 * UMod - 1 /\ r \in 0 .. UMod - 1 /\ w \in 0 .. UMod - 1
  BY PipeAssumption DEF Uint
<1>2. x % UMod = IF x < UMod THEN x ELSE x - UMod
  BY <1>1, ModBelow, Zenon
<1>3. c = IF x < UMod THEN x ELSE x - UMod
  BY <1>2 DEF Ahead
<1> HIDE DEF c
<1>4. c \in Uint /\ c \in 0 .. UMod
  BY <1>1, <1>3 DEF Uint
<1>5. Plus(r, c) = IF r + c < UMod THEN r + c ELSE r + c - UMod
  BY <1>4, PlusValue
<1>6. w = Plus(r, c)
  BY <1>1, <1>3, <1>5
<1> QED
  BY <1>4, <1>6 DEF c

\* Bytes are added one after the other.
LEMMA PlusPlus ==
  ASSUME NEW a \in Uint, NEW i \in 0 .. UMod, NEW j \in 0 .. UMod, i + j <= UMod
  PROVE  Plus(Plus(a, i), j) = Plus(a, i + j)
<1>1. UMod \in Nat \ {0} /\ i + j \in 0 .. UMod
  BY PipeAssumption
<1>2. Plus(a, i) \in Uint /\ Plus(a, i) = IF a + i < UMod THEN a + i ELSE a + i - UMod
  BY PlusValue
<1>3. Plus(Plus(a, i), j) = IF Plus(a, i) + j < UMod THEN Plus(a, i) + j ELSE Plus(a, i) + j - UMod
  BY <1>2, PlusValue
<1>4. Plus(a, i + j) = IF a + (i + j) < UMod THEN a + (i + j) ELSE a + (i + j) - UMod
  BY <1>1, PlusValue
<1> QED
  BY <1>1, <1>2, <1>3, <1>4 DEF Uint

\* The same counter value means the same number of bytes.
LEMMA PlusInjective ==
  ASSUME NEW a \in Uint, NEW i \in 0 .. UMod - 1, NEW j \in 0 .. UMod - 1, Plus(a, i) = Plus(a, j)
  PROVE  i = j
<1> DEFINE x == Plus(a, i)
           y == Plus(a, j)
<1>1. UMod \in Nat \ {0} /\ i \in 0 .. UMod /\ j \in 0 .. UMod /\ a \in 0 .. UMod - 1
  BY PipeAssumption DEF Uint
<1>2. x = IF a + i < UMod THEN a + i ELSE a + i - UMod
  BY <1>1, PlusValue
<1>3. y = IF a + j < UMod THEN a + j ELSE a + j - UMod
  BY <1>1, PlusValue
<1>4. x = y
  OBVIOUS
<1> HIDE DEF x, y
<1> QED
  BY <1>1, <1>2, <1>3, <1>4

-----------------------------------------------------------------------------
(* The counters *)

\* What the proofs use of PipeAssumption.
Sizes == PIPESIZE \in Nat \ {0} /\ UMod \in Nat \ {0} /\ PIPESIZE < UMod /\ MaxN \in Nat

\* Count is the distance of the counters.
LEMMA CountValue ==
  ASSUME TypeOK
  PROVE  Count \in Uint /\ nwrite = Plus(nread, Count) /\ nread \in Uint /\ nwrite \in Uint
  BY AheadValue DEF TypeOK, Ahead, Count

\* The sizes are as pipe.c has them.
LEMMA SizesHold == Sizes
  BY PipeAssumption DEF Sizes

\* Where pipewrite's loop finds the pipe full, and what it has stored by then.
LEMMA WriteFits ==
  ASSUME TypeOK, Bounded, NEW n \in Nat, NEW k \in 0 .. n, StopsWriting(k, n)
  PROVE  Count + k <= PIPESIZE
<1>1. Count \in Uint /\ nwrite = Plus(nread, Count) /\ nread \in Uint
  BY CountValue
<1>2. SUFFICES ASSUME Count + k > PIPESIZE PROVE FALSE
  BY <1>1, SizesHold DEF Sizes, Uint
<1> DEFINE i == PIPESIZE - Count
<1>3. i \in 0 .. k - 1 /\ i \in 0 .. UMod /\ Count \in 0 .. UMod /\ Count + i = PIPESIZE
  BY <1>1, <1>2, SizesHold DEF Sizes, Uint, Bounded
<1>4. Plus(nwrite, i) = Plus(nread, PIPESIZE)
  <2>1. Count + i <= UMod
    BY <1>3, SizesHold DEF Sizes
  <2> HIDE DEF i
  <2> QED
    BY <1>1, <1>3, <2>1, PlusPlus
<1> QED
  BY <1>3, <1>4 DEF StopsWriting, FullAt

\* piperead's loop copies at most what is there.
LEMMA ReadFits ==
  ASSUME TypeOK, NEW n \in Nat, NEW k \in 0 .. n, StopsReading(k, n)
  PROVE  k <= Count
<1>1. Count \in Uint /\ nwrite = Plus(nread, Count)
  BY CountValue
<1>2. SUFFICES ASSUME k > Count PROVE FALSE
  BY <1>1, SizesHold DEF Sizes, Uint
<1>3. Count \in 0 .. k - 1
  BY <1>1, <1>2, SizesHold DEF Sizes, Uint
<1> QED
  BY <1>1, <1>3 DEF StopsReading, EmptyAt

\* The distance grows by what is written.
LEMMA CountWritten ==
  ASSUME TypeOK, NEW k \in Nat, Count + k <= PIPESIZE, nwrite' = Plus(nwrite, k), nread' = nread
  PROVE  Count' = Count + k /\ nwrite' \in Uint
<1>1. Count \in Uint /\ nwrite = Plus(nread, Count) /\ nread \in Uint /\ nwrite \in Uint
  BY CountValue
<1>2. nwrite' \in Uint
  BY <1>1, PlusUint
<1>3. Count' \in Uint /\ nwrite' = Plus(nread, Count')
  BY <1>1, <1>2, AheadValue DEF Count, Ahead
<1> DEFINE c == Count
           d == Count'
<1>4. /\ c \in 0 .. UMod /\ k \in 0 .. UMod /\ c + k <= UMod /\ c + k \in 0 .. UMod - 1
      /\ d \in 0 .. UMod - 1
  BY <1>1, <1>3, SizesHold DEF Sizes, Uint
<1>5. Plus(nread, d) = Plus(nread, c + k)
  <2> HIDE DEF c, d
  <2>1. Plus(Plus(nread, c), k) = Plus(nread, c + k)
    BY <1>1, <1>4, PlusPlus
  <2> QED
    BY <1>1, <1>3, <2>1 DEF c, d
<1> HIDE DEF c, d
<1>6. d = c + k
  BY <1>1, <1>4, <1>5, PlusInjective
<1> QED
  BY <1>2, <1>6 DEF c, d

\* It shrinks by what is read.
LEMMA CountRead ==
  ASSUME TypeOK, NEW k \in Nat, k <= Count, nread' = Plus(nread, k), nwrite' = nwrite
  PROVE  Count' = Count - k /\ nread' \in Uint
<1>1. Count \in Uint /\ nwrite = Plus(nread, Count) /\ nread \in Uint /\ nwrite \in Uint
  BY CountValue
<1>2. nread' \in Uint
  BY <1>1, PlusUint
<1>3. Count' \in Uint /\ nwrite = Plus(nread', Count')
  BY <1>1, <1>2, AheadValue DEF Count, Ahead
<1> DEFINE c == Count
           d == Count'
           r == nread'
<1>4. /\ c - k \in 0 .. UMod /\ k \in 0 .. UMod /\ k + (c - k) = c /\ k + (c - k) <= UMod
      /\ c - k \in 0 .. UMod - 1 /\ d \in 0 .. UMod - 1
  BY <1>1, <1>3, SizesHold DEF Sizes, Uint
<1>5. Plus(r, d) = Plus(r, c - k)
  <2> HIDE DEF c, d
  <2>1. Plus(Plus(nread, k), c - k) = Plus(nread, c)
    BY <1>1, <1>4, PlusPlus
  <2> QED
    BY <1>1, <1>3, <2>1 DEF c, d
<1>6. r \in Uint
  BY <1>2
<1> HIDE DEF c, d, r
<1>7. d = c - k
  BY <1>4, <1>5, <1>6, PlusInjective
<1> QED
  BY <1>2, <1>7 DEF c, d

-----------------------------------------------------------------------------
(* The ring *)

\* The place of the byte that is j bytes behind the front.
Place(j) == Plus(nread, j) % PIPESIZE

\* PIPESIZE bytes in a row have a place each.
LEMMA PlacesDistinct ==
  ASSUME TypeOK, NEW i \in 0 .. PIPESIZE - 1, NEW j \in 0 .. PIPESIZE - 1, i # j
  PROVE  Place(i) # Place(j)
<1>1. nread \in Nat /\ nread + i \in Nat /\ nread + j \in Nat
  BY SizesHold DEF TypeOK, Sizes, Uint
<1>2. Place(i) = (nread + i) % PIPESIZE /\ Place(j) = (nread + j) % PIPESIZE
  <2>1. UMod % PIPESIZE = 0
    BY PipeAssumption
  <2> QED
    BY <1>1, <2>1, SizesHold, ModMod, Zenon DEF Sizes, Place, Plus
<1> DEFINE x == nread + i
           y == nread + j
<1>3. \/ x < y /\ y < x + PIPESIZE
      \/ y < x /\ x < y + PIPESIZE
  BY <1>1, SizesHold DEF Sizes
<1>4. x % PIPESIZE # y % PIPESIZE
  <2>1. x \in Nat /\ y \in Nat /\ PIPESIZE \in Nat \ {0}
    BY <1>1, SizesHold DEF Sizes
  <2> HIDE DEF x, y
  <2> QED
    BY <1>3, <2>1, ModInjective, Zenon
<1> QED
  BY <1>2, <1>4

\* A place is an index of data.
LEMMA PlaceType ==
  ASSUME TypeOK, NEW j \in 0 .. PIPESIZE
  PROVE  Place(j) \in 0 .. PIPESIZE - 1
<1>1. Plus(nread, j) \in Nat
  <2>1. j \in Nat /\ nread \in Uint
    BY SizesHold DEF TypeOK, Sizes
  <2>2. Plus(nread, j) \in Uint
    BY <2>1, PlusUint
  <2> QED
    BY <2>2, SizesHold DEF Sizes, Uint
<1> QED
  BY <1>1, SizesHold DEF Place, Sizes

\* pipewrite stores its bytes behind the ones that are there and leaves those
\* alone.
LEMMA StoredValue ==
  ASSUME TypeOK, Bounded, NEW k \in Nat, Count + k <= PIPESIZE, NEW s \in [1 .. k -> Bytes]
  PROVE  /\ Stored(k, s) \in [0 .. PIPESIZE - 1 -> Bytes]
         /\ \A j \in 0 .. Count - 1 : Stored(k, s)[Place(j)] = data[Place(j)]
         /\ \A m \in 1 .. k : Stored(k, s)[Place(Count + m - 1)] = s[m]
<1>1. Count \in Nat /\ Count <= UMod /\ nwrite = Plus(nread, Count) /\ nread \in Uint
  BY CountValue, SizesHold DEF Uint, Sizes
<1>2. ASSUME NEW m \in 1 .. k
      PROVE  Plus(nwrite, m - 1) % PIPESIZE = Place(Count + m - 1)
  <2>1. /\ m - 1 \in 0 .. UMod /\ Count \in 0 .. UMod /\ Count + (m - 1) <= UMod
        /\ Count + (m - 1) = Count + m - 1
    BY <1>1, SizesHold DEF Sizes
  <2>2. Plus(Plus(nread, Count), m - 1) = Plus(nread, Count + (m - 1))
    BY <1>1, <2>1, PlusPlus
  <2> QED
    BY <1>1, <2>1, <2>2 DEF Place
<1> DEFINE at(j) == {i \in 1 .. k : Plus(nwrite, i - 1) % PIPESIZE = j}
<1>3. ASSUME NEW m \in 1 .. k
      PROVE  at(Place(Count + m - 1)) = {m}
  <2>1. ASSUME NEW i \in 1 .. k, i # m
        PROVE  Plus(nwrite, i - 1) % PIPESIZE # Place(Count + m - 1)
    <3>1. /\ Count + i - 1 \in 0 .. PIPESIZE - 1 /\ Count + m - 1 \in 0 .. PIPESIZE - 1
          /\ Count + i - 1 # Count + m - 1
      BY <1>1, <2>1, SizesHold DEF Sizes
    <3> QED
      BY <1>2, <3>1, PlacesDistinct
  <2> QED
    BY <1>2, <2>1
<1>4. ASSUME NEW j \in 0 .. Count - 1
      PROVE  at(Place(j)) = {}
  <2>1. ASSUME NEW i \in 1 .. k
        PROVE  Plus(nwrite, i - 1) % PIPESIZE # Place(j)
    <3>1. Count + i - 1 \in 0 .. PIPESIZE - 1 /\ j \in 0 .. PIPESIZE - 1 /\ Count + i - 1 # j
      BY <1>1, <2>1, SizesHold DEF Sizes, Bounded
    <3> QED
      BY <1>2, <3>1, PlacesDistinct
  <2> QED
    BY <2>1
<1>5. \A m \in 1 .. k : Max({m}) = m
  BY DEF Max
<1>6. \A j \in 0 .. PIPESIZE - 1 :
        Stored(k, s)[j] = IF at(j) = {} THEN data[j] ELSE s[Max(at(j))]
  BY DEF Stored
<1>7. ASSUME NEW j \in 0 .. PIPESIZE - 1
      PROVE  at(j) = {} \/ \E m \in 1 .. k : at(j) = {m}
  <2>1. SUFFICES ASSUME NEW m \in at(j) PROVE at(j) = {m}
    OBVIOUS
  <2>2. m \in 1 .. k /\ j = Place(Count + m - 1)
    BY <1>2
  <2> QED
    BY <1>3, <2>2
<1> HIDE DEF at
<1>8. \A j \in 0 .. PIPESIZE - 1 : Stored(k, s)[j] \in Bytes
  <2> SUFFICES ASSUME NEW j \in 0 .. PIPESIZE - 1 PROVE Stored(k, s)[j] \in Bytes
    OBVIOUS
  <2>1. CASE at(j) = {}
    BY <1>6, <2>1 DEF TypeOK
  <2>2. CASE at(j) # {}
    <3>1. PICK m \in 1 .. k : at(j) = {m}
      BY <1>7, <2>2
    <3> QED
      BY <1>5, <1>6, <2>2, <3>1, Zenon
  <2> QED
    BY <2>1, <2>2
<1>9. \A j \in 0 .. Count - 1 : Stored(k, s)[Place(j)] = data[Place(j)]
  <2> SUFFICES ASSUME NEW j \in 0 .. Count - 1 PROVE Stored(k, s)[Place(j)] = data[Place(j)]
    OBVIOUS
  <2>1. j \in 0 .. PIPESIZE
    BY <1>1, SizesHold DEF Sizes, Bounded
  <2> QED
    BY <1>4, <1>6, <2>1, PlaceType
<1>10. \A m \in 1 .. k : Stored(k, s)[Place(Count + m - 1)] = s[m]
  <2> SUFFICES ASSUME NEW m \in 1 .. k PROVE Stored(k, s)[Place(Count + m - 1)] = s[m]
    OBVIOUS
  <2>1. Count + m - 1 \in 0 .. PIPESIZE
    BY <1>1, SizesHold DEF Sizes, Bounded
  <2>2. Place(Count + m - 1) \in 0 .. PIPESIZE - 1
    BY <2>1, PlaceType
  <2> QED
    BY <1>3, <1>5, <1>6, <2>2, Zenon
<1>11. Stored(k, s) \in [0 .. PIPESIZE - 1 -> Bytes]
  BY <1>8, Zenon DEF Stored
<1> QED
  BY <1>9, <1>10, <1>11

-----------------------------------------------------------------------------
(* The invariant *)

\* What IInv says of the files and the calls in progress.
UseInv == CallsHoldEnds /\ ClosedOnce /\ OpenMeansHeld /\ FreedMeansClosed

\* A process outside a call does not sleep.
LEMMA IdleAwake ==
  ASSUME IInv, NEW p \in Procs, op[p] \notin Ends
  PROVE  asleep[p] = "none"
  BY DEF IInv, TypeOK, CallsHoldEnds, Ends, Channels

\* A pass of pipewrite's loop: the sleeping readers are woken or the pipe is
\* as it was, and the writer sleeps only in a full pipe.
LEMMA WriteLoopInv ==
  ASSUME IInv, NEW p \in Procs, asleep[p] = "none", op[p] \in {"idle", "write"}, "write" \in ends[p],
         NEW n \in 0 .. MaxN, WriteLoop(p, n)
  PROVE  IInv'
<1> DEFINE Done == /\ op' = [op EXCEPT ![p] = "idle"] /\ left' = [left EXCEPT ![p] = 0]
                   /\ asleep' = WakeReaders(asleep) /\ unsignalled' = FALSE
           Lost(k) == /\ op' = [op EXCEPT ![p] = "idle"] /\ left' = [left EXCEPT ![p] = 0]
                      /\ unsignalled' = (unsignalled \/ k > 0) /\ UNCHANGED asleep
           Blocks(k) == /\ k < n /\ readopen = 1
                        /\ op' = [op EXCEPT ![p] = "write"] /\ left' = [left EXCEPT ![p] = n - k]
                        /\ asleep' = [WakeReaders(asleep) EXCEPT ![p] = "nwrite"]
                        /\ unsignalled' = FALSE
<1>1. /\ TypeOK /\ Bounded /\ n \in Nat
      /\ UNCHANGED <<nread, readopen, writeopen, freed, ends, closing, killed>>
  BY SizesHold DEF IInv, Sizes, WriteLoop
<1>2. PICK k \in 0 .. n :
         /\ StopsWriting(k, n)
         /\ \E s \in [1 .. k -> Bytes] : data' = Stored(k, s)
         /\ nwrite' = Plus(nwrite, k)
         /\ Done \/ Lost(k) \/ Blocks(k)
  BY DEF WriteLoop
<1>3. k \in Nat /\ Count + k <= PIPESIZE
  BY <1>1, <1>2, WriteFits
<1>4. Count' = Count + k /\ nwrite' \in Uint
  BY <1>1, <1>2, <1>3, CountWritten
<1>5. data' \in [0 .. PIPESIZE - 1 -> Bytes]
  BY <1>1, <1>2, <1>3, StoredValue
<1>6. TypeOK'
  <2>1. op' \in [Procs -> Ops] /\ asleep' \in [Procs -> Channels \cup {"none"}] /\ unsignalled' \in BOOLEAN
    <3>1. CASE Done
      BY <1>1, <3>1, Zenon DEF TypeOK, WakeReaders, Wake, Ops
    <3>2. CASE Lost(k)
      BY <1>1, <3>2 DEF TypeOK, Ops
    <3>3. CASE Blocks(k)
      BY <1>1, <3>3, Zenon DEF TypeOK, WakeReaders, Wake, Ops, Channels
    <3> QED
      BY <1>2, <3>1, <3>2, <3>3, Zenon
  <2>2. left' \in [Procs -> 0 .. MaxN]
    <3>1. n - k \in 0 .. MaxN /\ 0 \in 0 .. MaxN
      BY <1>1, <1>2, SizesHold DEF Sizes
    <3> QED
      BY <1>1, <1>2, <3>1 DEF TypeOK
  <2> QED
    BY <1>1, <1>4, <1>5, <2>1, <2>2 DEF TypeOK
<1>7. Bounded'
  BY <1>3, <1>4 DEF Bounded
<1>8. UseInv'
  <2>1. UseInv
    BY DEF IInv, UseInv
  <2>2. CallsHoldEnds'
    <3>1. CASE Done
      BY <1>1, <2>1, <3>1 DEF UseInv, TypeOK, CallsHoldEnds, WakeReaders, Wake, Ends
    <3>2. CASE Lost(k)
      BY <1>1, <2>1, <3>2 DEF UseInv, TypeOK, CallsHoldEnds, Ends
    <3>3. CASE Blocks(k)
      BY <1>1, <2>1, <3>3 DEF UseInv, TypeOK, CallsHoldEnds, WakeReaders, Wake, Ends
    <3> QED
      BY <1>2, <3>1, <3>2, <3>3, Zenon
  <2> QED
    BY <1>1, <2>1, <2>2 DEF UseInv, ClosedOnce, OpenMeansHeld, FreedMeansClosed
<1>9. ReadersNotMissed'
  <2>1. ReadersNotMissed
    BY DEF IInv
  <2>2. CASE Done \/ Blocks(k)
    BY <1>1, <2>1, <2>2, Zenon DEF TypeOK, ReadersNotMissed, WakeReaders, Wake
  <2>3. CASE Lost(k) /\ k > 0
    <3>1. unsignalled'
      BY <2>3, Zenon
    <3> QED
      BY <1>1, <2>1, <2>3, <3>1 DEF ReadersNotMissed
  <2>4. CASE Lost(k) /\ k = 0
    <3>1. nwrite' = nwrite
      <4>1. nwrite \in Uint /\ 0 \in 0 .. UMod
        BY <1>1, SizesHold DEF TypeOK, Sizes
      <4>2. Plus(nwrite, 0) = nwrite
        BY <4>1, PlusValue, SizesHold DEF Sizes, Uint
      <4> QED
        BY <1>2, <2>4, <4>2
    <3> QED
      BY <1>1, <2>1, <2>4, <3>1, Zenon DEF ReadersNotMissed, Empty, EmptyAt
  <2>5. (k = 0 \/ k > 0) /\ (Done \/ Lost(k) \/ Blocks(k))
    BY <1>2, <1>3
  <2> HIDE DEF Done, Lost, Blocks
  <2> QED
    BY <2>2, <2>3, <2>4, <2>5
<1>10. WritersNotMissed'
  <2>1. WritersNotMissed
    BY DEF IInv
  <2>2. ASSUME NEW q \in Procs, asleep[q] = "nwrite"
        PROVE  nwrite' = nwrite
    <3>1. nwrite \in Uint /\ 0 \in 0 .. UMod
      BY <1>1, SizesHold DEF TypeOK, Sizes
    <3>2. Plus(nwrite, 0) = nwrite
      BY <3>1, PlusValue, SizesHold DEF Sizes, Uint
    <3>3. k = 0
      BY <1>2, <1>3, <2>1, <2>2, <3>2 DEF WritersNotMissed, Full, StopsWriting
    <3> QED
      BY <1>2, <3>2, <3>3
  <2>3. Blocks(k) => Full'
    BY <1>1, <1>2 DEF StopsWriting, Full, FullAt
  <2> SUFFICES ASSUME NEW q \in Procs, asleep'[q] = "nwrite" PROVE readopen' = 1 /\ Full'
    BY DEF WritersNotMissed
  <2>4. CASE q = p
    BY <1>1, <1>2, <2>3, <2>4 DEF TypeOK, WakeReaders, Wake
  <2>5. CASE q # p
    <3>1. asleep[q] = "nwrite"
      BY <1>1, <1>2, <2>5, Zenon DEF TypeOK, WakeReaders, Wake
    <3> QED
      BY <1>1, <2>1, <2>2, <3>1 DEF WritersNotMissed, Full, FullAt
  <2> QED
    BY <2>4, <2>5
<1> QED
  BY <1>6, <1>7, <1>8, <1>9, <1>10 DEF IInv, UseInv

\* A step that leaves the ring alone.
LEMMA RingKept ==
  ASSUME IInv, UNCHANGED <<nread, nwrite, data>>
  PROVE  Bounded' /\ (Full <=> Full') /\ (Empty <=> Empty')
  BY DEF IInv, Bounded, Count, Full, FullAt, Empty, EmptyAt

\* A pass of piperead's loop: it sleeps in an empty pipe with a writer, or
\* wakes the writers.
LEMMA ReadLoopInv ==
  ASSUME IInv, NEW p \in Procs, asleep[p] = "none", op[p] \in {"idle", "read"}, "read" \in ends[p],
         NEW n \in 0 .. MaxN, ReadLoop(p, n)
  PROVE  IInv'
<1> DEFINE Fails == /\ op' = [op EXCEPT ![p] = "idle"] /\ left' = [left EXCEPT ![p] = 0]
                    /\ UNCHANGED <<pipe, asleep>>
           Blocks == /\ Empty /\ writeopen = 1
                     /\ op' = [op EXCEPT ![p] = "read"] /\ left' = [left EXCEPT ![p] = n]
                     /\ asleep' = [asleep EXCEPT ![p] = "nread"] /\ UNCHANGED pipe
           Copies(k) == /\ StopsReading(k, n) /\ nread' = Plus(nread, k)
                        /\ ~(Empty /\ writeopen = 1)
                        /\ op' = [op EXCEPT ![p] = "idle"] /\ left' = [left EXCEPT ![p] = 0]
                        /\ asleep' = WakeWriters(asleep) /\ UNCHANGED <<nwrite, data>>
<1>1. /\ TypeOK /\ Bounded /\ n \in Nat
      /\ UNCHANGED <<readopen, writeopen, freed, ends, closing, killed, unsignalled>>
  BY SizesHold DEF IInv, Sizes, ReadLoop, pipe
<1>2. Fails \/ Blocks \/ \E k \in 0 .. n : Copies(k)
  BY DEF ReadLoop
<1>3. ASSUME NEW k \in 0 .. n, Copies(k)
      PROVE  Count' = Count - k /\ nread' \in Uint /\ k \in Nat /\ Count \in Uint
  <2>1. k \in Nat /\ k <= Count
    BY <1>1, <1>3, ReadFits
  <2> QED
    BY <1>1, <1>3, <2>1, CountRead, CountValue
<1>4. TypeOK'
  <2>1. nread' \in Uint /\ nwrite' \in Uint /\ data' \in [0 .. PIPESIZE - 1 -> Bytes]
    BY <1>1, <1>2, <1>3 DEF TypeOK, pipe
  <2>2. op' \in [Procs -> Ops] /\ asleep' \in [Procs -> Channels \cup {"none"}]
    BY <1>1, <1>2 DEF TypeOK, WakeWriters, Wake, Ops, Channels
  <2>3. left' \in [Procs -> 0 .. MaxN]
    <3>1. 0 \in 0 .. MaxN
      BY SizesHold DEF Sizes
    <3> QED
      BY <1>1, <1>2, <3>1 DEF TypeOK
  <2> QED
    BY <1>1, <2>1, <2>2, <2>3 DEF TypeOK
<1>5. Bounded'
  <2>1. CASE UNCHANGED pipe
    BY <2>1, RingKept DEF pipe
  <2>2. ASSUME NEW k \in 0 .. n, Copies(k) PROVE Bounded'
    BY <1>1, <1>3, <2>2, SizesHold DEF Bounded, Uint, Sizes
  <2> QED
    BY <1>2, <2>1, <2>2
<1>6. UseInv'
  <2>1. UseInv
    BY DEF IInv, UseInv
  <2>2. CallsHoldEnds'
    BY <1>1, <1>2, <2>1 DEF UseInv, TypeOK, CallsHoldEnds, WakeWriters, Wake, Ends
  <2> QED
    BY <1>1, <2>1, <2>2 DEF UseInv, ClosedOnce, OpenMeansHeld, FreedMeansClosed
<1>7. ReadersNotMissed'
  <2>1. ReadersNotMissed
    BY DEF IInv
  <2>2. CASE Fails
    BY <1>1, <2>1, <2>2, RingKept DEF ReadersNotMissed, pipe
  <2>3. CASE Blocks
    BY <1>1, <2>1, <2>3, RingKept DEF ReadersNotMissed, pipe, TypeOK
  <2>4. ASSUME NEW k \in 0 .. n, Copies(k) PROVE ReadersNotMissed'
    BY <1>1, <2>1, <2>4 DEF ReadersNotMissed, WakeWriters, Wake, TypeOK
  <2> QED
    BY <1>2, <2>2, <2>3, <2>4
<1>8. WritersNotMissed'
  <2>1. WritersNotMissed
    BY DEF IInv
  <2>2. CASE Fails
    BY <1>1, <2>1, <2>2, RingKept DEF WritersNotMissed, pipe
  <2>3. CASE Blocks
    BY <1>1, <2>1, <2>3, RingKept DEF WritersNotMissed, pipe, TypeOK
  <2>4. ASSUME NEW k \in 0 .. n, Copies(k) PROVE WritersNotMissed'
    BY <1>1, <2>1, <2>4 DEF WritersNotMissed, WakeWriters, Wake, TypeOK
  <2> QED
    BY <1>2, <2>2, <2>3, <2>4
<1> QED
  BY <1>4, <1>5, <1>6, <1>7, <1>8 DEF IInv, UseInv

\* fork gives the files of an idle process to an unused one.
LEMMA ForkInv ==
  ASSUME IInv, NEW p \in Procs, NEW q \in Procs \ {p}, Fork(p, q)
  PROVE  IInv'
<1>1. TypeOK /\ UseInv /\ ReadersNotMissed /\ WritersNotMissed
  BY DEF IInv, UseInv
<1>2. Bounded' /\ (Full <=> Full') /\ (Empty <=> Empty')
  BY RingKept DEF Fork, pipe
<1>3. TypeOK'
  BY <1>1 DEF Fork, TypeOK, pipe
<1>4. CallsHoldEnds' /\ ClosedOnce' /\ FreedMeansClosed'
  BY <1>1 DEF Fork, TypeOK, UseInv, CallsHoldEnds, ClosedOnce, FreedMeansClosed, pipe, Ends
<1>5. OpenMeansHeld'
  <2>1. \A e \in Ends : (\E r \in Procs : e \in ends'[r]) <=> (\E r \in Procs : e \in ends[r])
    BY <1>1 DEF Fork, TypeOK
  <2> QED
    BY <1>1, <2>1 DEF Fork, UseInv, OpenMeansHeld, pipe, Ends
<1>6. ReadersNotMissed' /\ WritersNotMissed'
  BY <1>1, <1>2 DEF Fork, ReadersNotMissed, WritersNotMissed, pipe
<1> QED
  BY <1>2, <1>3, <1>4, <1>5, <1>6 DEF IInv

\* fileclose: the last file of an end leaves a pipeclose to come.
LEMMA FilecloseInv ==
  ASSUME IInv, NEW p \in Procs, NEW e \in Ends, Fileclose(p, e)
  PROVE  IInv'
<1>1. TypeOK /\ UseInv /\ ReadersNotMissed /\ WritersNotMissed
  BY DEF IInv, UseInv
<1>2. Bounded' /\ (Full <=> Full') /\ (Empty <=> Empty')
  BY RingKept DEF Fileclose, pipe
<1>3. TypeOK'
  BY <1>1 DEF Fileclose, TypeOK, pipe, Ops
<1>4. CallsHoldEnds' /\ FreedMeansClosed'
  BY <1>1 DEF Fileclose, TypeOK, UseInv, CallsHoldEnds, FreedMeansClosed, pipe, Ends
<1>5. ClosedOnce'
  BY <1>1 DEF Fileclose, TypeOK, UseInv, ClosedOnce
<1>6. OpenMeansHeld'
  <2>1. \A f \in Ends : f \in closing' \/ (\E r \in Procs : f \in ends'[r])
                        <=> f \in closing \/ (\E r \in Procs : f \in ends[r])
    BY <1>1 DEF Fileclose, TypeOK
  <2> QED
    BY <1>1, <2>1 DEF Fileclose, UseInv, OpenMeansHeld, pipe, Ends
<1>7. ReadersNotMissed' /\ WritersNotMissed'
  BY <1>1, <1>2 DEF Fileclose, ReadersNotMissed, WritersNotMissed, pipe
<1> QED
  BY <1>2, <1>3, <1>4, <1>5, <1>6, <1>7 DEF IInv

\* pipeclose: the other side is woken, and the page is freed with the second
\* end.
LEMMA PipecloseInv ==
  ASSUME IInv, NEW e \in Ends, Pipeclose(e)
  PROVE  IInv'
<1>1. TypeOK /\ UseInv /\ ReadersNotMissed /\ WritersNotMissed
  BY DEF IInv, UseInv
<1>2. Bounded' /\ (Full <=> Full') /\ (Empty <=> Empty')
  BY RingKept DEF Pipeclose
<1>3. TypeOK'
  <2>1. freed' \in BOOLEAN /\ unsignalled' \in BOOLEAN
    BY DEF Pipeclose, BothClosed
  <2> QED
    BY <1>1, <2>1 DEF Pipeclose, TypeOK, WakeReaders, WakeWriters, Wake
<1>4. CallsHoldEnds' /\ ClosedOnce'
  BY <1>1 DEF Pipeclose, TypeOK, UseInv, CallsHoldEnds, ClosedOnce, WakeReaders, WakeWriters, Wake
<1>5. FreedMeansClosed'
  BY Zenon DEF Pipeclose, FreedMeansClosed, BothClosed
<1>6. OpenMeansHeld'
  BY <1>1 DEF Pipeclose, UseInv, ClosedOnce, OpenMeansHeld, Ends, TypeOK
<1>7. ReadersNotMissed'
  <2>1. CASE e = "write"
    BY <1>1, <2>1 DEF Pipeclose, ReadersNotMissed, WakeReaders, Wake, TypeOK
  <2>2. CASE e = "read"
    <3>1. (unsignalled => unsignalled') /\ writeopen' = writeopen
      BY <2>2, Zenon DEF Pipeclose
    <3>2. \A r \in Procs : asleep'[r] = "nread" => asleep[r] = "nread"
      BY <1>1, <2>2 DEF Pipeclose, WakeWriters, Wake, TypeOK
    <3> QED
      BY <1>1, <1>2, <3>1, <3>2 DEF ReadersNotMissed
  <2> QED
    BY <2>1, <2>2 DEF Ends
<1>8. WritersNotMissed'
  <2>1. CASE e = "write"
    BY <1>1, <1>2, <2>1 DEF Pipeclose, WritersNotMissed, WakeReaders, Wake, TypeOK
  <2>2. CASE e = "read"
    BY <1>1, <2>2 DEF Pipeclose, WritersNotMissed, WakeWriters, Wake, TypeOK
  <2> QED
    BY <2>1, <2>2 DEF Ends
<1> QED
  BY <1>2, <1>3, <1>4, <1>5, <1>6, <1>7, <1>8 DEF IInv

\* kill ends a sleep; a killed process leaves its call for exit.
LEMMA KillInv ==
  ASSUME IInv, NEW p \in Procs, Kill(p) \/ KilledExit(p)
  PROVE  IInv'
<1>1. TypeOK /\ UseInv /\ ReadersNotMissed /\ WritersNotMissed
  BY DEF IInv, UseInv
<1>2. Bounded' /\ (Full <=> Full') /\ (Empty <=> Empty')
  BY RingKept DEF Kill, KilledExit, pipe
<1>3. TypeOK'
  <2>1. 0 \in 0 .. MaxN
    BY SizesHold DEF Sizes
  <2>2. CASE Kill(p)
    BY <1>1, <2>2 DEF Kill, TypeOK, pipe
  <2>3. CASE KilledExit(p)
    BY <1>1, <2>1, <2>3 DEF KilledExit, TypeOK, pipe, Ops
  <2> QED
    BY <2>2, <2>3
<1>4. CallsHoldEnds'
  BY <1>1 DEF Kill, KilledExit, TypeOK, UseInv, CallsHoldEnds, pipe, Ends
<1>5. ClosedOnce' /\ OpenMeansHeld' /\ FreedMeansClosed'
  BY <1>1 DEF Kill, KilledExit, UseInv, ClosedOnce, OpenMeansHeld, FreedMeansClosed, pipe
<1>6. \A r \in Procs : asleep'[r] # "none" => asleep'[r] = asleep[r]
  BY <1>1 DEF Kill, KilledExit, TypeOK
<1>7. ReadersNotMissed' /\ WritersNotMissed'
  BY <1>1, <1>2, <1>6 DEF Kill, KilledExit, ReadersNotMissed, WritersNotMissed, pipe
<1> QED
  BY <1>2, <1>3, <1>4, <1>5, <1>7 DEF IInv

\* What pipealloc and sys_pipe leave.
LEMMA InitInv == Init => IInv
<1> SUFFICES ASSUME Init PROVE IInv
  OBVIOUS
<1>1. TypeOK
  <2>1. 0 \in Uint /\ 0 \in 0 .. MaxN
    BY SizesHold DEF Uint, Sizes
  <2>2. (CHOOSE b \in Bytes : TRUE) \in Bytes
    BY PipeAssumption
  <2>3. data \in [0 .. PIPESIZE - 1 -> Bytes]
    BY <2>2 DEF Init
  <2> QED
    BY <2>1, <2>3, Zenon DEF Init, TypeOK, Ops
<1>2. Bounded
  <2>1. (0 + UMod - 0) % UMod = 0
    BY ModBelow, SizesHold DEF Sizes
  <2> QED
    BY <2>1, SizesHold DEF Init, Bounded, Count, Sizes
<1>3. CallsHoldEnds /\ ClosedOnce /\ FreedMeansClosed
  BY DEF Init, CallsHoldEnds, ClosedOnce, FreedMeansClosed, Ends
<1>4. OpenMeansHeld
  BY DEF Init, OpenMeansHeld, Ends
<1>5. ReadersNotMissed /\ WritersNotMissed
  BY DEF Init, ReadersNotMissed, WritersNotMissed
<1> QED
  BY <1>1, <1>2, <1>3, <1>4, <1>5 DEF IInv

\* Every step preserves IInv: one lemma above for each action.
LEMMA NextInv == IInv /\ [Next]_vars => IInv'
<1> SUFFICES ASSUME IInv, [Next]_vars PROVE IInv'
  OBVIOUS
<1>1. ASSUME NEW p \in Procs, NEW n \in 0 .. MaxN, Pipewrite(p, n) PROVE IInv'
  <2>1. op[p] = "idle" /\ "write" \in ends[p] /\ WriteLoop(p, n)
    BY <1>1 DEF Pipewrite
  <2>2. asleep[p] = "none"
    BY <2>1, IdleAwake DEF Ends
  <2> QED
    BY <2>1, <2>2, WriteLoopInv
<1>2. ASSUME NEW p \in Procs, NEW n \in 0 .. MaxN, Piperead(p, n) PROVE IInv'
  <2>1. op[p] = "idle" /\ "read" \in ends[p] /\ ReadLoop(p, n)
    BY <1>2 DEF Piperead
  <2>2. asleep[p] = "none"
    BY <2>1, IdleAwake DEF Ends
  <2> QED
    BY <2>1, <2>2, ReadLoopInv
<1>3. ASSUME NEW p \in Procs, Resume(p) PROVE IInv'
  <2>1. left[p] \in 0 .. MaxN /\ (op[p] \in Ends => op[p] \in ends[p])
    BY DEF IInv, TypeOK, CallsHoldEnds
  <2>2. CASE op[p] = "write" /\ WriteLoop(p, left[p])
    BY <1>3, <2>1, <2>2, WriteLoopInv DEF Resume, Ends
  <2>3. CASE op[p] = "read" /\ ReadLoop(p, left[p])
    BY <1>3, <2>1, <2>3, ReadLoopInv DEF Resume, Ends
  <2> QED
    BY <1>3, <2>2, <2>3 DEF Resume
<1>4. CASE UNCHANGED vars
  BY <1>4 DEF vars, pipe, IInv, TypeOK, Bounded, CallsHoldEnds, ClosedOnce, OpenMeansHeld,
              FreedMeansClosed, ReadersNotMissed, WritersNotMissed, Count, Full, FullAt,
              Empty, EmptyAt
<1> QED
  BY <1>1, <1>2, <1>3, <1>4, ForkInv, FilecloseInv, KillInv, PipecloseInv DEF Next

\* IInv holds in every reachable state.
THEOREM PipeInvariant == Spec => []IInv
  BY InitInv, NextInv, PTL DEF Spec

\* The page is freed only when no file, call or pipeclose can reach it.
THEOREM PipeFreedMeansUnused == Spec => []FreedMeansUnused
<1>1. IInv => FreedMeansUnused
  BY DEF IInv, TypeOK, FreedMeansUnused, FreedMeansClosed, OpenMeansHeld, CallsHoldEnds, Ends, Ops
<1> QED
  BY <1>1, PipeInvariant, PTL

\* piperead sleeps through no data and no end of file, but for the data of a
\* writer that gave up in a full pipe.
THEOREM PipeReadersNotMissed == Spec => []ReadersNotMissed
<1>1. IInv => ReadersNotMissed
  BY DEF IInv
<1> QED
  BY <1>1, PipeInvariant, PTL

\* pipewrite sleeps through no free space and not through the loss of the last
\* reader.
THEOREM PipeWritersNotMissed == Spec => []WritersNotMissed
<1>1. IInv => WritersNotMissed
  BY DEF IInv
<1> QED
  BY <1>1, PipeInvariant, PTL

-----------------------------------------------------------------------------
(* The byte stream *)

\* The bytes in the ring, oldest first.
Stream == Front(Count)

\* They are a sequence of Count bytes.
LEMMA StreamType ==
  ASSUME IInv
  PROVE  /\ Stream \in Seq(Bytes) /\ Len(Stream) = Count /\ Count \in 0 .. PIPESIZE
         /\ \A i \in 1 .. Count : Stream[i] = data[Place(i - 1)]
<1>1. TypeOK /\ Count \in 0 .. PIPESIZE
  BY CountValue, SizesHold DEF IInv, Bounded, Uint, Sizes
<1> DEFINE c == Count
<1> HIDE DEF c
<1>2. \A i \in 1 .. c : Place(i - 1) \in 0 .. PIPESIZE - 1
  BY <1>1, PlaceType, SizesHold DEF Sizes, c
<1>3. Stream = [i \in 1 .. c |-> data[Place(i - 1)]]
  BY DEF Stream, Front, Place, c
<1>4. \A i \in 1 .. c : data[Place(i - 1)] \in Bytes
  BY <1>1, <1>2 DEF TypeOK
<1>5. c \in Nat
  BY <1>1, SizesHold DEF Sizes, c
<1>6. Stream \in Seq(Bytes) /\ Len(Stream) = c /\ \A i \in 1 .. c : Stream[i] = data[Place(i - 1)]
  BY <1>3, <1>4, <1>5
<1> QED
  BY <1>1, <1>6 DEF c

\* What comes of appending t to s.
LEMMA ConcatValue ==
  ASSUME NEW B, NEW s \in Seq(B), NEW t \in Seq(B), NEW u,
         u = [i \in 1 .. Len(s) + Len(t) |-> IF i <= Len(s) THEN s[i] ELSE t[i - Len(s)]]
  PROVE  u = s \o t
<1>1. u \in Seq(B) /\ Len(u) = Len(s) + Len(t)
  OBVIOUS
<1>2. s \o t \in Seq(B) /\ Len(s \o t) = Len(s) + Len(t)
  OBVIOUS
<1>3. \A i \in 1 .. Len(s) + Len(t) : u[i] = (s \o t)[i]
  OBVIOUS
<1> QED
  BY <1>1, <1>2, <1>3, SeqEqual, Zenon

\* A step that leaves the ring alone and returns no bytes adds none.
LEMMA PutNothing ==
  ASSUME IInv, UNCHANGED <<nread, nwrite, data>>, got' = <<>>
  PROVE  BS!Put
<1>1. Stream \in Seq(Bytes) /\ Len(Stream) = Count /\ Count \in 0 .. PIPESIZE
  BY StreamType
<1>2. Stream' = Stream
  BY DEF Stream, Front, Count, Plus
<1>3. Stream' = Stream \o <<>> /\ <<>> \in [1 .. 0 -> Bytes]
  BY <1>1, <1>2
<1>4. 0 \in 0 .. PIPESIZE - Len(Stream)
  BY <1>1, SizesHold DEF Sizes
<1> QED
  BY <1>3, <1>4, Zenon DEF BS!Put, Stream

\* A pass of pipewrite's loop appends what it stores.
LEMMA WritePuts ==
  ASSUME IInv, NEW p \in Procs, NEW n \in 0 .. MaxN, WriteLoop(p, n)
  PROVE  BS!Put
<1>1. TypeOK /\ Bounded /\ n \in Nat /\ nread' = nread /\ got' = <<>>
  BY SizesHold DEF IInv, Sizes, WriteLoop
<1>2. PICK k \in 0 .. n :
         /\ StopsWriting(k, n)
         /\ \E s \in [1 .. k -> Bytes] : data' = Stored(k, s)
         /\ nwrite' = Plus(nwrite, k)
  BY DEF WriteLoop
<1>3. PICK s \in [1 .. k -> Bytes] : data' = Stored(k, s)
  BY <1>2
<1>4. k \in Nat /\ Count + k <= PIPESIZE
  BY <1>1, <1>2, WriteFits
<1>5. Count' = Count + k
  BY <1>1, <1>2, <1>4, CountWritten
<1>6. /\ Stream \in Seq(Bytes) /\ Len(Stream) = Count /\ Count \in 0 .. PIPESIZE
      /\ \A i \in 1 .. Count : Stream[i] = data[Place(i - 1)]
  BY StreamType
<1> DEFINE c == Count
<1>7. Stream' = [i \in 1 .. c + k |-> data'[Place(i - 1)]]
  BY <1>1, <1>5 DEF Stream, Front, Place, Plus
<1>8. /\ \A j \in 0 .. c - 1 : data'[Place(j)] = data[Place(j)]
      /\ \A m \in 1 .. k : data'[Place(c + m - 1)] = s[m]
  BY <1>1, <1>3, <1>4, StoredValue
<1> HIDE DEF c
<1>9. c \in Nat /\ c + k <= PIPESIZE /\ Len(Stream) = c
  BY <1>4, <1>6, SizesHold DEF c, Sizes
<1>10. \A i \in 1 .. c + k : data'[Place(i - 1)] = IF i <= c THEN Stream[i] ELSE s[i - c]
  <2> SUFFICES ASSUME NEW i \in 1 .. c + k
               PROVE  data'[Place(i - 1)] = IF i <= c THEN Stream[i] ELSE s[i - c]
    OBVIOUS
  <2>1. CASE i <= c
    <3>1. i - 1 \in 0 .. c - 1 /\ i \in 1 .. c
      BY <1>9, <2>1
    <3> QED
      BY <1>6, <1>8, <2>1, <3>1, Zenon DEF c
  <2>2. CASE i > c
    <3>1. i - c \in 1 .. k /\ c + (i - c) - 1 = i - 1
      BY <1>4, <1>9, <2>2
    <3> QED
      BY <1>8, <1>9, <2>2, <3>1
  <2> QED
    BY <1>9, <2>1, <2>2
<1>11. s \in Seq(Bytes) /\ Len(s) = k
  BY <1>4
<1>12. Stream' = [i \in 1 .. c + k |-> IF i <= c THEN Stream[i] ELSE s[i - c]]
  BY <1>7, <1>10
<1>13. Stream' = Stream \o s
  <2> DEFINE t == Stream
             u == Stream'
  <2>1. t \in Seq(Bytes) /\ s \in Seq(Bytes) /\ Len(t) = c /\ Len(s) = k
    BY <1>6, <1>9, <1>11
  <2>2. u = [i \in 1 .. Len(t) + Len(s) |-> IF i <= Len(t) THEN t[i] ELSE s[i - Len(t)]]
    BY <1>12, <2>1
  <2> HIDE DEF t, u
  <2>3. u = t \o s
    BY <2>1, <2>2, ConcatValue, Zenon
  <2> QED
    BY <2>3 DEF t, u
<1>14. k \in 0 .. PIPESIZE - Len(Stream)
  BY <1>4, <1>9, SizesHold DEF Sizes
<1> QED
  BY <1>1, <1>13, <1>14, Zenon DEF BS!Put, Stream

\* A pass of piperead's loop that copies takes bytes off the front.
LEMMA ReadGets ==
  ASSUME IInv, NEW p \in Procs, NEW n \in 0 .. MaxN, ReadLoop(p, n)
  PROVE  BS!Next
<1>1. TypeOK /\ n \in Nat
  BY SizesHold DEF IInv, Sizes
<1>2. CASE UNCHANGED pipe /\ got' = <<>>
  BY <1>2, PutNothing DEF pipe, BS!Next
<1>3. ASSUME NEW k \in 0 .. n, StopsReading(k, n), got' = Front(k), nread' = Plus(nread, k),
             UNCHANGED <<nwrite, data>>
      PROVE  BS!Get
  <2> DEFINE c == Count
  <2>1. k \in Nat /\ k <= c
    BY <1>1, <1>3, ReadFits
  <2>2. Count' = c - k
    BY <1>1, <1>3, <2>1, CountRead
  <2>3. /\ Stream \in Seq(Bytes) /\ Len(Stream) = c /\ c \in 0 .. PIPESIZE
        /\ \A i \in 1 .. c : Stream[i] = data[Place(i - 1)]
    BY StreamType
  <2>4. Stream' = [i \in 1 .. c - k |-> data[Plus(nread', i - 1) % PIPESIZE]]
    BY <1>3, <2>2 DEF Stream, Front, Plus
  <2> HIDE DEF c
  <2>5. \A i \in 1 .. c - k : data[Plus(nread', i - 1) % PIPESIZE] = Stream[i + k]
    <3> SUFFICES ASSUME NEW i \in 1 .. c - k
                 PROVE  data[Plus(nread', i - 1) % PIPESIZE] = Stream[i + k]
      OBVIOUS
    <3>1. /\ k \in 0 .. UMod /\ i - 1 \in 0 .. UMod /\ k + (i - 1) <= UMod
          /\ k + (i - 1) = (i + k) - 1 /\ i + k \in 1 .. c
      BY <2>1, <2>3, SizesHold DEF Sizes
    <3>2. Plus(nread', i - 1) = Plus(nread, (i + k) - 1)
      BY <1>1, <1>3, <3>1, PlusPlus DEF TypeOK
    <3> QED
      BY <2>3, <3>1, <3>2 DEF Place
  <2>6. Stream' = [i \in 1 .. c - k |-> Stream[i + k]]
    BY <2>4, <2>5
  <2>7. SubSeq(Stream, k + 1, Len(Stream)) = [i \in 1 .. c - k |-> Stream[i + k]]
    BY <2>1, <2>3
  <2>8. got' = SubSeq(Stream, 1, k)
    <3>1. Front(k) = [i \in 1 .. k |-> Stream[i]]
      <4>1. \A i \in 1 .. k : i \in 1 .. c
        BY <2>1, <2>3
      <4> QED
        BY <2>3, <4>1 DEF Front, Place
    <3>2. SubSeq(Stream, 1, k) = [i \in 1 .. k |-> Stream[i]]
      BY <2>1, <2>3
    <3> QED
      BY <1>3, <3>1, <3>2
  <2>9. k \in 0 .. Len(Stream)
    BY <2>1, <2>3
  <2> QED
    BY <2>6, <2>7, <2>8, <2>9 DEF BS!Get, Stream
<1> QED
  BY <1>2, <1>3 DEF ReadLoop, BS!Next

\* The pipe is a bounded byte stream: pipewrite appends, piperead takes off the
\* front, and neither the ring nor the wrap of nread and nwrite at 2^32 loses,
\* repeats or reorders a byte.
THEOREM PipeImplementsByteStream == Spec => ImplementsByteStream
<1>1. Init => BS!Init
  <2> SUFFICES ASSUME Init PROVE BS!Init
    OBVIOUS
  <2>1. IInv
    BY InitInv
  <2>2. Count = 0
    <3>1. (0 + UMod - 0) % UMod = 0
      BY ModBelow, SizesHold DEF Sizes
    <3> QED
      BY <3>1 DEF Init, Count
  <2>3. Stream \in Seq(Bytes) /\ Len(Stream) = 0
    BY <2>1, <2>2, StreamType
  <2>4. Stream = <<>>
    BY <2>3
  <2> QED
    BY <2>4 DEF Init, BS!Init, Stream
<1>2. IInv /\ [Next]_vars => [BS!Next]_<<Front(Count), got>>
  <2> SUFFICES ASSUME IInv, [Next]_vars
               PROVE  BS!Next \/ UNCHANGED <<Front(Count), got>>
    OBVIOUS
  <2>1. ASSUME NEW p \in Procs, NEW n \in 0 .. MaxN, Pipewrite(p, n) \/ Piperead(p, n)
        PROVE  BS!Next
    BY <2>1, WritePuts, ReadGets DEF Pipewrite, Piperead, BS!Next
  <2>2. ASSUME NEW p \in Procs, Resume(p) PROVE BS!Next
    <3>1. left[p] \in 0 .. MaxN
      BY DEF IInv, TypeOK
    <3> QED
      BY <2>2, <3>1, WritePuts, ReadGets DEF Resume, BS!Next
  <2>3. CASE /\ UNCHANGED <<nread, nwrite, data>> /\ got' = <<>>
    BY <2>3, PutNothing DEF BS!Next
  <2>4. CASE UNCHANGED vars
    BY <2>4 DEF vars, pipe, Front, Count, Plus
  <2> QED
    BY <2>1, <2>2, <2>3, <2>4
       DEF Next, Fork, Fileclose, Kill, KilledExit, Pipeclose, pipe
<1> QED
  BY <1>1, <1>2, PipeInvariant, PTL DEF Spec, ImplementsByteStream, BS!Spec
=============================================================================
