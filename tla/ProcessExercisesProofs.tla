----------------------- MODULE ProcessExercisesProofs -----------------------
(***************************************************************************)
(* The programs of 2_multiProcess for every number of processes, messages  *)
(* and rounds.  What a process has still to do is the end of its script,   *)
(* so the invariants say, by the steps that are left, what it holds and    *)
(* what it has put in or taken out.                                        *)
(***************************************************************************)
EXTENDS ProcessExercises, FiniteSetTheorems, SequenceTheorems,
        WellFoundedInduction, TLAPS

-----------------------------------------------------------------------------
\* Positions in a ring of c slots.

\* A multiple of a positive number that is positive is at least the number.
LEMMA PositiveMultiple ==
  ASSUME NEW c \in Nat \ {0}, NEW d \in Int, c * d > 0
  PROVE  c * d >= c
<1>1. CASE d <= 0
  <2>1. PICK e \in Nat : d = -e
        BY <1>1
  <2>2. c * e >= 0 /\ c * d = -(c * e)
        BY <2>1
  <2> QED BY <2>2
<1>2. CASE d >= 1
  <2>1. PICK e \in Nat : d = e + 1
        BY <1>2
  <2>2. c * d = c * e + c /\ c * e >= 0
        BY <2>1
  <2> QED BY <2>2
<1> QED BY <1>1, <1>2

\* The remainder is the only number below c that differs by a multiple of c.
LEMMA Remainder ==
  ASSUME NEW c \in Nat \ {0}, NEW n \in Int, NEW q \in Int, NEW r \in 0..c - 1,
         n = c * q + r
  PROVE  n % c = r
<1> DEFINE p == n \div c
           t == n % c
<1>1. p \in Int /\ t \in 0..c - 1 /\ n = c * p + t
      OBVIOUS
<1> HIDE DEF p, t
<1>2. /\ c * p \in Int /\ c * q \in Int /\ p - q \in Int /\ q - p \in Int
      /\ c * (p - q) = c * p - c * q /\ c * (q - p) = c * q - c * p
      BY <1>1
<1>3. c * (p - q) = r - t /\ c * (q - p) = t - r
      BY <1>1, <1>2
<1>4. ~(c * (p - q) > 0) /\ ~(c * (q - p) > 0)
      BY <1>1, <1>2, <1>3, PositiveMultiple
<1>5. t = r
      BY <1>1, <1>3, <1>4
<1> QED BY <1>5 DEF t

\* Two numbers with the same position are at least c apart.
LEMMA SameSlot ==
  ASSUME NEW c \in Nat \ {0}, NEW a \in Nat, NEW b \in Nat, a < b, a % c = b % c
  PROVE  b - a >= c
<1> DEFINE p == a \div c
           q == b \div c
           r == a % c
<1>1. /\ p \in Int /\ q \in Int /\ r \in Int
      /\ a = c * p + r
      /\ b = c * q + (b % c)
      OBVIOUS
<1>2. b % c = r
      OBVIOUS
<1> HIDE DEF p, q, r
<1>3. /\ c * p \in Int /\ c * q \in Int
      /\ c * (q - p) = c * q - c * p
      BY <1>1
<1>4. b - a = c * (q - p)
      BY <1>1, <1>2, <1>3
<1>5. q - p \in Int /\ c * (q - p) > 0
      BY <1>1, <1>4
<1> QED BY <1>4, <1>5, PositiveMultiple

\* A step around the ring.
LEMMA NextSlot ==
  ASSUME NEW c \in Nat \ {0}, NEW n \in Nat
  PROVE  ((n % c) + 1) % c = (n + 1) % c
<1> DEFINE p == n \div c
           r == n % c
<1>1. p \in Int /\ r \in 0..c - 1 /\ n = c * p + r
      OBVIOUS
<1> HIDE DEF p, r
<1>2. c * p \in Int /\ c * (p + 1) = c * p + c /\ c * 1 = c /\ c * 0 = 0
      BY <1>1
<1>3. CASE r + 1 < c
  <2>1. r + 1 \in 0..c - 1 /\ r + 1 = c * 0 + (r + 1) /\ n + 1 = c * p + (r + 1)
        BY <1>1, <1>2, <1>3
  <2>2. (r + 1) % c = r + 1 /\ (n + 1) % c = r + 1
        BY <1>1, <2>1, Remainder
  <2> QED BY <2>2 DEF r
<1>4. CASE r + 1 = c
  <2>1. 0 \in 0..c - 1 /\ r + 1 = c * 1 + 0 /\ n + 1 = c * (p + 1) + 0 /\ p + 1 \in Int
        BY <1>1, <1>2, <1>4
  <2>2. (r + 1) % c = 0 /\ (n + 1) % c = 0
        BY <1>1, <2>1, Remainder
  <2> QED BY <2>2 DEF r
<1> QED BY <1>1, <1>3, <1>4

\* Whole turns around a ring of c slots do not change a short distance.
LEMMA WholeTurns ==
  ASSUME NEW c \in Nat \ {0}, NEW d \in Int, NEW f \in Int,
         f < c, -c < f, \E e \in Int : d = c * e + f
  PROVE  f % c = d % c
<1> PICK e \in Int : d = c * e + f
    OBVIOUS
<1>1. CASE f >= 0
  <2>1. f \in 0..c - 1 /\ f = c * 0 + f
        BY <1>1
  <2>2. d % c = f
        BY <2>1, Remainder
  <2>3. f % c = f
        BY <2>1, Remainder
  <2> QED BY <2>2, <2>3
<1>2. CASE f < 0
  <2> DEFINE g == f + c
             h == e - 1
  <2>1. g \in 0..c - 1 /\ f = c * (0 - 1) + g /\ h \in Int
        BY <1>2
  <2>2. c * h = c * e - c /\ c * e \in Int
        OBVIOUS
  <2>3. d = c * h + g
        BY <2>2
  <2> HIDE DEF g, h
  <2>4. d % c = g
        BY <2>1, <2>3, Remainder
  <2>5. f % c = g
        BY <2>1, Remainder
  <2> QED BY <2>4, <2>5
<1> QED BY <1>1, <1>2

\* The slot of a position, as a remainder.
LEMMA SlotOf ==
  ASSUME NEW c \in Nat \ {0}, NEW n \in Nat, NEW r, r = n % c
  PROVE  r \in 0..c - 1 /\ \E p \in Int : n = c * p + r
<1> DEFINE p == n \div c
<1>1. p \in Int /\ r \in 0..c - 1 /\ n = c * p + r
      OBVIOUS
<1> HIDE DEF p
<1> QED BY <1>1, Zenon

-----------------------------------------------------------------------------
\* Shared memory without a lock (5_sharedMemory.cpp).

SharedPcs ==
  {"room?", "write", "count++", "store", "finish", "wait", "ended", "more?",
   "left?", "any?", "take", "count--", "load", "watching"}

SharedTyped ==
  /\ example \in {"ring", "key", "watch"}
  /\ pc \in [Shared!Processes -> SharedPcs]
  /\ buffer \in [0..Size - 1 -> Nat]
  /\ head \in 0..Size - 1 /\ tail \in 0..Size - 1 /\ count \in 0..Size
  /\ counter \in Nat /\ local \in [Shared!Processes -> Nat]
  /\ made \in 0..Items /\ got \in Seq(Nat)
  /\ producer_done \in BOOLEAN /\ ready \in BOOLEAN /\ overlap \in BOOLEAN

\* The parent has made an item, or the child has taken one, and has not yet
\* counted it.
Uncounted   == IF pc["parent"] \in {"count++", "store"} THEN 1 ELSE 0
Undiscounted == IF pc["child"] \in {"count--", "store"} THEN 1 ELSE 0

\* Where the two are, and what they know there: room for one more is left by
\* the parent only, an item is taken by the child only.
RingPlaces ==
  /\ pc["parent"] \in {"room?", "write", "count++", "store", "finish", "wait", "ended"}
  /\ pc["child"] \in {"more?", "left?", "any?", "take", "count--", "store", "ended"}
  /\ pc["parent"] \in {"room?", "write"} => made < Items
  /\ pc["parent"] \in {"finish", "wait", "ended"} => made = Items
  /\ producer_done <=> pc["parent"] \in {"wait", "ended"}
  /\ pc["child"] \in {"left?", "ended"} => producer_done
  /\ pc["parent"] \in {"write", "count++"} => count < Size
  /\ pc["parent"] = "store" => local["parent"] < Size
  /\ pc["child"] \in {"take", "count--"} => count > 0
  /\ pc["child"] = "store" => local["child"] \in 1..Size
  /\ pc["parent"] = "store" => count < Size

\* While no update was lost the count is exact and the slots between tail and
\* head hold the items that are made and not yet taken.
RingExact ==
  /\ Len(got) <= made
  /\ count = (made - Uncounted) - (Len(got) - Undiscounted)
  /\ head = made % Size /\ tail = Len(got) % Size
  /\ \A k \in 1..Len(got) : got[k] = k
  /\ \A k \in Nat : Len(got) <= k /\ k < made => buffer[k % Size] = k + 1
  /\ pc["child"] = "ended" => Len(got) = Items

EndedPrograms == {x \in Programs : pc[x] = "ended"}

KeyExact ==
  /\ pc["parent"] = "ended" /\ pc["child"] = "ended"
  /\ \A x \in Programs : pc[x] \in {"load", "store", "ended"}
  /\ ~overlap => counter = Cardinality(EndedPrograms)

\* Nobody but the child writes the counter.
WatchExact ==
  /\ pc["child"] \in {"load", "store", "finish", "ended"}
  /\ pc["parent"] \in {"watching", "wait", "ended"}
  /\ pc["child"] = "load" => counter < Steps
  /\ pc["child"] = "store" => counter = local["child"] /\ counter < Steps
  /\ pc["child"] \in {"finish", "ended"} => counter = Steps
  /\ ready => pc["child"] = "ended"
  /\ pc["parent"] # "watching" => ready

SharedInv ==
  program = "shared" =>
    /\ SharedTyped
    /\ example # "key" => \A x \in Programs : pc[x] = "ended"
    /\ example = "ring" => RingPlaces /\ (~overlap => RingExact)
    /\ example = "key" => KeyExact
    /\ example = "watch" => WatchExact

LEMMA SharedInit == Init => SharedInv
<1> SUFFICES ASSUME program = "shared", Shared!Init PROVE SharedInv
    BY DEF Init, SharedInv
<1> USE SharedAssumption
<1>1. SharedTyped
  <2>1. pc \in [Shared!Processes -> SharedPcs]
        BY DEF Shared!Init, SharedPcs, Shared!Processes
  <2>2. buffer \in [0..Size - 1 -> Nat] /\ local \in [Shared!Processes -> Nat]
        BY DEF Shared!Init
  <2> QED BY <2>1, <2>2 DEF Shared!Init, SharedTyped
<1>2. ASSUME example # "key", NEW x \in Programs PROVE pc[x] = "ended"
      BY <1>2 DEF Shared!Init, Shared!Processes
<1>3. ASSUME example = "ring" PROVE RingPlaces /\ RingExact
  <2>1. pc["parent"] = "room?" /\ pc["child"] = "more?"
        BY <1>3 DEF Shared!Init, Shared!Processes
  <2>2. RingPlaces
        BY <2>1 DEF Shared!Init, RingPlaces
  <2>3. 0 % Size = 0
        BY Remainder
  <2> QED BY <2>1, <2>2, <2>3 DEF Shared!Init, RingExact, Uncounted, Undiscounted
<1>4. ASSUME example = "key" PROVE KeyExact
  <2>1. /\ pc["parent"] = "ended" /\ pc["child"] = "ended"
        /\ \A x \in Programs : pc[x] = "load"
        BY <1>4 DEF Shared!Init, Shared!Processes
  <2>2. EndedPrograms = {}
        BY <2>1 DEF EndedPrograms
  <2>3. Cardinality({}) = 0
        BY FS_EmptySet, Zenon
  <2> QED BY <2>1, <2>2, <2>3 DEF Shared!Init, KeyExact
<1>5. ASSUME example = "watch" PROVE WatchExact
  <2>1. pc["parent"] = "watching" /\ pc["child"] = "load"
        BY <1>5 DEF Shared!Init, Shared!Processes
  <2> QED BY <2>1 DEF Shared!Init, WatchExact
<1> QED BY <1>1, <1>2, <1>3, <1>4, <1>5 DEF SharedInv

\* A step of x moves x and nobody else.
LEMMA SharedGoto ==
  ASSUME pc \in [Shared!Processes -> SharedPcs], NEW x \in Shared!Processes,
         NEW f, NEW t \in SharedPcs, Shared!Goto(x, f, t)
  PROVE  /\ pc[x] = f /\ pc'[x] = t
         /\ \A y \in Shared!Processes : y # x => pc'[y] = pc[y]
         /\ pc' \in [Shared!Processes -> SharedPcs]
BY DEF Shared!Goto

\* A step of the ring: the parent's or the child's.
LEMMA RingMoves ==
  ASSUME SharedTyped, example = "ring", \A x \in Programs : pc[x] = "ended",
         NEW x \in {"parent", "child"}, NEW f, NEW t \in SharedPcs, Shared!Goto(x, f, t)
  PROVE  /\ pc[x] = f /\ pc'[x] = t
         /\ \A y \in {"parent", "child"} : y # x => pc'[y] = pc[y]
         /\ pc' \in [Shared!Processes -> SharedPcs]
         /\ \A y \in Programs : pc'[y] = "ended"
<1>1. /\ {"parent", "child"} \subseteq Shared!Processes
      /\ Programs \subseteq Shared!Processes /\ x \notin Programs
      BY SharedAssumption DEF Shared!Processes
<1>2. pc \in [Shared!Processes -> SharedPcs]
      BY DEF SharedTyped
<1> QED BY <1>1, <1>2, SharedGoto

RingInv ==
  /\ SharedTyped /\ example = "ring" /\ \A x \in Programs : pc[x] = "ended"
  /\ RingPlaces /\ (~overlap => RingExact)

\* The parent makes an item, in the slot that the test has left it
\* (5_sharedMemory.cpp:247-254).
LEMMA RingWrite == RingInv /\ Shared!WriteItem => RingInv'
<1> SUFFICES ASSUME RingInv, Shared!WriteItem PROVE RingInv'
    OBVIOUS
<1> USE SharedAssumption
<1>1. /\ pc["parent"] = "write" /\ pc'["parent"] = "count++" /\ pc'["child"] = pc["child"]
      /\ pc' \in [Shared!Processes -> SharedPcs] /\ \A y \in Programs : pc'[y] = "ended"
  <2>1. "count++" \in SharedPcs
        BY DEF SharedPcs
  <2> QED BY <2>1, RingMoves DEF RingInv, Shared!WriteItem
<1>2. /\ made' = made + 1 /\ buffer' = [buffer EXCEPT ![head] = made + 1]
      /\ head' = (head + 1) % Size
      /\ UNCHANGED <<example, tail, count, producer_done, got, overlap, counter, ready, local>>
      BY DEF Shared!WriteItem, Shared!counterVars
<1>3. /\ made \in 0..Items /\ made < Items /\ count \in 0..Size /\ count < Size
      /\ head \in 0..Size - 1 /\ got \in Seq(Nat) /\ Len(got) \in Nat
      /\ buffer \in [0..Size - 1 -> Nat]
      BY <1>1 DEF RingInv, RingPlaces, SharedTyped
<1>4. SharedTyped'
  <2>1. head' \in 0..Size - 1 /\ made' \in 0..Items
        BY <1>2, <1>3
  <2>2. buffer' \in [0..Size - 1 -> Nat]
        BY <1>2, <1>3
  <2> QED BY <1>1, <1>2, <2>1, <2>2 DEF RingInv, SharedTyped, Shared!Processes
<1>5. RingPlaces'
      BY <1>1, <1>2, <1>3 DEF RingInv, RingPlaces
<1>6. ASSUME ~overlap' PROVE RingExact'
  <2>1. RingExact /\ Uncounted = 0 /\ Uncounted' = 1
        BY <1>1, <1>2, <1>6 DEF RingInv, Uncounted
  <2>2. Undiscounted' = Undiscounted /\ Undiscounted \in {0, 1}
        BY <1>1 DEF Undiscounted
  <2>3. /\ Len(got) <= made /\ made - Len(got) < Size
        /\ head = made % Size /\ tail = Len(got) % Size
        BY <1>3, <2>1, <2>2 DEF RingExact
  <2>4. head' = made' % Size
    <3> made \in Nat
        BY <1>3
    <3>1. ((made % Size) + 1) % Size = (made + 1) % Size
          BY NextSlot
    <3> QED BY <1>2, <2>3, <3>1
  <2>5. ASSUME NEW k \in Nat, Len(got) <= k, k < made + 1 PROVE buffer'[k % Size] = k + 1
    <3>1. CASE k = made
          BY <1>2, <1>3, <2>3, <3>1
    <3>2. CASE k < made
      <4>1. k % Size # made % Size
            BY <1>3, <2>3, <2>5, <3>2, SameSlot
      <4>2. k % Size \in 0..Size - 1 /\ buffer[k % Size] = k + 1
            BY <2>1, <2>5, <3>2 DEF RingExact
      <4> QED BY <1>2, <1>3, <2>3, <4>1, <4>2
    <3> QED BY <1>3, <2>5, <3>1, <3>2
  <2>6. pc'["child"] # "ended"
        BY <1>1 DEF RingInv, RingPlaces
  <2>7. count' = (made' - Uncounted') - (Len(got') - Undiscounted')
        BY <1>2, <1>3, <2>1, <2>2 DEF RingExact
  <2>8. /\ Len(got') <= made' /\ tail' = Len(got') % Size
        /\ \A k \in 1..Len(got') : got'[k] = k
    <3>1. /\ Len(got) <= made + 1 /\ tail = Len(got) % Size
          BY <1>3, <2>3
    <3>2. \A k \in 1..Len(got) : got[k] = k
          BY <2>1 DEF RingExact
    <3> QED BY <1>2, <3>1, <3>2
  <2>9. \A k \in Nat : Len(got') <= k /\ k < made' => buffer'[k % Size] = k + 1
        BY <1>2, <2>5
  <2> QED BY <2>4, <2>6, <2>7, <2>8, <2>9 DEF RingExact
<1> QED BY <1>1, <1>2, <1>4, <1>5, <1>6 DEF RingInv

\* The child takes the oldest item (5_sharedMemory.cpp:277-280).
LEMMA RingTake == RingInv /\ Shared!TakeItem => RingInv'
<1> SUFFICES ASSUME RingInv, Shared!TakeItem PROVE RingInv'
    OBVIOUS
<1> USE SharedAssumption
<1>1. /\ pc["child"] = "take" /\ pc'["child"] = "count--" /\ pc'["parent"] = pc["parent"]
      /\ pc' \in [Shared!Processes -> SharedPcs] /\ \A y \in Programs : pc'[y] = "ended"
  <2>1. "count--" \in SharedPcs
        BY DEF SharedPcs
  <2> QED BY <2>1, RingMoves DEF RingInv, Shared!TakeItem
<1>2. /\ got' = Append(got, buffer[tail]) /\ tail' = (tail + 1) % Size
      /\ UNCHANGED <<example, buffer, head, count, producer_done, made, overlap,
                     counter, ready, local>>
      BY DEF Shared!TakeItem, Shared!counterVars
<1>3. /\ made \in 0..Items /\ count \in 0..Size /\ count > 0
      /\ tail \in 0..Size - 1 /\ got \in Seq(Nat) /\ Len(got) \in Nat
      /\ buffer \in [0..Size - 1 -> Nat]
      BY <1>1 DEF RingInv, RingPlaces, SharedTyped
<1>4. /\ got' \in Seq(Nat) /\ Len(got') = Len(got) + 1
      /\ \A k \in 1..Len(got) : got'[k] = got[k]
      /\ got'[Len(got) + 1] = buffer[tail]
      BY <1>2, <1>3
<1>5. SharedTyped'
  <2>1. tail' \in 0..Size - 1
        BY <1>2, <1>3
  <2> QED BY <1>1, <1>2, <1>4, <2>1 DEF RingInv, SharedTyped, Shared!Processes
<1>6. RingPlaces'
      BY <1>1, <1>2, <1>3 DEF RingInv, RingPlaces
<1>7. ASSUME ~overlap' PROVE RingExact'
  <2>1. RingExact /\ Undiscounted = 0 /\ Undiscounted' = 1
        BY <1>1, <1>2, <1>7 DEF RingInv, Undiscounted
  <2>2. Uncounted' = Uncounted /\ Uncounted \in {0, 1}
        BY <1>1 DEF Uncounted
  <2>3. Len(got) < made /\ tail = Len(got) % Size
        BY <1>3, <2>1, <2>2 DEF RingExact
  <2>4. tail' = Len(got') % Size
        BY <1>2, <1>3, <1>4, <2>3, NextSlot
  <2>5. buffer[tail] = Len(got) + 1
        BY <1>3, <2>1, <2>3 DEF RingExact
  <2>6. \A k \in 1..Len(got') : got'[k] = k
    <3>1. \A k \in 1..Len(got) : got[k] = k
          BY <2>1 DEF RingExact
    <3>2. ASSUME NEW k \in 1..Len(got') PROVE k = Len(got) + 1 \/ k \in 1..Len(got)
          BY <1>3, <1>4, <3>2
    <3> QED BY <1>4, <2>5, <3>1, <3>2
  <2>7. count' = (made' - Uncounted') - (Len(got') - Undiscounted')
        BY <1>2, <1>3, <1>4, <2>1, <2>2 DEF RingExact
  <2>8. \A k \in Nat : Len(got') <= k /\ k < made' => buffer'[k % Size] = k + 1
        BY <1>2, <1>3, <1>4, <2>1 DEF RingExact
  <2>9. head' = made' % Size /\ Len(got') <= made' /\ pc'["child"] # "ended"
        BY <1>1, <1>2, <1>3, <1>4, <2>1, <2>3 DEF RingExact
  <2> QED BY <2>4, <2>6, <2>7, <2>8, <2>9 DEF RingExact
<1> QED BY <1>1, <1>2, <1>5, <1>6, <1>7 DEF RingInv

\* A step that moves x and changes nothing of the buffer keeps what is exact,
\* as long as nobody has counted meanwhile and the child does not end.
LEMMA RingKept ==
  ASSUME RingExact,
         UNCHANGED <<buffer, head, tail, count, made, got>>,
         Uncounted' = Uncounted, Undiscounted' = Undiscounted,
         pc'["child"] = "ended" => pc["child"] = "ended"
  PROVE  RingExact'
BY DEF RingExact

\* The steps of the ring that test something, or load the count: nothing is
\* written but local (5_sharedMemory.cpp:247, 256, 269, 276, 281).
LEMMA RingTests ==
  /\ RingInv
  /\ \/ Shared!Room \/ Shared!SetDone \/ Shared!MoreToCome \/ Shared!AnyItem
     \/ Shared!LoadCount("parent") \/ Shared!LoadCount("child") \/ Shared!Reap
  => RingInv'
<1> SUFFICES ASSUME RingInv,
                    \/ Shared!Room \/ Shared!SetDone \/ Shared!MoreToCome
                    \/ Shared!AnyItem \/ Shared!LoadCount("parent")
                    \/ Shared!LoadCount("child") \/ Shared!Reap
             PROVE  RingInv'
    OBVIOUS
<1> USE SharedAssumption
<1>0. /\ UNCHANGED <<example, buffer, head, tail, count, made, got, overlap, counter, ready>>
      /\ {"parent", "child"} \subseteq Shared!Processes
      BY DEF Shared!Room, Shared!SetDone, Shared!MoreToCome, Shared!AnyItem,
             Shared!LoadCount, Shared!Reap, Shared!ringVars, Shared!counterVars,
             Shared!Processes
<1>1. SharedTyped /\ RingPlaces /\ \A x \in Programs : pc[x] = "ended"
      BY DEF RingInv
<1>2. /\ count \in 0..Size /\ made \in 0..Items /\ producer_done \in BOOLEAN
      /\ local \in [Shared!Processes -> Nat]
      BY <1>1 DEF SharedTyped
<1>3. ASSUME NEW x \in {"parent", "child"}, NEW f, NEW t \in SharedPcs,
             Shared!Goto(x, f, t)
      PROVE  /\ pc[x] = f /\ pc'[x] = t
             /\ \A y \in {"parent", "child"} : y # x => pc'[y] = pc[y]
             /\ pc' \in [Shared!Processes -> SharedPcs]
             /\ \A y \in Programs : pc'[y] = "ended"
      BY <1>1, <1>3, RingMoves DEF RingInv
<1> USE DEF SharedPcs
<1>4. CASE Shared!Room
  <2>1. /\ pc["parent"] = "room?" /\ pc'["parent"] = "write" /\ pc'["child"] = pc["child"]
        /\ pc' \in [Shared!Processes -> SharedPcs] /\ \A y \in Programs : pc'[y] = "ended"
        BY <1>3, <1>4 DEF Shared!Room
  <2>2. count < Size /\ UNCHANGED <<local, producer_done>>
        BY <1>4 DEF Shared!Room, Shared!ringVars
  <2>3. SharedTyped' /\ RingPlaces'
        BY <1>0, <1>1, <1>2, <2>1, <2>2 DEF SharedTyped, RingPlaces, Shared!Processes
  <2>4. Uncounted' = Uncounted /\ Undiscounted' = Undiscounted
        BY <2>1 DEF Uncounted, Undiscounted
  <2> QED BY <1>0, <2>1, <2>3, <2>4, RingKept DEF RingInv
<1>5. CASE Shared!SetDone
  <2>1. /\ pc["parent"] = "finish" /\ pc'["parent"] = "wait" /\ pc'["child"] = pc["child"]
        /\ pc' \in [Shared!Processes -> SharedPcs] /\ \A y \in Programs : pc'[y] = "ended"
        BY <1>3, <1>5 DEF Shared!SetDone
  <2>2. producer_done' = TRUE /\ UNCHANGED local
        BY <1>5 DEF Shared!SetDone
  <2>3. SharedTyped' /\ RingPlaces'
        BY <1>0, <1>1, <1>2, <2>1, <2>2 DEF SharedTyped, RingPlaces, Shared!Processes
  <2>4. Uncounted' = Uncounted /\ Undiscounted' = Undiscounted
        BY <2>1 DEF Uncounted, Undiscounted
  <2> QED BY <1>0, <2>1, <2>3, <2>4, RingKept DEF RingInv
<1>6. CASE Shared!MoreToCome
  <2>1. PICK t \in {"left?", "any?"} :
          /\ Shared!Goto("child", "more?", t)
          /\ t = "left?" <=> producer_done
        BY <1>6 DEF Shared!MoreToCome
  <2>2. /\ pc["child"] = "more?" /\ pc'["child"] = t /\ pc'["parent"] = pc["parent"]
        /\ pc' \in [Shared!Processes -> SharedPcs] /\ \A y \in Programs : pc'[y] = "ended"
        BY <1>3, <2>1
  <2>3. UNCHANGED <<local, producer_done>>
        BY <1>6 DEF Shared!MoreToCome, Shared!ringVars
  <2>4. SharedTyped' /\ RingPlaces'
        BY <1>0, <1>1, <1>2, <2>1, <2>2, <2>3 DEF SharedTyped, RingPlaces, Shared!Processes
  <2>5. Uncounted' = Uncounted /\ Undiscounted' = Undiscounted /\ pc'["child"] # "ended"
        BY <2>1, <2>2 DEF Uncounted, Undiscounted
  <2> QED BY <1>0, <2>2, <2>4, <2>5, RingKept DEF RingInv
<1>7. CASE Shared!AnyItem
  <2>1. PICK t \in {"take", "more?"} :
          /\ Shared!Goto("child", "any?", t)
          /\ t = "take" <=> count > 0
        BY <1>7 DEF Shared!AnyItem
  <2>2. /\ pc["child"] = "any?" /\ pc'["child"] = t /\ pc'["parent"] = pc["parent"]
        /\ pc' \in [Shared!Processes -> SharedPcs] /\ \A y \in Programs : pc'[y] = "ended"
        BY <1>3, <2>1
  <2>3. UNCHANGED <<local, producer_done>>
        BY <1>7 DEF Shared!AnyItem, Shared!ringVars
  <2>4. SharedTyped' /\ RingPlaces'
        BY <1>0, <1>1, <1>2, <2>1, <2>2, <2>3 DEF SharedTyped, RingPlaces, Shared!Processes
  <2>5. Uncounted' = Uncounted /\ Undiscounted' = Undiscounted /\ pc'["child"] # "ended"
        BY <2>1, <2>2 DEF Uncounted, Undiscounted
  <2> QED BY <1>0, <2>2, <2>4, <2>5, RingKept DEF RingInv
<1>8. CASE Shared!LoadCount("parent")
  <2>1. /\ pc["parent"] = "count++" /\ pc'["parent"] = "store" /\ pc'["child"] = pc["child"]
        /\ pc' \in [Shared!Processes -> SharedPcs] /\ \A y \in Programs : pc'[y] = "ended"
        BY <1>3, <1>8 DEF Shared!LoadCount
  <2>2. local' = [local EXCEPT !["parent"] = count] /\ UNCHANGED producer_done
        BY <1>8 DEF Shared!LoadCount, Shared!ringVars
  <2>3. local' \in [Shared!Processes -> Nat] /\ local'["parent"] = count
        /\ local'["child"] = local["child"]
        BY <1>0, <1>2, <2>2
  <2>4. SharedTyped' /\ RingPlaces'
        BY <1>0, <1>1, <1>2, <2>1, <2>2, <2>3 DEF SharedTyped, RingPlaces, Shared!Processes
  <2>5. Uncounted' = Uncounted /\ Undiscounted' = Undiscounted
        BY <2>1 DEF Uncounted, Undiscounted
  <2> QED BY <1>0, <2>1, <2>4, <2>5, RingKept DEF RingInv
<1>9. CASE Shared!LoadCount("child")
  <2>1. /\ pc["child"] = "count--" /\ pc'["child"] = "store" /\ pc'["parent"] = pc["parent"]
        /\ pc' \in [Shared!Processes -> SharedPcs] /\ \A y \in Programs : pc'[y] = "ended"
        BY <1>3, <1>9 DEF Shared!LoadCount
  <2>2. local' = [local EXCEPT !["child"] = count] /\ UNCHANGED producer_done
        BY <1>9 DEF Shared!LoadCount, Shared!ringVars
  <2>3. local' \in [Shared!Processes -> Nat] /\ local'["child"] = count
        /\ local'["parent"] = local["parent"]
        BY <1>0, <1>2, <2>2
  <2>4. SharedTyped' /\ RingPlaces'
        BY <1>0, <1>1, <1>2, <2>1, <2>2, <2>3 DEF SharedTyped, RingPlaces, Shared!Processes
  <2>5. Uncounted' = Uncounted /\ Undiscounted' = Undiscounted /\ pc'["child"] # "ended"
        BY <2>1 DEF Uncounted, Undiscounted
  <2> QED BY <1>0, <2>1, <2>4, <2>5, RingKept DEF RingInv
<1>10. CASE Shared!Reap
  <2>1. /\ pc["parent"] = "wait" /\ pc'["parent"] = "ended" /\ pc'["child"] = pc["child"]
        /\ pc' \in [Shared!Processes -> SharedPcs] /\ \A y \in Programs : pc'[y] = "ended"
        BY <1>3, <1>10 DEF Shared!Reap
  <2>2. UNCHANGED <<local, producer_done>>
        BY <1>10 DEF Shared!Reap, Shared!ringVars
  <2>3. SharedTyped' /\ RingPlaces'
        BY <1>0, <1>1, <1>2, <2>1, <2>2 DEF SharedTyped, RingPlaces, Shared!Processes
  <2>4. Uncounted' = Uncounted /\ Undiscounted' = Undiscounted
        BY <2>1 DEF Uncounted, Undiscounted
  <2> QED BY <1>0, <2>1, <2>3, <2>4, RingKept DEF RingInv
<1> QED BY <1>4, <1>5, <1>6, <1>7, <1>8, <1>9, <1>10

\* The second test of the loop: nothing is left, and nothing will come
\* (5_sharedMemory.cpp:269).
LEMMA RingLeft == RingInv /\ Shared!AnyLeft => RingInv'
<1> SUFFICES ASSUME RingInv, Shared!AnyLeft PROVE RingInv'
    OBVIOUS
<1> USE SharedAssumption
<1>0. UNCHANGED <<example, buffer, head, tail, count, made, got, overlap,
                  counter, ready, local, producer_done>>
      BY DEF Shared!AnyLeft, Shared!ringVars, Shared!counterVars
<1>1. SharedTyped /\ RingPlaces /\ \A x \in Programs : pc[x] = "ended"
      BY DEF RingInv
<1>2. /\ count \in 0..Size /\ made \in 0..Items /\ Len(got) \in Nat
      BY <1>1 DEF SharedTyped
<1>3. PICK t \in {"any?", "ended"} :
        /\ Shared!Goto("child", "left?", t)
        /\ t = "any?" <=> count > 0
      BY DEF Shared!AnyLeft
<1>4. /\ pc["child"] = "left?" /\ pc'["child"] = t /\ pc'["parent"] = pc["parent"]
      /\ pc' \in [Shared!Processes -> SharedPcs] /\ \A y \in Programs : pc'[y] = "ended"
  <2>1. t \in SharedPcs
        BY DEF SharedPcs
  <2> QED BY <1>1, <1>3, <2>1, RingMoves DEF RingInv
<1>5. producer_done /\ made = Items /\ pc["parent"] \in {"wait", "ended"}
      BY <1>1, <1>4 DEF RingPlaces
<1>6. SharedTyped' /\ RingPlaces'
      BY <1>0, <1>1, <1>2, <1>3, <1>4, <1>5 DEF SharedTyped, RingPlaces, Shared!Processes
<1>7. ASSUME ~overlap' PROVE RingExact'
  <2>1. RingExact
        BY <1>0, <1>7 DEF RingInv
  <2>2. /\ Uncounted' = 0 /\ Uncounted = 0 /\ Undiscounted' = 0 /\ Undiscounted = 0
        BY <1>3, <1>4, <1>5 DEF Uncounted, Undiscounted
  <2>3. CASE t = "any?"
        BY <1>0, <1>4, <2>1, <2>2, <2>3, RingKept
  <2>4. CASE t = "ended"
    <3>1. count = 0
          BY <1>2, <1>3, <2>4
    <3>2. Len(got) = Items
          BY <1>2, <1>5, <2>1, <2>2, <3>1 DEF RingExact
    <3> QED BY <1>0, <2>1, <2>2, <3>2 DEF RingExact
  <2> QED BY <2>3, <2>4
<1> QED BY <1>0, <1>4, <1>6, <1>7 DEF RingInv

\* The count is written; it is exact if it is still the one that was loaded
\* (5_sharedMemory.cpp:256, 281).
LEMMA RingCounts ==
  RingInv /\ (Shared!StoreCount("parent") \/ Shared!StoreCount("child")) => RingInv'
<1> SUFFICES ASSUME RingInv, Shared!StoreCount("parent") \/ Shared!StoreCount("child")
             PROVE  RingInv'
    OBVIOUS
<1> USE SharedAssumption
<1>0. /\ UNCHANGED <<example, buffer, head, tail, made, got, counter, ready, local,
                     producer_done>>
      BY DEF Shared!StoreCount, Shared!counterVars
<1>1. SharedTyped /\ RingPlaces /\ \A x \in Programs : pc[x] = "ended"
      BY DEF RingInv
<1>2. /\ count \in 0..Size /\ made \in 0..Items /\ Len(got) \in Nat /\ overlap \in BOOLEAN
      /\ local["parent"] \in Nat /\ local["child"] \in Nat
      BY <1>1 DEF SharedTyped, Shared!Processes
<1> USE DEF SharedPcs
<1>3. CASE Shared!StoreCount("parent")
  <2>1. PICK t \in {"room?", "finish"} :
          /\ Shared!Goto("parent", "store", t)
          /\ t = "room?" <=> made < Items
        BY <1>3 DEF Shared!StoreCount
  <2>2. /\ pc["parent"] = "store" /\ pc'["parent"] = t /\ pc'["child"] = pc["child"]
        /\ pc' \in [Shared!Processes -> SharedPcs] /\ \A y \in Programs : pc'[y] = "ended"
        BY <1>1, <2>1, RingMoves DEF RingInv
  <2>3. /\ count' = local["parent"] + 1
        /\ overlap' = (overlap \/ count # local["parent"])
        BY <1>3 DEF Shared!StoreCount
  <2>4. local["parent"] < Size
        BY <1>1, <2>2 DEF RingPlaces
  <2>5. SharedTyped' /\ RingPlaces'
        BY <1>0, <1>1, <1>2, <2>1, <2>2, <2>3, <2>4
        DEF SharedTyped, RingPlaces, Shared!Processes
  <2>6. ASSUME ~overlap' PROVE RingExact'
    <3>1. RingExact /\ count = local["parent"]
          BY <1>2, <2>3, <2>6 DEF RingInv
    <3>2. /\ Uncounted' = 0 /\ Uncounted = 1 /\ Undiscounted' = Undiscounted
          /\ Undiscounted \in {0, 1}
          BY <2>1, <2>2 DEF Uncounted, Undiscounted
    <3>3. count' = (made' - Uncounted') - (Len(got') - Undiscounted')
          BY <1>0, <1>2, <2>3, <3>1, <3>2 DEF RingExact
    <3> QED BY <1>0, <2>2, <3>1, <3>3 DEF RingExact
  <2> QED BY <1>0, <2>2, <2>5, <2>6 DEF RingInv
<1>4. CASE Shared!StoreCount("child")
  <2>1. /\ pc["child"] = "store" /\ pc'["child"] = "more?" /\ pc'["parent"] = pc["parent"]
        /\ pc' \in [Shared!Processes -> SharedPcs] /\ \A y \in Programs : pc'[y] = "ended"
        BY <1>1, <1>4, RingMoves DEF RingInv, Shared!StoreCount
  <2>2. /\ count' = local["child"] - 1
        /\ overlap' = (overlap \/ count # local["child"])
        BY <1>4 DEF Shared!StoreCount
  <2>3. local["child"] \in 1..Size
        BY <1>1, <2>1 DEF RingPlaces
  <2>4. SharedTyped' /\ RingPlaces'
        BY <1>0, <1>1, <1>2, <2>1, <2>2, <2>3
        DEF SharedTyped, RingPlaces, Shared!Processes
  <2>5. ASSUME ~overlap' PROVE RingExact'
    <3>1. RingExact /\ count = local["child"]
          BY <1>2, <2>2, <2>5 DEF RingInv
    <3>2. /\ Undiscounted' = 0 /\ Undiscounted = 1 /\ Uncounted' = Uncounted
          /\ Uncounted \in {0, 1}
          BY <2>1 DEF Uncounted, Undiscounted
    <3>4. count = (made - Uncounted) - (Len(got) - Undiscounted)
          BY <3>1 DEF RingExact
    <3>3. count' = (made' - Uncounted') - (Len(got') - Undiscounted')
          BY <1>0, <1>2, <2>2, <3>1, <3>2, <3>4
    <3> QED BY <1>0, <2>1, <3>1, <3>3 DEF RingExact
  <2> QED BY <1>0, <2>1, <2>4, <2>5 DEF RingInv
<1> QED BY <1>3, <1>4

\* A program reads the counter of the key, adds one and ends; unless another
\* has written in between the counter is the number of those that have ended
\* (5_sharedMemory.cpp:184-191).
LEMMA KeyStep ==
  SharedTyped /\ example = "key" /\ KeyExact /\ Shared!Next => SharedTyped' /\ KeyExact'
<1> SUFFICES ASSUME SharedTyped, example = "key", KeyExact, Shared!Next
             PROVE  SharedTyped' /\ KeyExact'
    OBVIOUS
<1> USE SharedAssumption
<1>1. /\ pc["parent"] = "ended" /\ pc["child"] = "ended"
      /\ pc \in [Shared!Processes -> SharedPcs]
      /\ local \in [Shared!Processes -> Nat] /\ counter \in Nat /\ overlap \in BOOLEAN
      /\ Programs \subseteq Shared!Processes
      BY DEF KeyExact, SharedTyped, Shared!Processes
<1>2. PICK x \in Programs : Shared!Load(x) \/ Shared!Store(x)
      BY <1>1 DEF Shared!Next, Shared!Parent, Shared!Child, Shared!Program, Shared!Goto,
         Shared!Room, Shared!WriteItem, Shared!LoadCount, Shared!StoreCount, Shared!SetDone,
         Shared!Watch, Shared!Watched, Shared!Reap, Shared!MoreToCome, Shared!AnyLeft,
         Shared!AnyItem, Shared!TakeItem, Shared!Load, Shared!Store, Shared!SetReady
<1>3. x # "parent" /\ x # "child" /\ {"parent", "child"} \subseteq Shared!Processes
      BY DEF Shared!Processes
<1>4. CASE Shared!Load(x)
  <2>1. /\ pc[x] = "load" /\ pc'[x] = "store"
        /\ \A y \in Shared!Processes : y # x => pc'[y] = pc[y]
        /\ pc' \in [Shared!Processes -> SharedPcs]
        BY <1>1, <1>4, SharedGoto DEF Shared!Load, SharedPcs
  <2>2. local' \in [Shared!Processes -> Nat] /\ UNCHANGED <<example, counter, overlap>>
        BY <1>1, <1>4 DEF Shared!Load, Shared!counterVars
  <2>3. SharedTyped'
        BY <1>4, <2>1, <2>2 DEF SharedTyped, Shared!Load, Shared!ringVars,
           Shared!counterVars, Shared!Processes
  <2>4. EndedPrograms' = EndedPrograms
        BY <1>1, <2>1 DEF EndedPrograms
  <2>5. \A y \in Programs : pc'[y] \in {"load", "store", "ended"}
        BY <1>1, <2>1 DEF KeyExact
  <2>6. pc'["parent"] = "ended" /\ pc'["child"] = "ended"
        BY <1>1, <1>3, <2>1
  <2>7. Cardinality(EndedPrograms') = Cardinality(EndedPrograms)
        BY <2>4
  <2>8. ASSUME ~overlap' PROVE counter' = Cardinality(EndedPrograms')
        BY <2>2, <2>7, <2>8 DEF KeyExact
  <2> QED BY <2>3, <2>5, <2>6, <2>8 DEF KeyExact
<1>5. CASE Shared!Store(x)
  <2>1. Shared!Goto(x, "store", "ended")
        BY <1>5 DEF Shared!Store
  <2>2. /\ pc[x] = "store" /\ pc'[x] = "ended"
        /\ \A y \in Shared!Processes : y # x => pc'[y] = pc[y]
        /\ pc' \in [Shared!Processes -> SharedPcs]
        BY <1>1, <2>1, SharedGoto DEF SharedPcs
  <2>3. /\ counter' = local[x] + 1 /\ overlap' = (overlap \/ counter # local[x])
        /\ UNCHANGED <<example, local, ready, buffer, head, tail, count, producer_done,
                       made, got>>
        BY <1>5 DEF Shared!Store, Shared!ringVars
  <2>4. SharedTyped'
    <3>1. local[x] \in Nat
          BY <1>1
    <3>2. counter' \in Nat /\ overlap' \in BOOLEAN
          BY <2>3, <3>1
    <3> QED BY <2>2, <2>3, <3>2 DEF SharedTyped, Shared!Processes
  <2>5. /\ EndedPrograms' = EndedPrograms \cup {x} /\ x \notin EndedPrograms
        BY <1>1, <2>2 DEF EndedPrograms
  <2>6. IsFiniteSet(EndedPrograms)
        BY FS_Subset DEF EndedPrograms
  <2>7. Cardinality(EndedPrograms') = Cardinality(EndedPrograms) + 1
        BY <2>5, <2>6, FS_AddElement
  <2>8. ASSUME ~overlap' PROVE counter' = Cardinality(EndedPrograms')
    <3>1. ~overlap /\ counter = local[x]
          BY <2>3, <2>8
    <3> QED BY <2>3, <2>7, <3>1 DEF KeyExact
  <2>9. \A y \in Programs : pc'[y] \in {"load", "store", "ended"}
        BY <1>1, <2>2 DEF KeyExact
  <2>10. pc'["parent"] = "ended" /\ pc'["child"] = "ended"
        BY <1>1, <1>3, <2>2
  <2> QED BY <2>4, <2>8, <2>9, <2>10 DEF KeyExact
<1> QED BY <1>2, <1>4, <1>5

\* The child counts up to the end, then says so; the parent looks on
\* (5_sharedMemory.cpp:425-448).
LEMMA WatchStep ==
  /\ SharedTyped /\ example = "watch" /\ \A x \in Programs : pc[x] = "ended"
  /\ WatchExact /\ Shared!Next
  => SharedTyped' /\ (\A x \in Programs : pc'[x] = "ended") /\ WatchExact'
<1> SUFFICES ASSUME SharedTyped, example = "watch", \A x \in Programs : pc[x] = "ended",
                    WatchExact, Shared!Next
             PROVE  SharedTyped' /\ (\A x \in Programs : pc'[x] = "ended") /\ WatchExact'
    OBVIOUS
<1> USE SharedAssumption
<1>1. /\ pc \in [Shared!Processes -> SharedPcs]
      /\ local \in [Shared!Processes -> Nat] /\ counter \in Nat /\ overlap \in BOOLEAN
      /\ ready \in BOOLEAN
      /\ Programs \subseteq Shared!Processes /\ {"parent", "child"} \subseteq Shared!Processes
      BY DEF SharedTyped, Shared!Processes
<1>2. \/ Shared!Load("child") \/ Shared!Store("child") \/ Shared!SetReady
      \/ Shared!Watch \/ Shared!Watched \/ Shared!Reap
      BY DEF WatchExact, Shared!Next, Shared!Parent, Shared!Child, Shared!Program, Shared!Goto,
         Shared!Room, Shared!WriteItem, Shared!LoadCount, Shared!StoreCount, Shared!SetDone,
         Shared!MoreToCome, Shared!AnyLeft,
         Shared!AnyItem, Shared!TakeItem, Shared!Load, Shared!Store
<1>3. ASSUME NEW x \in {"parent", "child"}, NEW f, NEW t \in SharedPcs,
             Shared!Goto(x, f, t)
      PROVE  /\ pc[x] = f /\ pc'[x] = t
             /\ \A y \in {"parent", "child"} : y # x => pc'[y] = pc[y]
             /\ pc' \in [Shared!Processes -> SharedPcs]
             /\ \A y \in Programs : pc'[y] = "ended"
  <2>1. x \in Shared!Processes /\ x \notin Programs
        BY DEF Shared!Processes
  <2> QED BY <1>1, <1>3, <2>1, SharedGoto
<1>4. UNCHANGED <<example, buffer, head, tail, count, producer_done, made, got>>
      BY <1>2 DEF Shared!Load, Shared!Store, Shared!SetReady, Shared!Watch, Shared!Watched,
         Shared!Reap, Shared!ringVars
<1> USE DEF SharedPcs
<1>5. CASE Shared!Load("child")
  <2>1. /\ pc["child"] = "load" /\ pc'["child"] = "store" /\ pc'["parent"] = pc["parent"]
        /\ pc' \in [Shared!Processes -> SharedPcs] /\ \A y \in Programs : pc'[y] = "ended"
        BY <1>3, <1>5 DEF Shared!Load
  <2>2. /\ local' \in [Shared!Processes -> Nat] /\ local'["child"] = counter
        /\ UNCHANGED <<counter, ready, overlap>>
        BY <1>1, <1>5 DEF Shared!Load, Shared!counterVars
  <2>3. SharedTyped'
        BY <1>4, <2>1, <2>2 DEF SharedTyped, Shared!Processes
  <2> QED BY <2>1, <2>2, <2>3 DEF WatchExact
<1>6. CASE Shared!Store("child")
  <2>1. PICK t \in {"load", "finish"} :
          /\ Shared!Goto("child", "store", t)
          /\ t = "load" <=> local["child"] + 1 < Steps
        BY <1>6 DEF Shared!Store
  <2>2. /\ pc["child"] = "store" /\ pc'["child"] = t /\ pc'["parent"] = pc["parent"]
        /\ pc' \in [Shared!Processes -> SharedPcs] /\ \A y \in Programs : pc'[y] = "ended"
        BY <1>3, <2>1
  <2>3. /\ counter' = local["child"] + 1 /\ overlap' = (overlap \/ counter # local["child"])
        /\ UNCHANGED <<local, ready>>
        BY <1>6 DEF Shared!Store
  <2>4. SharedTyped'
        BY <1>1, <1>4, <2>2, <2>3 DEF SharedTyped, Shared!Processes
  <2>5. counter = local["child"] /\ counter < Steps
        BY <2>2 DEF WatchExact
  <2>6. t = "load" => counter' < Steps
        BY <1>1, <2>1, <2>3, <2>5
  <2>7. t = "finish" => counter' = Steps
        BY <1>1, <2>1, <2>3, <2>5
  <2> QED BY <2>1, <2>2, <2>3, <2>4, <2>6, <2>7 DEF WatchExact
<1>7. CASE Shared!SetReady
  <2>1. /\ pc["child"] = "finish" /\ pc'["child"] = "ended" /\ pc'["parent"] = pc["parent"]
        /\ pc' \in [Shared!Processes -> SharedPcs] /\ \A y \in Programs : pc'[y] = "ended"
        BY <1>3, <1>7 DEF Shared!SetReady
  <2>2. ready' = TRUE /\ UNCHANGED <<counter, local, overlap>>
        BY <1>7 DEF Shared!SetReady
  <2>3. SharedTyped'
        BY <1>4, <2>1, <2>2 DEF SharedTyped, Shared!Processes
  <2> QED BY <2>1, <2>2, <2>3 DEF WatchExact
<1>8. CASE Shared!Watch
  <2>1. /\ pc["parent"] = "watching" /\ pc'["parent"] = "watching" /\ pc'["child"] = pc["child"]
        /\ pc' \in [Shared!Processes -> SharedPcs] /\ \A y \in Programs : pc'[y] = "ended"
        BY <1>3, <1>8 DEF Shared!Watch
  <2>2. /\ local' \in [Shared!Processes -> Nat] /\ local'["child"] = local["child"]
        /\ UNCHANGED <<counter, ready, overlap>>
        BY <1>1, <1>8 DEF Shared!Watch, Shared!counterVars
  <2>3. SharedTyped'
        BY <1>4, <2>1, <2>2 DEF SharedTyped, Shared!Processes
  <2> QED BY <2>1, <2>2, <2>3 DEF WatchExact
<1>9. CASE Shared!Watched \/ Shared!Reap
  <2>1. PICK t \in {"wait", "ended"}, f \in {"watching", "wait"} :
          /\ Shared!Goto("parent", f, t)
          /\ f = "watching" => ready
        BY <1>9 DEF Shared!Watched, Shared!Reap
  <2>2. /\ pc["parent"] = f /\ pc'["parent"] = t /\ pc'["child"] = pc["child"]
        /\ pc' \in [Shared!Processes -> SharedPcs] /\ \A y \in Programs : pc'[y] = "ended"
        BY <1>3, <2>1
  <2>3. UNCHANGED <<counter, ready, overlap, local>>
        BY <1>9 DEF Shared!Watched, Shared!Reap, Shared!counterVars
  <2>4. SharedTyped'
        BY <1>4, <2>2, <2>3 DEF SharedTyped, Shared!Processes
  <2> QED BY <2>1, <2>2, <2>3, <2>4 DEF WatchExact
<1> QED BY <1>2, <1>5, <1>6, <1>7, <1>8, <1>9

LEMMA RingStep == RingInv /\ Shared!Next => RingInv'
<1> SUFFICES ASSUME RingInv, Shared!Next PROVE RingInv'
    OBVIOUS
<1>1. /\ pc["parent"] # "watching" /\ pc["child"] # "load"
      /\ \A x \in Programs : pc[x] = "ended"
      /\ example = "ring"
      BY DEF RingInv, RingPlaces
<1>2. \/ Shared!Room \/ Shared!WriteItem \/ Shared!LoadCount("parent")
      \/ Shared!StoreCount("parent") \/ Shared!SetDone \/ Shared!Reap
      \/ Shared!MoreToCome \/ Shared!AnyLeft \/ Shared!AnyItem \/ Shared!TakeItem
      \/ Shared!LoadCount("child") \/ Shared!StoreCount("child")
      BY <1>1 DEF Shared!Next, Shared!Parent, Shared!Child, Shared!Program, Shared!Goto,
         Shared!Watch, Shared!Watched, Shared!Load, Shared!Store, Shared!SetReady
<1> QED BY <1>2, RingWrite, RingTake, RingTests, RingLeft, RingCounts

\* A step of the examples of shared memory, and of any other program.
LEMMA SharedStep == SharedInv /\ [Next]_vars => SharedInv'
<1> SUFFICES ASSUME SharedInv, [Next]_vars, program' = "shared" PROVE SharedInv'
    BY DEF SharedInv
<1>1. CASE RunShared
  <2>1. program = "shared" /\ Shared!Next /\ SharedTyped /\ example' = example
    <3>1. program = "shared" /\ Shared!Next
          BY <1>1 DEF RunShared
    <3>2. example' = example
          BY <3>1 DEF Shared!Next, Shared!Parent, Shared!Child, Shared!Program,
             Shared!Room, Shared!WriteItem, Shared!LoadCount, Shared!StoreCount,
             Shared!SetDone, Shared!Watch, Shared!Watched, Shared!Reap, Shared!MoreToCome,
             Shared!AnyLeft, Shared!AnyItem, Shared!TakeItem, Shared!Load, Shared!Store,
             Shared!SetReady
    <3> QED BY <3>1, <3>2 DEF SharedInv
  <2>2. CASE example = "ring"
    <3>1. RingInv'
          BY <2>1, <2>2, RingStep DEF SharedInv, RingInv
    <3> QED BY <2>1, <2>2, <3>1 DEF SharedInv, RingInv
  <2>3. CASE example = "key"
        BY <2>1, <2>3, KeyStep DEF SharedInv
  <2>4. CASE example = "watch"
        BY <2>1, <2>4, WatchStep DEF SharedInv
  <2> QED BY <2>1, <2>2, <2>3, <2>4 DEF SharedTyped
<1>2. CASE UNCHANGED vars
      BY <1>2 DEF vars, commonVars, shmVars, SharedInv, SharedTyped, RingPlaces, RingExact,
         KeyExact, WatchExact, Uncounted, Undiscounted, EndedPrograms
<1> QED BY <1>1, <1>2 DEF Next, RunPipes, RunQueue, RunSignals, RunSemaphores, RunCreation

LEMMA SharedCardinality == \A S : Shared!Cardinality(S) = Cardinality(S)
BY DEF Shared!Cardinality, Cardinality

\* What the invariant says of the shared memory.
LEMMA SharedMeans ==
  SharedInv /\ program = "shared" =>
    /\ Shared!TypeOK /\ Shared!CountInBounds
    /\ Shared!RightUnlessOverlap /\ Shared!WatchedToTheEnd
<1> SUFFICES ASSUME SharedInv, program = "shared"
             PROVE  /\ Shared!TypeOK /\ Shared!CountInBounds
                    /\ Shared!RightUnlessOverlap /\ Shared!WatchedToTheEnd
    OBVIOUS
<1>1. Shared!TypeOK /\ Shared!CountInBounds
      BY DEF SharedInv, SharedTyped, Shared!TypeOK, Shared!CountInBounds
<1>2. Shared!RightUnlessOverlap
      BY SharedCardinality
      DEF SharedInv, Shared!RightUnlessOverlap, RingExact, KeyExact, EndedPrograms
<1>3. Shared!WatchedToTheEnd
      BY DEF SharedInv, WatchExact, Shared!WatchedToTheEnd
<1> QED BY <1>1, <1>2, <1>3

-----------------------------------------------------------------------------
\* Signals (3_signal.cpp).

\* Where the process of an example can be.
PlacesOf(x) ==
  IF x = "poll" THEN {"polling", "ended"}
  ELSE IF x = "parent_child"
       THEN {"register USR1", "register USR2", "register TERM", "test", "pause",
             "paused", "resumed", "ended"}
  ELSE IF x = "alarm" THEN {"arm", "pause", "paused", "resumed", "ended"}
  ELSE {"block", "raise", "unblock", "unblocked", "ended"}

\* Everybody has a handler who may be sent the signal.
SignalTyped ==
  /\ example \in {"poll", "parent_child", "alarm", "mask"}
  /\ pc \in PlacesOf(example)
  /\ handler \in [Signal!Signals -> {"default", "basic", "child", "alarm"}]
  /\ \A s \in Signal!Signals : s # "ALRM" => handler[s] \in {"basic", "child"}
  /\ handler["ALRM"] = (IF example = "alarm" THEN "alarm" ELSE "default")
  /\ example # "parent_child" => \A s \in Signal!Signals : handler[s] # "child"
  /\ pending \in SUBSET Signal!Signals /\ mask \in SUBSET Signal!Signals
  /\ flag \in {"none"} \cup Signal!Signals
  /\ round \in Nat /\ alarm_count \in Nat /\ interrupts \in 0..MaxInterrupts
  /\ timer \in BOOLEAN /\ reaped \in BOOLEAN
  /\ handled \in [Signal!Signals -> Nat]
  /\ to_send \in Seq({"USR1", "USR2", "TERM"})

\* Only alarmExample sets a timer, and nobody but its own process and its
\* parent sends it anything but an interrupt.
Senders ==
  /\ example # "alarm" => ~timer /\ "ALRM" \notin pending /\ alarm_count = 0
  /\ example # "parent_child" => to_send = <<>> /\ "TERM" \notin pending
  /\ example \notin {"parent_child", "mask"} =>
       "USR1" \notin pending /\ "USR2" \notin pending
  /\ example # "mask" => mask = {}

\* An alarm was set for each one that came, is pending or is to come.
Alarms ==
  alarm_count + (IF timer THEN 1 ELSE 0) + (IF "ALRM" \in pending THEN 1 ELSE 0)
    <= round

\* Whatever ended a pause, an alarm or an interrupt, was handled; the round
\* whose pause has not ended is not counted.
Rested ==
  example = "alarm" =>
    /\ alarm_count + interrupts - (IF "INT" \in pending THEN 1 ELSE 0)
         >= round - (IF pc \in {"pause", "paused"} THEN 1 ELSE 0)
    /\ pc = "ended" => round = Rounds

\* Where a blocked signal is.
Masked ==
  example = "mask" =>
    /\ mask = (IF pc \in {"raise", "unblock"} THEN Signal!User ELSE {})
    /\ \A s \in Signal!User :
         handled[s] + (IF s \in pending THEN 1 ELSE 0)
           = (IF pc \in {"block", "raise"} THEN 0 ELSE 1)
    /\ pc \in {"block", "raise", "unblock"} => \A s \in Signal!User : handled[s] = 0
    /\ pc = "ended" => pending \cap Signal!User = {}

SignalExact ==
  SignalTyped /\ Senders /\ Alarms /\ Rested /\ Masked /\ Signal!LeavesForTerm

SignalInv == program = "signals" => SignalExact

LEMMA SignalInit == Init => SignalInv
<1> SUFFICES ASSUME program = "signals", Signal!Init PROVE SignalExact
    BY DEF Init, SignalInv
<1> USE SignalAssumption DEF Signal!Init
<1>1. pc \in PlacesOf(example)
      BY DEF Signal!Start, PlacesOf
<1>2. /\ handler \in [Signal!Signals -> {"default", "basic", "child", "alarm"}]
      /\ \A s \in Signal!Signals : s # "ALRM" => handler[s] = "basic"
      /\ handler["ALRM"] = (IF example = "alarm" THEN "alarm" ELSE "default")
      BY DEF Signal!Inherited, Signal!Signals
<1>3. to_send \in Seq({"USR1", "USR2", "TERM"})
  <2>1. <<"USR1", "USR2", "TERM">> \in Seq({"USR1", "USR2", "TERM"})
        OBVIOUS
  <2>2. <<>> \in Seq({"USR1", "USR2", "TERM"})
        OBVIOUS
  <2> QED BY <2>1, <2>2
<1>4. handled \in [Signal!Signals -> Nat] /\ \A s \in Signal!Signals : handled[s] = 0
      OBVIOUS
<1>5. flag \in {"none"} \cup Signal!Signals
      BY DEF Signal!Signals
<1>6. SignalTyped
  <2>1. /\ \A s \in Signal!Signals : s # "ALRM" => handler[s] \in {"basic", "child"}
        /\ \A s \in Signal!Signals : handler[s] # "child"
        BY <1>2 DEF Signal!Signals
  <2>2. round \in Nat /\ alarm_count \in Nat /\ timer \in BOOLEAN /\ reaped \in BOOLEAN
        OBVIOUS
  <2>3. pending \in SUBSET Signal!Signals /\ mask \in SUBSET Signal!Signals
        OBVIOUS
  <2>4. interrupts = 0 /\ 0 \in 0..MaxInterrupts
        OBVIOUS
  <2> QED BY <1>1, <1>2, <1>3, <1>4, <1>5, <2>1, <2>2, <2>3, <2>4 DEF SignalTyped
<1>7. Senders /\ Alarms
      BY DEF Senders, Alarms
<1>8. Rested
      BY DEF Rested, Signal!Start
<1>9. Masked
      BY <1>4 DEF Masked, Signal!Start, Signal!User, Signal!Signals
<1>10. Signal!LeavesForTerm
      BY DEF Signal!LeavesForTerm, Signal!Start
<1> QED BY <1>6, <1>7, <1>8, <1>9, <1>10 DEF SignalExact

\* The handler that runs ends a pause; no handler is the default one
\* (3_signal.cpp:93-96, 185-187, 212).
LEMMA Delivered ==
  ASSUME SignalExact, NEW s \in Signal!Signals, Signal!Deliver(s)
  PROVE  SignalExact'
<1> USE DEF Signal!Signals
<1>1. SignalTyped /\ Senders /\ Alarms /\ Rested /\ Masked /\ Signal!LeavesForTerm
      BY DEF SignalExact
<1>2. /\ pc # "ended" /\ s \in pending /\ s \notin mask
      /\ pending' = pending \ {s}
      /\ handled' = [handled EXCEPT ![s] = @ + 1]
      /\ flag' = s \/ flag' = flag
      /\ alarm_count' = alarm_count + (IF handler[s] = "alarm" THEN 1 ELSE 0)
      /\ UNCHANGED <<example, handler, mask, round, timer, to_send, reaped, interrupts>>
      BY DEF Signal!Deliver, Signal!Alive, Signal!selfVars, Signal!parentVars
<1>3. /\ s = "ALRM" => example = "alarm"
      /\ handler[s] = "alarm" <=> s = "ALRM"
      /\ handler[s] # "default"
      BY <1>1, <1>2 DEF SignalTyped, Senders
<1>4. pc' = IF pc = "paused" THEN "resumed" ELSE pc
      BY <1>3 DEF Signal!Deliver
<1>5. pc' \in PlacesOf(example) /\ pc' # "ended"
      BY <1>1, <1>2, <1>4 DEF SignalTyped, PlacesOf
<1>6. /\ handled' \in [Signal!Signals -> Nat] /\ handled'[s] = handled[s] + 1
      /\ \A t \in Signal!Signals : t # s => handled'[t] = handled[t]
      BY <1>1, <1>2 DEF SignalTyped
<1>7. alarm_count' \in Nat
      BY <1>1, <1>2 DEF SignalTyped
<1>8. SignalTyped'
      BY <1>1, <1>2, <1>5, <1>6, <1>7 DEF SignalTyped
<1>9. Senders'
      BY <1>1, <1>2, <1>3 DEF Senders
<1>10. alarm_count \in Nat /\ round \in Nat /\ interrupts \in Nat
      BY <1>1, SignalAssumption DEF SignalTyped
<1>11. Alarms'
      BY <1>1, <1>2, <1>3, <1>10 DEF Alarms
<1>12. Rested'
  <2> SUFFICES ASSUME example = "alarm" PROVE Rested'
      BY <1>2 DEF Rested
  <2>1. s \in {"ALRM", "INT"}
        BY <1>1, <1>2 DEF Senders
  <2> QED BY <1>1, <1>2, <1>3, <1>4, <1>5, <1>10, <2>1 DEF Rested
<1>13. Masked'
  <2> SUFFICES ASSUME example = "mask" PROVE Masked'
      BY <1>2 DEF Masked
  <2>1. pc \in {"block", "raise", "unblock", "unblocked"} /\ pc' = pc
        BY <1>1, <1>2, <1>4 DEF SignalTyped, PlacesOf
  <2>2. \A t \in Signal!User : handled[t] \in Nat /\ handled'[t] \in Nat
        BY <1>1, <1>6 DEF SignalTyped, Signal!User
  <2>3. mask' = (IF pc' \in {"raise", "unblock"} THEN Signal!User ELSE {})
        BY <1>1, <1>2, <2>1 DEF Masked
  <2>4. ASSUME NEW t \in Signal!User
        PROVE  handled'[t] + (IF t \in pending' THEN 1 ELSE 0)
                 = (IF pc' \in {"block", "raise"} THEN 0 ELSE 1)
        BY <1>1, <1>2, <1>6, <2>1, <2>2 DEF Masked, Signal!User
  <2>5. ASSUME pc' \in {"block", "raise", "unblock"}, NEW t \in Signal!User
        PROVE  handled'[t] = 0
    <3>1. t # s
      <4>1. CASE pc' \in {"raise", "unblock"}
            BY <1>1, <1>2, <2>1, <4>1 DEF Masked
      <4>2. CASE pc' = "block"
            BY <1>1, <1>2, <2>1, <2>2, <4>2 DEF Masked
      <4> QED BY <2>5, <4>1, <4>2
    <3> QED BY <1>1, <1>6, <2>1, <2>5, <3>1 DEF Masked, Signal!User
  <2> QED BY <1>2, <1>5, <2>3, <2>4, <2>5 DEF Masked
<1>14. Signal!LeavesForTerm'
      BY <1>5 DEF Signal!LeavesForTerm
<1> QED BY <1>8, <1>9, <1>11, <1>12, <1>13, <1>14 DEF SignalExact

\* A timer, the user or the parent makes a signal pending; a signal that is
\* pending already is lost (3_signal.cpp:153-165, 213).
LEMMA Sent ==
  ASSUME SignalExact, Signal!Expire \/ Signal!Interrupt \/ Signal!SendNext \/ Signal!Reap
  PROVE  SignalExact'
<1> USE SignalAssumption DEF Signal!Signals
<1>1. SignalTyped /\ Senders /\ Alarms /\ Rested /\ Masked /\ Signal!LeavesForTerm
      BY DEF SignalExact
<1>2. UNCHANGED <<example, pc, handler, mask, round, flag, alarm_count, handled>>
      BY DEF Signal!Expire, Signal!Interrupt, Signal!SendNext, Signal!Reap, Signal!selfVars
<1>3. Signal!LeavesForTerm'
      BY <1>1, <1>2 DEF Signal!LeavesForTerm
<1>10. alarm_count \in Nat /\ round \in Nat /\ interrupts \in Nat
      BY <1>1 DEF SignalTyped
<1>4. CASE Signal!Expire
  <2>1. /\ timer /\ timer' = FALSE /\ pending' = pending \cup {"ALRM"}
        /\ UNCHANGED <<to_send, reaped, interrupts>>
        BY <1>4 DEF Signal!Expire, Signal!parentVars
  <2>2. SignalTyped'
        BY <1>1, <1>2, <2>1 DEF SignalTyped
  <2>3. Senders' /\ Alarms'
        BY <1>1, <1>2, <1>10, <2>1 DEF Senders, Alarms
  <2>4. Rested'
        BY <1>1, <1>2, <2>1 DEF Rested
  <2>5. Masked'
        BY <1>1, <1>2, <2>1 DEF Masked, Senders
  <2> QED BY <1>3, <2>2, <2>3, <2>4, <2>5 DEF SignalExact
<1>5. CASE Signal!Interrupt
  <2>1. /\ pc # "ended" /\ pending' = pending \cup {"INT"} /\ interrupts < MaxInterrupts
        /\ interrupts' = interrupts + 1
        /\ UNCHANGED <<to_send, reaped, timer>>
        BY <1>5 DEF Signal!Interrupt, Signal!parentVars, Signal!Alive
  <2>2. SignalTyped'
        BY <1>1, <1>2, <1>10, <2>1 DEF SignalTyped
  <2>3. Senders' /\ Alarms'
        BY <1>1, <1>2, <1>10, <2>1 DEF Senders, Alarms
  <2>4. Rested'
        BY <1>1, <1>2, <1>10, <2>1 DEF Rested
  <2>5. Masked'
        BY <1>1, <1>2, <2>1 DEF Masked, Signal!User
  <2> QED BY <1>3, <2>2, <2>3, <2>4, <2>5 DEF SignalExact
<1>6. CASE Signal!SendNext
  <2>1. /\ to_send # <<>> /\ to_send' = Tail(to_send)
        /\ pending' = pending \/ pending' = pending \cup {Head(to_send)}
        /\ UNCHANGED <<reaped, timer, interrupts>>
        BY <1>6 DEF Signal!SendNext
  <2>2. /\ to_send \in Seq({"USR1", "USR2", "TERM"})
        /\ Head(to_send) \in {"USR1", "USR2", "TERM"}
        /\ to_send' \in Seq({"USR1", "USR2", "TERM"})
        BY <1>1, <2>1 DEF SignalTyped
  <2>3. example = "parent_child"
        BY <1>1, <2>1 DEF Senders
  <2>4. /\ pending' \in SUBSET Signal!Signals
        /\ "ALRM" \in pending' <=> "ALRM" \in pending
        BY <1>1, <2>1, <2>2 DEF SignalTyped
  <2>5. SignalTyped'
        BY <1>1, <1>2, <2>1, <2>2, <2>4 DEF SignalTyped
  <2>6. Senders' /\ Alarms'
        BY <1>1, <1>2, <2>1, <2>3, <2>4 DEF Senders, Alarms
  <2>7. Rested' /\ Masked'
        BY <1>2, <2>3 DEF Rested, Masked
  <2> QED BY <1>3, <2>5, <2>6, <2>7 DEF SignalExact
<1>7. CASE Signal!Reap
  <2>1. /\ reaped' = TRUE
        /\ UNCHANGED <<pending, to_send, timer, interrupts>>
        BY <1>7 DEF Signal!Reap
  <2>2. SignalTyped'
        BY <1>1, <1>2, <2>1 DEF SignalTyped
  <2>3. Senders' /\ Alarms' /\ Rested' /\ Masked'
        BY <1>1, <1>2, <2>1 DEF Senders, Alarms, Rested, Masked
  <2> QED BY <1>3, <2>2, <2>3 DEF SignalExact
<1> QED BY <1>4, <1>5, <1>6, <1>7

\* What the process does itself (3_signal.cpp:107-121, 180-192, 211-220,
\* 239-280).
LEMMA SelfStep ==
  ASSUME SignalExact, Signal!Self
  PROVE  SignalExact'
<1> USE SignalAssumption DEF Signal!Signals
<1>1. SignalTyped /\ Senders /\ Alarms /\ Rested /\ Masked /\ Signal!LeavesForTerm
      BY DEF SignalExact
<1>2. UNCHANGED <<example, flag, alarm_count, handled, to_send, reaped, interrupts>>
      BY DEF Signal!Self, Signal!PollRound, Signal!Register, Signal!TestFlag, Signal!Pause,
         Signal!Resume, Signal!Arm, Signal!AlarmsOver, Signal!Block, Signal!Raise,
         Signal!Unblock, Signal!Unblocked, Signal!Unchanged, Signal!parentVars
<1>3. /\ alarm_count \in Nat /\ round \in Nat /\ interrupts \in Nat /\ pc \in PlacesOf(example)
      /\ handled \in [Signal!Signals -> Nat]
      BY <1>1 DEF SignalTyped
<1>4. CASE Signal!PollRound
  <2>1. /\ pc = "polling" /\ pc' \in {"polling", "ended"} /\ round' \in {round, round + 1}
        /\ UNCHANGED <<handler, pending, mask, timer>>
        BY <1>4 DEF Signal!PollRound
  <2>2. example = "poll"
        BY <1>3, <2>1 DEF PlacesOf, SignalTyped
  <2>3. round' \in Nat /\ round' >= round
        BY <1>3, <2>1
  <2>4. SignalTyped'
        BY <1>1, <1>2, <2>1, <2>2, <2>3 DEF SignalTyped, PlacesOf
  <2>5. Senders' /\ Alarms'
        BY <1>1, <1>2, <1>3, <2>1, <2>2, <2>3 DEF Senders, Alarms
  <2>6. Rested' /\ Masked' /\ Signal!LeavesForTerm'
        BY <1>2, <2>2 DEF Rested, Masked, Signal!LeavesForTerm
  <2> QED BY <2>4, <2>5, <2>6 DEF SignalExact
<1>5. ASSUME NEW s \in {"USR1", "USR2", "TERM"},
             NEW place \in {"register USR1", "register USR2", "register TERM"},
             NEW next \in {"register USR2", "register TERM", "test"},
             Signal!Register(s, place, next)
      PROVE  SignalExact'
  <2>1. /\ pc = place /\ pc' = next /\ handler' = [handler EXCEPT ![s] = "child"]
        /\ UNCHANGED <<pending, mask, round, timer>>
        BY <1>5 DEF Signal!Register, Signal!Goto
  <2>2. example = "parent_child"
        BY <1>3, <2>1 DEF PlacesOf, SignalTyped
  <2>3. /\ handler' \in [Signal!Signals -> {"default", "basic", "child", "alarm"}]
        /\ handler'[s] = "child"
        /\ \A t \in Signal!Signals : t # s => handler'[t] = handler[t]
        BY <1>1, <2>1 DEF SignalTyped
  <2>4. SignalTyped'
        BY <1>1, <1>2, <2>1, <2>2, <2>3 DEF SignalTyped, PlacesOf
  <2>5. Senders' /\ Alarms'
        BY <1>1, <1>2, <1>3, <2>1, <2>2 DEF Senders, Alarms
  <2>6. Rested' /\ Masked' /\ Signal!LeavesForTerm'
        BY <1>2, <2>1, <2>2 DEF Rested, Masked, Signal!LeavesForTerm
  <2> QED BY <2>4, <2>5, <2>6 DEF SignalExact
<1>6. CASE Signal!TestFlag \/ Signal!Pause \/ Signal!Resume \/ Signal!AlarmsOver
           \/ Signal!Unblocked
  <2>1. UNCHANGED <<handler, pending, mask, round, timer>>
        BY <1>6 DEF Signal!TestFlag, Signal!Pause, Signal!Resume, Signal!AlarmsOver,
           Signal!Unblocked, Signal!selfVars
  <2>2. pc' \in PlacesOf(example)
        BY <1>3, <1>6, <1>1 DEF Signal!TestFlag, Signal!Pause, Signal!Resume,
           Signal!AlarmsOver, Signal!Unblocked, Signal!Goto, PlacesOf, SignalTyped
  <2>3. SignalTyped'
        BY <1>1, <1>2, <2>1, <2>2 DEF SignalTyped
  <2>4. Senders' /\ Alarms'
        BY <1>1, <1>2, <1>3, <2>1 DEF Senders, Alarms
  <2>5. Rested'
    <3> SUFFICES ASSUME example = "alarm" PROVE Rested'
        BY <1>2 DEF Rested
    <3>1. Signal!Pause \/ Signal!Resume \/ Signal!AlarmsOver
          BY <1>3, <1>6 DEF Signal!TestFlag, Signal!Unblocked, Signal!Goto, PlacesOf
    <3>2. \/ pc = "pause" /\ pc' = "paused"
          \/ pc = "resumed" /\ pc' = "arm"
          \/ pc = "arm" /\ pc' = "ended" /\ round = Rounds
          BY <3>1 DEF Signal!Pause, Signal!Resume, Signal!AlarmsOver, Signal!Goto
    <3> QED BY <1>1, <1>2, <1>3, <2>1, <3>2 DEF Rested
  <2>6. Masked'
    <3> SUFFICES ASSUME example = "mask" PROVE Masked'
        BY <1>2 DEF Masked
    <3>1. Signal!Unblocked
          BY <1>3, <1>6 DEF Signal!TestFlag, Signal!Pause, Signal!Resume,
             Signal!AlarmsOver, Signal!Goto, PlacesOf
    <3>2. pc = "unblocked" /\ pc' = "ended" /\ pending \ mask = {}
          BY <3>1 DEF Signal!Unblocked, Signal!Goto
    <3>3. mask = {}
          BY <1>1, <3>2 DEF Masked
    <3> QED BY <1>1, <1>2, <2>1, <3>2, <3>3 DEF Masked
  <2>7. Signal!LeavesForTerm'
    <3> SUFFICES ASSUME example = "parent_child", pc' = "ended" PROVE flag' = "TERM"
        BY <1>2 DEF Signal!LeavesForTerm
    <3>1. Signal!TestFlag
          BY <1>3, <1>6 DEF Signal!Pause, Signal!Resume,
             Signal!AlarmsOver, Signal!Unblocked, Signal!Goto, PlacesOf
    <3> QED BY <1>2, <3>1 DEF Signal!TestFlag
  <2> QED BY <2>3, <2>4, <2>5, <2>6, <2>7 DEF SignalExact
<1>7. CASE Signal!Arm
  <2>1. /\ pc = "arm" /\ pc' = "pause" /\ round' = round + 1 /\ timer' = TRUE
        /\ UNCHANGED <<handler, pending, mask>>
        BY <1>7 DEF Signal!Arm
  <2>2. example = "alarm"
        BY <1>1, <1>3, <2>1 DEF PlacesOf, SignalTyped
  <2>3. SignalTyped'
        BY <1>1, <1>2, <1>3, <2>1, <2>2 DEF SignalTyped, PlacesOf
  <2>4. Senders' /\ Alarms'
        BY <1>1, <1>2, <1>3, <2>1, <2>2 DEF Senders, Alarms
  <2>5. Rested' /\ Masked' /\ Signal!LeavesForTerm'
        BY <1>1, <1>2, <1>3, <2>1, <2>2 DEF Rested, Masked, Signal!LeavesForTerm
  <2> QED BY <2>3, <2>4, <2>5 DEF SignalExact
<1>8. CASE Signal!Block
  <2>1. /\ pc = "block" /\ pc' = "raise" /\ mask' = mask \cup Signal!User
        /\ UNCHANGED <<handler, pending, round, timer>>
        BY <1>8 DEF Signal!Block, Signal!Goto
  <2>2. example = "mask"
        BY <1>1, <1>3, <2>1 DEF PlacesOf, SignalTyped
  <2>3. mask' = Signal!User
        BY <1>1, <2>1, <2>2 DEF Masked
  <2>4. SignalTyped'
        BY <1>1, <1>2, <2>1, <2>2, <2>3 DEF SignalTyped, PlacesOf, Signal!User
  <2>5. Senders' /\ Alarms' /\ Rested' /\ Signal!LeavesForTerm'
        BY <1>1, <1>2, <1>3, <2>1, <2>2 DEF Senders, Alarms, Rested, Signal!LeavesForTerm
  <2>6. Masked'
        BY <1>1, <1>2, <2>1, <2>2, <2>3 DEF Masked
  <2> QED BY <2>4, <2>5, <2>6 DEF SignalExact
<1>9. CASE Signal!Raise
  <2>1. /\ pc = "raise" /\ pc' = "unblock" /\ pending' = pending \cup Signal!User
        /\ UNCHANGED <<handler, mask, round, timer>>
        BY <1>9 DEF Signal!Raise, Signal!Goto, Signal!selfVars
  <2>2. example = "mask"
        BY <1>1, <1>3, <2>1 DEF PlacesOf, SignalTyped
  <2>3. SignalTyped'
        BY <1>1, <1>2, <2>1, <2>2 DEF SignalTyped, PlacesOf, Signal!User
  <2>4. "ALRM" \in pending' <=> "ALRM" \in pending
        BY <2>1 DEF Signal!User
  <2>5. "TERM" \in pending' <=> "TERM" \in pending
        BY <2>1 DEF Signal!User
  <2>6. Senders' /\ Alarms'
        BY <1>1, <1>2, <1>3, <2>1, <2>2, <2>4, <2>5 DEF Senders, Alarms
  <2>7. Rested' /\ Signal!LeavesForTerm'
        BY <1>2, <2>2 DEF Rested, Signal!LeavesForTerm
  <2>8. Masked'
    <3>1. \A s \in Signal!User : handled[s] = 0 /\ s \in pending' /\ handled'[s] = 0
          BY <1>1, <1>2, <2>1, <2>2 DEF Masked
    <3>2. mask' = Signal!User
          BY <1>1, <2>1, <2>2 DEF Masked
    <3> QED BY <1>2, <2>1, <3>1, <3>2 DEF Masked
  <2> QED BY <2>3, <2>6, <2>7, <2>8 DEF SignalExact
<1>10. CASE Signal!Unblock
  <2>1. /\ pc = "unblock" /\ pc' = "unblocked" /\ mask' = {}
        /\ handler' = [s \in Signal!Signals |-> IF s \in Signal!User THEN "basic"
                                                 ELSE handler[s]]
        /\ UNCHANGED <<pending, round, timer>>
        BY <1>10 DEF Signal!Unblock, Signal!Goto
  <2>2. example = "mask"
        BY <1>1, <1>3, <2>1 DEF PlacesOf, SignalTyped
  <2>3. /\ handler' \in [Signal!Signals -> {"default", "basic", "child", "alarm"}]
        /\ \A s \in Signal!Signals : s # "ALRM" => handler'[s] \in {"basic", "child"}
        /\ handler'["ALRM"] = handler["ALRM"]
        /\ \A s \in Signal!Signals : handler'[s] # "child"
        BY <1>1, <2>1, <2>2 DEF SignalTyped, Signal!User
  <2>4. SignalTyped'
        BY <1>1, <1>2, <2>1, <2>2, <2>3 DEF SignalTyped, PlacesOf
  <2>5. Senders' /\ Alarms' /\ Rested' /\ Signal!LeavesForTerm'
        BY <1>1, <1>2, <1>3, <2>1, <2>2 DEF Senders, Alarms, Rested, Signal!LeavesForTerm
  <2>6. Masked'
        BY <1>1, <1>2, <2>1, <2>2 DEF Masked
  <2> QED BY <2>4, <2>5, <2>6 DEF SignalExact
<1> QED BY <1>4, <1>5, <1>6, <1>7, <1>8, <1>9, <1>10 DEF Signal!Self

LEMMA SignalStep == SignalInv /\ [Next]_vars => SignalInv'
<1> SUFFICES ASSUME SignalInv, [Next]_vars, program' = "signals" PROVE SignalExact'
    BY DEF SignalInv
<1>1. CASE RunSignals
  <2>1. SignalExact /\ Signal!Next
        BY <1>1 DEF RunSignals, SignalInv
  <2>2. \/ Signal!Self \/ Signal!Expire \/ Signal!Interrupt \/ Signal!SendNext
        \/ Signal!Reap \/ \E s \in Signal!Signals : Signal!Deliver(s)
        BY <2>1 DEF Signal!Next, Signal!Kernel, Signal!Parent
  <2> QED BY <2>1, <2>2, SelfStep, Sent, Delivered
<1>2. CASE UNCHANGED vars
      BY <1>2 DEF vars, commonVars, signalVars, SignalInv, SignalExact, SignalTyped,
         Senders, Alarms, Rested, Masked, Signal!LeavesForTerm
<1> QED BY <1>1, <1>2 DEF Next, RunPipes, RunQueue, RunShared, RunSemaphores, RunCreation

\* What the invariant says of the signals.
LEMMA SignalMeans ==
  SignalInv /\ program = "signals" =>
    /\ Signal!TypeOK /\ Signal!NobodyKilled /\ Signal!LeavesForTerm
    /\ Signal!AlarmPerRound /\ Signal!BlockedThenHandled
<1> SUFFICES ASSUME SignalExact
             PROVE  /\ Signal!TypeOK /\ Signal!NobodyKilled /\ Signal!LeavesForTerm
                    /\ Signal!AlarmPerRound /\ Signal!BlockedThenHandled
    BY DEF SignalInv
<1> USE SignalAssumption
<1>1. SignalTyped /\ Senders /\ Alarms /\ Rested /\ Masked /\ Signal!LeavesForTerm
      BY DEF SignalExact
<1>2. /\ alarm_count \in Nat /\ round \in Nat /\ interrupts \in Nat
      BY <1>1 DEF SignalTyped
<1>3. alarm_count \in 0..round
      BY <1>1, <1>2 DEF Alarms
<1>4. Signal!TypeOK
      BY <1>1, <1>3 DEF SignalTyped, Signal!TypeOK
<1>5. Signal!NobodyKilled
      BY <1>1 DEF SignalTyped, PlacesOf, Signal!NobodyKilled
<1>6. Signal!AlarmPerRound
      BY <1>1, <1>2 DEF Rested, Signal!AlarmPerRound
<1>7. Signal!BlockedThenHandled
  <2> SUFFICES ASSUME example = "mask", NEW s \in Signal!User
               PROVE  /\ handled[s] = (IF pc = "ended" THEN 1 ELSE handled[s])
                      /\ mask # {} => handled[s] = 0
      BY DEF Signal!BlockedThenHandled
  <2>1. handled[s] \in Nat
        BY <1>1 DEF SignalTyped, Signal!User, Signal!Signals
  <2>2. pc = "ended" => s \notin pending
        BY <1>1 DEF Masked
  <2>3. pc = "ended" => handled[s] = 1
        BY <1>1, <2>1, <2>2 DEF Masked
  <2>4. mask # {} => pc \in {"raise", "unblock"}
        BY <1>1 DEF Masked
  <2> QED BY <1>1, <2>3, <2>4 DEF Masked
<1> QED BY <1>1, <1>4, <1>5, <1>6, <1>7

-----------------------------------------------------------------------------
\* Semaphores (4_semaphore.cpp).

\* The script of a process from its beginning, and the steps it has made.
Full(p)  == Sema!Script(example)[p]
Made(p)  == Len(Full(p)) - Len(script[p])

SemaSteps ==
  {Sema!P(s) : s \in {0, 1, 2}} \cup {Sema!V(s) : s \in {0, 1, 2}}
    \cup {Sema!Wait(n) : n \in Nat}
    \cup {Sema!Do(x) : x \in {"use", "put", "get", "arrive", "lock_if_first", "read",
                              "depart", "unlock_if_last", "write", "load", "store",
                              "remove"}}

\* What is left of a script is its end.
SemaPlaces ==
  /\ example \in {"basic", "producer_consumer", "reader_writer", "counter"}
  /\ script \in [Sema!Processes -> Seq(SemaSteps)]
  /\ \A p \in Sema!Processes :
       /\ Len(script[p]) <= Len(Full(p))
       /\ \A k \in 1..Len(script[p]) : script[p][k] = Full(p)[Made(p) + k]

SemaTyped ==
  /\ sem \in [{0, 1, 2} -> Nat]
  /\ items \in [0..Slots - 1 -> Nat] /\ in \in 0..Slots - 1 /\ out \in 0..Slots - 1
  /\ count \in Int /\ made \in Nat /\ got \in Seq(Nat)
  /\ reader_count \in Int /\ counter \in Nat /\ old_value \in [Children -> Nat]
  /\ removed \in BOOLEAN

\* What an example does not use.
SemaIdle ==
  /\ example # "producer_consumer" =>
       /\ in = 0 /\ out = 0 /\ count = 0 /\ got = <<>> /\ sem[2] = 0
       /\ example # "reader_writer" => sem[1] = 0
  /\ example # "reader_writer" => reader_count = 0

\* Who is between the P and the V of the mutex.
HasMutex(p) ==
  \/ example = "basic" /\ p \in {"parent", "child"} /\ Made(p) \in {1, 2}
  \/ /\ example = "producer_consumer" /\ p \in {"producer", "consumer"}
     /\ Made(p) % 5 \in {2, 3}
  \/ example = "reader_writer" /\ p \in Children /\ Made(p) % 9 \in {1, 2, 3, 6, 7, 8}
  \/ example = "counter" /\ p \in Children /\ Made(p) % 4 \in {1, 2, 3}

MutexHeld ==
  /\ sem[0] \in {0, 1}
  /\ \A p \in Sema!Processes : HasMutex(p) => sem[0] = 0
  /\ \A p, q \in Sema!Processes : HasMutex(p) /\ HasMutex(q) => p = q

\* The parent's last wait returns when all it has forked have ended.
Collected ==
  /\ Len(script["parent"]) <= 1 =>
       \A p \in Sema!Forked(example) : script[p] = <<>>
  /\ removed => script["parent"] = <<>>

\* Empty and Full count the free and the filled slots, but for those that a
\* process has in its hands.
RingHeld ==
  example = "producer_consumer" =>
    /\ sem[1] = (Slots - (Made("producer") + 4) \div 5) + Made("consumer") \div 5
    /\ sem[2] = Made("producer") \div 5 - (Made("consumer") + 4) \div 5
    /\ made = (Made("producer") + 2) \div 5
    /\ Len(got) = (Made("consumer") + 2) \div 5
    /\ count = made - Len(got)
    /\ in = made % Slots /\ out = Len(got) % Slots
    /\ \A k \in 1..Len(got) : got[k] = k
    /\ \A k \in Nat : Len(got) <= k /\ k < made => items[k % Slots] = k + 1

\* The readers that are counted, and the lock that the first takes for all:
\* while one is about to take it, it is taken if there are others; while one is
\* about to free it, it is taken.
Readers == {c \in Children : Made(c) % 9 \in 2..6}

ReadersHold ==
  \/ \E c \in Children : Made(c) % 9 = 7
  \/ /\ \A c \in Children : Made(c) % 9 # 2
     /\ reader_count >= 1
  \/ reader_count >= 2

WriterHolds == Made("writer") % 3 \in {1, 2}

ReadersHeld ==
  example = "reader_writer" =>
    /\ reader_count = Cardinality(Readers)
    /\ sem[1] \in {0, 1}
    /\ sem[1] = 0 <=> ReadersHold \/ WriterHolds
    /\ ~(ReadersHold /\ WriterHolds)

\* The increments that are written.
Written == {s \in Children \X (1..Repeats) : s[2] <= (Made(s[1]) + 1) \div 4}

CountHeld ==
  example = "counter" =>
    /\ counter = Cardinality(Written)
    /\ \A c \in Children : Made(c) % 4 = 2 => old_value[c] = counter

SemaExact ==
  /\ SemaPlaces /\ SemaTyped /\ SemaIdle /\ MutexHeld /\ Collected
  /\ RingHeld /\ ReadersHeld /\ CountHeld

SemaInv == program = "semaphores" => SemaExact

\* The k-th step of n rounds of a body.
LEMMA LoopSteps ==
  ASSUME NEW n \in Nat, NEW m \in Nat \ {0}, NEW body \in Seq(SemaSteps), Len(body) = m
  PROVE  /\ Sema!Loop(n, body) \in Seq(SemaSteps)
         /\ Len(Sema!Loop(n, body)) = n * m
         /\ \A k \in 1..n * m : Sema!Loop(n, body)[k] = body[((k - 1) % m) + 1]
<1> DEFINE loop == Sema!Loop(n, body)
<1>1. n * m \in Nat
      OBVIOUS
<1>2. loop = [k \in 1..n * m |-> body[((k - 1) % m) + 1]]
      BY DEF Sema!Loop
<1>3. ASSUME NEW k \in 1..n * m PROVE body[((k - 1) % m) + 1] \in SemaSteps
  <2>1. k - 1 \in Nat
        OBVIOUS
  <2>2. (k - 1) % m \in 0..m - 1
        BY <2>1, PositiveMultiple, Remainder
  <2>3. ((k - 1) % m) + 1 \in 1..m
        BY <2>2
  <2> QED BY <2>3
<1> HIDE DEF loop
<1>4. loop \in [1..n * m -> SemaSteps]
      BY <1>2, <1>3
<1>5. loop \in Seq(SemaSteps) /\ Len(loop) = n * m
      BY <1>1, <1>4, LenProperties, SeqDef
<1> QED BY <1>2, <1>5 DEF loop

\* The parent's last steps.
LEMMA CollectSteps ==
  ASSUME NEW n \in Nat
  PROVE  /\ Sema!Collect(n) \in Seq(SemaSteps)
         /\ Len(Sema!Collect(n)) = n + 1
         /\ \A k \in 1..n : Sema!Collect(n)[k] = Sema!Wait(k)
         /\ Sema!Collect(n)[n + 1] = Sema!Do("remove")
<1> DEFINE waits == [k \in 1..n |-> Sema!Wait(k)]
<1>1. waits \in Seq(SemaSteps) /\ Len(waits) = n
  <2>0. ASSUME NEW k \in 1..n PROVE Sema!Wait(k) \in SemaSteps
    <3>1. k \in Nat
          OBVIOUS
    <3>2. Sema!Wait(k) \in {Sema!Wait(j) : j \in Nat}
          BY <3>1
    <3> QED BY <3>2 DEF SemaSteps
  <2>1. waits \in [1..n -> SemaSteps]
        BY <2>0
  <2> HIDE DEF waits
  <2> QED BY <2>1, LenProperties, SeqDef
<1>2. \A k \in 1..n : waits[k] = Sema!Wait(k)
      OBVIOUS
<1> HIDE DEF waits
<1>3. <<Sema!Do("remove")>> \in Seq(SemaSteps)
      BY DEF SemaSteps
<1>4. Sema!Collect(n) = waits \o <<Sema!Do("remove")>>
      BY DEF Sema!Collect, waits
<1> QED BY <1>1, <1>2, <1>3, <1>4

LEMMA SemaCardinality == \A S : Sema!Cardinality(S) = Cardinality(S)
BY DEF Sema!Cardinality, Cardinality

\* The steps of a process of the example that runs, by their number.
LEMMA BasicScript ==
  ASSUME example = "basic"
  PROVE  /\ \A x \in Sema!Processes : Full(x) \in Seq(SemaSteps)
         /\ \A x \in Sema!Processes \ {"parent", "child"} : Full(x) = <<>>
         /\ Len(Full("child")) = 3 /\ Len(Full("parent")) = 5
         /\ \A x \in {"parent", "child"} :
              /\ Full(x)[1] = Sema!P(0)
              /\ Full(x)[2] = Sema!Do("use")
              /\ Full(x)[3] = Sema!V(0)
         /\ Full("parent")[4] = Sema!Wait(1)
         /\ Full("parent")[5] = Sema!Do("remove")
<1> DEFINE body == <<Sema!P(0), Sema!Do("use"), Sema!V(0)>>
<1>1. \A x \in Sema!Processes : Full(x) = Sema!Basic(x)
      BY DEF Full, Sema!Script
<1>2. body \in Seq(SemaSteps) /\ Len(body) = 3
  <2>1. Sema!P(0) \in SemaSteps /\ Sema!Do("use") \in SemaSteps /\ Sema!V(0) \in SemaSteps
        BY DEF SemaSteps
  <2> QED BY <2>1
<1>3. body[1] = Sema!P(0) /\ body[2] = Sema!Do("use") /\ body[3] = Sema!V(0)
      OBVIOUS
<1>4. /\ Sema!Basic("child") = body
      /\ Sema!Basic("parent") = body \o Sema!Collect(1)
      /\ \A x \in Sema!Processes \ {"parent", "child"} : Sema!Basic(x) = <<>>
      BY DEF Sema!Basic, Sema!Mutex
<1> HIDE DEF body
<1>5. /\ Sema!Collect(1) \in Seq(SemaSteps) /\ Len(Sema!Collect(1)) = 2
      /\ Sema!Collect(1)[1] = Sema!Wait(1) /\ Sema!Collect(1)[2] = Sema!Do("remove")
  <2>1. /\ Sema!Collect(1) \in Seq(SemaSteps) /\ Len(Sema!Collect(1)) = 1 + 1
        /\ \A k \in 1..1 : Sema!Collect(1)[k] = Sema!Wait(k)
        /\ Sema!Collect(1)[1 + 1] = Sema!Do("remove")
    <3>1. 1 \in Nat
          OBVIOUS
    <3> QED BY <3>1, CollectSteps, Zenon
  <2> QED BY <2>1
<1>6. "parent" \in Sema!Processes /\ "child" \in Sema!Processes
      BY DEF Sema!Processes
<1>7. /\ body \o Sema!Collect(1) \in Seq(SemaSteps) /\ Len(body \o Sema!Collect(1)) = 5
      /\ (body \o Sema!Collect(1))[1] = body[1]
      /\ (body \o Sema!Collect(1))[2] = body[2]
      /\ (body \o Sema!Collect(1))[3] = body[3]
      /\ (body \o Sema!Collect(1))[4] = Sema!Collect(1)[1]
      /\ (body \o Sema!Collect(1))[5] = Sema!Collect(1)[2]
  <2> DEFINE end == Sema!Collect(1)
  <2>1. end \in Seq(SemaSteps) /\ Len(end) = 2
        BY <1>5
  <2> HIDE DEF end
  <2>2. /\ body \o end \in Seq(SemaSteps) /\ Len(body \o end) = Len(body) + Len(end)
        /\ \A i \in 1..Len(body) + Len(end) :
             (body \o end)[i] = IF i <= Len(body) THEN body[i] ELSE end[i - Len(body)]
        BY <1>2, <2>1, ConcatProperties, Zenon
  <2>3. /\ Len(body \o end) = 3 + 2
        /\ \A i \in 1..3 + 2 : (body \o end)[i] = IF i <= 3 THEN body[i] ELSE end[i - 3]
        BY <1>2, <2>1, <2>2, Zenon
  <2>4. /\ (body \o end)[1] = body[1] /\ (body \o end)[2] = body[2]
        /\ (body \o end)[3] = body[3]
        /\ (body \o end)[4] = end[1] /\ (body \o end)[5] = end[2]
        BY <2>3
  <2> QED BY <2>2, <2>3, <2>4 DEF end
<1>8. Full("child") = body /\ Full("parent") = body \o Sema!Collect(1)
      BY <1>1, <1>4, <1>6
<1>9. \A x \in Sema!Processes \ {"parent", "child"} : Full(x) = <<>>
      BY <1>1, <1>4
<1>10. \A x \in Sema!Processes : Full(x) \in Seq(SemaSteps)
  <2>1. <<>> \in Seq(SemaSteps)
        OBVIOUS
  <2> QED BY <1>2, <1>7, <1>8, <1>9, <2>1, Zenon
<1> QED BY <1>2, <1>3, <1>5, <1>7, <1>8, <1>9, <1>10

LEMMA RingScript ==
  ASSUME example = "producer_consumer"
  PROVE  /\ \A x \in Sema!Processes : Full(x) \in Seq(SemaSteps)
         /\ Full("parent") = Sema!Collect(2)
         /\ \A x \in Sema!Processes \ {"parent", "producer", "consumer"} : Full(x) = <<>>
         /\ Len(Full("producer")) = Items * 5 /\ Len(Full("consumer")) = Items * 5
         /\ \A k \in Nat : k < Items * 5 =>
              /\ k % 5 = 0 => /\ Full("producer")[k + 1] = Sema!P(1)
                              /\ Full("consumer")[k + 1] = Sema!P(2)
              /\ k % 5 = 1 => /\ Full("producer")[k + 1] = Sema!P(0)
                              /\ Full("consumer")[k + 1] = Sema!P(0)
              /\ k % 5 = 2 => /\ Full("producer")[k + 1] = Sema!Do("put")
                              /\ Full("consumer")[k + 1] = Sema!Do("get")
              /\ k % 5 = 3 => /\ Full("producer")[k + 1] = Sema!V(0)
                              /\ Full("consumer")[k + 1] = Sema!V(0)
              /\ k % 5 = 4 => /\ Full("producer")[k + 1] = Sema!V(2)
                              /\ Full("consumer")[k + 1] = Sema!V(1)
<1> USE SharedAssumption
<1>0. Items \in Nat /\ 5 \in Nat \ {0}
      OBVIOUS
<1> DEFINE
      puts == <<Sema!P(1), Sema!P(0), Sema!Do("put"), Sema!V(0), Sema!V(2)>>
      gets == <<Sema!P(2), Sema!P(0), Sema!Do("get"), Sema!V(0), Sema!V(1)>>
<1>1. \A x \in Sema!Processes : Full(x) = Sema!ProducerConsumer(x)
      BY DEF Full, Sema!Script
<1>2. puts \in Seq(SemaSteps) /\ gets \in Seq(SemaSteps) /\ Len(puts) = 5 /\ Len(gets) = 5
  <2>1. \A s \in {0, 1, 2} : Sema!P(s) \in SemaSteps /\ Sema!V(s) \in SemaSteps
        BY DEF SemaSteps
  <2>2. Sema!Do("put") \in SemaSteps /\ Sema!Do("get") \in SemaSteps
        BY DEF SemaSteps
  <2> QED BY <2>1, <2>2
<1>3. /\ puts[1] = Sema!P(1) /\ puts[2] = Sema!P(0) /\ puts[3] = Sema!Do("put")
      /\ puts[4] = Sema!V(0) /\ puts[5] = Sema!V(2)
      /\ gets[1] = Sema!P(2) /\ gets[2] = Sema!P(0) /\ gets[3] = Sema!Do("get")
      /\ gets[4] = Sema!V(0) /\ gets[5] = Sema!V(1)
      OBVIOUS
<1>4. /\ Sema!ProducerConsumer("parent") = Sema!Collect(2)
      /\ Sema!ProducerConsumer("producer") = Sema!Loop(Items, puts)
      /\ Sema!ProducerConsumer("consumer") = Sema!Loop(Items, gets)
      /\ \A x \in Sema!Processes \ {"parent", "producer", "consumer"} :
           Sema!ProducerConsumer(x) = <<>>
      BY DEF Sema!ProducerConsumer, Sema!Mutex, Sema!Empty, Sema!Full
<1> HIDE DEF puts, gets
<1>5. /\ Sema!Loop(Items, puts) \in Seq(SemaSteps) /\ Len(Sema!Loop(Items, puts)) = Items * 5
      /\ \A k \in 1..Items * 5 : Sema!Loop(Items, puts)[k] = puts[((k - 1) % 5) + 1]
      BY <1>0, <1>2, LoopSteps, Zenon
<1>6. /\ Sema!Loop(Items, gets) \in Seq(SemaSteps) /\ Len(Sema!Loop(Items, gets)) = Items * 5
      /\ \A k \in 1..Items * 5 : Sema!Loop(Items, gets)[k] = gets[((k - 1) % 5) + 1]
      BY <1>0, <1>2, LoopSteps, Zenon
<1>7. {"parent", "producer", "consumer"} \subseteq Sema!Processes
      BY DEF Sema!Processes
<1>8. /\ Full("producer") = Sema!Loop(Items, puts) /\ Full("consumer") = Sema!Loop(Items, gets)
      /\ Full("parent") = Sema!Collect(2)
      /\ \A x \in Sema!Processes \ {"parent", "producer", "consumer"} : Full(x) = <<>>
      BY <1>1, <1>4, <1>7
<1>9. ASSUME NEW k \in Nat, k < Items * 5
      PROVE  /\ Full("producer")[k + 1] = puts[(k % 5) + 1]
             /\ Full("consumer")[k + 1] = gets[(k % 5) + 1]
  <2>1. k + 1 \in 1..Items * 5 /\ (k + 1) - 1 = k
        BY <1>9
  <2> QED BY <1>5, <1>6, <1>8, <2>1
<1>10. Sema!Collect(2) \in Seq(SemaSteps)
      BY CollectSteps
<1>11. \A x \in Sema!Processes : Full(x) \in Seq(SemaSteps)
  <2>1. <<>> \in Seq(SemaSteps)
        OBVIOUS
  <2> QED BY <1>5, <1>6, <1>8, <1>10, <2>1, Zenon
<1> QED BY <1>3, <1>5, <1>6, <1>8, <1>9, <1>11

LEMMA ReaderScript ==
  ASSUME example = "reader_writer"
  PROVE  /\ \A x \in Sema!Processes : Full(x) \in Seq(SemaSteps)
         /\ Full("parent") = Sema!Collect(Cardinality(Children) + 1)
         /\ \A x \in Sema!Processes \ ({"parent", "writer"} \cup Children) : Full(x) = <<>>
         /\ Len(Full("writer")) = Writes * 3
         /\ \A k \in Nat : k < Writes * 3 =>
              /\ k % 3 = 0 => Full("writer")[k + 1] = Sema!P(1)
              /\ k % 3 = 1 => Full("writer")[k + 1] = Sema!Do("write")
              /\ k % 3 = 2 => Full("writer")[k + 1] = Sema!V(1)
         /\ \A c \in Children :
              /\ Len(Full(c)) = Repeats * 9
              /\ \A k \in Nat : k < Repeats * 9 =>
                   /\ k % 9 = 0 => Full(c)[k + 1] = Sema!P(0)
                   /\ k % 9 = 1 => Full(c)[k + 1] = Sema!Do("arrive")
                   /\ k % 9 = 2 => Full(c)[k + 1] = Sema!Do("lock_if_first")
                   /\ k % 9 = 3 => Full(c)[k + 1] = Sema!V(0)
                   /\ k % 9 = 4 => Full(c)[k + 1] = Sema!Do("read")
                   /\ k % 9 = 5 => Full(c)[k + 1] = Sema!P(0)
                   /\ k % 9 = 6 => Full(c)[k + 1] = Sema!Do("depart")
                   /\ k % 9 = 7 => Full(c)[k + 1] = Sema!Do("unlock_if_last")
                   /\ k % 9 = 8 => Full(c)[k + 1] = Sema!V(0)
<1>0. Writes \in Nat /\ Repeats \in Nat /\ 3 \in Nat \ {0} /\ 9 \in Nat \ {0}
      BY SemaAssumption
<1> DEFINE
      writes == <<Sema!P(1), Sema!Do("write"), Sema!V(1)>>
      reads  == <<Sema!P(0), Sema!Do("arrive"), Sema!Do("lock_if_first"), Sema!V(0),
                  Sema!Do("read"),
                  Sema!P(0), Sema!Do("depart"), Sema!Do("unlock_if_last"), Sema!V(0)>>
<1>1. \A x \in Sema!Processes : Full(x) = Sema!ReaderWriter(x)
      BY DEF Full, Sema!Script
<1>2. writes \in Seq(SemaSteps) /\ reads \in Seq(SemaSteps) /\ Len(writes) = 3 /\ Len(reads) = 9
  <2>1. /\ Sema!P(0) \in SemaSteps /\ Sema!V(0) \in SemaSteps
        /\ Sema!P(1) \in SemaSteps /\ Sema!V(1) \in SemaSteps
        BY DEF SemaSteps
  <2>2. /\ Sema!Do("write") \in SemaSteps /\ Sema!Do("arrive") \in SemaSteps
        /\ Sema!Do("lock_if_first") \in SemaSteps /\ Sema!Do("read") \in SemaSteps
        /\ Sema!Do("depart") \in SemaSteps /\ Sema!Do("unlock_if_last") \in SemaSteps
        BY DEF SemaSteps
  <2>3. writes \in Seq(SemaSteps) /\ Len(writes) = 3
        BY <2>1, <2>2
  <2>4. reads \in Seq(SemaSteps) /\ Len(reads) = 9
        BY <2>1, <2>2
  <2> QED BY <2>3, <2>4
<1>3. /\ writes[1] = Sema!P(1) /\ writes[2] = Sema!Do("write") /\ writes[3] = Sema!V(1)
      /\ reads[1] = Sema!P(0) /\ reads[2] = Sema!Do("arrive")
      /\ reads[3] = Sema!Do("lock_if_first") /\ reads[4] = Sema!V(0)
      /\ reads[5] = Sema!Do("read") /\ reads[6] = Sema!P(0) /\ reads[7] = Sema!Do("depart")
      /\ reads[8] = Sema!Do("unlock_if_last") /\ reads[9] = Sema!V(0)
      OBVIOUS
<1>4. /\ Sema!ReaderWriter("parent") = Sema!Collect(Sema!Cardinality(Children) + 1)
      /\ Sema!ReaderWriter("writer") = Sema!Loop(Writes, writes)
      /\ \A c \in Children : Sema!ReaderWriter(c) = Sema!Loop(Repeats, reads)
      /\ \A x \in Sema!Processes \ ({"parent", "writer"} \cup Children) :
           Sema!ReaderWriter(x) = <<>>
      BY SemaAssumption DEF Sema!ReaderWriter, Sema!ReaderMutex, Sema!WriterMutex
<1> HIDE DEF writes, reads
<1>5. /\ Sema!Loop(Writes, writes) \in Seq(SemaSteps)
      /\ Len(Sema!Loop(Writes, writes)) = Writes * 3
      /\ \A k \in 1..Writes * 3 : Sema!Loop(Writes, writes)[k] = writes[((k - 1) % 3) + 1]
      BY <1>0, <1>2, LoopSteps, Zenon
<1>6. /\ Sema!Loop(Repeats, reads) \in Seq(SemaSteps)
      /\ Len(Sema!Loop(Repeats, reads)) = Repeats * 9
      /\ \A k \in 1..Repeats * 9 : Sema!Loop(Repeats, reads)[k] = reads[((k - 1) % 9) + 1]
      BY <1>0, <1>2, LoopSteps, Zenon
<1>7. {"parent", "writer"} \cup Children \subseteq Sema!Processes
      BY DEF Sema!Processes
<1>8. /\ Full("writer") = Sema!Loop(Writes, writes)
      /\ \A c \in Children : Full(c) = Sema!Loop(Repeats, reads)
      /\ Full("parent") = Sema!Collect(Cardinality(Children) + 1)
      /\ \A x \in Sema!Processes \ ({"parent", "writer"} \cup Children) : Full(x) = <<>>
      BY <1>1, <1>4, <1>7, SemaCardinality
<1>9. ASSUME NEW k \in Nat, k < Writes * 3
      PROVE  Full("writer")[k + 1] = writes[(k % 3) + 1]
  <2>1. k + 1 \in 1..Writes * 3 /\ (k + 1) - 1 = k
        BY <1>0, <1>9
  <2> QED BY <1>5, <1>8, <2>1
<1>10. ASSUME NEW k \in Nat, k < Repeats * 9, NEW c \in Children
       PROVE  Full(c)[k + 1] = reads[(k % 9) + 1]
  <2>1. k + 1 \in 1..Repeats * 9 /\ (k + 1) - 1 = k
        BY <1>0, <1>10
  <2> QED BY <1>6, <1>8, <2>1
<1>11. Sema!Collect(Cardinality(Children) + 1) \in Seq(SemaSteps)
  <2>1. Cardinality(Children) + 1 \in Nat
        BY SemaAssumption, FS_CardinalityType
  <2> QED BY <2>1, CollectSteps, Zenon
<1>12. \A x \in Sema!Processes : Full(x) \in Seq(SemaSteps)
  <2>1. <<>> \in Seq(SemaSteps)
        OBVIOUS
  <2>2. ASSUME NEW x \in Sema!Processes PROVE Full(x) \in Seq(SemaSteps)
    <3>1. CASE x \in Children
          BY <1>6, <1>8, <3>1, Zenon
    <3>2. CASE x = "writer"
          BY <1>5, <1>8, <3>2, Zenon
    <3>3. CASE x = "parent"
          BY <1>8, <1>11, <3>3, Zenon
    <3>4. CASE x \notin {"parent", "writer"} \cup Children
          BY <1>8, <2>1, <3>4
    <3> QED BY <3>1, <3>2, <3>3, <3>4
  <2> QED BY <2>2
<1>13. ASSUME NEW k \in Nat, k < Writes * 3
       PROVE  /\ k % 3 = 0 => Full("writer")[k + 1] = Sema!P(1)
              /\ k % 3 = 1 => Full("writer")[k + 1] = Sema!Do("write")
              /\ k % 3 = 2 => Full("writer")[k + 1] = Sema!V(1)
  <2>1. Full("writer")[k + 1] = writes[(k % 3) + 1]
        BY <1>9, <1>13
  <2> QED BY <1>3, <2>1
<1>14. ASSUME NEW k \in Nat, k < Repeats * 9, NEW c \in Children
       PROVE  /\ k % 9 = 0 => Full(c)[k + 1] = Sema!P(0)
              /\ k % 9 = 1 => Full(c)[k + 1] = Sema!Do("arrive")
              /\ k % 9 = 2 => Full(c)[k + 1] = Sema!Do("lock_if_first")
              /\ k % 9 = 3 => Full(c)[k + 1] = Sema!V(0)
              /\ k % 9 = 4 => Full(c)[k + 1] = Sema!Do("read")
              /\ k % 9 = 5 => Full(c)[k + 1] = Sema!P(0)
              /\ k % 9 = 6 => Full(c)[k + 1] = Sema!Do("depart")
              /\ k % 9 = 7 => Full(c)[k + 1] = Sema!Do("unlock_if_last")
              /\ k % 9 = 8 => Full(c)[k + 1] = Sema!V(0)
  <2>1. Full(c)[k + 1] = reads[(k % 9) + 1]
        BY <1>10, <1>14
  <2> QED BY <1>3, <2>1
<1>15. Len(Full("writer")) = Writes * 3 /\ \A c \in Children : Len(Full(c)) = Repeats * 9
      BY <1>5, <1>6, <1>8, Zenon
<1> QED BY <1>8, <1>12, <1>13, <1>14, <1>15, Zenon

LEMMA CounterScript ==
  ASSUME example = "counter"
  PROVE  /\ \A x \in Sema!Processes : Full(x) \in Seq(SemaSteps)
         /\ Full("parent") = Sema!Collect(Cardinality(Children))
         /\ \A x \in Sema!Processes \ ({"parent"} \cup Children) : Full(x) = <<>>
         /\ \A c \in Children :
              /\ Len(Full(c)) = Repeats * 4
              /\ \A k \in Nat : k < Repeats * 4 =>
                   /\ k % 4 = 0 => Full(c)[k + 1] = Sema!P(0)
                   /\ k % 4 = 1 => Full(c)[k + 1] = Sema!Do("load")
                   /\ k % 4 = 2 => Full(c)[k + 1] = Sema!Do("store")
                   /\ k % 4 = 3 => Full(c)[k + 1] = Sema!V(0)
<1>0. Repeats \in Nat /\ 4 \in Nat \ {0}
      BY SemaAssumption
<1> DEFINE adds == <<Sema!P(0), Sema!Do("load"), Sema!Do("store"), Sema!V(0)>>
<1>1. \A x \in Sema!Processes : Full(x) = Sema!Counter(x)
      BY DEF Full, Sema!Script
<1>2. adds \in Seq(SemaSteps) /\ Len(adds) = 4
  <2>1. /\ Sema!P(0) \in SemaSteps /\ Sema!V(0) \in SemaSteps
        /\ Sema!Do("load") \in SemaSteps /\ Sema!Do("store") \in SemaSteps
        BY DEF SemaSteps
  <2> QED BY <2>1
<1>3. /\ adds[1] = Sema!P(0) /\ adds[2] = Sema!Do("load") /\ adds[3] = Sema!Do("store")
      /\ adds[4] = Sema!V(0)
      OBVIOUS
<1>4. /\ Sema!Counter("parent") = Sema!Collect(Sema!Cardinality(Children))
      /\ \A c \in Children : Sema!Counter(c) = Sema!Loop(Repeats, adds)
      /\ \A x \in Sema!Processes \ ({"parent"} \cup Children) : Sema!Counter(x) = <<>>
      BY SemaAssumption DEF Sema!Counter, Sema!Mutex
<1> HIDE DEF adds
<1>5. /\ Sema!Loop(Repeats, adds) \in Seq(SemaSteps)
      /\ Len(Sema!Loop(Repeats, adds)) = Repeats * 4
      /\ \A k \in 1..Repeats * 4 : Sema!Loop(Repeats, adds)[k] = adds[((k - 1) % 4) + 1]
      BY <1>0, <1>2, LoopSteps, Zenon
<1>6. {"parent"} \cup Children \subseteq Sema!Processes
      BY DEF Sema!Processes
<1>7. /\ \A c \in Children : Full(c) = Sema!Loop(Repeats, adds)
      /\ Full("parent") = Sema!Collect(Cardinality(Children))
      /\ \A x \in Sema!Processes \ ({"parent"} \cup Children) : Full(x) = <<>>
      BY <1>1, <1>4, <1>6, SemaCardinality
<1>8. ASSUME NEW k \in Nat, k < Repeats * 4, NEW c \in Children
      PROVE  Full(c)[k + 1] = adds[(k % 4) + 1]
  <2>1. k + 1 \in 1..Repeats * 4 /\ (k + 1) - 1 = k
        BY <1>0, <1>8
  <2> QED BY <1>5, <1>7, <2>1
<1>9. Sema!Collect(Cardinality(Children)) \in Seq(SemaSteps)
  <2>1. Cardinality(Children) \in Nat
        BY SemaAssumption, FS_CardinalityType
  <2> QED BY <2>1, CollectSteps, Zenon
<1>10. \A x \in Sema!Processes : Full(x) \in Seq(SemaSteps)
  <2>1. <<>> \in Seq(SemaSteps)
        OBVIOUS
  <2> QED BY <1>5, <1>7, <1>9, <2>1, Zenon
<1> QED BY <1>3, <1>5, <1>7, <1>8, <1>10

LEMMA ParentScript ==
  ASSUME example \in {"basic", "producer_consumer", "reader_writer", "counter"}
  PROVE  /\ IsFiniteSet(Sema!Forked(example))
         /\ Sema!Forked(example) \subseteq Sema!Processes \ {"parent"}
         /\ \A x \in Sema!Processes : Full(x) \in Seq(SemaSteps)
         /\ \A x \in Sema!Processes \ (Sema!Forked(example) \cup {"parent"}) : Full(x) = <<>>
         /\ Len(Full("parent")) >= 1
         /\ Full("parent")[Len(Full("parent"))] = Sema!Do("remove")
         /\ \A k \in 1..Len(Full("parent")) :
              Full("parent")[k] = Sema!Do("remove") => k = Len(Full("parent"))
         /\ Len(Full("parent")) = 1 => Sema!Forked(example) = {}
         /\ Len(Full("parent")) > 1 =>
              Full("parent")[Len(Full("parent")) - 1]
                = Sema!Wait(Cardinality(Sema!Forked(example)))
<1>0. \A n : Sema!Wait(n) # Sema!Do("remove")
      BY DEF Sema!Wait, Sema!Do
<1>1. ASSUME NEW n \in Nat, Full("parent") = Sema!Collect(n),
             Cardinality(Sema!Forked(example)) = n, IsFiniteSet(Sema!Forked(example))
      PROVE  /\ Len(Full("parent")) >= 1
             /\ Full("parent")[Len(Full("parent"))] = Sema!Do("remove")
             /\ \A k \in 1..Len(Full("parent")) :
                  Full("parent")[k] = Sema!Do("remove") => k = Len(Full("parent"))
             /\ Len(Full("parent")) = 1 => Sema!Forked(example) = {}
             /\ Len(Full("parent")) > 1 =>
                  Full("parent")[Len(Full("parent")) - 1]
                    = Sema!Wait(Cardinality(Sema!Forked(example)))
  <2> DEFINE full == Full("parent")
  <2>1. /\ Len(full) = n + 1 /\ full[n + 1] = Sema!Do("remove")
        /\ \A k \in 1..n : full[k] = Sema!Wait(k)
        BY <1>1, CollectSteps
  <2>2. n = 0 => Sema!Forked(example) = {}
        BY <1>1, FS_EmptySet
  <2> HIDE DEF full
  <2>3. \A k \in 1..n + 1 : full[k] = Sema!Do("remove") => k = n + 1
        BY <1>0, <2>1
  <2>4. n > 0 => n \in 1..n
        OBVIOUS
  <2>5. n > 0 => full[n] = Sema!Wait(n)
        BY <2>1, <2>4
  <2>6. (n + 1) - 1 = n /\ (n + 1 > 1 => n > 0) /\ (n + 1 = 1 => n = 0) /\ n + 1 >= 1
        OBVIOUS
  <2> QED BY <1>1, <2>1, <2>2, <2>3, <2>5, <2>6 DEF full
<1>2. CASE example = "basic"
  <2>1. Sema!Forked(example) = {"child"}
        BY <1>2 DEF Sema!Forked
  <2>2. IsFiniteSet({"child"}) /\ Cardinality({"child"}) = 1
        BY FS_Singleton
  <2>3. Sema!P(0) # Sema!Do("remove") /\ Sema!V(0) # Sema!Do("remove")
        BY DEF Sema!P, Sema!V, Sema!Do
  <2>4. Sema!Do("use") # Sema!Do("remove")
        BY DEF Sema!Do
  <2>5. \A k \in 1..5 : Full("parent")[k] = Sema!Do("remove") => k = 5
    <3> SUFFICES ASSUME NEW k \in 1..5, k # 5 PROVE Full("parent")[k] # Sema!Do("remove")
        OBVIOUS
    <3>1. k = 1 \/ k = 2 \/ k = 3 \/ k = 4
          OBVIOUS
    <3> QED BY <1>0, <1>2, <2>3, <2>4, <3>1, BasicScript, Zenon
  <2>6. /\ Len(Full("parent")) = 5 /\ Full("parent")[5] = Sema!Do("remove")
        /\ Full("parent")[4] = Sema!Wait(1)
        /\ \A x \in Sema!Processes : Full(x) \in Seq(SemaSteps)
        /\ \A x \in Sema!Processes \ {"parent", "child"} : Full(x) = <<>>
        BY <1>2, BasicScript, Zenon
  <2>7. "child" \in Sema!Processes
        BY DEF Sema!Processes
  <2>8. /\ Full("parent")[Len(Full("parent")) - 1]
             = Sema!Wait(Cardinality(Sema!Forked(example)))
        /\ Len(Full("parent")) >= 1 /\ Len(Full("parent")) # 1
    <3>1. 5 - 1 = 4 /\ 5 >= 1 /\ 5 # 1
          OBVIOUS
    <3> QED BY <2>1, <2>2, <2>6, <3>1, Zenon
  <2> QED BY <2>1, <2>2, <2>5, <2>6, <2>7, <2>8
<1>3. CASE example = "producer_consumer"
  <2>1. Sema!Forked(example) = {"producer", "consumer"}
        BY <1>3 DEF Sema!Forked
  <2>2. IsFiniteSet(Sema!Forked(example)) /\ Cardinality(Sema!Forked(example)) = 2
    <3>1. IsFiniteSet({"producer"}) /\ Cardinality({"producer"}) = 1
          BY FS_Singleton
    <3>2. /\ IsFiniteSet({"producer"} \cup {"consumer"})
          /\ Cardinality({"producer"} \cup {"consumer"}) = 1 + 1
          BY <3>1, FS_AddElement
    <3>3. {"producer"} \cup {"consumer"} = {"producer", "consumer"}
          OBVIOUS
    <3> QED BY <2>1, <3>2, <3>3
  <2>3. Sema!Forked(example) \subseteq Sema!Processes \ {"parent"}
        BY <2>1 DEF Sema!Processes
  <2>4. /\ Full("parent") = Sema!Collect(2) /\ 2 \in Nat
        /\ \A x \in Sema!Processes : Full(x) \in Seq(SemaSteps)
        /\ \A x \in Sema!Processes \ {"parent", "producer", "consumer"} : Full(x) = <<>>
        BY <1>3, RingScript
  <2>5. \A x \in Sema!Processes \ (Sema!Forked(example) \cup {"parent"}) : Full(x) = <<>>
        BY <2>1, <2>4
  <2> QED BY <1>1, <2>2, <2>3, <2>4, <2>5, Zenon
<1>4. CASE example = "reader_writer"
  <2>1. Sema!Forked(example) = {"writer"} \cup Children
        BY <1>4 DEF Sema!Forked
  <2>2. /\ IsFiniteSet(Sema!Forked(example)) /\ Cardinality(Children) + 1 \in Nat
        /\ Cardinality(Sema!Forked(example)) = Cardinality(Children) + 1
    <3>1. "writer" \notin Children /\ IsFiniteSet(Children)
          BY SemaAssumption
    <3>2. /\ IsFiniteSet(Children \cup {"writer"})
          /\ Cardinality(Children \cup {"writer"}) = Cardinality(Children) + 1
          BY <3>1, FS_AddElement
    <3>3. Children \cup {"writer"} = {"writer"} \cup Children
          OBVIOUS
    <3>4. Cardinality(Children) + 1 \in Nat
          BY <3>1, FS_CardinalityType
    <3> QED BY <2>1, <3>2, <3>3, <3>4
  <2>3. Sema!Forked(example) \subseteq Sema!Processes \ {"parent"}
        BY <2>1, SemaAssumption DEF Sema!Processes
  <2>4. /\ Full("parent") = Sema!Collect(Cardinality(Children) + 1)
        /\ \A x \in Sema!Processes : Full(x) \in Seq(SemaSteps)
        /\ \A x \in Sema!Processes \ ({"parent", "writer"} \cup Children) : Full(x) = <<>>
        BY <1>4, ReaderScript, Zenon
  <2>5. \A x \in Sema!Processes \ (Sema!Forked(example) \cup {"parent"}) : Full(x) = <<>>
        BY <2>1, <2>4
  <2> QED BY <1>1, <2>2, <2>3, <2>4, <2>5, Zenon
<1>5. CASE example = "counter"
  <2>1. Sema!Forked(example) = Children
        BY <1>5 DEF Sema!Forked
  <2>2. /\ IsFiniteSet(Sema!Forked(example)) /\ Cardinality(Children) \in Nat
        /\ Cardinality(Sema!Forked(example)) = Cardinality(Children)
        BY <2>1, SemaAssumption, FS_CardinalityType
  <2>3. Sema!Forked(example) \subseteq Sema!Processes \ {"parent"}
        BY <2>1, SemaAssumption DEF Sema!Processes
  <2>4. /\ Full("parent") = Sema!Collect(Cardinality(Children))
        /\ \A x \in Sema!Processes : Full(x) \in Seq(SemaSteps)
        /\ \A x \in Sema!Processes \ ({"parent"} \cup Children) : Full(x) = <<>>
        BY <1>5, CounterScript, Zenon
  <2>5. \A x \in Sema!Processes \ (Sema!Forked(example) \cup {"parent"}) : Full(x) = <<>>
        BY <2>1, <2>4
  <2> QED BY <1>1, <2>2, <2>3, <2>4, <2>5, Zenon
<1> QED BY <1>2, <1>3, <1>4, <1>5

\* What a process does when it runs: the step at the head of its script.
LEMMA SemaAct ==
  ASSUME NEW x, Sema!Process(x)
  PROVE  /\ script[x] # <<>> /\ Sema!Advance(x) /\ UNCHANGED example
         /\ \A s : Head(script[x]) = Sema!P(s) => Sema!Down(x, s)
         /\ \A s : Head(script[x]) = Sema!V(s) => Sema!Up(x, s)
         /\ \A y \in {"use", "read", "write"} : Head(script[x]) = Sema!Do(y) => Sema!Use(x)
         /\ Head(script[x]) = Sema!Do("put") => Sema!Put(x)
         /\ Head(script[x]) = Sema!Do("get") => Sema!Get(x)
         /\ Head(script[x]) = Sema!Do("arrive") => Sema!Arrive(x)
         /\ Head(script[x]) = Sema!Do("lock_if_first") => Sema!LockIfFirst(x)
         /\ Head(script[x]) = Sema!Do("depart") => Sema!Depart(x)
         /\ Head(script[x]) = Sema!Do("unlock_if_last") => Sema!UnlockIfLast(x)
         /\ Head(script[x]) = Sema!Do("load") => Sema!Load(x)
         /\ Head(script[x]) = Sema!Do("store") => Sema!Store(x)
         /\ Head(script[x]) = Sema!Do("remove") => Sema!Remove
         /\ \A n : Head(script[x]) = Sema!Wait(n) => Sema!Reap(n)
<1> DEFINE h == Head(script[x])
<1>1. \/ \E s \in {0, 1, 2} : h = Sema!P(s) /\ Sema!Down(x, s)
      \/ \E s \in {0, 1, 2} : h = Sema!V(s) /\ Sema!Up(x, s)
      \/ \E y \in {"use", "read", "write"} : h = Sema!Do(y) /\ Sema!Use(x)
      \/ h = Sema!Do("put") /\ Sema!Put(x)
      \/ h = Sema!Do("get") /\ Sema!Get(x)
      \/ h = Sema!Do("arrive") /\ Sema!Arrive(x)
      \/ h = Sema!Do("lock_if_first") /\ Sema!LockIfFirst(x)
      \/ h = Sema!Do("depart") /\ Sema!Depart(x)
      \/ h = Sema!Do("unlock_if_last") /\ Sema!UnlockIfLast(x)
      \/ h = Sema!Do("load") /\ Sema!Load(x)
      \/ h = Sema!Do("store") /\ Sema!Store(x)
      \/ h = Sema!Do("remove") /\ Sema!Remove
      \/ \E n : h = Sema!Wait(n) /\ Sema!Reap(n)
  <2>1. \A s : Sema!Down(x, s) => h = Sema!P(s)
        BY DEF Sema!Down, Sema!At
  <2>2. \A s : Sema!Up(x, s) => h = Sema!V(s)
        BY DEF Sema!Up, Sema!At
  <2>3. Sema!Use(x) => \E y \in {"use", "read", "write"} : h = Sema!Do(y)
        BY DEF Sema!Use, Sema!At
  <2>4. Sema!Put(x) => h = Sema!Do("put")
        BY DEF Sema!Put, Sema!At
  <2>5. Sema!Get(x) => h = Sema!Do("get")
        BY DEF Sema!Get, Sema!At
  <2>6. Sema!Arrive(x) => h = Sema!Do("arrive")
        BY DEF Sema!Arrive, Sema!At
  <2>7. Sema!LockIfFirst(x) => h = Sema!Do("lock_if_first")
        BY DEF Sema!LockIfFirst, Sema!At
  <2>8. Sema!Depart(x) => h = Sema!Do("depart")
        BY DEF Sema!Depart, Sema!At
  <2>9. Sema!UnlockIfLast(x) => h = Sema!Do("unlock_if_last")
        BY DEF Sema!UnlockIfLast, Sema!At
  <2>10. Sema!Load(x) => h = Sema!Do("load")
        BY DEF Sema!Load, Sema!At
  <2>11. Sema!Store(x) => h = Sema!Do("store")
        BY DEF Sema!Store, Sema!At
  <2>12. x = "parent" /\ Sema!Remove => h = Sema!Do("remove")
        BY DEF Sema!Remove, Sema!At
  <2>13. \A n : x = "parent" /\ Sema!Reap(n) => h = Sema!Wait(n)
        BY DEF Sema!Reap, Sema!At
  <2> HIDE DEF h
  <2> QED BY <2>1, <2>2, <2>3, <2>4, <2>5, <2>6, <2>7, <2>8, <2>9, <2>10, <2>11, <2>12,
             <2>13, Zenon DEF Sema!Process
<1>2. /\ \A s, t : Sema!P(s) = Sema!P(t) => s = t
      /\ \A s, t : Sema!V(s) = Sema!V(t) => s = t
      /\ \A s, t : Sema!Do(s) = Sema!Do(t) => s = t
      /\ \A s, t : Sema!Wait(s) = Sema!Wait(t) => s = t
      /\ \A s, t : /\ Sema!P(s) # Sema!V(t) /\ Sema!P(s) # Sema!Do(t) /\ Sema!P(s) # Sema!Wait(t)
                   /\ Sema!V(s) # Sema!Do(t) /\ Sema!V(s) # Sema!Wait(t)
                   /\ Sema!Do(s) # Sema!Wait(t)
      BY DEF Sema!P, Sema!V, Sema!Do, Sema!Wait
<1>3. script[x] # <<>> /\ Sema!Advance(x) /\ UNCHANGED example
  <2>1. \A s : Sema!Down(x, s) => script[x] # <<>> /\ Sema!Advance(x) /\ UNCHANGED example
        BY DEF Sema!Down, Sema!At
  <2>2. \A s : Sema!Up(x, s) => script[x] # <<>> /\ Sema!Advance(x) /\ UNCHANGED example
        BY DEF Sema!Up, Sema!At
  <2>3. Sema!Use(x) \/ Sema!Put(x) \/ Sema!Get(x) =>
          script[x] # <<>> /\ Sema!Advance(x) /\ UNCHANGED example
        BY DEF Sema!Use, Sema!Put, Sema!Get, Sema!At
  <2>4. Sema!Arrive(x) \/ Sema!LockIfFirst(x) \/ Sema!Depart(x) \/ Sema!UnlockIfLast(x) =>
          script[x] # <<>> /\ Sema!Advance(x) /\ UNCHANGED example
        BY DEF Sema!Arrive, Sema!LockIfFirst, Sema!Depart, Sema!UnlockIfLast, Sema!At
  <2>5. Sema!Load(x) \/ Sema!Store(x) =>
          script[x] # <<>> /\ Sema!Advance(x) /\ UNCHANGED example
        BY DEF Sema!Load, Sema!Store, Sema!At
  <2>6. x = "parent" =>
          /\ Sema!Remove => script[x] # <<>> /\ Sema!Advance(x) /\ UNCHANGED example
          /\ \A n : Sema!Reap(n) => script[x] # <<>> /\ Sema!Advance(x) /\ UNCHANGED example
        BY DEF Sema!Remove, Sema!Reap, Sema!At
  <2> QED BY <2>1, <2>2, <2>3, <2>4, <2>5, <2>6, Zenon DEF Sema!Process
<1> HIDE DEF h
<1>4. \A s : h = Sema!P(s) => Sema!Down(x, s)
      BY <1>1, <1>2, Zenon
<1>5. \A s : h = Sema!V(s) => Sema!Up(x, s)
      BY <1>1, <1>2, Zenon
<1>6. ASSUME NEW y, h = Sema!Do(y)
      PROVE  /\ y \in {"use", "read", "write"} => Sema!Use(x)
             /\ y = "put" => Sema!Put(x)
             /\ y = "get" => Sema!Get(x)
             /\ y = "arrive" => Sema!Arrive(x)
             /\ y = "lock_if_first" => Sema!LockIfFirst(x)
             /\ y = "depart" => Sema!Depart(x)
             /\ y = "unlock_if_last" => Sema!UnlockIfLast(x)
             /\ y = "load" => Sema!Load(x)
             /\ y = "store" => Sema!Store(x)
             /\ y = "remove" => Sema!Remove
  <2>1. \A s : h # Sema!P(s) /\ h # Sema!V(s) /\ h # Sema!Wait(s)
        BY <1>2, <1>6, Zenon
  <2>2. \A z : h = Sema!Do(z) => z = y
        BY <1>2, <1>6, Zenon
  <2>3. \/ y \in {"use", "read", "write"} /\ Sema!Use(x)
        \/ y = "put" /\ Sema!Put(x)
        \/ y = "get" /\ Sema!Get(x)
        \/ y = "arrive" /\ Sema!Arrive(x)
        \/ y = "lock_if_first" /\ Sema!LockIfFirst(x)
        \/ y = "depart" /\ Sema!Depart(x)
        \/ y = "unlock_if_last" /\ Sema!UnlockIfLast(x)
        \/ y = "load" /\ Sema!Load(x)
        \/ y = "store" /\ Sema!Store(x)
        \/ y = "remove" /\ Sema!Remove
        BY <1>1, <2>1, <2>2, Zenon
  <2> QED BY <2>3
<1>7. \A n : h = Sema!Wait(n) => Sema!Reap(n)
      BY <1>1, <1>2, Zenon
<1> QED BY <1>3, <1>4, <1>5, <1>6, <1>7 DEF h

\* A process that makes a step is one step further, the others are not.
LEMMA SemaAdvance ==
  ASSUME SemaPlaces, NEW x \in Sema!Processes, script[x] # <<>>, Sema!Advance(x),
         UNCHANGED example
  PROVE  /\ SemaPlaces'
         /\ \A y \in Sema!Processes : Made(y) \in Nat /\ Made(y)' \in Nat
         /\ Made(x) < Len(Full(x)) /\ Head(script[x]) = Full(x)[Made(x) + 1]
         /\ Made(x)' = Made(x) + 1
         /\ Len(script[x]') = Len(script[x]) - 1
         /\ \A y \in Sema!Processes : y # x => Made(y)' = Made(y) /\ script[y]' = script[y]
<1>1. /\ example \in {"basic", "producer_consumer", "reader_writer", "counter"}
      /\ script \in [Sema!Processes -> Seq(SemaSteps)]
      /\ \A p \in Sema!Processes :
           /\ Len(script[p]) <= Len(Full(p))
           /\ \A k \in 1..Len(script[p]) : script[p][k] = Full(p)[Made(p) + k]
      BY DEF SemaPlaces
<1>2. \A p \in Sema!Processes : Full(p) \in Seq(SemaSteps)
      BY <1>1, ParentScript, Zenon
<1>3. \A p \in Sema!Processes : Full(p)' = Full(p)
      BY DEF Full
<1>4. /\ script' = [script EXCEPT ![x] = Tail(script[x])]
      BY DEF Sema!Advance
<1>5. script[x] \in Seq(SemaSteps) /\ script[x] # <<>>
      BY <1>1
<1>6. /\ Tail(script[x]) \in Seq(SemaSteps)
      /\ Len(Tail(script[x])) = Len(script[x]) - 1 /\ Len(script[x]) >= 1
      /\ \A k \in 1..Len(script[x]) - 1 : Tail(script[x])[k] = script[x][k + 1]
      /\ Head(script[x]) = script[x][1]
      BY <1>5
<1>7. /\ script[x]' = Tail(script[x])
      /\ \A y \in Sema!Processes : y # x => script[y]' = script[y]
      /\ script' \in [Sema!Processes -> Seq(SemaSteps)]
      BY <1>1, <1>4, <1>6
<1>8. \A p \in Sema!Processes : Len(Full(p)) \in Nat /\ Len(script[p]) \in Nat
      BY <1>1, <1>2, LenProperties
<1>9. \A p \in Sema!Processes : Made(p) = Len(Full(p)) - Len(script[p])
      BY DEF Made
<1>10. \A p \in Sema!Processes : Made(p)' = Len(Full(p)) - Len(script[p]')
      BY <1>3 DEF Made
<1>11. Len(script[x]') = Len(script[x]) - 1
      BY <1>6, <1>7
<1>12. Made(x)' = Made(x) + 1 /\ Made(x) < Len(Full(x)) /\ Made(x) \in Nat
  <2>1. /\ Made(x) = Len(Full(x)) - Len(script[x])
        /\ Made(x)' = Len(Full(x)) - Len(script[x]')
        /\ Len(Full(x)) \in Nat /\ Len(script[x]) \in Nat
        /\ Len(script[x]) <= Len(Full(x))
        BY <1>1, <1>8, <1>9, <1>10, Zenon
  <2>2. Len(script[x]) >= 1
        BY <1>6
  <2> QED BY <1>11, <2>1, <2>2
<1>13. ASSUME NEW y \in Sema!Processes, y # x
       PROVE  Made(y)' = Made(y) /\ Made(y) \in Nat
  <2>1. /\ Made(y) = Len(Full(y)) - Len(script[y])
        /\ Made(y)' = Len(Full(y)) - Len(script[y]')
        /\ Len(Full(y)) \in Nat /\ Len(script[y]) \in Nat
        /\ Len(script[y]) <= Len(Full(y)) /\ script[y]' = script[y]
        BY <1>1, <1>7, <1>8, <1>9, <1>10, <1>13, Zenon
  <2> QED BY <2>1
<1>14. Head(script[x]) = Full(x)[Made(x) + 1]
  <2>1. 1 \in 1..Len(script[x])
        BY <1>6, <1>8
  <2> QED BY <1>1, <1>6, <2>1
<1>15. SemaPlaces'
  <2>1. ASSUME NEW p \in Sema!Processes PROVE Len(script[p]') <= Len(Full(p)')
    <3>1. CASE p = x
      <4>1. /\ Full(x)' = Full(x) /\ Len(Full(x)) \in Nat /\ Len(script[x]) \in Nat
            /\ Len(script[x]) <= Len(Full(x))
            BY <1>1, <1>3, <1>8, Zenon
      <4> QED BY <1>11, <3>1, <4>1
    <3>2. CASE p # x
          BY <1>1, <1>3, <1>7, <3>2
    <3> QED BY <3>1, <3>2
  <2>2. ASSUME NEW p \in Sema!Processes, NEW k \in 1..Len(script[p]')
        PROVE  script[p]'[k] = Full(p)'[Made(p)' + k]
    <3>1. CASE p = x
      <4>1. k \in 1..Len(script[x]) - 1 /\ k + 1 \in 1..Len(script[x])
            BY <1>8, <1>11, <2>2, <3>1
      <4>2. script[p]'[k] = script[x][k + 1]
            BY <1>6, <1>7, <3>1, <4>1
      <4>3. script[x][k + 1] = Full(x)[Made(x) + (k + 1)]
            BY <1>1, <4>1
      <4>4. Made(x) + (k + 1) = Made(x)' + k
            BY <1>12, <4>1
      <4> QED BY <1>3, <3>1, <4>2, <4>3, <4>4
    <3>2. CASE p # x
          BY <1>1, <1>3, <1>7, <1>13, <2>2, <3>2
    <3> QED BY <3>1, <3>2
  <2> QED BY <1>1, <1>7, <2>1, <2>2 DEF SemaPlaces
<1> QED BY <1>7, <1>11, <1>12, <1>13, <1>14, <1>15

\* A quotient and a remainder when the number grows by one.
LEMMA NextStep ==
  ASSUME NEW j \in Nat
  PROVE  /\ j % 5 \in 0..4 /\ (j + 1) % 5 = IF j % 5 = 4 THEN 0 ELSE (j % 5) + 1
         /\ j % 9 \in 0..8 /\ (j + 1) % 9 = IF j % 9 = 8 THEN 0 ELSE (j % 9) + 1
         /\ j % 4 \in 0..3 /\ (j + 1) % 4 = IF j % 4 = 3 THEN 0 ELSE (j % 4) + 1
         /\ j % 3 \in 0..2 /\ (j + 1) % 3 = IF j % 3 = 2 THEN 0 ELSE (j % 3) + 1
         /\ (j + 1) \div 5 = (j \div 5) + IF j % 5 = 4 THEN 1 ELSE 0
         /\ ((j + 1) + 2) \div 5 = ((j + 2) \div 5) + IF j % 5 = 2 THEN 1 ELSE 0
         /\ ((j + 1) + 4) \div 5 = ((j + 4) \div 5) + IF j % 5 = 0 THEN 1 ELSE 0
         /\ ((j + 1) + 1) \div 4 = ((j + 1) \div 4) + IF j % 4 = 2 THEN 1 ELSE 0
<1>1. /\ j % 5 \in 0..4 /\ (j + 1) % 5 = IF j % 5 = 4 THEN 0 ELSE (j % 5) + 1
      OBVIOUS
<1>2. /\ j % 9 \in 0..8 /\ (j + 1) % 9 = IF j % 9 = 8 THEN 0 ELSE (j % 9) + 1
      OBVIOUS
<1>3. /\ j % 4 \in 0..3 /\ (j + 1) % 4 = IF j % 4 = 3 THEN 0 ELSE (j % 4) + 1
      OBVIOUS
<1>4. /\ j % 3 \in 0..2 /\ (j + 1) % 3 = IF j % 3 = 2 THEN 0 ELSE (j % 3) + 1
      OBVIOUS
<1>5. (j + 1) \div 5 = (j \div 5) + IF j % 5 = 4 THEN 1 ELSE 0
      OBVIOUS
<1>6. ((j + 1) + 2) \div 5 = ((j + 2) \div 5) + IF j % 5 = 2 THEN 1 ELSE 0
      OBVIOUS
<1>7. ((j + 1) + 4) \div 5 = ((j + 4) \div 5) + IF j % 5 = 0 THEN 1 ELSE 0
      OBVIOUS
<1>8. ((j + 1) + 1) \div 4 = ((j + 1) \div 4) + IF j % 4 = 2 THEN 1 ELSE 0
      OBVIOUS
<1> QED BY <1>1, <1>2, <1>3, <1>4, <1>5, <1>6, <1>7, <1>8

\* How the quotients of a number lie to each other.
LEMMA Quotients ==
  ASSUME NEW j \in Nat
  PROVE  /\ j \div 5 \in Nat /\ (j + 2) \div 5 \in Nat /\ (j + 4) \div 5 \in Nat
         /\ (j + 1) \div 4 \in Nat
         /\ j \div 5 <= (j + 2) \div 5 /\ (j + 2) \div 5 <= (j + 4) \div 5
         /\ (j + 4) \div 5 <= (j \div 5) + 1
         /\ j % 5 \in {1, 2} => /\ (j + 2) \div 5 = j \div 5
                                /\ (j + 4) \div 5 = (j \div 5) + 1
OBVIOUS

\* What the mutex needs of a step: x takes it, frees it or leaves it.
LEMMA MutexStep ==
  ASSUME MutexHeld, NEW x \in Sema!Processes,
         \A y \in Sema!Processes : y # x => (HasMutex(y)' <=> HasMutex(y)),
         \/ sem[0] > 0 /\ sem'[0] = sem[0] - 1
         \/ HasMutex(x) /\ ~HasMutex(x)' /\ sem'[0] = sem[0] + 1
         \/ sem'[0] = sem[0] /\ (HasMutex(x)' => HasMutex(x))
  PROVE  MutexHeld'
<1>1. /\ sem[0] \in {0, 1}
      /\ \A p \in Sema!Processes : HasMutex(p) => sem[0] = 0
      /\ \A p, q \in Sema!Processes : HasMutex(p) /\ HasMutex(q) => p = q
      BY DEF MutexHeld
<1>2. CASE sem[0] > 0 /\ sem'[0] = sem[0] - 1
  <2>1. sem'[0] = 0 /\ \A p \in Sema!Processes : ~HasMutex(p)
        BY <1>1, <1>2
  <2>2. \A p \in Sema!Processes : HasMutex(p)' => p = x
        BY <2>1
  <2> QED BY <2>1, <2>2 DEF MutexHeld
<1>3. CASE HasMutex(x) /\ ~HasMutex(x)' /\ sem'[0] = sem[0] + 1
  <2>1. sem'[0] = 1 /\ \A p \in Sema!Processes : p # x => ~HasMutex(p)
        BY <1>1, <1>3
  <2>2. \A p \in Sema!Processes : ~HasMutex(p)'
        BY <1>3, <2>1
  <2> QED BY <2>1, <2>2 DEF MutexHeld
<1>4. CASE sem'[0] = sem[0] /\ (HasMutex(x)' => HasMutex(x))
  <2>1. \A p \in Sema!Processes : HasMutex(p)' => HasMutex(p)
        BY <1>4
  <2> QED BY <1>1, <1>4, <2>1 DEF MutexHeld
<1> QED BY <1>2, <1>3, <1>4

\* Only the parent removes the semaphores.
LEMMA SemaRemoves ==
  ASSUME NEW x, Sema!Process(x)
  PROVE  UNCHANGED removed \/ (x = "parent" /\ Sema!Remove)
<1>1. \A s : Sema!Down(x, s) \/ Sema!Up(x, s) => UNCHANGED removed
      BY DEF Sema!Down, Sema!Up
<1>2. Sema!Use(x) \/ Sema!Put(x) \/ Sema!Get(x) => UNCHANGED removed
      BY DEF Sema!Use, Sema!Put, Sema!Get
<1>3. Sema!Arrive(x) \/ Sema!LockIfFirst(x) \/ Sema!Depart(x) \/ Sema!UnlockIfLast(x)
        => UNCHANGED removed
      BY DEF Sema!Arrive, Sema!LockIfFirst, Sema!Depart, Sema!UnlockIfLast
<1>4. Sema!Load(x) \/ Sema!Store(x) => UNCHANGED removed
      BY DEF Sema!Load, Sema!Store
<1>5. \A n : Sema!Reap(n) => UNCHANGED removed
      BY DEF Sema!Reap
<1> QED BY <1>1, <1>2, <1>3, <1>4, <1>5, Zenon DEF Sema!Process

\* Its last wait returns when everyone has ended.
LEMMA CollectedStep ==
  ASSUME SemaExact, NEW x \in Sema!Processes, Sema!Process(x)
  PROVE  Collected'
<1> DEFINE F == Sema!Forked(example)
           L == Len(Full("parent"))
<1>1. SemaPlaces /\ Collected /\ removed \in BOOLEAN
      BY DEF SemaExact, SemaTyped
<1>2. script[x] # <<>> /\ Sema!Advance(x) /\ UNCHANGED example
      BY SemaAct, Zenon
<1>3. /\ \A y \in Sema!Processes : Made(y) \in Nat
      /\ Made(x) < Len(Full(x)) /\ Head(script[x]) = Full(x)[Made(x) + 1]
      /\ Len(script[x]') = Len(script[x]) - 1
      /\ \A y \in Sema!Processes : y # x => script[y]' = script[y]
      BY <1>1, <1>2, SemaAdvance, Zenon
<1>4. /\ IsFiniteSet(F) /\ F \subseteq Sema!Processes \ {"parent"}
      /\ \A y \in Sema!Processes : Full(y) \in Seq(SemaSteps)
      /\ \A y \in Sema!Processes \ (F \cup {"parent"}) : Full(y) = <<>>
      /\ Full("parent")[L] = Sema!Do("remove")
      /\ \A k \in 1..L : Full("parent")[k] = Sema!Do("remove") => k = L
      /\ L > 1 => Full("parent")[L - 1] = Sema!Wait(Cardinality(F))
      BY <1>1, ParentScript, Zenon DEF SemaPlaces
<1>5. "parent" \in Sema!Processes /\ F' = F
      BY <1>2 DEF Sema!Processes
<1>6. \A y \in Sema!Processes : script[y] \in Seq(SemaSteps) /\ Len(script[y]) \in Nat
      BY <1>1, LenProperties DEF SemaPlaces
<1>7. /\ Len(script["parent"]) <= 1 => \A p \in F : script[p] = <<>>
      /\ removed => script["parent"] = <<>>
      BY <1>1, Zenon DEF Collected
<1> HIDE DEF F
<1>8. x \in F \cup {"parent"}
  <2> SUFFICES ASSUME x \notin F \cup {"parent"} PROVE FALSE
      OBVIOUS
  <2>1. Full(x) = <<>>
        BY <1>4
  <2>2. Len(Full(x)) = 0
        BY <2>1
  <2> QED BY <1>3, <2>2
<1>9. CASE x \in F
  <2>1. x # "parent"
        BY <1>4, <1>9
  <2>2. Len(script["parent"]) > 1
        BY <1>2, <1>5, <1>6, <1>7, <1>9
  <2>3. script["parent"] # <<>>
        BY <2>2
  <2>4. removed' = FALSE
        BY <1>1, <1>7, <2>1, <2>3, SemaRemoves
  <2>5. script["parent"]' = script["parent"]
        BY <1>3, <1>5, <2>1
  <2> QED BY <1>5, <2>2, <2>4, <2>5 DEF Collected, F
<1>10. CASE x = "parent"
  <2>1. \A p \in F : script[p]' = script[p]
        BY <1>3, <1>4, <1>10
  <2>2. Made("parent") = L - Len(script["parent"])
        BY DEF Made
  <2>3. /\ L \in Nat /\ Len(script["parent"]) \in Nat /\ script["parent"] \in Seq(SemaSteps)
        /\ Len(script["parent"]') = Len(script["parent"]) - 1
        /\ Head(script["parent"]) = Full("parent")[Made("parent") + 1]
        /\ Made("parent") < L /\ Made("parent") \in Nat
        BY <1>3, <1>4, <1>5, <1>6, <1>10, LenProperties
  <2>4. removed = FALSE
        BY <1>1, <1>2, <1>7, <1>10
  <2>5. Len(script["parent"]') <= 1 => \A p \in F : script[p]' = <<>>
    <3> SUFFICES ASSUME Len(script["parent"]') <= 1 PROVE \A p \in F : script[p]' = <<>>
        OBVIOUS
    <3>1. CASE Len(script["parent"]) <= 1
          BY <1>7, <2>1, <3>1
    <3>2. CASE Len(script["parent"]) = 2
      <4>1. Made("parent") + 1 = L - 1 /\ L > 1
            BY <2>2, <2>3, <3>2
      <4>2. Head(script[x]) = Sema!Wait(Cardinality(F))
            BY <1>4, <1>10, <2>3, <4>1
      <4>3. Sema!Reap(Cardinality(F))
            BY <4>2, SemaAct, Zenon
      <4> DEFINE E == {p \in F : script[p] = <<>>}
      <4>4. Cardinality(E) >= Cardinality(F)
        <5>1. Sema!Cardinality({p \in F : Sema!Ended(p)}) >= Cardinality(F)
              BY <4>3 DEF Sema!Reap, F
        <5>2. {p \in F : Sema!Ended(p)} = E
              BY DEF Sema!Ended
        <5> QED BY <5>1, <5>2, SemaCardinality
      <4>5. E \subseteq F
            OBVIOUS
      <4> HIDE DEF E
      <4>6. E = F
        <5>1. /\ Cardinality(E) <= Cardinality(F)
              /\ Cardinality(E) = Cardinality(F) => E = F
              BY <1>4, <4>5, FS_Subset
        <5>2. Cardinality(E) \in Nat /\ Cardinality(F) \in Nat
              BY <1>4, <4>5, FS_Subset, FS_CardinalityType
        <5> QED BY <4>4, <5>1, <5>2
      <4>7. \A p \in F : script[p] = <<>>
            BY <4>6 DEF E
      <4> QED BY <2>1, <4>7, Zenon
    <3>3. Len(script["parent"]) - 1 <= 1
          BY <2>3
    <3>4. Len(script["parent"]) <= 1 \/ Len(script["parent"]) = 2
      <4> DEFINE n == Len(script["parent"])
      <4>1. n \in Nat /\ n - 1 <= 1
            BY <2>3, <3>3
      <4> HIDE DEF n
      <4>2. n <= 1 \/ n = 2
            BY <4>1
      <4> QED BY <4>2 DEF n
    <3> QED BY <3>1, <3>2, <3>4
  <2>6. removed' => script["parent"]' = <<>>
    <3> SUFFICES ASSUME Sema!Remove PROVE script["parent"]' = <<>>
        BY <2>4, SemaRemoves
    <3>1. Head(script["parent"]) = Sema!Do("remove")
          BY DEF Sema!Remove, Sema!At
    <3>2. Made("parent") + 1 \in 1..L
          BY <2>3
    <3>3. Made("parent") + 1 = L
      <4>1. Full("parent")[Made("parent") + 1] = Sema!Do("remove")
            BY <2>3, <3>1
      <4>2. \A k \in 1..L : Full("parent")[k] = Sema!Do("remove") => k = L
            BY <1>4
      <4> HIDE DEF L
      <4> QED BY <3>2, <4>1, <4>2, Zenon
    <3>4. Len(script["parent"]') = 0
      <4> DEFINE n == Len(script["parent"])
      <4>1. /\ n \in Nat /\ L \in Nat /\ Made("parent") = L - n
            /\ Len(script["parent"]') = n - 1
            BY <2>2, <2>3
      <4> HIDE DEF n, L
      <4>2. n = 1
            BY <3>3, <4>1
      <4> QED BY <4>1, <4>2
    <3>5. script["parent"]' \in Seq(SemaSteps)
      <4>1. SemaPlaces'
            BY <1>1, <1>2, SemaAdvance, Zenon
      <4> QED BY <1>5, <4>1 DEF SemaPlaces
    <3> QED BY <3>4, <3>5
  <2> QED BY <1>5, <2>5, <2>6, Zenon DEF Collected, F
<1> QED BY <1>8, <1>9, <1>10

LEMMA BasicStep ==
  ASSUME SemaExact, example = "basic", NEW x \in Sema!Processes, Sema!Process(x)
  PROVE  SemaTyped' /\ SemaIdle' /\ MutexHeld'
<1>1. SemaPlaces /\ SemaTyped /\ SemaIdle /\ MutexHeld
      BY DEF SemaExact
<1>2. script[x] # <<>> /\ Sema!Advance(x) /\ UNCHANGED example
      BY SemaAct, Zenon
<1>3. /\ Made(x) \in Nat /\ Made(x) < Len(Full(x)) /\ Head(script[x]) = Full(x)[Made(x) + 1]
      /\ Made(x)' = Made(x) + 1
      /\ \A y \in Sema!Processes : y # x => Made(y)' = Made(y)
      BY <1>1, <1>2, SemaAdvance, Zenon
<1>4. \A y \in Sema!Processes : y # x => (HasMutex(y)' <=> HasMutex(y))
      BY <1>2, <1>3 DEF HasMutex
<1>5. x \in {"parent", "child"}
  <2> SUFFICES ASSUME x \notin {"parent", "child"} PROVE FALSE
      OBVIOUS
  <2>1. Full(x) = <<>>
        BY BasicScript
  <2> QED BY <1>3, <2>1
<1>6. /\ HasMutex(x) <=> Made(x) \in {1, 2}
      /\ HasMutex(x)' <=> Made(x)' \in {1, 2}
      BY <1>2, <1>5 DEF HasMutex
<1>7. CASE Made(x) = 0
  <2>1. Head(script[x]) = Sema!P(0)
        BY <1>3, <1>5, <1>7, BasicScript
  <2>2. Sema!Down(x, 0)
        BY <2>1, SemaAct, Zenon
  <2>3. /\ sem[0] > 0 /\ sem' = [sem EXCEPT ![0] = sem[0] - 1]
        /\ UNCHANGED <<example, items, in, out, count, made, got, reader_count, counter,
                       old_value, removed>>
        BY <2>2 DEF Sema!Down, Sema!ringVars, Sema!readerVars, Sema!countVars
  <2>4. SemaTyped' /\ sem'[0] = sem[0] - 1 /\ sem'[1] = sem[1] /\ sem'[2] = sem[2]
        BY <1>1, <2>3 DEF SemaTyped
  <2>5. SemaIdle'
        BY <1>1, <2>3, <2>4 DEF SemaIdle
  <2>6. MutexHeld'
        BY <1>1, <1>4, <2>3, <2>4, MutexStep
  <2> QED BY <2>4, <2>5, <2>6
<1>8. CASE Made(x) = 2
  <2>1. Head(script[x]) = Sema!V(0)
        BY <1>3, <1>5, <1>8, BasicScript
  <2>2. Sema!Up(x, 0)
        BY <2>1, SemaAct, Zenon
  <2>3. /\ sem' = [sem EXCEPT ![0] = sem[0] + 1]
        /\ UNCHANGED <<example, items, in, out, count, made, got, reader_count, counter,
                       old_value, removed>>
        BY <2>2 DEF Sema!Up, Sema!ringVars, Sema!readerVars, Sema!countVars
  <2>4. SemaTyped' /\ sem'[0] = sem[0] + 1 /\ sem'[1] = sem[1] /\ sem'[2] = sem[2]
        BY <1>1, <2>3 DEF SemaTyped
  <2>5. SemaIdle'
        BY <1>1, <2>3, <2>4 DEF SemaIdle
  <2>6. HasMutex(x) /\ ~HasMutex(x)'
        BY <1>3, <1>6, <1>8
  <2>7. MutexHeld'
        BY <1>1, <1>4, <2>4, <2>6, MutexStep
  <2> QED BY <2>4, <2>5, <2>7
<1>9. CASE Made(x) \notin {0, 2}
  <2>1. /\ UNCHANGED <<example, sem, items, in, out, count, made, got, reader_count, counter,
                       old_value>>
        /\ removed' \in BOOLEAN
    <3>1. CASE Made(x) = 1
      <4>1. Head(script[x]) = Sema!Do("use")
            BY <1>3, <1>5, <3>1, BasicScript
      <4>2. Sema!Use(x)
            BY <4>1, SemaAct
      <4> QED BY <1>1, <4>2
              DEF Sema!Use, Sema!ringVars, Sema!readerVars, Sema!countVars, SemaTyped
    <3>2. CASE Made(x) = 3 /\ x = "parent"
      <4>1. Head(script[x]) = Sema!Wait(1)
            BY <1>3, <3>2, BasicScript
      <4>2. Sema!Reap(1)
            BY <4>1, SemaAct, Zenon
      <4> QED BY <1>1, <4>2
              DEF Sema!Reap, Sema!ringVars, Sema!readerVars, Sema!countVars, SemaTyped
    <3>3. CASE Made(x) = 4 /\ x = "parent"
      <4>1. Head(script[x]) = Sema!Do("remove")
            BY <1>3, <3>3, BasicScript
      <4>2. Sema!Remove
            BY <4>1, SemaAct, Zenon
      <4> QED BY <1>1, <4>2
              DEF Sema!Remove, Sema!ringVars, Sema!readerVars, Sema!countVars, SemaTyped
    <3>4. x = "parent" => Made(x) < 5
          BY <1>3, BasicScript
    <3>5. x = "child" => Made(x) < 3
          BY <1>3, BasicScript
    <3> QED BY <1>3, <1>5, <1>9, <3>1, <3>2, <3>3, <3>4, <3>5
  <2>2. SemaTyped'
        BY <1>1, <2>1 DEF SemaTyped
  <2>3. SemaIdle'
        BY <1>1, <2>1 DEF SemaIdle
  <2>4. sem'[0] = sem[0] /\ (HasMutex(x)' => HasMutex(x))
        BY <1>3, <1>6, <1>9, <2>1
  <2>5. MutexHeld'
        BY <1>1, <1>4, <2>4, MutexStep
  <2> QED BY <2>2, <2>3, <2>5
<1> QED BY <1>7, <1>8, <1>9

\* The parent only waits and removes, but in the basic example.
LEMMA ParentStep ==
  ASSUME SemaExact, example # "basic", Sema!Process("parent")
  PROVE  /\ UNCHANGED <<example, sem, items, in, out, count, made, got, reader_count,
                        counter, old_value>>
         /\ removed' \in BOOLEAN
         /\ \A y \in Sema!Processes : y # "parent" => Made(y)' = Made(y)
         /\ \A y \in Sema!Processes : HasMutex(y)' <=> HasMutex(y)
<1>0. "parent" \in Sema!Processes
      BY DEF Sema!Processes
<1>1. SemaPlaces /\ removed \in BOOLEAN
      BY DEF SemaExact, SemaTyped
<1>2. script["parent"] # <<>> /\ Sema!Advance("parent") /\ UNCHANGED example
      BY SemaAct, Zenon
<1>3. /\ Made("parent") \in Nat /\ Made("parent") < Len(Full("parent"))
      /\ Head(script["parent"]) = Full("parent")[Made("parent") + 1]
      /\ \A y \in Sema!Processes : y # "parent" => Made(y)' = Made(y)
      BY <1>0, <1>1, <1>2, SemaAdvance, Zenon
<1>4. PICK n \in Nat : Full("parent") = Sema!Collect(n)
  <2>1. Cardinality(Children) \in Nat /\ Cardinality(Children) + 1 \in Nat /\ 2 \in Nat
        BY SemaAssumption, FS_CardinalityType
  <2>2. example \in {"producer_consumer", "reader_writer", "counter"}
        BY <1>1 DEF SemaPlaces
  <2> QED BY <2>1, <2>2, RingScript, ReaderScript, CounterScript, Zenon
<1>5. /\ Len(Full("parent")) = n + 1 /\ Full("parent")[n + 1] = Sema!Do("remove")
      /\ \A k \in 1..n : Full("parent")[k] = Sema!Wait(k)
      BY <1>4, CollectSteps
<1>6. Made("parent") + 1 \in 1..n \/ Made("parent") + 1 = n + 1
      BY <1>3, <1>5
<1>7. \/ \E k : Head(script["parent"]) = Sema!Wait(k)
      \/ Head(script["parent"]) = Sema!Do("remove")
      BY <1>3, <1>5, <1>6, Zenon
<1>8. Sema!Remove \/ \E k : Sema!Reap(k)
      BY <1>7, SemaAct, Zenon
<1>9. /\ UNCHANGED <<example, sem, items, in, out, count, made, got, reader_count,
                     counter, old_value>>
      /\ removed' \in BOOLEAN
      BY <1>1, <1>8
      DEF Sema!Reap, Sema!Remove, Sema!ringVars, Sema!readerVars, Sema!countVars
<1>10. ~HasMutex("parent") /\ ~HasMutex("parent")'
      BY <1>2, SemaAssumption DEF HasMutex
<1>11. \A y \in Sema!Processes : y # "parent" => (HasMutex(y)' <=> HasMutex(y))
      BY <1>2, <1>3 DEF HasMutex
<1> QED BY <1>3, <1>9, <1>10, <1>11

LEMMA PutStep ==
  ASSUME SemaExact, example = "producer_consumer", Sema!Process("producer")
  PROVE  SemaTyped' /\ SemaIdle' /\ MutexHeld' /\ RingHeld'
<1> DEFINE j == Made("producer")
           c == Made("consumer")
<1> USE SharedAssumption, SemaAssumption
<1>0. "producer" \in Sema!Processes /\ "consumer" \in Sema!Processes
      BY DEF Sema!Processes
<1>1. SemaPlaces /\ SemaTyped /\ SemaIdle /\ MutexHeld
      BY DEF SemaExact
<1>2. script["producer"] # <<>> /\ Sema!Advance("producer") /\ UNCHANGED example
      BY SemaAct, Zenon
<1>3. /\ j \in Nat /\ c \in Nat /\ j < Len(Full("producer"))
      /\ Head(script["producer"]) = Full("producer")[j + 1]
      /\ Made("producer")' = j + 1
      /\ \A y \in Sema!Processes : y # "producer" => Made(y)' = Made(y)
      BY <1>0, <1>1, <1>2, SemaAdvance, Zenon
<1>4. Made("consumer")' = c
      BY <1>0, <1>3
<1>5. \A y \in Sema!Processes : y # "producer" => (HasMutex(y)' <=> HasMutex(y))
      BY <1>2, <1>3 DEF HasMutex
<1>6. /\ HasMutex("producer") <=> j % 5 \in {2, 3}
      /\ HasMutex("producer")' <=> (j + 1) % 5 \in {2, 3}
      BY <1>2, <1>3 DEF HasMutex
<1>7. /\ j % 5 = 0 => Head(script["producer"]) = Sema!P(1)
      /\ j % 5 = 1 => Head(script["producer"]) = Sema!P(0)
      /\ j % 5 = 2 => Head(script["producer"]) = Sema!Do("put")
      /\ j % 5 = 3 => Head(script["producer"]) = Sema!V(0)
      /\ j % 5 = 4 => Head(script["producer"]) = Sema!V(2)
  <2>1. j \in Nat /\ j < Items * 5
        BY <1>3, RingScript
  <2> QED BY <1>3, <2>1, RingScript, Zenon
<1>8. /\ sem[1] = (Slots - (j + 4) \div 5) + c \div 5
      /\ sem[2] = j \div 5 - (c + 4) \div 5
      /\ made = (j + 2) \div 5
      /\ Len(got) = (c + 2) \div 5
      /\ count = made - Len(got)
      /\ in = made % Slots /\ out = Len(got) % Slots
      /\ \A k \in 1..Len(got) : got[k] = k
      /\ \A k \in Nat : Len(got) <= k /\ k < made => items[k % Slots] = k + 1
      BY DEF SemaExact, RingHeld
<1> HIDE DEF j, c
<1>9. CASE j % 5 = 0
  <2>1. Sema!Down("producer", 1)
        BY <1>7, <1>9, SemaAct, Zenon
  <2>2. /\ sem[1] > 0 /\ sem' = [sem EXCEPT ![1] = sem[1] - 1]
        /\ UNCHANGED <<example, items, in, out, count, made, got, reader_count, counter,
                       old_value, removed>>
        BY <2>1 DEF Sema!Down, Sema!ringVars, Sema!readerVars, Sema!countVars
  <2>3. SemaTyped' /\ sem'[0] = sem[0] /\ sem'[1] = sem[1] - 1 /\ sem'[2] = sem[2]
        BY <1>1, <2>2 DEF SemaTyped
  <2>4. SemaIdle'
        BY <1>1, <2>2 DEF SemaIdle
  <2>5. HasMutex("producer")' => HasMutex("producer")
        BY <1>3, <1>6, <1>9, NextStep
  <2>6. MutexHeld'
        BY <1>0, <1>1, <1>5, <2>3, <2>5, MutexStep
  <2>7. /\ ((j + 1) + 4) \div 5 = ((j + 4) \div 5) + 1 /\ (j + 1) \div 5 = j \div 5
        /\ ((j + 1) + 2) \div 5 = (j + 2) \div 5
        /\ (j + 4) \div 5 \in Nat /\ c \div 5 \in Nat
        BY <1>3, <1>9, NextStep, Quotients
  <2>8. sem'[1] = (Slots - ((j + 1) + 4) \div 5) + c \div 5
        BY <1>8, <2>3, <2>7
  <2> QED BY <1>3, <1>4, <1>8, <2>2, <2>3, <2>4, <2>6, <2>7, <2>8, Zenon DEF RingHeld
<1>10. CASE j % 5 = 1
  <2>1. Sema!Down("producer", 0)
        BY <1>7, <1>10, SemaAct, Zenon
  <2>2. /\ sem[0] > 0 /\ sem' = [sem EXCEPT ![0] = sem[0] - 1]
        /\ UNCHANGED <<example, items, in, out, count, made, got, reader_count, counter,
                       old_value, removed>>
        BY <2>1 DEF Sema!Down, Sema!ringVars, Sema!readerVars, Sema!countVars
  <2>3. SemaTyped' /\ sem'[0] = sem[0] - 1 /\ sem'[1] = sem[1] /\ sem'[2] = sem[2]
        BY <1>1, <2>2 DEF SemaTyped
  <2>4. SemaIdle'
        BY <1>1, <2>2 DEF SemaIdle
  <2>6. MutexHeld'
        BY <1>0, <1>1, <1>5, <2>2, <2>3, MutexStep
  <2>7. /\ ((j + 1) + 4) \div 5 = (j + 4) \div 5 /\ (j + 1) \div 5 = j \div 5
        /\ ((j + 1) + 2) \div 5 = (j + 2) \div 5
        BY <1>3, <1>10, NextStep, Quotients
  <2> QED BY <1>3, <1>4, <1>8, <2>2, <2>3, <2>4, <2>6, <2>7, Zenon DEF RingHeld
<1>11. CASE j % 5 = 2
  <2>1. Sema!Put("producer")
        BY <1>7, <1>11, SemaAct, Zenon
  <2>2. /\ items' = [items EXCEPT ![in] = made + 1]
        /\ made' = made + 1 /\ in' = (in + 1) % Slots /\ count' = count + 1
        /\ UNCHANGED <<example, sem, out, got, reader_count, counter, old_value, removed>>
        BY <2>1 DEF Sema!Put, Sema!readerVars, Sema!countVars
  <2>3. /\ sem \in [{0, 1, 2} -> Nat] /\ items \in [0..Slots - 1 -> Nat]
        /\ in \in 0..Slots - 1 /\ count \in Int /\ made \in Nat /\ Len(got) \in Nat
        BY <1>1 DEF SemaTyped
  <2>4. in' = (made + 1) % Slots
        BY <1>8, <2>2, <2>3, NextSlot
  <2>5. in' \in 0..Slots - 1
        BY <2>2, <2>3
  <2>6. SemaTyped'
    <3>1. items' \in [0..Slots - 1 -> Nat] /\ made' \in Nat /\ count' \in Int
          BY <2>2, <2>3
    <3> QED BY <1>1, <2>2, <2>5, <3>1 DEF SemaTyped
  <2>7. SemaIdle'
        BY <1>1, <2>2 DEF SemaIdle
  <2>8. HasMutex("producer")' => HasMutex("producer")
        BY <1>6, <1>11
  <2>9. MutexHeld'
        BY <1>0, <1>1, <1>5, <2>2, <2>8, MutexStep
  <2>10. /\ ((j + 1) + 4) \div 5 = (j + 4) \div 5 /\ (j + 1) \div 5 = j \div 5
         /\ ((j + 1) + 2) \div 5 = ((j + 2) \div 5) + 1
         BY <1>3, <1>11, NextStep
  <2>11. made - Len(got) < Slots
    <3>1. /\ (j + 2) \div 5 = j \div 5 /\ (j + 4) \div 5 = (j \div 5) + 1
          /\ j \div 5 \in Nat /\ c \div 5 \in Nat /\ (c + 2) \div 5 \in Nat
          /\ c \div 5 <= (c + 2) \div 5
          BY <1>3, <1>11, Quotients
    <3>2. sem[1] \in Nat
          BY <2>3
    <3>3. /\ sem[1] = (Slots - (j + 4) \div 5) + c \div 5
          /\ made = (j + 2) \div 5 /\ Len(got) = (c + 2) \div 5
          BY <1>8, Zenon
    <3> QED BY <3>1, <3>2, <3>3
  <2>12. ASSUME NEW k \in Nat, Len(got) <= k, k < made + 1
         PROVE  items'[k % Slots] = k + 1
    <3>1. CASE k = made
          BY <1>8, <2>2, <2>3, <3>1
    <3>2. CASE k # made
      <4>1. k < made
            BY <2>3, <2>12, <3>2
      <4>2. k % Slots # made % Slots
        <5> SUFFICES ASSUME k % Slots = made % Slots PROVE FALSE
            OBVIOUS
        <5>1. made \in Nat /\ Slots \in Nat \ {0}
              BY <2>3
        <5>2. made - k >= Slots
              BY <4>1, <5>1, SameSlot
        <5> QED BY <2>3, <2>11, <2>12, <5>2
      <4>3. items[k % Slots] = k + 1
            BY <1>8, <2>12, <4>1
      <4> QED BY <1>8, <2>2, <2>3, <4>2, <4>3
    <3> QED BY <3>1, <3>2
  <2>13. count' = made' - Len(got)
    <3>1. count = made - Len(got)
          BY <1>8, Zenon
    <3> QED BY <2>2, <2>3, <3>1
  <2>14. \A k \in Nat : Len(got) <= k /\ k < made' => items'[k % Slots] = k + 1
         BY <2>2, <2>12
  <2>15. made' = ((j + 1) + 2) \div 5
         BY <1>8, <2>2, <2>10
  <2> QED BY <1>3, <1>4, <1>8, <2>2, <2>4, <2>6, <2>7, <2>9, <2>10, <2>13, <2>14, <2>15, Zenon
          DEF RingHeld
<1>12. CASE j % 5 = 3
  <2>1. Sema!Up("producer", 0)
        BY <1>7, <1>12, SemaAct, Zenon
  <2>2. /\ sem' = [sem EXCEPT ![0] = sem[0] + 1]
        /\ UNCHANGED <<example, items, in, out, count, made, got, reader_count, counter,
                       old_value, removed>>
        BY <2>1 DEF Sema!Up, Sema!ringVars, Sema!readerVars, Sema!countVars
  <2>3. SemaTyped' /\ sem'[0] = sem[0] + 1 /\ sem'[1] = sem[1] /\ sem'[2] = sem[2]
        BY <1>1, <2>2 DEF SemaTyped
  <2>4. SemaIdle'
        BY <1>1, <2>2 DEF SemaIdle
  <2>5. HasMutex("producer") /\ ~HasMutex("producer")'
        BY <1>3, <1>6, <1>12, NextStep
  <2>6. MutexHeld'
        BY <1>0, <1>1, <1>5, <2>3, <2>5, MutexStep
  <2>7. /\ ((j + 1) + 4) \div 5 = (j + 4) \div 5 /\ (j + 1) \div 5 = j \div 5
        /\ ((j + 1) + 2) \div 5 = (j + 2) \div 5
        BY <1>3, <1>12, NextStep, Quotients
  <2> QED BY <1>3, <1>4, <1>8, <2>2, <2>3, <2>4, <2>6, <2>7, Zenon DEF RingHeld
<1>13. CASE j % 5 = 4
  <2>1. Sema!Up("producer", 2)
        BY <1>7, <1>13, SemaAct, Zenon
  <2>2. /\ sem' = [sem EXCEPT ![2] = sem[2] + 1]
        /\ UNCHANGED <<example, items, in, out, count, made, got, reader_count, counter,
                       old_value, removed>>
        BY <2>1 DEF Sema!Up, Sema!ringVars, Sema!readerVars, Sema!countVars
  <2>3. SemaTyped' /\ sem'[0] = sem[0] /\ sem'[1] = sem[1] /\ sem'[2] = sem[2] + 1
        BY <1>1, <2>2 DEF SemaTyped
  <2>4. SemaIdle'
        BY <1>1, <2>2 DEF SemaIdle
  <2>5. HasMutex("producer")' => HasMutex("producer")
        BY <1>3, <1>6, <1>13, NextStep
  <2>6. MutexHeld'
        BY <1>0, <1>1, <1>5, <2>3, <2>5, MutexStep
  <2>7. /\ ((j + 1) + 4) \div 5 = (j + 4) \div 5 /\ (j + 1) \div 5 = (j \div 5) + 1
        /\ ((j + 1) + 2) \div 5 = (j + 2) \div 5
        /\ (c + 4) \div 5 \in Nat /\ j \div 5 \in Nat
        BY <1>3, <1>13, NextStep, Quotients
  <2>8. sem'[2] = (j + 1) \div 5 - (c + 4) \div 5
        BY <1>8, <2>3, <2>7
  <2> QED BY <1>3, <1>4, <1>8, <2>2, <2>3, <2>4, <2>6, <2>7, <2>8, Zenon DEF RingHeld
<1>14. j % 5 \in 0..4
      BY <1>3, NextStep
<1> QED BY <1>9, <1>10, <1>11, <1>12, <1>13, <1>14

LEMMA GetStep ==
  ASSUME SemaExact, example = "producer_consumer", Sema!Process("consumer")
  PROVE  SemaTyped' /\ SemaIdle' /\ MutexHeld' /\ RingHeld'
<1> DEFINE j == Made("producer")
           c == Made("consumer")
<1> USE SharedAssumption, SemaAssumption
<1>0. "producer" \in Sema!Processes /\ "consumer" \in Sema!Processes
      BY DEF Sema!Processes
<1>1. SemaPlaces /\ SemaTyped /\ SemaIdle /\ MutexHeld
      BY DEF SemaExact
<1>2. script["consumer"] # <<>> /\ Sema!Advance("consumer") /\ UNCHANGED example
      BY SemaAct, Zenon
<1>3. /\ j \in Nat /\ c \in Nat /\ c < Len(Full("consumer"))
      /\ Head(script["consumer"]) = Full("consumer")[c + 1]
      /\ Made("consumer")' = c + 1
      /\ \A y \in Sema!Processes : y # "consumer" => Made(y)' = Made(y)
      BY <1>0, <1>1, <1>2, SemaAdvance, Zenon
<1>4. Made("producer")' = j
      BY <1>0, <1>3
<1>5. \A y \in Sema!Processes : y # "consumer" => (HasMutex(y)' <=> HasMutex(y))
      BY <1>2, <1>3 DEF HasMutex
<1>6. /\ HasMutex("consumer") <=> c % 5 \in {2, 3}
      /\ HasMutex("consumer")' <=> (c + 1) % 5 \in {2, 3}
      BY <1>2, <1>3 DEF HasMutex
<1>7. /\ c % 5 = 0 => Head(script["consumer"]) = Sema!P(2)
      /\ c % 5 = 1 => Head(script["consumer"]) = Sema!P(0)
      /\ c % 5 = 2 => Head(script["consumer"]) = Sema!Do("get")
      /\ c % 5 = 3 => Head(script["consumer"]) = Sema!V(0)
      /\ c % 5 = 4 => Head(script["consumer"]) = Sema!V(1)
  <2>1. c \in Nat /\ c < Items * 5
        BY <1>3, RingScript
  <2> QED BY <1>3, <2>1, RingScript, Zenon
<1>8. /\ sem[1] = (Slots - (j + 4) \div 5) + c \div 5
      /\ sem[2] = j \div 5 - (c + 4) \div 5
      /\ made = (j + 2) \div 5
      /\ Len(got) = (c + 2) \div 5
      /\ count = made - Len(got)
      /\ in = made % Slots /\ out = Len(got) % Slots
      /\ \A k \in 1..Len(got) : got[k] = k
      /\ \A k \in Nat : Len(got) <= k /\ k < made => items[k % Slots] = k + 1
      BY DEF SemaExact, RingHeld
<1> HIDE DEF j, c
<1>9. CASE c % 5 = 0
  <2>1. Sema!Down("consumer", 2)
        BY <1>7, <1>9, SemaAct, Zenon
  <2>2. /\ sem[2] > 0 /\ sem' = [sem EXCEPT ![2] = sem[2] - 1]
        /\ UNCHANGED <<example, items, in, out, count, made, got, reader_count, counter,
                       old_value, removed>>
        BY <2>1 DEF Sema!Down, Sema!ringVars, Sema!readerVars, Sema!countVars
  <2>3. SemaTyped' /\ sem'[0] = sem[0] /\ sem'[1] = sem[1] /\ sem'[2] = sem[2] - 1
        BY <1>1, <2>2 DEF SemaTyped
  <2>4. SemaIdle'
        BY <1>1, <2>2 DEF SemaIdle
  <2>5. HasMutex("consumer")' => HasMutex("consumer")
        BY <1>3, <1>6, <1>9, NextStep
  <2>6. MutexHeld'
        BY <1>0, <1>1, <1>5, <2>3, <2>5, MutexStep
  <2>7. /\ ((c + 1) + 4) \div 5 = ((c + 4) \div 5) + 1 /\ (c + 1) \div 5 = c \div 5
        /\ ((c + 1) + 2) \div 5 = (c + 2) \div 5
        /\ (c + 4) \div 5 \in Nat /\ j \div 5 \in Nat
        BY <1>3, <1>9, NextStep, Quotients
  <2>8. sem'[2] = j \div 5 - ((c + 1) + 4) \div 5
        BY <1>8, <2>3, <2>7
  <2> QED BY <1>3, <1>4, <1>8, <2>2, <2>3, <2>4, <2>6, <2>7, <2>8, Zenon DEF RingHeld
<1>10. CASE c % 5 = 1
  <2>1. Sema!Down("consumer", 0)
        BY <1>7, <1>10, SemaAct, Zenon
  <2>2. /\ sem[0] > 0 /\ sem' = [sem EXCEPT ![0] = sem[0] - 1]
        /\ UNCHANGED <<example, items, in, out, count, made, got, reader_count, counter,
                       old_value, removed>>
        BY <2>1 DEF Sema!Down, Sema!ringVars, Sema!readerVars, Sema!countVars
  <2>3. SemaTyped' /\ sem'[0] = sem[0] - 1 /\ sem'[1] = sem[1] /\ sem'[2] = sem[2]
        BY <1>1, <2>2 DEF SemaTyped
  <2>4. SemaIdle'
        BY <1>1, <2>2 DEF SemaIdle
  <2>6. MutexHeld'
        BY <1>0, <1>1, <1>5, <2>2, <2>3, MutexStep
  <2>7. /\ ((c + 1) + 4) \div 5 = (c + 4) \div 5 /\ (c + 1) \div 5 = c \div 5
        /\ ((c + 1) + 2) \div 5 = (c + 2) \div 5
        BY <1>3, <1>10, NextStep, Quotients
  <2> QED BY <1>3, <1>4, <1>8, <2>2, <2>3, <2>4, <2>6, <2>7, Zenon DEF RingHeld
<1>11. CASE c % 5 = 2
  <2>1. Sema!Get("consumer")
        BY <1>7, <1>11, SemaAct, Zenon
  <2>2. /\ got' = Append(got, items[out])
        /\ out' = (out + 1) % Slots /\ count' = count - 1
        /\ UNCHANGED <<example, sem, items, in, made, reader_count, counter, old_value, removed>>
        BY <2>1 DEF Sema!Get, Sema!readerVars, Sema!countVars
  <2>3. /\ sem \in [{0, 1, 2} -> Nat] /\ items \in [0..Slots - 1 -> Nat]
        /\ out \in 0..Slots - 1 /\ count \in Int /\ made \in Nat
        /\ got \in Seq(Nat) /\ Len(got) \in Nat
        BY <1>1 DEF SemaTyped
  <2>4. out' = (Len(got) + 1) % Slots
        BY <1>8, <2>2, <2>3, NextSlot
  <2>5. out' \in 0..Slots - 1
        BY <2>2, <2>3
  <2>6. items[out] \in Nat
        BY <2>3
  <2>7. /\ got' \in Seq(Nat) /\ Len(got') = Len(got) + 1
        /\ \A k \in 1..Len(got) : got'[k] = got[k]
        /\ got'[Len(got) + 1] = items[out]
        BY <2>2, <2>3, <2>6
  <2>8. SemaTyped'
    <3>1. count' \in Int
          BY <2>2, <2>3
    <3> QED BY <1>1, <2>2, <2>5, <2>7, <3>1 DEF SemaTyped
  <2>9. SemaIdle'
        BY <1>1, <2>2 DEF SemaIdle
  <2>10. HasMutex("consumer")' => HasMutex("consumer")
        BY <1>6, <1>11
  <2>11. MutexHeld'
        BY <1>0, <1>1, <1>5, <2>2, <2>10, MutexStep
  <2>12. /\ ((c + 1) + 4) \div 5 = (c + 4) \div 5 /\ (c + 1) \div 5 = c \div 5
         /\ ((c + 1) + 2) \div 5 = ((c + 2) \div 5) + 1
         BY <1>3, <1>11, NextStep
  <2>13. Len(got) < made
    <3>1. /\ (c + 2) \div 5 = c \div 5 /\ (c + 4) \div 5 = (c \div 5) + 1
          /\ c \div 5 \in Nat /\ j \div 5 \in Nat /\ (j + 2) \div 5 \in Nat
          /\ j \div 5 <= (j + 2) \div 5
          BY <1>3, <1>11, Quotients
    <3>2. sem[2] \in Nat
          BY <2>3
    <3>3. /\ sem[2] = j \div 5 - (c + 4) \div 5
          /\ made = (j + 2) \div 5 /\ Len(got) = (c + 2) \div 5
          BY <1>8, Zenon
    <3> QED BY <3>1, <3>2, <3>3
  <2>14. items[out] = Len(got) + 1
    <3>1. Len(got) \in Nat /\ Len(got) <= Len(got) /\ Len(got) < made /\ out = Len(got) % Slots
          BY <1>8, <2>3, <2>13
    <3> QED BY <1>8, <3>1, Zenon
  <2>15. \A k \in 1..Len(got') : got'[k] = k
    <3> SUFFICES ASSUME NEW k \in 1..Len(got') PROVE got'[k] = k
        OBVIOUS
    <3>1. k \in 1..Len(got) \/ k = Len(got) + 1
          BY <2>3, <2>7
    <3>2. \A i \in 1..Len(got) : got[i] = i
          BY <1>8
    <3> QED BY <2>7, <2>14, <3>1, <3>2
  <2>16. \A k \in Nat : Len(got') <= k /\ k < made' => items'[k % Slots] = k + 1
    <3> SUFFICES ASSUME NEW k \in Nat, Len(got') <= k, k < made'
                 PROVE  items'[k % Slots] = k + 1
        OBVIOUS
    <3>1. Len(got) <= k /\ k < made
          BY <2>2, <2>3, <2>7
    <3>2. items[k % Slots] = k + 1
          BY <1>8, <3>1
    <3> QED BY <2>2, <3>2
  <2>17. count' = made' - Len(got')
    <3>1. count = made - Len(got)
          BY <1>8, Zenon
    <3> QED BY <2>2, <2>3, <2>7, <3>1
  <2>18. Len(got') = ((c + 1) + 2) \div 5
         BY <1>8, <2>7, <2>12
  <2>19. out' = Len(got') % Slots
         BY <2>4, <2>7
  <2> QED BY <1>3, <1>4, <1>8, <2>2, <2>8, <2>9, <2>11, <2>12, <2>15, <2>16, <2>17, <2>18, <2>19,
             Zenon
          DEF RingHeld
<1>12. CASE c % 5 = 3
  <2>1. Sema!Up("consumer", 0)
        BY <1>7, <1>12, SemaAct, Zenon
  <2>2. /\ sem' = [sem EXCEPT ![0] = sem[0] + 1]
        /\ UNCHANGED <<example, items, in, out, count, made, got, reader_count, counter,
                       old_value, removed>>
        BY <2>1 DEF Sema!Up, Sema!ringVars, Sema!readerVars, Sema!countVars
  <2>3. SemaTyped' /\ sem'[0] = sem[0] + 1 /\ sem'[1] = sem[1] /\ sem'[2] = sem[2]
        BY <1>1, <2>2 DEF SemaTyped
  <2>4. SemaIdle'
        BY <1>1, <2>2 DEF SemaIdle
  <2>5. HasMutex("consumer") /\ ~HasMutex("consumer")'
        BY <1>3, <1>6, <1>12, NextStep
  <2>6. MutexHeld'
        BY <1>0, <1>1, <1>5, <2>3, <2>5, MutexStep
  <2>7. /\ ((c + 1) + 4) \div 5 = (c + 4) \div 5 /\ (c + 1) \div 5 = c \div 5
        /\ ((c + 1) + 2) \div 5 = (c + 2) \div 5
        BY <1>3, <1>12, NextStep, Quotients
  <2> QED BY <1>3, <1>4, <1>8, <2>2, <2>3, <2>4, <2>6, <2>7, Zenon DEF RingHeld
<1>13. CASE c % 5 = 4
  <2>1. Sema!Up("consumer", 1)
        BY <1>7, <1>13, SemaAct, Zenon
  <2>2. /\ sem' = [sem EXCEPT ![1] = sem[1] + 1]
        /\ UNCHANGED <<example, items, in, out, count, made, got, reader_count, counter,
                       old_value, removed>>
        BY <2>1 DEF Sema!Up, Sema!ringVars, Sema!readerVars, Sema!countVars
  <2>3. SemaTyped' /\ sem'[0] = sem[0] /\ sem'[1] = sem[1] + 1 /\ sem'[2] = sem[2]
        BY <1>1, <2>2 DEF SemaTyped
  <2>4. SemaIdle'
        BY <1>1, <2>2 DEF SemaIdle
  <2>5. HasMutex("consumer")' => HasMutex("consumer")
        BY <1>3, <1>6, <1>13, NextStep
  <2>6. MutexHeld'
        BY <1>0, <1>1, <1>5, <2>3, <2>5, MutexStep
  <2>7. /\ ((c + 1) + 4) \div 5 = (c + 4) \div 5 /\ (c + 1) \div 5 = (c \div 5) + 1
        /\ ((c + 1) + 2) \div 5 = (c + 2) \div 5
        /\ (j + 4) \div 5 \in Nat /\ c \div 5 \in Nat
        BY <1>3, <1>13, NextStep, Quotients
  <2>8. sem'[1] = (Slots - (j + 4) \div 5) + (c + 1) \div 5
        BY <1>8, <2>3, <2>7
  <2> QED BY <1>3, <1>4, <1>8, <2>2, <2>3, <2>4, <2>6, <2>7, <2>8, Zenon DEF RingHeld
<1>14. c % 5 \in 0..4
      BY <1>3, NextStep
<1> QED BY <1>9, <1>10, <1>11, <1>12, <1>13, <1>14

\* A step of the example with the ring, whoever makes it.
LEMMA SlotStep ==
  ASSUME SemaExact, example = "producer_consumer", NEW x \in Sema!Processes, Sema!Process(x)
  PROVE  SemaTyped' /\ SemaIdle' /\ MutexHeld' /\ RingHeld'
<1>1. SemaPlaces /\ SemaTyped /\ SemaIdle /\ MutexHeld /\ RingHeld
      BY DEF SemaExact
<1>2. script[x] # <<>> /\ Sema!Advance(x) /\ UNCHANGED example
      BY SemaAct, Zenon
<1>3. x \in {"parent", "producer", "consumer"}
  <2> SUFFICES ASSUME x \notin {"parent", "producer", "consumer"} PROVE FALSE
      OBVIOUS
  <2>1. Made(x) \in Nat /\ Made(x) < Len(Full(x))
        BY <1>1, <1>2, SemaAdvance, Zenon
  <2>2. Full(x) = <<>>
        BY RingScript
  <2> QED BY <2>1, <2>2
<1>4. CASE x = "parent"
  <2>1. /\ UNCHANGED <<example, sem, items, in, out, count, made, got, reader_count,
                        counter, old_value>>
        /\ removed' \in BOOLEAN
        /\ \A y \in Sema!Processes : y # "parent" => Made(y)' = Made(y)
        /\ \A y \in Sema!Processes : HasMutex(y)' <=> HasMutex(y)
        BY <1>4, ParentStep
  <2>2. Made("producer")' = Made("producer") /\ Made("consumer")' = Made("consumer")
        BY <2>1 DEF Sema!Processes
  <2>3. SemaTyped' /\ SemaIdle'
        BY <1>1, <2>1 DEF SemaTyped, SemaIdle
  <2>4. MutexHeld'
        BY <1>1, <2>1, MutexStep
  <2>5. RingHeld'
        BY <1>1, <2>1, <2>2, Zenon DEF RingHeld
  <2> QED BY <2>3, <2>4, <2>5
<1> QED BY <1>3, <1>4, PutStep, GetStep

\* A reader's step, where the lock of all readers and their number stay true.
LEMMA ReaderStep ==
  ASSUME SemaExact, example = "reader_writer", NEW x \in Children, Sema!Process(x)
  PROVE  SemaTyped' /\ SemaIdle' /\ MutexHeld' /\ ReadersHeld'
<1> DEFINE m == Made(x)
<1>0. Children \subseteq Sema!Processes /\ "writer" \in Sema!Processes /\ x # "writer"
      BY SemaAssumption DEF Sema!Processes
<1>1. SemaPlaces /\ SemaTyped /\ SemaIdle /\ MutexHeld
      BY DEF SemaExact
<1>2. script[x] # <<>> /\ Sema!Advance(x) /\ UNCHANGED example
      BY SemaAct, Zenon
<1>3. /\ m \in Nat /\ m < Len(Full(x)) /\ Head(script[x]) = Full(x)[m + 1]
      /\ Made(x)' = m + 1
      /\ \A y \in Sema!Processes : Made(y) \in Nat
      /\ \A y \in Sema!Processes : y # x => Made(y)' = Made(y)
  <2>1. x \in Sema!Processes
        BY <1>0
  <2> QED BY <1>1, <1>2, <2>1, SemaAdvance, Zenon
<1>4. /\ \A c \in Children : c # x => Made(c)' = Made(c)
      /\ Made("writer")' = Made("writer") /\ (WriterHolds' <=> WriterHolds)
      BY <1>0, <1>3 DEF WriterHolds
<1>5. \A y \in Sema!Processes : y # x => (HasMutex(y)' <=> HasMutex(y))
      BY <1>2, <1>3 DEF HasMutex
<1>6. /\ HasMutex(x) <=> m % 9 \in {1, 2, 3, 6, 7, 8}
      /\ HasMutex(x)' <=> (m + 1) % 9 \in {1, 2, 3, 6, 7, 8}
      BY <1>2, <1>3 DEF HasMutex
<1>7. /\ m % 9 = 0 => Head(script[x]) = Sema!P(0)
      /\ m % 9 = 1 => Head(script[x]) = Sema!Do("arrive")
      /\ m % 9 = 2 => Head(script[x]) = Sema!Do("lock_if_first")
      /\ m % 9 = 3 => Head(script[x]) = Sema!V(0)
      /\ m % 9 = 4 => Head(script[x]) = Sema!Do("read")
      /\ m % 9 = 5 => Head(script[x]) = Sema!P(0)
      /\ m % 9 = 6 => Head(script[x]) = Sema!Do("depart")
      /\ m % 9 = 7 => Head(script[x]) = Sema!Do("unlock_if_last")
      /\ m % 9 = 8 => Head(script[x]) = Sema!V(0)
  <2>1. Len(Full(x)) = Repeats * 9
        BY ReaderScript, Zenon
  <2>2. m \in Nat /\ m < Repeats * 9
        BY <1>3, <2>1
  <2> QED BY <1>3, <2>2, ReaderScript, Zenon
<1>8. /\ reader_count = Cardinality(Readers)
      /\ sem[1] \in {0, 1}
      /\ sem[1] = 0 <=> ReadersHold \/ WriterHolds
      /\ ~(ReadersHold /\ WriterHolds)
      BY DEF SemaExact, ReadersHeld
<1>9. IsFiniteSet(Readers) /\ Readers \subseteq Children /\ Cardinality(Readers) \in Nat
  <2>1. Readers \subseteq Children
        BY DEF Readers
  <2> QED BY <2>1, SemaAssumption, FS_Subset, FS_CardinalityType
<1>10. sem \in [{0, 1, 2} -> Nat] /\ sem[0] \in Nat /\ sem[1] \in Nat /\ reader_count \in Int
      BY <1>1 DEF SemaTyped
<1>11. m % 9 \in 0..8 /\ (m + 1) % 9 = IF m % 9 = 8 THEN 0 ELSE (m % 9) + 1
      BY <1>3, NextStep
<1>12. HasMutex(x) => \A c \in Children : c # x =>
                         Made(c) % 9 \notin {1, 2, 3, 6, 7, 8}
  <2> SUFFICES ASSUME HasMutex(x), NEW c \in Children, c # x,
                      Made(c) % 9 \in {1, 2, 3, 6, 7, 8}
               PROVE  FALSE
      OBVIOUS
  <2>1. HasMutex(c)
        BY DEF HasMutex
  <2> QED BY <1>0, <1>1, <2>1 DEF MutexHeld
<1> DEFINE two == \E c \in Children : Made(c) % 9 = 2
           seven == \E c \in Children : Made(c) % 9 = 7
<1>13. ReadersHold <=> seven \/ (~two /\ reader_count >= 1) \/ reader_count >= 2
      BY DEF ReadersHold
<1>14. ASSUME NEW t, NEW s, t <=> \E c \in Children : Made(c)' % 9 = 2,
              s <=> \E c \in Children : Made(c)' % 9 = 7
       PROVE  ReadersHold' <=> s \/ (~t /\ reader_count' >= 1) \/ reader_count' >= 2
      BY <1>14 DEF ReadersHold
<1> HIDE DEF m
<1>15. CASE m % 9 \in {0, 3, 4, 5, 8}
  <2>1. (m + 1) % 9 \in {1, 4, 5, 6, 0} /\ (m % 9 \in 2..6 <=> (m + 1) % 9 \in 2..6)
        BY <1>11, <1>15
  <2>2. \A c \in Children :
          /\ Made(c)' % 9 = 2 <=> Made(c) % 9 = 2
          /\ Made(c)' % 9 = 7 <=> Made(c) % 9 = 7
          /\ Made(c)' % 9 \in 2..6 <=> Made(c) % 9 \in 2..6
    <3> SUFFICES ASSUME NEW c \in Children
                 PROVE  /\ Made(c)' % 9 = 2 <=> Made(c) % 9 = 2
                        /\ Made(c)' % 9 = 7 <=> Made(c) % 9 = 7
                        /\ Made(c)' % 9 \in 2..6 <=> Made(c) % 9 \in 2..6
        OBVIOUS
    <3>1. CASE c = x
          BY <1>3, <1>15, <2>1, <3>1 DEF m
    <3>2. CASE c # x
          BY <1>4, <3>2
    <3> QED BY <3>1, <3>2
  <2>3. Readers' = Readers
        BY <2>2 DEF Readers
  <2>4. /\ UNCHANGED <<example, items, in, out, count, made, got, reader_count, counter,
                       old_value, removed>>
        /\ sem' \in [{0, 1, 2} -> Nat] /\ sem'[1] = sem[1] /\ sem'[2] = sem[2]
        /\ MutexHeld'
    <3>1. CASE m % 9 \in {0, 5}
      <4>1. Head(script[x]) = Sema!P(0)
            BY <1>7, <3>1
      <4>2. Sema!Down(x, 0)
            BY <4>1, SemaAct, Zenon
      <4>3. /\ sem[0] > 0 /\ sem' = [sem EXCEPT ![0] = sem[0] - 1]
            /\ UNCHANGED <<example, items, in, out, count, made, got, reader_count, counter,
                           old_value, removed>>
            BY <4>2 DEF Sema!Down, Sema!ringVars, Sema!readerVars, Sema!countVars
      <4>4. /\ sem' \in [{0, 1, 2} -> Nat] /\ sem'[0] = sem[0] - 1
            /\ sem'[1] = sem[1] /\ sem'[2] = sem[2]
            BY <1>10, <4>3
      <4>5. MutexHeld'
            BY <1>0, <1>1, <1>5, <4>3, <4>4, MutexStep
      <4> QED BY <4>3, <4>4, <4>5
    <3>2. CASE m % 9 \in {3, 8}
      <4>1. Head(script[x]) = Sema!V(0)
            BY <1>7, <3>2
      <4>2. Sema!Up(x, 0)
            BY <4>1, SemaAct, Zenon
      <4>3. /\ sem' = [sem EXCEPT ![0] = sem[0] + 1]
            /\ UNCHANGED <<example, items, in, out, count, made, got, reader_count, counter,
                           old_value, removed>>
            BY <4>2 DEF Sema!Up, Sema!ringVars, Sema!readerVars, Sema!countVars
      <4>4. /\ sem' \in [{0, 1, 2} -> Nat] /\ sem'[0] = sem[0] + 1
            /\ sem'[1] = sem[1] /\ sem'[2] = sem[2]
            BY <1>10, <4>3
      <4>5. HasMutex(x) /\ ~HasMutex(x)'
            BY <1>6, <1>11, <3>2
      <4>6. MutexHeld'
            BY <1>0, <1>1, <1>5, <4>4, <4>5, MutexStep
      <4> QED BY <4>3, <4>4, <4>6
    <3>3. CASE m % 9 = 4
      <4>1. Head(script[x]) = Sema!Do("read")
            BY <1>7, <3>3
      <4>2. Sema!Use(x)
            BY <4>1, SemaAct
      <4>3. UNCHANGED <<example, sem, items, in, out, count, made, got, reader_count, counter,
                        old_value, removed>>
            BY <4>2 DEF Sema!Use, Sema!ringVars, Sema!readerVars, Sema!countVars
      <4>4. HasMutex(x)' => HasMutex(x)
            BY <1>6, <1>11, <3>3
      <4>5. MutexHeld'
            BY <1>0, <1>1, <1>5, <4>3, <4>4, MutexStep
      <4> QED BY <1>10, <4>3, <4>5
    <3> QED BY <1>15, <3>1, <3>2, <3>3
  <2>5. ReadersHold' <=> ReadersHold
        BY <2>2, <2>4 DEF ReadersHold
  <2>6. SemaTyped' /\ SemaIdle'
        BY <1>1, <2>4 DEF SemaTyped, SemaIdle
  <2>7. ReadersHeld'
        BY <1>4, <1>8, <2>3, <2>4, <2>5 DEF ReadersHeld
  <2> QED BY <2>4, <2>6, <2>7
<1>16. CASE m % 9 \in {1, 2, 6, 7}
  <2>1. HasMutex(x) /\ (HasMutex(x)' => HasMutex(x))
        BY <1>6, <1>16
  <2>2. ASSUME NEW c \in Children, c # x
        PROVE  /\ Made(c) % 9 # 2 /\ Made(c) % 9 # 7
               /\ Made(c)' % 9 # 2 /\ Made(c)' % 9 # 7
               /\ Made(c)' = Made(c)
        BY <1>4, <1>12, <2>1, <2>2
  <2>3. Made(x) % 9 = m % 9 /\ Made(x)' % 9 = (m % 9) + 1
        BY <1>3, <1>11, <1>16 DEF m
  <2>4. /\ (\E c \in Children : Made(c) % 9 = 2) <=> m % 9 = 2
        /\ (\E c \in Children : Made(c) % 9 = 7) <=> m % 9 = 7
        /\ (\E c \in Children : Made(c)' % 9 = 2) <=> (m % 9) + 1 = 2
        /\ (\E c \in Children : Made(c)' % 9 = 7) <=> (m % 9) + 1 = 7
        BY <2>2, <2>3
  <2>5. ReadersHold <=> (m % 9 = 7) \/ (m % 9 # 2 /\ reader_count >= 1) \/ reader_count >= 2
        BY <1>13, <2>4
  <2>6. ReadersHold' <=> \/ (m % 9) + 1 = 7
                         \/ ((m % 9) + 1 # 2 /\ reader_count' >= 1) \/ reader_count' >= 2
        BY <1>14, <2>4
  <2>7. x \in Readers <=> m % 9 \in 2..6
        BY <2>3 DEF Readers
  <2>8. m % 9 \in 2..6 => reader_count >= 1
    <3> SUFFICES ASSUME x \in Readers PROVE reader_count >= 1
        BY <2>7
    <3>1. Cardinality(Readers) # 0
          BY <1>9, FS_EmptySet
    <3> QED BY <1>8, <1>9, <3>1
  <2>9. \A c \in Children : c # x => (c \in Readers' <=> c \in Readers)
        BY <2>2 DEF Readers
  <2>10. x \in Readers' <=> (m % 9) + 1 \in 2..6
        BY <2>3 DEF Readers
  <2>11. Readers' \subseteq Children
        BY DEF Readers
  <2>12. CASE m % 9 = 1
    <3>1. Head(script[x]) = Sema!Do("arrive")
          BY <1>7, <2>12
    <3>2. Sema!Arrive(x)
          BY <3>1, SemaAct, Zenon
    <3>3. /\ reader_count' = reader_count + 1
          /\ UNCHANGED <<example, sem, items, in, out, count, made, got, counter,
                         old_value, removed>>
          BY <3>2 DEF Sema!Arrive, Sema!ringVars, Sema!countVars
    <3>4. Readers' = Readers \cup {x} /\ x \notin Readers
          BY <1>9, <2>7, <2>9, <2>10, <2>11, <2>12
    <3>5. Cardinality(Readers \cup {x}) = Cardinality(Readers) + 1
          BY <1>9, <3>4, FS_AddElement
    <3>6. reader_count' = Cardinality(Readers')
          BY <1>8, <3>3, <3>4, <3>5
    <3>7. ReadersHold' <=> ReadersHold
          BY <1>10, <2>5, <2>6, <2>12, <3>3
    <3>8. SemaTyped' /\ SemaIdle'
          BY <1>1, <1>10, <3>3 DEF SemaTyped, SemaIdle
    <3>9. MutexHeld'
          BY <1>0, <1>1, <1>5, <2>1, <3>3, MutexStep
    <3>10. ReadersHeld'
          BY <1>4, <1>8, <3>3, <3>6, <3>7 DEF ReadersHeld
    <3> QED BY <3>8, <3>9, <3>10
  <2>13. CASE m % 9 = 2
    <3>1. Head(script[x]) = Sema!Do("lock_if_first")
          BY <1>7, <2>13
    <3>2. Sema!LockIfFirst(x)
          BY <3>1, SemaAct, Zenon
    <3>3. /\ IF reader_count = 1
               THEN sem[1] > 0 /\ sem' = [sem EXCEPT ![1] = sem[1] - 1]
               ELSE UNCHANGED sem
          /\ UNCHANGED <<example, items, in, out, count, made, got, reader_count, counter,
                         old_value, removed>>
          BY <3>2 DEF Sema!LockIfFirst, Sema!ringVars, Sema!readerVars, Sema!countVars,
                      Sema!WriterMutex
    <3>4. Readers' = Readers
          BY <1>9, <2>7, <2>9, <2>10, <2>11, <2>13
    <3>5. /\ sem' \in [{0, 1, 2} -> Nat] /\ sem'[0] = sem[0] /\ sem'[2] = sem[2]
          /\ IF reader_count = 1 THEN sem[1] > 0 /\ sem'[1] = sem[1] - 1
                                 ELSE sem'[1] = sem[1]
          BY <1>10, <3>3
    <3>6. ReadersHold' /\ (reader_count = 1 <=> ~ReadersHold)
          BY <1>10, <2>5, <2>6, <2>8, <2>13, <3>3
    <3>7. sem'[1] = 0 /\ ~WriterHolds
          BY <1>8, <1>10, <3>5, <3>6
    <3>8. SemaTyped' /\ SemaIdle'
          BY <1>1, <3>3, <3>5 DEF SemaTyped, SemaIdle
    <3>9. MutexHeld'
          BY <1>0, <1>1, <1>5, <2>1, <3>5, MutexStep
    <3>10. ReadersHeld'
          BY <1>4, <1>8, <3>3, <3>4, <3>6, <3>7 DEF ReadersHeld
    <3> QED BY <3>8, <3>9, <3>10
  <2>14. CASE m % 9 = 6
    <3>1. Head(script[x]) = Sema!Do("depart")
          BY <1>7, <2>14
    <3>2. Sema!Depart(x)
          BY <3>1, SemaAct, Zenon
    <3>3. /\ reader_count' = reader_count - 1
          /\ UNCHANGED <<example, sem, items, in, out, count, made, got, counter,
                         old_value, removed>>
          BY <3>2 DEF Sema!Depart, Sema!ringVars, Sema!countVars
    <3>4. Readers' = Readers \ {x} /\ x \in Readers
          BY <1>9, <2>7, <2>9, <2>10, <2>11, <2>14
    <3>5. Cardinality(Readers \ {x}) = Cardinality(Readers) - 1
          BY <1>9, <3>4, FS_RemoveElement
    <3>6. reader_count' = Cardinality(Readers')
          BY <1>8, <3>3, <3>4, <3>5
    <3>7. ReadersHold' /\ ReadersHold
          BY <1>10, <2>5, <2>6, <2>8, <2>14, <3>3
    <3>8. SemaTyped' /\ SemaIdle'
          BY <1>1, <1>10, <3>3 DEF SemaTyped, SemaIdle
    <3>9. MutexHeld'
          BY <1>0, <1>1, <1>5, <2>1, <3>3, MutexStep
    <3>10. ReadersHeld'
          BY <1>4, <1>8, <3>3, <3>6, <3>7 DEF ReadersHeld
    <3> QED BY <3>8, <3>9, <3>10
  <2>15. CASE m % 9 = 7
    <3>1. Head(script[x]) = Sema!Do("unlock_if_last")
          BY <1>7, <2>15
    <3>2. Sema!UnlockIfLast(x)
          BY <3>1, SemaAct, Zenon
    <3>3. /\ sem' = IF reader_count = 0 THEN [sem EXCEPT ![1] = sem[1] + 1] ELSE sem
          /\ UNCHANGED <<example, items, in, out, count, made, got, reader_count, counter,
                         old_value, removed>>
          BY <3>2 DEF Sema!UnlockIfLast, Sema!ringVars, Sema!readerVars, Sema!countVars,
                      Sema!WriterMutex
    <3>4. Readers' = Readers
          BY <1>9, <2>7, <2>9, <2>10, <2>11, <2>15
    <3>5. /\ sem' \in [{0, 1, 2} -> Nat] /\ sem'[0] = sem[0] /\ sem'[2] = sem[2]
          /\ sem'[1] = IF reader_count = 0 THEN sem[1] + 1 ELSE sem[1]
          BY <1>10, <3>3
    <3>6. ReadersHold /\ (reader_count = 0 <=> ~ReadersHold')
          BY <1>8, <1>9, <1>10, <2>5, <2>6, <2>15, <3>3
    <3>7. sem[1] = 0 /\ ~WriterHolds
          BY <1>8, <3>6
    <3>8. SemaTyped' /\ SemaIdle'
          BY <1>1, <3>3, <3>5 DEF SemaTyped, SemaIdle
    <3>9. MutexHeld'
          BY <1>0, <1>1, <1>5, <2>1, <3>5, MutexStep
    <3>10. ReadersHeld'
          BY <1>4, <1>8, <3>3, <3>4, <3>5, <3>6, <3>7 DEF ReadersHeld
    <3> QED BY <3>8, <3>9, <3>10
  <2> QED BY <1>16, <2>12, <2>13, <2>14, <2>15
<1> QED BY <1>11, <1>15, <1>16

LEMMA WriterStep ==
  ASSUME SemaExact, example = "reader_writer", Sema!Process("writer")
  PROVE  SemaTyped' /\ SemaIdle' /\ MutexHeld' /\ ReadersHeld'
<1> DEFINE m == Made("writer")
<1>0. "writer" \in Sema!Processes /\ Children \subseteq Sema!Processes /\ "writer" \notin Children
      BY SemaAssumption DEF Sema!Processes
<1>1. SemaPlaces /\ SemaTyped /\ SemaIdle /\ MutexHeld
      BY DEF SemaExact
<1>2. script["writer"] # <<>> /\ Sema!Advance("writer") /\ UNCHANGED example
      BY SemaAct, Zenon
<1>3. /\ m \in Nat /\ m < Len(Full("writer")) /\ Head(script["writer"]) = Full("writer")[m + 1]
      /\ Made("writer")' = m + 1
      /\ \A y \in Sema!Processes : y # "writer" => Made(y)' = Made(y)
      BY <1>0, <1>1, <1>2, SemaAdvance, Zenon
<1>4. \A c \in Children : Made(c)' = Made(c)
      BY <1>0, <1>3
<1>5. /\ \A y \in Sema!Processes : y # "writer" => (HasMutex(y)' <=> HasMutex(y))
      /\ ~HasMutex("writer")'
      BY <1>0, <1>2, <1>3 DEF HasMutex
<1>6. m \in Nat /\ m < Writes * 3
      BY <1>3, ReaderScript
<1>7. /\ m % 3 = 0 => Head(script["writer"]) = Sema!P(1)
      /\ m % 3 = 1 => Head(script["writer"]) = Sema!Do("write")
      /\ m % 3 = 2 => Head(script["writer"]) = Sema!V(1)
      BY <1>3, <1>6, ReaderScript, Zenon
<1>8. /\ reader_count = Cardinality(Readers)
      /\ sem[1] \in {0, 1}
      /\ sem[1] = 0 <=> ReadersHold \/ WriterHolds
      /\ ~(ReadersHold /\ WriterHolds)
      BY DEF SemaExact, ReadersHeld
<1>9. sem \in [{0, 1, 2} -> Nat]
      BY <1>1 DEF SemaTyped
<1>10. Readers' = Readers
      BY <1>4 DEF Readers
<1>11. WriterHolds <=> m % 3 \in {1, 2}
      BY DEF WriterHolds
<1>12. WriterHolds' <=> (m + 1) % 3 \in {1, 2}
      BY <1>3 DEF WriterHolds
<1>13. m % 3 \in 0..2 /\ (m + 1) % 3 = IF m % 3 = 2 THEN 0 ELSE (m % 3) + 1
      BY <1>6, NextStep
<1> HIDE DEF m
<1>14. CASE m % 3 = 0
  <2>1. Sema!Down("writer", 1)
        BY <1>7, <1>14, SemaAct, Zenon
  <2>2. /\ sem[1] > 0 /\ sem' = [sem EXCEPT ![1] = sem[1] - 1]
        /\ UNCHANGED <<example, items, in, out, count, made, got, reader_count, counter,
                       old_value, removed>>
        BY <2>1 DEF Sema!Down, Sema!ringVars, Sema!readerVars, Sema!countVars
  <2>3. SemaTyped' /\ sem'[0] = sem[0] /\ sem'[1] = sem[1] - 1 /\ sem'[2] = sem[2]
        BY <1>1, <2>2 DEF SemaTyped
  <2>4. SemaIdle'
        BY <1>1, <2>2, <2>3 DEF SemaIdle
  <2>5. MutexHeld'
        BY <1>0, <1>1, <1>5, <2>3, MutexStep
  <2>6. ReadersHold' <=> ReadersHold
        BY <1>4, <2>2 DEF ReadersHold
  <2>7. /\ sem'[1] = 0 /\ ~ReadersHold /\ WriterHolds'
        BY <1>8, <1>12, <1>13, <1>14, <2>2, <2>3
  <2>8. ReadersHeld'
        BY <1>8, <1>10, <2>2, <2>6, <2>7 DEF ReadersHeld
  <2> QED BY <2>3, <2>4, <2>5, <2>8
<1>15. CASE m % 3 = 1
  <2>1. Sema!Use("writer")
        BY <1>7, <1>15, SemaAct
  <2>2. UNCHANGED <<example, sem, items, in, out, count, made, got, reader_count, counter,
                    old_value, removed>>
        BY <2>1 DEF Sema!Use, Sema!ringVars, Sema!readerVars, Sema!countVars
  <2>3. SemaTyped' /\ SemaIdle'
        BY <1>1, <2>2 DEF SemaTyped, SemaIdle
  <2>4. MutexHeld'
        BY <1>0, <1>1, <1>5, <2>2, MutexStep
  <2>5. ReadersHold' <=> ReadersHold
        BY <1>4, <2>2 DEF ReadersHold
  <2>6. WriterHolds' <=> WriterHolds
        BY <1>11, <1>12, <1>13, <1>15
  <2>7. ReadersHeld'
        BY <1>8, <1>10, <2>2, <2>5, <2>6 DEF ReadersHeld
  <2> QED BY <2>3, <2>4, <2>7
<1>16. CASE m % 3 = 2
  <2>1. Sema!Up("writer", 1)
        BY <1>7, <1>16, SemaAct, Zenon
  <2>2. /\ sem' = [sem EXCEPT ![1] = sem[1] + 1]
        /\ UNCHANGED <<example, items, in, out, count, made, got, reader_count, counter,
                       old_value, removed>>
        BY <2>1 DEF Sema!Up, Sema!ringVars, Sema!readerVars, Sema!countVars
  <2>3. SemaTyped' /\ sem'[0] = sem[0] /\ sem'[1] = sem[1] + 1 /\ sem'[2] = sem[2]
        BY <1>1, <2>2 DEF SemaTyped
  <2>4. SemaIdle'
        BY <1>1, <2>2, <2>3 DEF SemaIdle
  <2>5. MutexHeld'
        BY <1>0, <1>1, <1>5, <2>3, MutexStep
  <2>6. ReadersHold' <=> ReadersHold
        BY <1>4, <2>2 DEF ReadersHold
  <2>7. sem'[1] = 1 /\ ~ReadersHold /\ ~WriterHolds'
        BY <1>8, <1>11, <1>12, <1>13, <1>16, <2>3
  <2>8. ReadersHeld'
        BY <1>8, <1>10, <2>2, <2>6, <2>7 DEF ReadersHeld
  <2> QED BY <2>3, <2>4, <2>5, <2>8
<1> QED BY <1>13, <1>14, <1>15, <1>16

\* A step of the example with readers and a writer, whoever makes it.
LEMMA RoomStep ==
  ASSUME SemaExact, example = "reader_writer", NEW x \in Sema!Processes, Sema!Process(x)
  PROVE  SemaTyped' /\ SemaIdle' /\ MutexHeld' /\ ReadersHeld'
<1>1. SemaPlaces /\ SemaTyped /\ SemaIdle /\ MutexHeld /\ ReadersHeld
      BY DEF SemaExact
<1>2. script[x] # <<>> /\ Sema!Advance(x) /\ UNCHANGED example
      BY SemaAct, Zenon
<1>3. x \in {"parent", "writer"} \cup Children
  <2> SUFFICES ASSUME x \notin {"parent", "writer"} \cup Children PROVE FALSE
      OBVIOUS
  <2>1. Made(x) \in Nat /\ Made(x) < Len(Full(x))
        BY <1>1, <1>2, SemaAdvance, Zenon
  <2>2. Full(x) = <<>>
    <3>1. x \in Sema!Processes \ ({"parent", "writer"} \cup Children)
          OBVIOUS
    <3> QED BY <3>1, ReaderScript, Zenon
  <2> QED BY <2>1, <2>2
<1>4. CASE x = "parent"
  <2>1. /\ UNCHANGED <<example, sem, items, in, out, count, made, got, reader_count,
                        counter, old_value>>
        /\ removed' \in BOOLEAN
        /\ \A y \in Sema!Processes : y # "parent" => Made(y)' = Made(y)
        /\ \A y \in Sema!Processes : HasMutex(y)' <=> HasMutex(y)
        BY <1>4, ParentStep
  <2>2. Made("writer")' = Made("writer") /\ \A c \in Children : Made(c)' = Made(c)
        BY <2>1, SemaAssumption DEF Sema!Processes
  <2>3. SemaTyped' /\ SemaIdle'
        BY <1>1, <2>1 DEF SemaTyped, SemaIdle
  <2>4. MutexHeld'
        BY <1>1, <2>1, MutexStep
  <2>5. /\ Readers' = Readers /\ (WriterHolds' <=> WriterHolds)
        /\ (ReadersHold' <=> ReadersHold)
        BY <2>1, <2>2 DEF Readers, WriterHolds, ReadersHold
  <2>6. ReadersHeld'
        BY <1>1, <2>1, <2>5 DEF ReadersHeld
  <2> QED BY <2>3, <2>4, <2>6
<1> QED BY <1>3, <1>4, ReaderStep, WriterStep

\* A child's step, where no increment is lost.
LEMMA AddStep ==
  ASSUME SemaExact, example = "counter", NEW x \in Children, Sema!Process(x)
  PROVE  SemaTyped' /\ SemaIdle' /\ MutexHeld' /\ CountHeld'
<1> DEFINE m == Made(x)
<1>0. Children \subseteq Sema!Processes /\ x \in Sema!Processes
      BY DEF Sema!Processes
<1>1. SemaPlaces /\ SemaTyped /\ SemaIdle /\ MutexHeld
      BY DEF SemaExact
<1>2. script[x] # <<>> /\ Sema!Advance(x) /\ UNCHANGED example
      BY SemaAct, Zenon
<1>3. /\ m \in Nat /\ m < Len(Full(x)) /\ Head(script[x]) = Full(x)[m + 1]
      /\ Made(x)' = m + 1
      /\ \A y \in Sema!Processes : Made(y) \in Nat
      /\ \A y \in Sema!Processes : y # x => Made(y)' = Made(y)
      BY <1>0, <1>1, <1>2, SemaAdvance, Zenon
<1>4. \A c \in Children : c # x => Made(c)' = Made(c)
      BY <1>0, <1>3
<1>5. \A y \in Sema!Processes : y # x => (HasMutex(y)' <=> HasMutex(y))
      BY <1>2, <1>3 DEF HasMutex
<1>6. /\ HasMutex(x) <=> m % 4 \in {1, 2, 3}
      /\ HasMutex(x)' <=> (m + 1) % 4 \in {1, 2, 3}
      BY <1>2, <1>3 DEF HasMutex
<1>7. /\ m % 4 = 0 => Head(script[x]) = Sema!P(0)
      /\ m % 4 = 1 => Head(script[x]) = Sema!Do("load")
      /\ m % 4 = 2 => Head(script[x]) = Sema!Do("store")
      /\ m % 4 = 3 => Head(script[x]) = Sema!V(0)
      /\ m \in Nat /\ m < Repeats * 4
  <2>1. Len(Full(x)) = Repeats * 4
        BY CounterScript, Zenon
  <2>2. m \in Nat /\ m < Repeats * 4
        BY <1>3, <2>1
  <2> QED BY <1>3, <2>2, CounterScript, Zenon
<1>8. /\ counter = Cardinality(Written)
      /\ \A c \in Children : Made(c) % 4 = 2 => old_value[c] = counter
      BY DEF SemaExact, CountHeld
<1>9. /\ sem \in [{0, 1, 2} -> Nat] /\ counter \in Nat /\ old_value \in [Children -> Nat]
      /\ sem[0] \in Nat
      BY <1>1 DEF SemaTyped
<1>10. m % 4 \in 0..3 /\ (m + 1) % 4 = IF m % 4 = 3 THEN 0 ELSE (m % 4) + 1
      BY <1>3, NextStep
<1>11. HasMutex(x) => \A c \in Children : c # x => Made(c) % 4 # 2
  <2> SUFFICES ASSUME HasMutex(x), NEW c \in Children, c # x, Made(c) % 4 = 2
               PROVE  FALSE
      OBVIOUS
  <2>1. HasMutex(c)
        BY DEF HasMutex
  <2> QED BY <1>0, <1>1, <2>1 DEF MutexHeld
<1>12. ((m + 1) + 1) \div 4 = ((m + 1) \div 4) + IF m % 4 = 2 THEN 1 ELSE 0
      BY <1>3, NextStep
<1>13. m % 4 # 2 => Written' = Written
  <2> SUFFICES ASSUME m % 4 # 2 PROVE Written' = Written
      OBVIOUS
  <2>1. (m + 1) \div 4 \in Nat
        BY <1>3, Quotients
  <2>2. (Made(x)' + 1) \div 4 = (Made(x) + 1) \div 4
        BY <1>3, <1>12, <2>1
  <2>3. \A c \in Children : (Made(c)' + 1) \div 4 = (Made(c) + 1) \div 4
        BY <1>4, <2>2, Zenon
  <2>4. \A s \in Children \X (1..Repeats) :
          (Made(s[1])' + 1) \div 4 = (Made(s[1]) + 1) \div 4
        BY <2>3
  <2> QED BY <2>4 DEF Written
<1> HIDE DEF m
<1>14. CASE m % 4 = 0
  <2>1. Sema!Down(x, 0)
        BY <1>7, <1>14, SemaAct, Zenon
  <2>2. /\ sem[0] > 0 /\ sem' = [sem EXCEPT ![0] = sem[0] - 1]
        /\ UNCHANGED <<example, items, in, out, count, made, got, reader_count, counter,
                       old_value, removed>>
        BY <2>1 DEF Sema!Down, Sema!ringVars, Sema!readerVars, Sema!countVars
  <2>3. SemaTyped' /\ sem'[0] = sem[0] - 1 /\ sem'[1] = sem[1] /\ sem'[2] = sem[2]
        BY <1>1, <2>2 DEF SemaTyped
  <2>4. SemaIdle'
        BY <1>1, <2>2, <2>3 DEF SemaIdle
  <2>5. MutexHeld'
        BY <1>0, <1>1, <1>5, <2>2, <2>3, MutexStep
  <2>6. Made(x)' % 4 # 2
        BY <1>3, <1>10, <1>14
  <2>7. CountHeld'
        BY <1>4, <1>8, <1>13, <1>14, <2>2, <2>6 DEF CountHeld
  <2> QED BY <2>3, <2>4, <2>5, <2>7
<1>15. CASE m % 4 = 1
  <2>1. Sema!Load(x)
        BY <1>7, <1>15, SemaAct, Zenon
  <2>2. /\ old_value' = [old_value EXCEPT ![x] = counter]
        /\ UNCHANGED <<example, sem, items, in, out, count, made, got, reader_count, counter,
                       removed>>
        BY <2>1 DEF Sema!Load, Sema!ringVars, Sema!readerVars
  <2>3. /\ old_value' \in [Children -> Nat] /\ old_value'[x] = counter
        /\ \A c \in Children : c # x => old_value'[c] = old_value[c]
        BY <1>9, <2>2
  <2>4. SemaTyped' /\ SemaIdle'
        BY <1>1, <2>2, <2>3 DEF SemaTyped, SemaIdle
  <2>5. HasMutex(x) \/ ~HasMutex(x)'
        BY <1>6, <1>15
  <2>6. MutexHeld'
        BY <1>0, <1>1, <1>5, <2>2, <2>5, MutexStep
  <2>7. \A c \in Children : Made(c)' % 4 = 2 => old_value'[c] = counter'
        BY <1>4, <1>8, <2>2, <2>3
  <2>8. CountHeld'
        BY <1>8, <1>13, <1>15, <2>2, <2>7 DEF CountHeld
  <2> QED BY <2>4, <2>6, <2>8
<1>16. CASE m % 4 = 2
  <2>1. Sema!Store(x)
        BY <1>7, <1>16, SemaAct, Zenon
  <2>2. /\ counter' = old_value[x] + 1
        /\ UNCHANGED <<example, sem, items, in, out, count, made, got, reader_count, old_value,
                       removed>>
        BY <2>1 DEF Sema!Store, Sema!ringVars, Sema!readerVars
  <2>3. old_value[x] = counter
        BY <1>8, <1>16 DEF m
  <2>4. counter' = counter + 1 /\ counter' \in Nat
        BY <1>9, <2>2, <2>3
  <2>5. SemaTyped' /\ SemaIdle'
        BY <1>1, <2>2, <2>4 DEF SemaTyped, SemaIdle
  <2>6. HasMutex(x)
        BY <1>6, <1>16
  <2>7. MutexHeld'
        BY <1>0, <1>1, <1>5, <2>2, <2>6, MutexStep
  <2>8. \A c \in Children : Made(c)' % 4 # 2
    <3>1. Made(x)' % 4 # 2
          BY <1>3, <1>10, <1>16
    <3> QED BY <1>4, <1>11, <2>6, <3>1
  <2> DEFINE q == (m + 1) \div 4
  <2>9. /\ q \in Nat /\ q + 1 \in 1..Repeats
        /\ (Made(x) + 1) \div 4 = q /\ (Made(x)' + 1) \div 4 = q + 1
    <3>1. q \in Nat /\ q + 1 \in 1..Repeats
          BY <1>7, <1>16, SemaAssumption
    <3> QED BY <1>3, <1>12, <1>16, <3>1 DEF m
  <2> HIDE DEF q
  <2>10. Written' = Written \cup {<<x, q + 1>>}
    <3>1. ASSUME NEW c \in Children, NEW i \in 1..Repeats
          PROVE  i <= (Made(c)' + 1) \div 4
                   <=> (i <= (Made(c) + 1) \div 4 \/ (c = x /\ i = q + 1))
      <4>1. CASE c = x
            BY <2>9, <4>1
      <4>2. CASE c # x
            BY <1>4, <4>2
      <4> QED BY <4>1, <4>2
    <3>2. <<x, q + 1>> \in Children \X (1..Repeats)
          BY <2>9
    <3>3. ASSUME NEW s \in Children \X (1..Repeats)
          PROVE  s \in Written' <=> s \in Written \cup {<<x, q + 1>>}
      <4>1. s[1] \in Children /\ s[2] \in 1..Repeats /\ s = <<s[1], s[2]>>
            OBVIOUS
      <4>2. s \in Written' <=> s[2] <= (Made(s[1])' + 1) \div 4
            BY <3>3 DEF Written
      <4>3. s \in Written <=> s[2] <= (Made(s[1]) + 1) \div 4
            BY <3>3 DEF Written
      <4>4. s = <<x, q + 1>> <=> s[1] = x /\ s[2] = q + 1
            BY <4>1
      <4> QED BY <3>1, <4>1, <4>2, <4>3, <4>4
    <3>4. Written' \subseteq Children \X (1..Repeats) /\ Written \subseteq Children \X (1..Repeats)
          BY DEF Written
    <3> QED BY <3>2, <3>3, <3>4
  <2>11. <<x, q + 1>> \notin Written
         BY <2>9 DEF Written
  <2>12. IsFiniteSet(Written)
    <3>1. IsFiniteSet(Children \X (1..Repeats))
      <4>1. IsFiniteSet(1..Repeats) /\ IsFiniteSet(Children)
            BY SemaAssumption, FS_Interval
      <4> QED BY <4>1, FS_Product
    <3>2. Written \subseteq Children \X (1..Repeats)
          BY DEF Written
    <3> QED BY <3>1, <3>2, FS_Subset
  <2>13. Cardinality(Written \cup {<<x, q + 1>>}) = Cardinality(Written) + 1
         BY <2>11, <2>12, FS_AddElement
  <2>14. CountHeld'
         BY <1>8, <2>4, <2>8, <2>10, <2>13 DEF CountHeld
  <2> QED BY <2>5, <2>7, <2>14
<1>17. CASE m % 4 = 3
  <2>1. Sema!Up(x, 0)
        BY <1>7, <1>17, SemaAct, Zenon
  <2>2. /\ sem' = [sem EXCEPT ![0] = sem[0] + 1]
        /\ UNCHANGED <<example, items, in, out, count, made, got, reader_count, counter,
                       old_value, removed>>
        BY <2>1 DEF Sema!Up, Sema!ringVars, Sema!readerVars, Sema!countVars
  <2>3. SemaTyped' /\ sem'[0] = sem[0] + 1 /\ sem'[1] = sem[1] /\ sem'[2] = sem[2]
        BY <1>1, <2>2 DEF SemaTyped
  <2>4. SemaIdle'
        BY <1>1, <2>2, <2>3 DEF SemaIdle
  <2>5. HasMutex(x) /\ ~HasMutex(x)'
        BY <1>6, <1>10, <1>17
  <2>6. MutexHeld'
        BY <1>0, <1>1, <1>5, <2>3, <2>5, MutexStep
  <2>7. Made(x)' % 4 # 2
        BY <1>3, <1>10, <1>17
  <2>8. CountHeld'
        BY <1>4, <1>8, <1>13, <1>17, <2>2, <2>7 DEF CountHeld
  <2> QED BY <2>3, <2>4, <2>6, <2>8
<1> QED BY <1>10, <1>14, <1>15, <1>16, <1>17

\* A step of the example that counts, whoever makes it.
LEMMA CounterStep ==
  ASSUME SemaExact, example = "counter", NEW x \in Sema!Processes, Sema!Process(x)
  PROVE  SemaTyped' /\ SemaIdle' /\ MutexHeld' /\ CountHeld'
<1>1. SemaPlaces /\ SemaTyped /\ SemaIdle /\ MutexHeld /\ CountHeld
      BY DEF SemaExact
<1>2. script[x] # <<>> /\ Sema!Advance(x) /\ UNCHANGED example
      BY SemaAct, Zenon
<1>3. x \in {"parent"} \cup Children
  <2> SUFFICES ASSUME x \notin {"parent"} \cup Children PROVE FALSE
      OBVIOUS
  <2>1. Made(x) \in Nat /\ Made(x) < Len(Full(x))
        BY <1>1, <1>2, SemaAdvance, Zenon
  <2>2. Full(x) = <<>>
    <3>1. x \in Sema!Processes \ ({"parent"} \cup Children)
          OBVIOUS
    <3> QED BY <3>1, CounterScript, Zenon
  <2> QED BY <2>1, <2>2
<1>4. CASE x = "parent"
  <2>1. /\ UNCHANGED <<example, sem, items, in, out, count, made, got, reader_count,
                        counter, old_value>>
        /\ removed' \in BOOLEAN
        /\ \A y \in Sema!Processes : y # "parent" => Made(y)' = Made(y)
        /\ \A y \in Sema!Processes : HasMutex(y)' <=> HasMutex(y)
        BY <1>4, ParentStep
  <2>2. \A c \in Children : Made(c)' = Made(c)
        BY <2>1, SemaAssumption DEF Sema!Processes
  <2>3. SemaTyped' /\ SemaIdle'
        BY <1>1, <2>1 DEF SemaTyped, SemaIdle
  <2>4. MutexHeld'
        BY <1>1, <2>1, MutexStep
  <2>5. Written' = Written
    <3>1. \A s \in Children \X (1..Repeats) : Made(s[1])' = Made(s[1])
          BY <2>2
    <3> QED BY <3>1 DEF Written
  <2>6. CountHeld'
        BY <1>1, <2>1, <2>2, <2>5 DEF CountHeld
  <2> QED BY <2>3, <2>4, <2>6
<1> QED BY <1>3, <1>4, AddStep

LEMMA SemaInit == Init => SemaInv
<1> SUFFICES ASSUME program = "semaphores", Sema!Init PROVE SemaExact
    BY DEF Init, SemaInv
<1> USE SharedAssumption, SemaAssumption
<1>1. example \in {"basic", "producer_consumer", "reader_writer", "counter"}
      BY DEF Sema!Init
<1>2. /\ \A p \in Sema!Processes : Full(p) \in Seq(SemaSteps)
      /\ Len(Full("parent")) >= 1
      /\ Len(Full("parent")) = 1 => Sema!Forked(example) = {}
      BY <1>1, ParentScript, Zenon
<1>3. \A p \in Sema!Processes : script[p] = Full(p)
      BY DEF Sema!Init, Full
<1>4. script \in [Sema!Processes -> Seq(SemaSteps)]
  <2>1. script = [p \in Sema!Processes |-> script[p]]
        BY DEF Sema!Init, Sema!Script
  <2> QED BY <1>2, <1>3, <2>1
<1>5. \A p \in Sema!Processes : Len(Full(p)) \in Nat
      BY <1>2, LenProperties
<1>6. \A p \in Sema!Processes : Made(p) = 0
      BY <1>3, <1>5 DEF Made
<1>7. SemaPlaces
  <2>1. ASSUME NEW p \in Sema!Processes
        PROVE  /\ Len(script[p]) <= Len(Full(p))
               /\ \A k \in 1..Len(script[p]) : script[p][k] = Full(p)[Made(p) + k]
    <3>1. script[p] = Full(p) /\ Made(p) = 0 /\ Len(Full(p)) \in Nat
          BY <1>3, <1>5, <1>6
    <3>2. \A k \in 1..Len(Full(p)) : 0 + k = k
          BY <3>1
    <3> QED BY <3>1, <3>2
  <2> QED BY <1>1, <1>4, <2>1 DEF SemaPlaces
<1>8. /\ sem \in [{0, 1, 2} -> Nat] /\ sem[0] = 1 /\ sem[2] = 0
      /\ sem[1] = IF example = "producer_consumer" THEN Slots
                  ELSE IF example = "reader_writer" THEN 1 ELSE 0
      BY DEF Sema!Init, Sema!Values
<1>9. SemaTyped
  <2>1. sem \in [{0, 1, 2} -> Nat]
        BY <1>8
  <2>2. items \in [0..Slots - 1 -> Nat] /\ in \in 0..Slots - 1 /\ out \in 0..Slots - 1
        BY SemaAssumption DEF Sema!Init
  <2>3. /\ count = 0 /\ made = 0 /\ got = <<>> /\ reader_count = 0
        /\ counter = 0 /\ removed = FALSE
        BY Zenon DEF Sema!Init
  <2>4. old_value \in [Children -> Nat]
        BY DEF Sema!Init
  <2>5. got \in Seq(Nat)
        BY <2>3, EmptySeq
  <2>6. removed \in BOOLEAN
        BY <2>3, Zenon
  <2>7. /\ count \in Int /\ made \in Nat /\ reader_count \in Int
        /\ counter \in Nat
        BY <2>3
  <2> QED BY <2>1, <2>2, <2>4, <2>5, <2>6, <2>7 DEF SemaTyped
<1>10. SemaIdle
      BY <1>8 DEF Sema!Init, SemaIdle
<1>11. /\ "parent" \in Sema!Processes /\ "producer" \in Sema!Processes
       /\ "consumer" \in Sema!Processes /\ "writer" \in Sema!Processes
       /\ Children \subseteq Sema!Processes
       BY DEF Sema!Processes
<1>12. MutexHeld
  <2>1. \A p \in Sema!Processes : ~HasMutex(p)
        BY <1>6 DEF HasMutex
  <2> QED BY <1>8, <2>1 DEF MutexHeld
<1>13. Collected
  <2>1. script["parent"] = Full("parent") /\ Len(Full("parent")) \in Nat
        BY <1>3, <1>5, <1>11
  <2>2. Len(script["parent"]) <= 1 => Sema!Forked(example) = {}
    <3> DEFINE n == Len(Full("parent"))
    <3>1. n \in Nat /\ n >= 1 /\ Len(script["parent"]) = n
          BY <1>2, <2>1
    <3>2. n = 1 => Sema!Forked(example) = {}
          BY <1>2, Zenon
    <3> HIDE DEF n
    <3> QED BY <3>1, <3>2
  <2>3. removed = FALSE
        BY DEF Sema!Init
  <2> QED BY <2>2, <2>3 DEF Collected
<1>14. RingHeld
  <2> SUFFICES ASSUME example = "producer_consumer"
               PROVE  /\ sem[1] = (Slots - (0 + 4) \div 5) + 0 \div 5
                      /\ sem[2] = 0 \div 5 - (0 + 4) \div 5
                      /\ made = (0 + 2) \div 5
                      /\ Len(got) = (0 + 2) \div 5
                      /\ count = made - Len(got)
                      /\ in = made % Slots /\ out = Len(got) % Slots
                      /\ \A k \in 1..Len(got) : got[k] = k
                      /\ \A k \in Nat : Len(got) <= k /\ k < made => items[k % Slots] = k + 1
      BY <1>6, <1>11 DEF RingHeld
  <2>1. /\ made = 0 /\ got = <<>> /\ count = 0 /\ in = 0 /\ out = 0 /\ Len(got) = 0
        BY DEF Sema!Init
  <2>2. /\ (0 + 4) \div 5 = 0 /\ 0 \div 5 = 0 /\ (0 + 2) \div 5 = 0
        OBVIOUS
  <2>3. 0 % Slots = 0
        BY Remainder
  <2>4. /\ sem[1] = (Slots - (0 + 4) \div 5) + 0 \div 5
        /\ sem[2] = 0 \div 5 - (0 + 4) \div 5
        BY <1>8, <2>2
  <2>5. made = (0 + 2) \div 5 /\ Len(got) = (0 + 2) \div 5
        BY <2>1, <2>2
  <2>6. count = made - Len(got) /\ in = made % Slots /\ out = Len(got) % Slots
    <3>1. in = made % Slots /\ out = Len(got) % Slots
          BY <2>1, <2>3, Zenon
    <3>2. 0 = 0 - 0
          OBVIOUS
    <3> QED BY <2>1, <3>1, <3>2, Zenon
  <2>7. \A k \in 1..Len(got) : got[k] = k
        BY <2>1
  <2>8. \A k \in Nat : Len(got) <= k /\ k < made => items[k % Slots] = k + 1
        BY <2>1
  <2> QED BY <2>4, <2>5, <2>6, <2>7, <2>8
<1>15. ReadersHeld
  <2> SUFFICES ASSUME example = "reader_writer" PROVE ReadersHeld
      BY DEF ReadersHeld
  <2>1. \A c \in Children : Made(c) % 9 = 0
        BY <1>6, <1>11
  <2>2. Readers = {}
        BY <2>1 DEF Readers
  <2>3. Cardinality({}) = 0
        BY FS_EmptySet, Zenon
  <2>4. reader_count = 0
        BY DEF Sema!Init
  <2>5. ~ReadersHold /\ ~WriterHolds
        BY <1>6, <1>11, <2>1, <2>4 DEF ReadersHold, WriterHolds
  <2> QED BY <1>8, <2>2, <2>3, <2>4, <2>5 DEF ReadersHeld
<1>16. CountHeld
  <2>1. \A c \in Children : Made(c) = 0
        BY <1>6, <1>11
  <2>2. Written = {}
    <3>1. ASSUME NEW s \in Children \X (1..Repeats) PROVE ~(s[2] <= (Made(s[1]) + 1) \div 4)
          BY <2>1
    <3> QED BY <3>1 DEF Written
  <2>3. Cardinality({}) = 0
        BY FS_EmptySet, Zenon
  <2>4. counter = 0
        BY DEF Sema!Init
  <2>5. \A c \in Children : Made(c) % 4 # 2
        BY <2>1
  <2> QED BY <2>2, <2>3, <2>4, <2>5 DEF CountHeld
<1> QED BY <1>7, <1>9, <1>10, <1>12, <1>13, <1>14, <1>15, <1>16 DEF SemaExact

LEMMA SemaStep == SemaInv /\ [Next]_vars => SemaInv'
<1> SUFFICES ASSUME SemaInv, [Next]_vars, program' = "semaphores" PROVE SemaExact'
    BY DEF SemaInv
<1>1. program = "semaphores"
      BY DEF Next, RunPipes, RunQueue, RunSignals, RunSemaphores, RunShared, RunCreation, vars
<1>2. SemaExact
      BY <1>1 DEF SemaInv
<1>3. CASE Sema!Next
  <2>1. PICK x \in Sema!Processes : Sema!Process(x)
        BY <1>3 DEF Sema!Next
  <2>2. SemaPlaces
        BY <1>2 DEF SemaExact
  <2>3. script[x] # <<>> /\ Sema!Advance(x) /\ UNCHANGED example
        BY <2>1, SemaAct, Zenon
  <2>4. SemaPlaces'
        BY <2>2, <2>3, SemaAdvance, Zenon
  <2>5. Collected'
        BY <1>2, <2>1, CollectedStep
  <2>6. example \in {"basic", "producer_consumer", "reader_writer", "counter"}
        BY <2>2 DEF SemaPlaces
  <2>7. CASE example = "basic"
    <3>1. SemaTyped' /\ SemaIdle' /\ MutexHeld'
          BY <1>2, <2>1, <2>7, BasicStep
    <3>2. RingHeld' /\ ReadersHeld' /\ CountHeld'
          BY <2>3, <2>7 DEF RingHeld, ReadersHeld, CountHeld
    <3> QED BY <2>4, <2>5, <3>1, <3>2 DEF SemaExact
  <2>8. CASE example = "producer_consumer"
    <3>1. SemaTyped' /\ SemaIdle' /\ MutexHeld' /\ RingHeld'
          BY <1>2, <2>1, <2>8, SlotStep
    <3>2. ReadersHeld' /\ CountHeld'
          BY <2>3, <2>8 DEF ReadersHeld, CountHeld
    <3> QED BY <2>4, <2>5, <3>1, <3>2 DEF SemaExact
  <2>9. CASE example = "reader_writer"
    <3>1. SemaTyped' /\ SemaIdle' /\ MutexHeld' /\ ReadersHeld'
          BY <1>2, <2>1, <2>9, RoomStep
    <3>2. RingHeld' /\ CountHeld'
          BY <2>3, <2>9 DEF RingHeld, CountHeld
    <3> QED BY <2>4, <2>5, <3>1, <3>2 DEF SemaExact
  <2>10. CASE example = "counter"
    <3>1. SemaTyped' /\ SemaIdle' /\ MutexHeld' /\ CountHeld'
          BY <1>2, <2>1, <2>10, CounterStep
    <3>2. RingHeld' /\ ReadersHeld'
          BY <2>3, <2>10 DEF RingHeld, ReadersHeld
    <3> QED BY <2>4, <2>5, <3>1, <3>2 DEF SemaExact
  <2> QED BY <2>6, <2>7, <2>8, <2>9, <2>10
<1>4. CASE UNCHANGED vars
  <2>1. UNCHANGED <<example, script, sem, items, in, out, count, made, got, reader_count,
                    counter, old_value, removed>>
        BY <1>4 DEF vars, commonVars, semVars
  <2>2. /\ \A p \in Sema!Processes : Full(p)' = Full(p) /\ Made(p)' = Made(p)
        /\ Full("parent")' = Full("parent")
        /\ Made("producer")' = Made("producer") /\ Made("consumer")' = Made("consumer")
        /\ Made("writer")' = Made("writer")
        /\ \A c \in Children : Made(c)' = Made(c)
        BY <2>1 DEF Full, Made
  <2>3. SemaPlaces /\ SemaTyped /\ SemaIdle /\ MutexHeld /\ Collected /\ RingHeld /\ ReadersHeld
        /\ CountHeld
        BY <1>2 DEF SemaExact
  <2>4. SemaPlaces'
        BY <2>1, <2>2, <2>3 DEF SemaPlaces
  <2>5. SemaTyped' /\ SemaIdle'
        BY <2>1, <2>3 DEF SemaTyped, SemaIdle
  <2>6. \A p \in Sema!Processes : HasMutex(p)' <=> HasMutex(p)
        BY <2>1, <2>2 DEF HasMutex
  <2>7. MutexHeld'
        BY <2>1, <2>3, <2>6 DEF MutexHeld
  <2>8. Collected'
        BY <2>1, <2>3 DEF Collected
  <2>9. RingHeld'
        BY <2>1, <2>2, <2>3, Zenon DEF RingHeld
  <2>10. /\ Readers' = Readers /\ (WriterHolds' <=> WriterHolds)
         /\ (ReadersHold' <=> ReadersHold)
         BY <2>1, <2>2 DEF Readers, WriterHolds, ReadersHold
  <2>11. ReadersHeld'
         BY <2>1, <2>3, <2>10 DEF ReadersHeld
  <2>12. Written' = Written
    <3>1. \A s \in Children \X (1..Repeats) : Made(s[1])' = Made(s[1])
          BY <2>2
    <3> QED BY <3>1 DEF Written
  <2>13. CountHeld'
         BY <2>1, <2>2, <2>3, <2>12 DEF CountHeld
  <2> QED BY <2>4, <2>5, <2>7, <2>8, <2>9, <2>11, <2>13 DEF SemaExact
<1> QED BY <1>1, <1>3, <1>4
        DEF Next, RunPipes, RunQueue, RunSignals, RunSemaphores, RunShared, RunCreation, vars

\* What the invariant says of the semaphores.
LEMMA SemaMeans ==
  SemaInv /\ program = "semaphores" =>
    /\ Sema!TypeOK /\ Sema!Exclusive /\ Sema!RingRight
    /\ Sema!WriterAlone /\ Sema!CounterRight /\ Sema!RemovedLast
<1> SUFFICES ASSUME SemaExact
             PROVE  /\ Sema!TypeOK /\ Sema!Exclusive /\ Sema!RingRight
                    /\ Sema!WriterAlone /\ Sema!CounterRight /\ Sema!RemovedLast
    BY DEF SemaInv
<1>1. /\ SemaPlaces /\ SemaTyped /\ SemaIdle /\ MutexHeld /\ Collected
      /\ RingHeld /\ ReadersHeld /\ CountHeld
      BY DEF SemaExact
<1>2. /\ example \in {"basic", "producer_consumer", "reader_writer", "counter"}
      /\ script \in [Sema!Processes -> Seq(SemaSteps)]
      /\ \A p \in Sema!Processes :
           /\ Len(script[p]) <= Len(Full(p))
           /\ \A k \in 1..Len(script[p]) : script[p][k] = Full(p)[Made(p) + k]
      BY <1>1 DEF SemaPlaces
<1>3. /\ \A p \in Sema!Processes : Full(p) \in Seq(SemaSteps)
      /\ \A p \in Sema!Processes \ (Sema!Forked(example) \cup {"parent"}) : Full(p) = <<>>
      /\ Sema!Forked(example) \subseteq Sema!Processes
  <2>1. /\ \A p \in Sema!Processes : Full(p) \in Seq(SemaSteps)
        /\ \A p \in Sema!Processes \ (Sema!Forked(example) \cup {"parent"}) : Full(p) = <<>>
        /\ Sema!Forked(example) \subseteq Sema!Processes \ {"parent"}
        BY <1>2, ParentScript, Zenon
  <2> QED BY <2>1
<1>4. ASSUME NEW p \in Sema!Processes
      PROVE  /\ Len(Full(p)) \in Nat /\ Len(script[p]) \in Nat
             /\ Made(p) = Len(Full(p)) - Len(script[p]) /\ Made(p) \in Nat
  <2>1. Full(p) \in Seq(SemaSteps) /\ script[p] \in Seq(SemaSteps)
        BY <1>2, <1>3
  <2>2. Len(Full(p)) \in Nat /\ Len(script[p]) \in Nat /\ Len(script[p]) <= Len(Full(p))
        BY <1>2, <2>1, LenProperties
  <2> QED BY <2>2 DEF Made
<1>5. ASSUME NEW p \in Sema!Processes, script[p] # <<>>
      PROVE  Made(p) \in Nat /\ Made(p) < Len(Full(p)) /\ Head(script[p]) = Full(p)[Made(p) + 1]
  <2>1. script[p] \in Seq(SemaSteps)
        BY <1>2
  <2>2. Len(script[p]) >= 1 /\ Head(script[p]) = script[p][1]
        BY <1>5, <2>1
  <2>3. 1 \in 1..Len(script[p])
        BY <1>4, <2>2
  <2>4. script[p][1] = Full(p)[Made(p) + 1]
        BY <1>2, <2>3
  <2>5. /\ Len(Full(p)) \in Nat /\ Len(script[p]) \in Nat
        /\ Made(p) = Len(Full(p)) - Len(script[p]) /\ Made(p) \in Nat
        BY <1>4
  <2>6. Made(p) < Len(Full(p))
    <3> DEFINE n == Len(Full(p))
               l == Len(script[p])
    <3>1. n \in Nat /\ l \in Nat /\ l >= 1 /\ Made(p) = n - l
          BY <2>2, <2>5
    <3> HIDE DEF n, l
    <3>2. Made(p) < n
          BY <3>1
    <3> QED BY <3>2 DEF n
  <2> QED BY <2>2, <2>4, <2>5, <2>6
\* Where a process is whose next step is an access.
<1>6. ASSUME NEW p \in Sema!Processes, NEW d, Sema!At(p, Sema!Do(d))
      PROVE  /\ d \in Sema!Guarded => HasMutex(p)
             /\ example = "reader_writer" /\ d = "write" => WriterHolds
             /\ example = "reader_writer" /\ d = "read" =>
                  p \in Children /\ Made(p) % 9 = 4
  <2> DEFINE m == Made(p)
  <2>1. /\ m \in Nat /\ m < Len(Full(p)) /\ Full(p)[m + 1] = Sema!Do(d)
        BY <1>5, <1>6 DEF Sema!At
  <2>2. /\ \A s : Sema!P(s) # Sema!Do(d) /\ Sema!V(s) # Sema!Do(d) /\ Sema!Wait(s) # Sema!Do(d)
        /\ \A y : Sema!Do(y) = Sema!Do(d) => y = d
        BY DEF Sema!P, Sema!V, Sema!Do, Sema!Wait
  <2>3. p = "parent" /\ example # "basic" => d = "remove"
    <3> SUFFICES ASSUME p = "parent", example # "basic" PROVE d = "remove"
        OBVIOUS
    <3>1. PICK n \in Nat : Full("parent") = Sema!Collect(n)
      <4>1. Cardinality(Children) \in Nat /\ Cardinality(Children) + 1 \in Nat /\ 2 \in Nat
            BY SemaAssumption, FS_CardinalityType
      <4>2. example \in {"producer_consumer", "reader_writer", "counter"}
            BY <1>2
      <4> QED BY <4>1, <4>2, RingScript, ReaderScript, CounterScript, Zenon
    <3>2. /\ Len(Full("parent")) = n + 1 /\ Full("parent")[n + 1] = Sema!Do("remove")
          /\ \A k \in 1..n : Full("parent")[k] = Sema!Wait(k)
          BY <3>1, CollectSteps
    <3>3. m + 1 \in 1..n \/ m + 1 = n + 1
          BY <2>1, <3>2
    <3> QED BY <2>1, <2>2, <3>2, <3>3, Zenon
  <2>4. CASE example = "basic"
    <3>1. p \in {"parent", "child"}
      <4> SUFFICES ASSUME p \notin {"parent", "child"} PROVE FALSE
          OBVIOUS
      <4>1. Full(p) = <<>>
            BY <2>4, BasicScript
      <4> QED BY <2>1, <4>1
    <3>2. Len(Full(p)) \in {3, 5}
          BY <2>4, <3>1, BasicScript
    <3> HIDE DEF m
    <3>3. m \in {0, 1, 2, 3, 4}
          BY <2>1, <3>2
    <3>4. ASSUME d = "use" PROVE m = 1
      <4>1. m # 0 /\ m # 2
            BY <2>1, <2>2, <2>4, <3>1, BasicScript
      <4>2. p = "child" => m < 3
            BY <2>1, <2>4, BasicScript
      <4>3. p = "parent" => m # 3 /\ m # 4
        <5>1. p = "parent" /\ m = 3 => Full(p)[m + 1] = Sema!Wait(1)
              BY <2>4, BasicScript
        <5>2. p = "parent" /\ m = 4 => Full(p)[m + 1] = Sema!Do("remove")
              BY <2>4, BasicScript
        <5>3. "remove" # d
              BY <3>4
        <5> QED BY <2>1, <2>2, <5>1, <5>2, <5>3
      <4> QED BY <3>1, <3>3, <4>1, <4>2, <4>3
    <3> QED BY <2>4, <3>1, <3>4 DEF HasMutex, Sema!Guarded, m
  <2>5. CASE example = "producer_consumer"
    <3>1. p \in {"parent", "producer", "consumer"}
      <4> SUFFICES ASSUME p \notin {"parent", "producer", "consumer"} PROVE FALSE
          OBVIOUS
      <4>1. Full(p) = <<>>
            BY <2>5, RingScript
      <4> QED BY <2>1, <4>1
    <3>2. p \in {"producer", "consumer"} => m < Items * 5
          BY <2>1, <2>5, RingScript
    <3> HIDE DEF m
    <3>3. m % 5 \in 0..4
          BY <2>1, NextStep
    <3>4. p \in {"producer", "consumer"} => m % 5 = 2
      <4> SUFFICES ASSUME p \in {"producer", "consumer"}, m % 5 # 2 PROVE FALSE
          OBVIOUS
      <4>1. m % 5 = 0 \/ m % 5 = 1 \/ m % 5 = 3 \/ m % 5 = 4
            BY <3>3
      <4>2. p = "producer" \/ p = "consumer"
            OBVIOUS
      <4>3. m \in Nat /\ m < Items * 5
            BY <2>1, <3>2
      <4> QED BY <2>1, <2>2, <2>5, <4>1, <4>2, <4>3, RingScript, Zenon
    <3> QED BY <2>3, <2>5, <3>1, <3>4 DEF HasMutex, Sema!Guarded, m
  <2>6. CASE example = "reader_writer"
    <3>1. p \in {"parent", "writer"} \cup Children
      <4> SUFFICES ASSUME p \notin {"parent", "writer"} \cup Children PROVE FALSE
          OBVIOUS
      <4>1. p \in Sema!Processes \ ({"parent", "writer"} \cup Children)
            OBVIOUS
      <4>2. Full(p) = <<>>
            BY <2>6, <4>1, ReaderScript, Zenon
      <4> QED BY <2>1, <4>2
    <3>2. p = "writer" => m < Writes * 3
          BY <2>1, <2>6, ReaderScript
    <3>3. p \in Children => m < Repeats * 9
      <4>1. p \in Children => Len(Full(p)) = Repeats * 9
            BY <2>6, ReaderScript, Zenon
      <4> QED BY <2>1, <4>1
    <3> HIDE DEF m
    <3>4. m % 9 \in 0..8 /\ m % 3 \in 0..2
          BY <2>1, NextStep
    <3>5. p = "writer" => m % 3 = 1 /\ d = "write"
      <4> SUFFICES ASSUME p = "writer" PROVE m % 3 = 1 /\ d = "write"
          OBVIOUS
      <4>1. m % 3 = 0 \/ m % 3 = 1 \/ m % 3 = 2
            BY <3>4
      <4> QED BY <2>1, <2>2, <2>6, <3>2, <4>1, ReaderScript, Zenon
    <3>6. p \in Children => \/ m % 9 \in {1, 2, 6, 7} /\ d # "read" /\ d # "write"
                            \/ m % 9 = 4 /\ d = "read"
      <4> SUFFICES ASSUME p \in Children
                   PROVE  \/ m % 9 \in {1, 2, 6, 7} /\ d # "read" /\ d # "write"
                          \/ m % 9 = 4 /\ d = "read"
          OBVIOUS
      <4>1. /\ m % 9 = 0 => Full(p)[m + 1] = Sema!P(0)
            /\ m % 9 = 1 => Full(p)[m + 1] = Sema!Do("arrive")
            /\ m % 9 = 2 => Full(p)[m + 1] = Sema!Do("lock_if_first")
            /\ m % 9 = 3 => Full(p)[m + 1] = Sema!V(0)
            /\ m % 9 = 4 => Full(p)[m + 1] = Sema!Do("read")
            /\ m % 9 = 5 => Full(p)[m + 1] = Sema!P(0)
            /\ m % 9 = 6 => Full(p)[m + 1] = Sema!Do("depart")
            /\ m % 9 = 7 => Full(p)[m + 1] = Sema!Do("unlock_if_last")
            /\ m % 9 = 8 => Full(p)[m + 1] = Sema!V(0)
            BY <2>1, <2>6, <3>3, ReaderScript, Zenon
      <4>2. m % 9 # 0 /\ m % 9 # 3 /\ m % 9 # 5 /\ m % 9 # 8
            BY <2>1, <2>2, <4>1
      <4>3. /\ m % 9 = 1 => d = "arrive"
            /\ m % 9 = 2 => d = "lock_if_first"
            /\ m % 9 = 4 => d = "read"
            /\ m % 9 = 6 => d = "depart"
            /\ m % 9 = 7 => d = "unlock_if_last"
            BY <2>1, <2>2, <4>1
      <4> QED BY <3>4, <4>2, <4>3
    <3>7. "writer" \notin Children /\ "parent" \notin Children
          BY SemaAssumption
    <3>8. d \in Sema!Guarded => HasMutex(p)
          BY <2>3, <2>6, <3>1, <3>5, <3>6 DEF HasMutex, Sema!Guarded, m
    <3>9. d = "write" => WriterHolds
          BY <2>3, <2>6, <3>1, <3>5, <3>6 DEF WriterHolds, m
    <3>10. d = "read" => p \in Children /\ Made(p) % 9 = 4
          BY <2>3, <2>6, <3>1, <3>5, <3>6 DEF m
    <3> QED BY <3>8, <3>9, <3>10
  <2>7. CASE example = "counter"
    <3>1. p \in {"parent"} \cup Children
      <4> SUFFICES ASSUME p \notin {"parent"} \cup Children PROVE FALSE
          OBVIOUS
      <4>1. p \in Sema!Processes \ ({"parent"} \cup Children)
            OBVIOUS
      <4>2. Full(p) = <<>>
            BY <2>7, <4>1, CounterScript, Zenon
      <4> QED BY <2>1, <4>2
    <3>2. p \in Children => m < Repeats * 4
      <4>1. p \in Children => Len(Full(p)) = Repeats * 4
            BY <2>7, CounterScript, Zenon
      <4> QED BY <2>1, <4>1
    <3> HIDE DEF m
    <3>3. m % 4 \in 0..3
          BY <2>1, NextStep
    <3>4. p \in Children => m % 4 \in {1, 2}
      <4> SUFFICES ASSUME p \in Children, m % 4 \notin {1, 2} PROVE FALSE
          OBVIOUS
      <4>1. m % 4 = 0 \/ m % 4 = 3
            BY <3>3
      <4>2. m \in Nat /\ m < Repeats * 4
            BY <2>1, <3>2
      <4> QED BY <2>1, <2>2, <2>7, <4>1, <4>2, CounterScript, Zenon
    <3> QED BY <2>3, <2>7, <3>1, <3>4 DEF HasMutex, Sema!Guarded, m
  <2> QED BY <1>2, <2>4, <2>5, <2>6, <2>7
<1>7. Sema!Exclusive
  <2> DEFINE I == Sema!Inside(Sema!Guarded)
  <2>1. \A p \in I : p \in Sema!Processes /\ HasMutex(p)
        BY <1>6 DEF Sema!Inside
  <2>2. \A p, q \in I : p = q
        BY <1>1, <2>1 DEF MutexHeld
  <2>3. I # {} => sem[0] = 0
        BY <1>1, <2>1 DEF MutexHeld
  <2> HIDE DEF I
  <2>4. Cardinality(I) <= 1
    <3>1. CASE I = {}
      <4>1. Cardinality({}) = 0
            BY FS_EmptySet, Zenon
      <4> QED BY <3>1, <4>1
    <3>2. CASE I # {}
      <4>1. PICK p : p \in I
            BY <3>2
      <4>2. I = {p}
            BY <2>2, <4>1
      <4> QED BY <4>2, FS_Singleton
    <3> QED BY <3>1, <3>2
  <2>5. sem[0] <= 1
        BY <1>1 DEF MutexHeld
  <2> QED BY <2>3, <2>4, <2>5, SemaCardinality DEF Sema!Exclusive, Sema!Mutex, I
<1> HIDE DEF Sema!Guarded
<1>8. Sema!WriterAlone
  <2> SUFFICES ASSUME example = "reader_writer"
               PROVE  /\ Sema!Inside({"write"}) # {} => Sema!Inside({"read"}) = {}
                      /\ sem[1] <= 1
      BY DEF Sema!WriterAlone, Sema!WriterMutex
  <2>1. /\ reader_count = Cardinality(Readers) /\ sem[1] \in {0, 1}
        /\ ~(ReadersHold /\ WriterHolds)
        BY <1>1 DEF ReadersHeld
  <2>2. Sema!Inside({"write"}) # {} => WriterHolds
        BY <1>6 DEF Sema!Inside
  <2>3. ASSUME NEW p \in Sema!Inside({"read"}) PROVE ReadersHold
    <3>1. p \in Children /\ Made(p) % 9 = 4
          BY <1>6, <2>3 DEF Sema!Inside
    <3>2. IsFiniteSet(Readers) /\ Cardinality(Readers) \in Nat
      <4>1. Readers \subseteq Children
            BY DEF Readers
      <4> QED BY <4>1, SemaAssumption, FS_Subset, FS_CardinalityType
    <3>3. p \in Readers
          BY <3>1 DEF Readers
    <3>4. Cardinality(Readers) >= 1
      <4>1. Cardinality(Readers) # 0
            BY <3>2, <3>3, FS_EmptySet
      <4> QED BY <3>2, <4>1
    <3>5. CASE \E c \in Children : Made(c) % 9 = 2
      <4>1. PICK c \in Children : Made(c) % 9 = 2
            BY <3>5
      <4>2. c \in Readers /\ c # p
            BY <3>1, <4>1 DEF Readers
      <4>3. /\ IsFiniteSet(Readers \ {c}) /\ Cardinality(Readers \ {c}) = Cardinality(Readers) - 1
            BY <3>2, <4>2, FS_RemoveElement
      <4>4. Readers \ {c} # {}
            BY <3>3, <4>2
      <4>5. Cardinality(Readers \ {c}) # 0
            BY <4>3, <4>4, FS_EmptySet
      <4>6. Cardinality(Readers) >= 2
            BY <3>2, <3>4, <4>3, <4>5
      <4> QED BY <2>1, <4>6 DEF ReadersHold
    <3>6. CASE \A c \in Children : Made(c) % 9 # 2
          BY <2>1, <3>4, <3>6 DEF ReadersHold
    <3> QED BY <3>5, <3>6
  <2> QED BY <2>1, <2>2, <2>3
<1>9. Sema!RemovedLast
  <2> SUFFICES ASSUME removed, NEW p \in Sema!Processes PROVE script[p] = <<>>
      BY DEF Sema!RemovedLast, Sema!Ended
  <2>1. script["parent"] = <<>>
        BY <1>1 DEF Collected
  <2>2. Len(script["parent"]) <= 1
        BY <2>1
  <2>3. CASE p \in Sema!Forked(example)
        BY <1>1, <2>2, <2>3 DEF Collected
  <2>4. CASE p \notin Sema!Forked(example) \cup {"parent"}
    <3>1. Full(p) = <<>>
          BY <1>3, <2>4
    <3>2. Len(script[p]) = 0
          BY <1>2, <1>4, <3>1
    <3> QED BY <1>2, <3>2
  <2> QED BY <2>1, <2>3, <2>4
<1>10. Sema!CounterRight
  <2> SUFFICES ASSUME example = "counter", script["parent"] = <<>>
               PROVE  counter = Cardinality(Children) * Repeats
      BY SemaCardinality DEF Sema!CounterRight, Sema!Ended
  <2>1. Len(script["parent"]) <= 1
        OBVIOUS
  <2>2. Sema!Forked(example) = Children
        BY DEF Sema!Forked
  <2>3. \A c \in Children : script[c] = <<>>
        BY <1>1, <2>1, <2>2 DEF Collected
  <2>4. ASSUME NEW c \in Children PROVE (Made(c) + 1) \div 4 = Repeats
    <3>1. c \in Sema!Processes
          BY DEF Sema!Processes
    <3>2. Len(Full(c)) = Repeats * 4
          BY CounterScript, Zenon
    <3>3. Made(c) = Repeats * 4
          BY <1>4, <2>3, <3>1, <3>2
    <3> QED BY <3>3, SemaAssumption
  <2>5. Written = Children \X (1..Repeats)
        BY <2>4 DEF Written
  <2>6. IsFiniteSet(1..Repeats) /\ IsFiniteSet(Children) /\ Cardinality(1..Repeats) = Repeats
        BY SemaAssumption, FS_Interval
  <2>7. Cardinality(Children \X (1..Repeats)) = Cardinality(Children) * Repeats
        BY <2>6, FS_Product
  <2> QED BY <1>1, <2>5, <2>7 DEF CountHeld
<1>11. example = "producer_consumer" =>
         /\ sem[1] \in 0..Slots /\ sem[2] \in 0..Slots
         /\ count \in 0..Slots /\ made \in Nat /\ count = made - Len(got)
         /\ (in - out) % Slots = count % Slots
  <2> SUFFICES ASSUME example = "producer_consumer"
               PROVE  /\ sem[1] \in 0..Slots /\ sem[2] \in 0..Slots
                      /\ count \in 0..Slots /\ made \in Nat /\ count = made - Len(got)
                      /\ (in - out) % Slots = count % Slots
      OBVIOUS
  <2> DEFINE j == Made("producer")
             c == Made("consumer")
  <2>1. j \in Nat /\ c \in Nat
        BY <1>4 DEF Sema!Processes
  <2>2. /\ sem[1] = (Slots - (j + 4) \div 5) + c \div 5
        /\ sem[2] = j \div 5 - (c + 4) \div 5
        /\ made = (j + 2) \div 5
        /\ Len(got) = (c + 2) \div 5
        /\ count = made - Len(got)
        /\ in = made % Slots /\ out = Len(got) % Slots
        BY <1>1, Zenon DEF RingHeld
  <2>3. /\ sem[1] \in Nat /\ sem[2] \in Nat /\ made \in Nat /\ Len(got) \in Nat
        BY <1>1 DEF SemaTyped
  <2> HIDE DEF j, c
  <2>4. /\ j \div 5 \in Nat /\ (j + 2) \div 5 \in Nat /\ (j + 4) \div 5 \in Nat
        /\ j \div 5 <= (j + 2) \div 5 /\ (j + 2) \div 5 <= (j + 4) \div 5
        /\ c \div 5 \in Nat /\ (c + 2) \div 5 \in Nat /\ (c + 4) \div 5 \in Nat
        /\ c \div 5 <= (c + 2) \div 5 /\ (c + 2) \div 5 <= (c + 4) \div 5
        BY <2>1, Quotients
  <2>5. Slots \in Nat \ {0}
        BY SemaAssumption
  <2>6. sem[1] \in 0..Slots /\ sem[2] \in 0..Slots /\ count \in 0..Slots
    <3>1. /\ sem[1] = (Slots - (j + 4) \div 5) + c \div 5
          /\ sem[2] = j \div 5 - (c + 4) \div 5
          /\ made = (j + 2) \div 5
          /\ Len(got) = (c + 2) \div 5
          /\ count = made - Len(got)
          BY <2>2, Zenon
    <3> DEFINE l == Len(got)
    <3>2. l \in Nat /\ l = (c + 2) \div 5 /\ count = made - l
          BY <2>3, <3>1
    <3> DEFINE a == (j + 4) \div 5    b == j \div 5
               d == (c + 4) \div 5    e == c \div 5
    <3>3. /\ a \in Nat /\ b \in Nat /\ d \in Nat /\ e \in Nat
          /\ b <= made /\ made <= a /\ e <= l /\ l <= d
          BY <2>4, <3>1, <3>2, Zenon
    <3>4. /\ made \in Nat /\ l \in Nat /\ count = made - l /\ Slots \in Nat
          /\ sem[1] \in Nat /\ sem[1] = (Slots - a) + e
          /\ sem[2] \in Nat /\ sem[2] = b - d
          BY <2>3, <2>5, <3>1, <3>2, Zenon
    <3> HIDE DEF l, a, b, d, e
    <3>5. d <= b /\ a <= Slots + e
          BY <3>3, <3>4
    <3>6. sem[1] \in 0..Slots
          BY <3>3, <3>4, <3>5
    <3>7. sem[2] \in 0..Slots
          BY <3>3, <3>4, <3>5
    <3>8. count \in 0..Slots
          BY <3>3, <3>4, <3>5
    <3> QED BY <3>6, <3>7, <3>8
  <2>7. (in - out) % Slots = count % Slots
    <3>1. /\ made \in Nat /\ Len(got) \in Nat /\ Slots \in Nat \ {0}
          /\ in = made % Slots /\ out = Len(got) % Slots /\ count = made - Len(got)
          BY <2>2, <2>3, <2>5, Zenon
    <3>2. in \in 0..Slots - 1 /\ \E p \in Int : made = Slots * p + in
          BY <3>1, SlotOf, Zenon
    <3>3. out \in 0..Slots - 1 /\ \E q \in Int : Len(got) = Slots * q + out
          BY <3>1, SlotOf, Zenon
    <3>4. PICK p \in Int : made = Slots * p + in
          BY <3>2, Zenon
    <3>5. PICK q \in Int : Len(got) = Slots * q + out
          BY <3>3, Zenon
    <3> DEFINE h == Slots    e == p - q    d == count    f == in - out    a == Len(got)
    <3>6. h * p \in Int /\ h * q \in Int /\ h * e = h * p - h * q
          BY <3>1
    <3>7. /\ h \in Nat \ {0} /\ in \in 0..h - 1 /\ out \in 0..h - 1 /\ d = made - a
          /\ made = h * p + in /\ a = h * q + out /\ f = in - out
          BY <3>1, <3>2, <3>3, <3>4, <3>5, Zenon
    <3>8. e \in Int
          OBVIOUS
    <3>9. a \in Nat /\ made \in Nat
          BY <3>1, Zenon
    <3> HIDE DEF h, e, d, f, a
    <3>10. /\ e \in Int /\ d \in Int
          /\ f \in Int /\ f < h /\ -h < f
          BY <3>7, <3>8, <3>9
    <3>11. d = h * e + f
          BY <3>6, <3>7, <3>10
    <3>12. \E k \in Int : d = h * k + f
          BY <3>10, <3>11, Zenon
    <3>13. f % h = d % h
          BY <3>7, <3>10, <3>12, WholeTurns
    <3> QED BY <3>13, Zenon DEF h, d, f
  <2> QED BY <2>2, <2>3, <2>6, <2>7
<1>12. Sema!RingRight
  <2>1. CASE example = "producer_consumer"
        BY <1>1, <1>11, <2>1 DEF RingHeld, Sema!RingRight
  <2>2. CASE example # "producer_consumer"
    <3>1. in = 0 /\ out = 0 /\ count = 0 /\ got = <<>>
          BY <1>1, <2>2 DEF SemaIdle
    <3> QED BY <3>1, SemaAssumption DEF Sema!RingRight
  <2> QED BY <2>1, <2>2
<1>13. Sema!TypeOK
  <2>1. DOMAIN script = Sema!Processes
        BY <1>2
  <2>2. /\ sem \in [{0, 1, 2} -> Nat] /\ in \in 0..Slots - 1 /\ out \in 0..Slots - 1
        /\ removed \in BOOLEAN /\ Slots \in Nat \ {0} /\ sem[0] \in {0, 1}
        BY <1>1, SemaAssumption DEF SemaTyped, MutexHeld
  <2>3. sem[1] \in 0..Slots + 1 /\ sem[2] \in 0..Slots + 1 /\ count \in Nat
    <3>1. CASE example = "producer_consumer"
          BY <1>11, <2>2, <3>1
    <3>2. CASE example = "reader_writer"
          BY <1>1, <2>2, <3>2 DEF SemaIdle, ReadersHeld
    <3>3. CASE example \in {"basic", "counter"}
          BY <1>1, <2>2, <3>3 DEF SemaIdle
    <3> QED BY <1>2, <3>1, <3>2, <3>3
  <2>4. sem \in [{0, 1, 2} -> 0..Slots + 1]
        BY <2>2, <2>3
  <2>5. reader_count \in 0..Cardinality(Children)
    <3>1. IsFiniteSet(Children) /\ Cardinality(Children) \in Nat
          BY SemaAssumption, FS_CardinalityType
    <3>2. CASE example = "reader_writer"
      <4>1. Readers \subseteq Children
            BY DEF Readers
      <4>2. Cardinality(Readers) <= Cardinality(Children) /\ IsFiniteSet(Readers)
            BY <3>1, <4>1, FS_Subset
      <4>3. Cardinality(Readers) \in Nat
            BY <4>2, FS_CardinalityType
      <4> QED BY <1>1, <3>1, <3>2, <4>2, <4>3 DEF ReadersHeld
    <3>3. CASE example # "reader_writer"
          BY <1>1, <3>1, <3>3 DEF SemaIdle
    <3> QED BY <3>2, <3>3
  <2> QED BY <2>1, <2>2, <2>3, <2>4, <2>5, SemaCardinality DEF Sema!TypeOK
<1> QED BY <1>7, <1>8, <1>9, <1>10, <1>12, <1>13

-----------------------------------------------------------------------------
\* Pipes (1_pipeAndFIFO.cpp).

\* What is left of a script is its end: the next call, and what remains.
LEMMA NextCall ==
  ASSUME NEW S, NEW f \in Seq(S), NEW s \in Seq(S), Len(s) <= Len(f), s # <<>>,
         \A k \in 1..Len(s) : s[k] = f[(Len(f) - Len(s)) + k]
  PROVE  /\ Len(s) \in 1..Len(f)
         /\ Head(s) = f[(Len(f) - Len(s)) + 1]
         /\ Tail(s) \in Seq(S) /\ Len(Tail(s)) = Len(s) - 1
         /\ \A k \in 1..Len(Tail(s)) : Tail(s)[k] = f[(Len(f) - Len(Tail(s))) + k]
<1> DEFINE n == Len(s)    m == Len(f)
<1>1. n \in Nat /\ m \in Nat /\ n # 0 /\ n <= m
      BY LenProperties
<1>2. /\ Head(s) = s[1] /\ Tail(s) \in Seq(S) /\ Len(Tail(s)) = n - 1
      /\ \A k \in 1..n - 1 : Tail(s)[k] = s[k + 1]
      BY <1>1, HeadTailProperties
<1>3. \A k \in 1..n : s[k] = f[(m - n) + k]
      OBVIOUS
<1> HIDE DEF n, m
<1>4. Head(s) = f[(m - n) + 1]
      BY <1>1, <1>2, <1>3
<1>5. ASSUME NEW k \in 1..n - 1 PROVE Tail(s)[k] = f[(m - (n - 1)) + k]
  <2>1. k + 1 \in 1..n /\ (m - n) + (k + 1) = (m - (n - 1)) + k
        BY <1>1
  <2>2. s[k + 1] = f[(m - n) + (k + 1)]
        BY <1>3, <2>1
  <2> QED BY <1>2, <2>1, <2>2
<1>6. n \in 1..m
      BY <1>1
<1> QED BY <1>2, <1>4, <1>5, <1>6 DEF n, m

PipeCalls ==
  {Pipe!Close(p, e) : p \in {1, 2}, e \in {"r", "w"}}
    \cup {Pipe!Write(p) : p \in {1, 2}} \cup {Pipe!Read(p) : p \in {1, 2}}
    \cup {Pipe!ReadAll(p) : p \in {1, 2}}
    \cup {<<"open", e>> : e \in {"r", "w"}} \cup {<<"opened", e>> : e \in {"r", "w"}}
    \cup {Pipe!Wait, <<"mkfifo">>, <<"unlink">>}

\* The calls that a process has still to make, and all of its calls.
Left(x)    == Len(script[x])
Calls(x)   == Pipe!Script(example)[x]

PipePlaces ==
  /\ example \in {"basic", "blocking", "bidirectional", "many", "fifo"}
  /\ script \in [Pipe!Processes -> Seq(PipeCalls)]
  /\ \A x \in Pipe!Processes :
       /\ Left(x) <= Len(Calls(x))
       /\ \A k \in 1..Left(x) : script[x][k] = Calls(x)[(Len(Calls(x)) - Left(x)) + k]

PipeTyped ==
  /\ open \in [Pipe!Ends -> SUBSET Pipe!Processes]
  /\ sent \in [{1, 2} -> Nat] /\ read \in [{1, 2} -> Nat]
  /\ \A p \in {1, 2} : read[p] <= sent[p]
  /\ fifo \in BOOLEAN /\ missed \in BOOLEAN /\ met \subseteq {"r", "w"}

\* Who holds which end, by the calls that are left.
Holds(x, e) ==
  \/ /\ example \in {"basic", "blocking"}
     /\ \/ x = "parent" /\ e = <<1, "r">> /\ Left(x) = 4
        \/ x = "parent" /\ e = <<1, "w">> /\ Left(x) >= 2
        \/ x = "child" /\ e = <<1, "r">> /\ Left(x) >= 1
        \/ x = "child" /\ e = <<1, "w">> /\ Left(x) = 3
  \/ /\ example = "bidirectional"
     /\ \/ x = "parent" /\ e = <<1, "r">> /\ Left(x) = 7
        \/ x = "parent" /\ e = <<1, "w">> /\ Left(x) >= 4
        \/ x = "parent" /\ e = <<2, "r">> /\ Left(x) >= 2
        \/ x = "parent" /\ e = <<2, "w">> /\ Left(x) >= 6
        \/ x = "child" /\ e = <<1, "r">> /\ Left(x) >= 3
        \/ x = "child" /\ e = <<1, "w">> /\ Left(x) = 6
        \/ x = "child" /\ e = <<2, "r">> /\ Left(x) >= 5
        \/ x = "child" /\ e = <<2, "w">> /\ Left(x) >= 1
  \/ /\ example = "many"
     /\ \/ x = "parent" /\ e = <<1, "r">> /\ Left(x) = Flood + 3
        \/ x = "parent" /\ e = <<1, "w">> /\ Left(x) >= 2
        \/ x = "child" /\ e = <<1, "r">> /\ Left(x) >= 1
        \/ x = "child" /\ e = <<1, "w">> /\ Left(x) = 3
  \/ /\ example = "fifo"
     /\ \/ x = "parent" /\ e = <<1, "w">> /\ Left(x) \in 3..8
        \/ x = "child" /\ e = <<1, "r">> /\ Left(x) \in 1..3

PipeHeld ==
  /\ \A e \in Pipe!Ends, x \in Pipe!Processes : (x \in open[e]) <=> Holds(x, e)
  /\ Left("parent") = 0 => Left("child") = 0

\* One message: what is written and read, by the calls that are left.
PipeOnce ==
  example \in {"basic", "blocking"} =>
    /\ sent[1] = IF Left("parent") <= 2 THEN MsgLen ELSE 0
    /\ read[1] = IF Left("child") <= 1 THEN MsgLen ELSE 0
    /\ sent[2] = 0

PipeTwice ==
  example = "bidirectional" =>
    /\ sent[1] = IF Left("parent") <= 4 THEN MsgLen ELSE 0
    /\ read[1] = IF Left("child") <= 3 THEN MsgLen ELSE 0
    /\ sent[2] = IF Left("child") <= 1 THEN MsgLen ELSE 0
    /\ read[2] = IF Left("parent") <= 2 THEN MsgLen ELSE 0

\* The reader goes on to the end of the file, which comes after the last write.
PipeFlood ==
  example = "many" =>
    /\ Left("child") <= 1 => Left("parent") <= 1 /\ read[1] = sent[1]
    /\ sent[2] = 0

PipeNamed ==
  /\ example = "fifo" =>
       /\ sent[2] = 0
       /\ ("w" \in met) <=> (Left("parent") <= 8)
       /\ ("r" \in met) <=> (~missed /\ Left("child") <= 3)
       /\ missed => Left("child") = 0
       /\ Left("parent") \in 1..9 => fifo = TRUE
       /\ Left("parent") <= 1 => Left("child") = 0
       /\ Left("parent") <= 7 \/ (~missed /\ Left("child") <= 2) => met = {"r", "w"}
       /\ ~missed /\ Left("child") <= 1 => Left("parent") <= 2 /\ read[1] = sent[1]
  /\ example # "fifo" => ~missed

PipeExact ==
  PipePlaces /\ PipeTyped /\ PipeHeld /\ PipeOnce /\ PipeTwice /\ PipeFlood /\ PipeNamed

PipeInv == program = "pipes" => PipeExact

\* All the calls of a process of each example.
LEMMA OnceCalls ==
  ASSUME example \in {"basic", "blocking"}
  PROVE  /\ Calls("parent") = <<Pipe!Close(1, "r"), Pipe!Write(1), Pipe!Close(1, "w"), Pipe!Wait>>
         /\ Calls("child") = <<Pipe!Close(1, "w"), Pipe!Read(1), Pipe!Close(1, "r")>>
<1>1. Pipe!Script(example) = Pipe!OneMessage
      BY DEF Pipe!Script
<1> QED BY <1>1 DEF Calls, Pipe!OneMessage

LEMMA TwiceCalls ==
  ASSUME example = "bidirectional"
  PROVE  /\ Calls("parent") = <<Pipe!Close(1, "r"), Pipe!Close(2, "w"), Pipe!Write(1),
                                Pipe!Close(1, "w"), Pipe!Read(2), Pipe!Close(2, "r"), Pipe!Wait>>
         /\ Calls("child") = <<Pipe!Close(1, "w"), Pipe!Close(2, "r"), Pipe!Read(1),
                               Pipe!Close(1, "r"), Pipe!Write(2), Pipe!Close(2, "w")>>
<1>1. Pipe!Script(example) = Pipe!Bidirectional
      BY DEF Pipe!Script
<1> QED BY <1>1 DEF Calls, Pipe!Bidirectional

LEMMA PipeCallsAre ==
  /\ Pipe!Close(1, "r") \in PipeCalls /\ Pipe!Close(1, "w") \in PipeCalls
  /\ Pipe!Close(2, "r") \in PipeCalls /\ Pipe!Close(2, "w") \in PipeCalls
  /\ Pipe!Write(1) \in PipeCalls /\ Pipe!Write(2) \in PipeCalls
  /\ Pipe!Read(1) \in PipeCalls /\ Pipe!Read(2) \in PipeCalls
  /\ Pipe!ReadAll(1) \in PipeCalls /\ Pipe!Wait \in PipeCalls
  /\ <<"open", "r">> \in PipeCalls /\ <<"opened", "r">> \in PipeCalls
  /\ <<"open", "w">> \in PipeCalls /\ <<"opened", "w">> \in PipeCalls
  /\ <<"mkfifo">> \in PipeCalls /\ <<"unlink">> \in PipeCalls
BY DEF PipeCalls

\* A number of writes between two calls and a few others.
LEMMA Writes3 ==
  ASSUME NEW n \in Nat, NEW a \in Seq(PipeCalls), NEW b \in Seq(PipeCalls)
  PROVE  LET s == a \o Pipe!Times(n, Pipe!Write(1)) \o b IN
         /\ s \in Seq(PipeCalls) /\ Len(s) = Len(a) + n + Len(b)
         /\ \A k \in 1..Len(a) : s[k] = a[k]
         /\ \A k \in Len(a) + 1..Len(a) + n : s[k] = Pipe!Write(1)
         /\ \A k \in 1..Len(b) : s[Len(a) + n + k] = b[k]
<1> DEFINE t == Pipe!Times(n, Pipe!Write(1))
<1>1. t = [k \in 1..n |-> Pipe!Write(1)]
      BY DEF Pipe!Times
<1> HIDE DEF t
<1>2. t \in [1..n -> PipeCalls]
      BY <1>1, PipeCallsAre
<1>3. t \in Seq(PipeCalls) /\ Len(t) = n
      BY <1>2, LenProperties, SeqDef
<1>4. \A k \in 1..n : t[k] = Pipe!Write(1)
      BY <1>1
<1>5. /\ a \o t \in Seq(PipeCalls) /\ Len(a \o t) = Len(a) + Len(t)
      /\ \A i \in 1..Len(a) + Len(t) : (a \o t)[i] = IF i <= Len(a) THEN a[i] ELSE t[i - Len(a)]
      BY <1>3, ConcatProperties, Zenon
<1> DEFINE u == a \o t
           s == u \o b
<1>6. u \in Seq(PipeCalls)
      BY <1>5
<1>7. /\ s \in Seq(PipeCalls) /\ Len(s) = Len(u) + Len(b)
      /\ \A i \in 1..Len(u) + Len(b) : s[i] = IF i <= Len(u) THEN u[i] ELSE b[i - Len(u)]
      BY <1>6, ConcatProperties, Zenon
<1> DEFINE l == Len(a)    m == Len(b)
<1>8. l \in Nat /\ m \in Nat
      BY LenProperties
<1>9. \A i \in 1..l + n : u[i] = IF i <= l THEN a[i] ELSE t[i - l]
      BY <1>3, <1>5, Zenon
<1>10. Len(u) = l + n
      BY <1>3, <1>5
<1>11. \A i \in 1..(l + n) + m : s[i] = IF i <= l + n THEN u[i] ELSE b[i - (l + n)]
      BY <1>7, <1>10, Zenon
<1> HIDE DEF l, m, u, s
<1>12. \A k \in 1..l : s[k] = a[k]
      BY <1>8, <1>9, <1>11
<1>13. ASSUME NEW k \in l + 1..l + n PROVE s[k] = Pipe!Write(1)
  <2>1. k - l \in 1..n /\ k \in 1..l + n /\ ~(k <= l) /\ k \in 1..(l + n) + m /\ k <= l + n
        BY <1>8
  <2> QED BY <1>4, <1>9, <1>11, <2>1
<1>14. ASSUME NEW k \in 1..m PROVE s[l + n + k] = b[k]
  <2> DEFINE i == l + n + k
  <2>1. i \in 1..(l + n) + m /\ ~(i <= l + n) /\ i - (l + n) = k
        BY <1>8
  <2> HIDE DEF i
  <2>2. s[i] = b[k]
        BY <1>11, <2>1
  <2> QED BY <2>2 DEF i
<1>15. Len(s) = l + n + m
      BY <1>7, <1>10 DEF m
<1> QED BY <1>7, <1>12, <1>13, <1>14, <1>15 DEF l, m, s, u, t

LEMMA FloodCalls ==
  ASSUME example = "many"
  PROVE  /\ Calls("parent") \in Seq(PipeCalls) /\ Len(Calls("parent")) = Flood + 3
         /\ Calls("parent")[1] = Pipe!Close(1, "r")
         /\ \A k \in 2..Flood + 1 : Calls("parent")[k] = Pipe!Write(1)
         /\ Calls("parent")[Flood + 2] = Pipe!Close(1, "w")
         /\ Calls("parent")[Flood + 3] = Pipe!Wait
         /\ Calls("child") = <<Pipe!Close(1, "w"), Pipe!ReadAll(1), Pipe!Close(1, "r")>>
<1> DEFINE a == <<Pipe!Close(1, "r")>>    b == <<Pipe!Close(1, "w"), Pipe!Wait>>
<1>1. Pipe!Script(example) = Pipe!ManyMessages
      BY DEF Pipe!Script
<1>2. /\ a \in Seq(PipeCalls) /\ Len(a) = 1 /\ a[1] = Pipe!Close(1, "r")
      /\ b \in Seq(PipeCalls) /\ Len(b) = 2 /\ b[1] = Pipe!Close(1, "w") /\ b[2] = Pipe!Wait
      BY PipeCallsAre
<1>3. /\ Calls("parent") = a \o Pipe!Times(Flood, Pipe!Write(1)) \o b
      /\ Calls("child") = <<Pipe!Close(1, "w"), Pipe!ReadAll(1), Pipe!Close(1, "r")>>
      BY <1>1 DEF Calls, Pipe!ManyMessages
<1> HIDE DEF a, b
<1> DEFINE s == a \o Pipe!Times(Flood, Pipe!Write(1)) \o b
<1>4. /\ s \in Seq(PipeCalls) /\ Len(s) = Len(a) + Flood + Len(b)
      /\ \A k \in 1..Len(a) : s[k] = a[k]
      /\ \A k \in Len(a) + 1..Len(a) + Flood : s[k] = Pipe!Write(1)
      /\ \A k \in 1..Len(b) : s[Len(a) + Flood + k] = b[k]
      BY <1>2, Writes3, PipeAssumption
<1> HIDE DEF s
<1>5. /\ Len(s) = Flood + 3 /\ s[1] = a[1]
      /\ \A k \in 2..Flood + 1 : s[k] = Pipe!Write(1)
      BY <1>2, <1>4, PipeAssumption
<1>6. s[Flood + 2] = b[1] /\ s[Flood + 3] = b[2]
  <2>1. 1 \in 1..Len(b) /\ 2 \in 1..Len(b)
        BY <1>2
  <2>2. s[Len(a) + Flood + 1] = b[1] /\ s[Len(a) + Flood + 2] = b[2]
        BY <1>4, <2>1
  <2>3. Len(a) + Flood + 1 = Flood + 2 /\ Len(a) + Flood + 2 = Flood + 3
        BY <1>2, PipeAssumption
  <2> QED BY <2>2, <2>3
<1> QED BY <1>2, <1>3, <1>4, <1>5, <1>6 DEF s

LEMMA NamedCalls ==
  ASSUME example = "fifo"
  PROVE  /\ Calls("parent") \in Seq(PipeCalls) /\ Len(Calls("parent")) = 10
         /\ Calls("parent")[1] = <<"mkfifo">> /\ Calls("parent")[2] = <<"open", "w">>
         /\ Calls("parent")[3] = <<"opened", "w">>
         /\ \A k \in 4..7 : Calls("parent")[k] = Pipe!Write(1)
         /\ Calls("parent")[8] = Pipe!Close(1, "w") /\ Calls("parent")[9] = Pipe!Wait
         /\ Calls("parent")[10] = <<"unlink">>
         /\ Calls("child") = <<<<"open", "r">>, <<"opened", "r">>, Pipe!ReadAll(1),
                               Pipe!Close(1, "r")>>
<1> DEFINE a == <<<<"mkfifo">>, <<"open", "w">>, <<"opened", "w">>>>
           b == <<Pipe!Close(1, "w"), Pipe!Wait, <<"unlink">>>>
<1>1. Pipe!Script(example) = Pipe!Fifo
      BY DEF Pipe!Script
<1>2. /\ a \in Seq(PipeCalls) /\ Len(a) = 3 /\ a[1] = <<"mkfifo">>
      /\ a[2] = <<"open", "w">> /\ a[3] = <<"opened", "w">>
      /\ b \in Seq(PipeCalls) /\ Len(b) = 3 /\ b[1] = Pipe!Close(1, "w") /\ b[2] = Pipe!Wait
      /\ b[3] = <<"unlink">>
      BY PipeCallsAre
<1>3. /\ Calls("parent") = a \o Pipe!Times(4, Pipe!Write(1)) \o b
      /\ Calls("child") = <<<<"open", "r">>, <<"opened", "r">>, Pipe!ReadAll(1),
                            Pipe!Close(1, "r")>>
      BY <1>1 DEF Calls, Pipe!Fifo
<1> HIDE DEF a, b
<1> DEFINE s == a \o Pipe!Times(4, Pipe!Write(1)) \o b
<1>4. /\ s \in Seq(PipeCalls) /\ Len(s) = Len(a) + 4 + Len(b)
      /\ \A k \in 1..Len(a) : s[k] = a[k]
      /\ \A k \in Len(a) + 1..Len(a) + 4 : s[k] = Pipe!Write(1)
      /\ \A k \in 1..Len(b) : s[Len(a) + 4 + k] = b[k]
  <2>1. 4 \in Nat
        OBVIOUS
  <2> QED BY <1>2, <2>1, Writes3, Zenon
<1> HIDE DEF s
<1>5. /\ Len(s) = 10 /\ s[1] = a[1] /\ s[2] = a[2] /\ s[3] = a[3]
      /\ \A k \in 4..7 : s[k] = Pipe!Write(1)
      BY <1>2, <1>4
<1>6. s[8] = b[1] /\ s[9] = b[2] /\ s[10] = b[3]
  <2>1. \A k \in 1..3 : s[7 + k] = b[k]
        BY <1>2, <1>4
  <2> QED BY <2>1
<1> QED BY <1>2, <1>3, <1>4, <1>5, <1>6 DEF s

LEMMA ShortCalls ==
  /\ <<Pipe!Close(1, "r"), Pipe!Write(1), Pipe!Close(1, "w"), Pipe!Wait>> \in Seq(PipeCalls)
  /\ <<Pipe!Close(1, "w"), Pipe!Read(1), Pipe!Close(1, "r")>> \in Seq(PipeCalls)
  /\ <<Pipe!Close(1, "r"), Pipe!Close(2, "w"), Pipe!Write(1), Pipe!Close(1, "w"), Pipe!Read(2),
       Pipe!Close(2, "r"), Pipe!Wait>> \in Seq(PipeCalls)
  /\ <<Pipe!Close(1, "w"), Pipe!Close(2, "r"), Pipe!Read(1), Pipe!Close(1, "r"), Pipe!Write(2),
       Pipe!Close(2, "w")>> \in Seq(PipeCalls)
  /\ <<Pipe!Close(1, "w"), Pipe!ReadAll(1), Pipe!Close(1, "r")>> \in Seq(PipeCalls)
  /\ <<<<"open", "r">>, <<"opened", "r">>, Pipe!ReadAll(1), Pipe!Close(1, "r")>>
       \in Seq(PipeCalls)
BY PipeCallsAre

LEMMA AllCalls ==
  ASSUME example \in {"basic", "blocking", "bidirectional", "many", "fifo"}
  PROVE  \A x \in Pipe!Processes : Calls(x) \in Seq(PipeCalls)
<1>1. Pipe!Processes = {"parent", "child"}
      BY DEF Pipe!Processes
<1>2. CASE example \in {"basic", "blocking"}
  <2>1. Calls("parent") \in Seq(PipeCalls) /\ Calls("child") \in Seq(PipeCalls)
        BY <1>2, OnceCalls, ShortCalls, Zenon
  <2> QED BY <1>1, <2>1
<1>3. CASE example = "bidirectional"
  <2>1. Calls("parent") \in Seq(PipeCalls) /\ Calls("child") \in Seq(PipeCalls)
        BY <1>3, TwiceCalls, ShortCalls, Zenon
  <2> QED BY <1>1, <2>1
<1>4. CASE example = "many"
  <2>1. Calls("parent") \in Seq(PipeCalls) /\ Calls("child") \in Seq(PipeCalls)
        BY <1>4, FloodCalls, ShortCalls, Zenon
  <2> QED BY <1>1, <2>1
<1>5. CASE example = "fifo"
  <2>1. Calls("parent") \in Seq(PipeCalls) /\ Calls("child") \in Seq(PipeCalls)
        BY <1>5, NamedCalls, ShortCalls, Zenon
  <2> QED BY <1>1, <2>1
<1> QED BY <1>2, <1>3, <1>4, <1>5

\* Which call a process of the pipes makes, by its name.
LEMMA PipeAct ==
  ASSUME NEW x, Pipe!Process(x)
  PROVE  /\ script[x] # <<>> /\ UNCHANGED example
         /\ \/ Head(script[x])[1] = "close" /\ Pipe!CloseEnd(x)
            \/ Head(script[x])[1] = "write" /\ Pipe!WriteMessage(x)
            \/ /\ Head(script[x])[1] \in {"read", "read_all"}
               /\ Pipe!ReadSome(x) \/ Pipe!ReadEof(x)
            \/ Head(script[x])[1] = "mkfifo" /\ Pipe!MakeFifo(x)
            \/ Head(script[x])[1] = "open" /\ (Pipe!OpenFifo(x) \/ Pipe!OpenFails(x))
            \/ Head(script[x])[1] = "opened" /\ Pipe!OpenReturns(x)
            \/ Head(script[x])[1] = "wait" /\ x = "parent" /\ Pipe!Reap
            \/ Head(script[x])[1] = "unlink" /\ Pipe!Unlink(x)
<1>1. \/ Pipe!CloseEnd(x) \/ Pipe!WriteMessage(x) \/ Pipe!ReadSome(x) \/ Pipe!ReadEof(x)
      \/ Pipe!MakeFifo(x) \/ Pipe!OpenFifo(x) \/ Pipe!OpenFails(x) \/ Pipe!OpenReturns(x)
      \/ Pipe!Unlink(x) \/ (x = "parent" /\ Pipe!Reap)
      BY DEF Pipe!Process
<1>2. CASE Pipe!CloseEnd(x)
      BY <1>2 DEF Pipe!CloseEnd, Pipe!At
<1>3. CASE Pipe!WriteMessage(x)
      BY <1>3 DEF Pipe!WriteMessage, Pipe!At
<1>4. CASE Pipe!ReadSome(x)
      BY <1>4 DEF Pipe!ReadSome, Pipe!At
<1>5. CASE Pipe!ReadEof(x)
      BY <1>5 DEF Pipe!ReadEof, Pipe!At
<1>6. CASE Pipe!MakeFifo(x)
      BY <1>6 DEF Pipe!MakeFifo, Pipe!At
<1>7. CASE Pipe!OpenFifo(x)
      BY <1>7 DEF Pipe!OpenFifo, Pipe!At
<1>8. CASE Pipe!OpenFails(x)
      BY <1>8 DEF Pipe!OpenFails, Pipe!At
<1>9. CASE Pipe!OpenReturns(x)
      BY <1>9 DEF Pipe!OpenReturns, Pipe!At
<1>10. CASE Pipe!Unlink(x)
      BY <1>10 DEF Pipe!Unlink, Pipe!At
<1>11. CASE x = "parent" /\ Pipe!Reap
      BY <1>11 DEF Pipe!Reap, Pipe!At
<1> QED BY <1>1, <1>2, <1>3, <1>4, <1>5, <1>6, <1>7, <1>8, <1>9, <1>10, <1>11

\* The next call of a process, by the number of those that are left.
LEMMA PipeNext ==
  ASSUME PipePlaces, NEW x \in Pipe!Processes
  PROVE  /\ Left(x) \in 0..Len(Calls(x)) /\ Len(Calls(x)) \in Nat
         /\ Left(x) = 0 <=> script[x] = <<>>
         /\ script[x] # <<>> => Head(script[x]) = Calls(x)[(Len(Calls(x)) - Left(x)) + 1]
<1>1. Calls(x) \in Seq(PipeCalls) /\ script[x] \in Seq(PipeCalls)
      BY AllCalls DEF PipePlaces
<1>2. /\ Len(script[x]) <= Len(Calls(x))
      /\ \A k \in 1..Len(script[x]) :
           script[x][k] = Calls(x)[(Len(Calls(x)) - Len(script[x])) + k]
      BY DEF PipePlaces, Left
<1>3. Len(script[x]) \in Nat /\ Len(Calls(x)) \in Nat
      BY <1>1, LenProperties
<1>4. script[x] # <<>> => Head(script[x]) = Calls(x)[(Len(Calls(x)) - Len(script[x])) + 1]
  <2> DEFINE f == Calls(x)    r == script[x]
  <2>1. /\ f \in Seq(PipeCalls) /\ r \in Seq(PipeCalls) /\ Len(r) <= Len(f)
        /\ \A k \in 1..Len(r) : r[k] = f[(Len(f) - Len(r)) + k]
        BY <1>1, <1>2, Zenon
  <2> HIDE DEF f, r
  <2>2. r # <<>> => Head(r) = f[(Len(f) - Len(r)) + 1]
        BY <2>1, NextCall
  <2> QED BY <2>2, Zenon DEF f, r
<1>5. Len(script[x]) = 0 <=> script[x] = <<>>
      BY <1>1
<1>6. Len(script[x]) \in 0..Len(Calls(x))
      BY <1>2, <1>3
<1> QED BY <1>3, <1>4, <1>5, <1>6 DEF Left

\* A process that goes on has a call less; the others have what they had.
LEMMA PipeAdvance ==
  ASSUME PipePlaces, NEW x \in Pipe!Processes, script[x] # <<>>, Pipe!Advance(x),
         UNCHANGED example
  PROVE  /\ PipePlaces'
         /\ Left(x) \in Nat \ {0} /\ Left(x)' = Left(x) - 1
         /\ \A y \in Pipe!Processes : y # x => Left(y)' = Left(y)
<1>1. Calls(x) \in Seq(PipeCalls) /\ script[x] \in Seq(PipeCalls)
      BY AllCalls DEF PipePlaces
<1>2. /\ Len(script[x]) <= Len(Calls(x))
      /\ \A k \in 1..Len(script[x]) :
           script[x][k] = Calls(x)[(Len(Calls(x)) - Len(script[x])) + k]
      BY DEF PipePlaces, Left
<1>3. /\ Len(script[x]) \in 1..Len(Calls(x))
      /\ Tail(script[x]) \in Seq(PipeCalls) /\ Len(Tail(script[x])) = Len(script[x]) - 1
      /\ \A k \in 1..Len(Tail(script[x])) :
           Tail(script[x])[k] = Calls(x)[(Len(Calls(x)) - Len(Tail(script[x]))) + k]
  <2> DEFINE f == Calls(x)    r == script[x]
  <2>1. /\ f \in Seq(PipeCalls) /\ r \in Seq(PipeCalls) /\ Len(r) <= Len(f) /\ r # <<>>
        /\ \A k \in 1..Len(r) : r[k] = f[(Len(f) - Len(r)) + k]
        BY <1>1, <1>2, Zenon
  <2> HIDE DEF f, r
  <2>2. /\ Len(r) \in 1..Len(f)
        /\ Tail(r) \in Seq(PipeCalls) /\ Len(Tail(r)) = Len(r) - 1
        /\ \A k \in 1..Len(Tail(r)) : Tail(r)[k] = f[(Len(f) - Len(Tail(r))) + k]
        BY <2>1, NextCall
  <2> QED BY <2>2, Zenon DEF f, r
<1>4. script \in [Pipe!Processes -> Seq(PipeCalls)]
      BY DEF PipePlaces
<1>5. /\ script'[x] = Tail(script[x])
      /\ \A y \in Pipe!Processes : y # x => script'[y] = script[y]
      /\ script' \in [Pipe!Processes -> Seq(PipeCalls)]
      BY <1>3, <1>4 DEF Pipe!Advance
<1>6. \A y \in Pipe!Processes : Calls(y)' = Calls(y)
      BY DEF Calls
<1>7. Len(Calls(x)) \in Nat /\ Len(script[x]) \in Nat
      BY <1>1, LenProperties
<1>8. Len(Tail(script[x])) <= Len(Calls(x))
      BY <1>3, <1>7
<1>9. ASSUME NEW y \in Pipe!Processes
      PROVE  /\ Len(script'[y]) <= Len(Calls(y)')
             /\ \A k \in 1..Len(script'[y]) :
                  script'[y][k] = Calls(y)'[(Len(Calls(y)') - Len(script'[y])) + k]
  <2>1. CASE y = x
        BY <1>3, <1>5, <1>6, <1>8, <2>1, Zenon
  <2>2. CASE y # x
    <3>1. script'[y] = script[y] /\ Calls(y)' = Calls(y)
          BY <1>5, <1>6, <2>2
    <3>2. /\ Len(script[y]) <= Len(Calls(y))
          /\ \A k \in 1..Len(script[y]) :
               script[y][k] = Calls(y)[(Len(Calls(y)) - Len(script[y])) + k]
          BY DEF PipePlaces, Left
    <3> QED BY <3>1, <3>2, Zenon
  <2> QED BY <2>1, <2>2
<1>10. PipePlaces'
      BY <1>5, <1>9 DEF PipePlaces, Left
<1>11. Left(x) \in Nat \ {0} /\ Left(x)' = Left(x) - 1
      BY <1>3, <1>5, <1>7 DEF Left
<1> QED BY <1>5, <1>10, <1>11 DEF Left

\* What a call does to the ends, and to what is in the pipes.
LEMMA CloseDoes ==
  ASSUME PipeTyped, NEW x \in Pipe!Processes, NEW p \in {1, 2}, NEW e \in {"r", "w"},
         Head(script[x]) = Pipe!Close(p, e), Pipe!CloseEnd(x)
  PROVE  /\ \A d \in Pipe!Ends, y \in Pipe!Processes :
              (y \in open'[d]) <=> (y \in open[d] /\ ~(y = x /\ d = <<p, e>>))
         /\ PipeTyped' /\ Pipe!Advance(x) /\ UNCHANGED <<sent, read, fifo, met, missed>>
<1>1. Tail(Head(script[x])) = <<p, e>>
  <2> DEFINE S == {"close", 1, 2, "r", "w"}    c == <<"close", p, e>>    t == <<p, e>>
  <2>1. c \in Seq(S) /\ Len(c) = 3 /\ c # <<>> /\ c[2] = p /\ c[3] = e
        OBVIOUS
  <2>2. t \in Seq(S) /\ Len(t) = 2 /\ t[1] = p /\ t[2] = e
        OBVIOUS
  <2> HIDE DEF S, c, t
  <2> DEFINE u == Tail(c)
  <2>3. u \in Seq(S) /\ Len(u) = 2 /\ u[1] = p /\ u[2] = e
        BY <2>1, HeadTailProperties
  <2> HIDE DEF u
  <2>4. Len(u) = Len(t) /\ \A i \in 1..Len(u) : u[i] = t[i]
        BY <2>2, <2>3
  <2>5. u = t
        BY <2>2, <2>3, <2>4, SeqEqual, Zenon
  <2> QED BY <2>5 DEF c, t, u, Pipe!Close
<1>2. <<p, e>> \in Pipe!Ends
      BY DEF Pipe!Ends
<1>3. /\ open' = [open EXCEPT ![<<p, e>>] = open[<<p, e>>] \ {x}]
      /\ Pipe!Advance(x) /\ UNCHANGED <<sent, read, fifo, met, missed>>
      BY <1>1 DEF Pipe!CloseEnd
<1>4. open \in [Pipe!Ends -> SUBSET Pipe!Processes]
      BY DEF PipeTyped
<1>5. /\ open' \in [Pipe!Ends -> SUBSET Pipe!Processes]
      /\ \A d \in Pipe!Ends : open'[d] = IF d = <<p, e>> THEN open[d] \ {x} ELSE open[d]
      BY <1>2, <1>3, <1>4
<1>6. PipeTyped'
      BY <1>3, <1>5 DEF PipeTyped
<1> QED BY <1>3, <1>5, <1>6

LEMMA WriteDoes ==
  ASSUME PipeTyped, NEW x \in Pipe!Processes, NEW p \in {1, 2},
         Head(script[x]) = Pipe!Write(p), Pipe!WriteMessage(x)
  PROVE  /\ sent'[p] = sent[p] + MsgLen /\ \A q \in {1, 2} : q # p => sent'[q] = sent[q]
         /\ PipeTyped' /\ Pipe!Advance(x) /\ UNCHANGED <<open, read, fifo, met, missed>>
<1>1. Pipe!Pipe(x) = p
      BY DEF Pipe!Pipe, Pipe!Write
<1>2. /\ sent' = [sent EXCEPT ![p] = sent[p] + MsgLen]
      /\ Pipe!Advance(x) /\ UNCHANGED <<open, read, fifo, met, missed>>
      BY <1>1 DEF Pipe!WriteMessage
<1>3. /\ sent \in [{1, 2} -> Nat] /\ read \in [{1, 2} -> Nat]
      /\ \A q \in {1, 2} : read[q] <= sent[q]
      BY DEF PipeTyped
<1>4. sent[p] + MsgLen \in Nat /\ sent[p] <= sent[p] + MsgLen
      BY <1>3, PipeAssumption
<1>5. /\ sent' \in [{1, 2} -> Nat] /\ sent'[p] = sent[p] + MsgLen
      /\ \A q \in {1, 2} : q # p => sent'[q] = sent[q]
      BY <1>2, <1>3, <1>4
<1>6. \A q \in {1, 2} : read[q] <= sent'[q]
  <2>1. read[p] <= sent'[p]
        BY <1>3, <1>4, <1>5
  <2> QED BY <1>3, <1>5, <2>1
<1>7. PipeTyped'
      BY <1>2, <1>5, <1>6 DEF PipeTyped
<1> QED BY <1>2, <1>5, <1>7

LEMMA ReadDoes ==
  ASSUME PipeTyped, NEW x \in Pipe!Processes, NEW p \in {1, 2},
         Head(script[x]) \in {Pipe!Read(p), Pipe!ReadAll(p)}, Pipe!ReadSome(x)
  PROVE  /\ read[p] < sent[p]
         /\ read'[p] = read[p] + Pipe!Smaller(sent[p] - read[p], BufLen)
         /\ \A q \in {1, 2} : q # p => read'[q] = read[q]
         /\ Head(script[x]) = Pipe!Read(p) => Pipe!Advance(x)
         /\ Head(script[x]) = Pipe!ReadAll(p) => UNCHANGED script
         /\ PipeTyped' /\ UNCHANGED <<open, sent, fifo, met, missed>>
<1>1. Pipe!Pipe(x) = p
      BY DEF Pipe!Pipe, Pipe!Read, Pipe!ReadAll
<1>2. /\ Pipe!Held(p) > 0
      /\ read' = [read EXCEPT ![p] = read[p] + Pipe!Smaller(Pipe!Held(p), BufLen)]
      /\ UNCHANGED <<open, sent, fifo, met, missed>>
      BY <1>1 DEF Pipe!ReadSome
<1>3. /\ sent \in [{1, 2} -> Nat] /\ read \in [{1, 2} -> Nat]
      /\ \A q \in {1, 2} : read[q] <= sent[q]
      BY DEF PipeTyped
<1> DEFINE n == Pipe!Smaller(sent[p] - read[p], BufLen)
<1>4. read[p] < sent[p] /\ n \in Nat /\ read[p] + n \in Nat /\ read[p] + n <= sent[p]
      BY <1>2, <1>3, PipeAssumption DEF Pipe!Smaller, Pipe!Held
<1>5. read' = [read EXCEPT ![p] = read[p] + n]
      BY <1>2 DEF Pipe!Held
<1> HIDE DEF n
<1>6. /\ read' \in [{1, 2} -> Nat] /\ read'[p] = read[p] + n
      /\ \A q \in {1, 2} : q # p => read'[q] = read[q]
      BY <1>3, <1>4, <1>5
<1>7. \A q \in {1, 2} : read'[q] <= sent[q]
      BY <1>3, <1>4, <1>6
<1>8. PipeTyped'
      BY <1>2, <1>3, <1>6, <1>7 DEF PipeTyped
<1>9. Head(script[x]) = Pipe!Read(p) => Pipe!Advance(x)
      BY DEF Pipe!ReadSome, Pipe!At, Pipe!Read
<1>10. Head(script[x]) = Pipe!ReadAll(p) => UNCHANGED script
      BY DEF Pipe!ReadSome, Pipe!At, Pipe!ReadAll
<1> QED BY <1>2, <1>4, <1>6, <1>8, <1>9, <1>10 DEF n

LEMMA EofDoes ==
  ASSUME PipeTyped, NEW x \in Pipe!Processes, NEW p \in {1, 2},
         Head(script[x]) \in {Pipe!Read(p), Pipe!ReadAll(p)}, Pipe!ReadEof(x)
  PROVE  /\ read[p] = sent[p] /\ open[<<p, "w">>] = {}
         /\ PipeTyped' /\ Pipe!Advance(x) /\ UNCHANGED <<open, sent, read, fifo, met, missed>>
<1>1. Pipe!Pipe(x) = p
      BY DEF Pipe!Pipe, Pipe!Read, Pipe!ReadAll
<1>2. /\ sent[p] - read[p] = 0 /\ open[<<p, "w">>] = {}
      /\ Pipe!Advance(x) /\ UNCHANGED <<open, sent, read, fifo, met, missed>>
      BY <1>1 DEF Pipe!ReadEof, Pipe!Held
<1>3. sent[p] \in Nat /\ read[p] \in Nat
      BY DEF PipeTyped
<1>4. PipeTyped'
      BY <1>2 DEF PipeTyped
<1> QED BY <1>2, <1>3, <1>4

\* One message: the next calls, and what they do.
LEMMA OnceNext ==
  ASSUME PipePlaces, example \in {"basic", "blocking"}
  PROVE  /\ Left("parent") \in 0..4 /\ Left("child") \in 0..3
         /\ Left("parent") = 0 <=> script["parent"] = <<>>
         /\ Left("child") = 0 <=> script["child"] = <<>>
         /\ Left("parent") = 4 => Head(script["parent"]) = Pipe!Close(1, "r")
         /\ Left("parent") = 3 => Head(script["parent"]) = Pipe!Write(1)
         /\ Left("parent") = 2 => Head(script["parent"]) = Pipe!Close(1, "w")
         /\ Left("parent") = 1 => Head(script["parent"]) = Pipe!Wait
         /\ Left("child") = 3 => Head(script["child"]) = Pipe!Close(1, "w")
         /\ Left("child") = 2 => Head(script["child"]) = Pipe!Read(1)
         /\ Left("child") = 1 => Head(script["child"]) = Pipe!Close(1, "r")
<1>1. "parent" \in Pipe!Processes /\ "child" \in Pipe!Processes
      BY DEF Pipe!Processes
<1> DEFINE f == <<Pipe!Close(1, "r"), Pipe!Write(1), Pipe!Close(1, "w"), Pipe!Wait>>
           g == <<Pipe!Close(1, "w"), Pipe!Read(1), Pipe!Close(1, "r")>>
<1>2. Calls("parent") = f /\ Calls("child") = g
      BY OnceCalls
<1>3. /\ Len(f) = 4 /\ f[1] = Pipe!Close(1, "r") /\ f[2] = Pipe!Write(1)
      /\ f[3] = Pipe!Close(1, "w") /\ f[4] = Pipe!Wait
      /\ Len(g) = 3 /\ g[1] = Pipe!Close(1, "w") /\ g[2] = Pipe!Read(1)
      /\ g[3] = Pipe!Close(1, "r")
      OBVIOUS
<1> HIDE DEF f, g
<1>4. /\ Left("parent") \in 0..4 /\ (Left("parent") = 0 <=> script["parent"] = <<>>)
      /\ script["parent"] # <<>> => Head(script["parent"]) = f[(4 - Left("parent")) + 1]
      BY <1>1, <1>2, <1>3, PipeNext
<1>5. /\ Left("child") \in 0..3 /\ (Left("child") = 0 <=> script["child"] = <<>>)
      /\ script["child"] # <<>> => Head(script["child"]) = g[(3 - Left("child")) + 1]
      BY <1>1, <1>2, <1>3, PipeNext
<1> QED BY <1>3, <1>4, <1>5

LEMMA OnceStep ==
  ASSUME PipeExact, example \in {"basic", "blocking"}, NEW x \in Pipe!Processes, Pipe!Process(x)
  PROVE  PipePlaces' /\ PipeTyped' /\ PipeHeld' /\ PipeOnce' /\ UNCHANGED <<example, missed>>
<1> DEFINE p == Left("parent")    c == Left("child")
<1>1. /\ PipePlaces /\ PipeTyped
      /\ \A e \in Pipe!Ends, y \in Pipe!Processes : (y \in open[e]) <=> Holds(y, e)
      /\ p = 0 => c = 0
      /\ sent[1] = IF p <= 2 THEN MsgLen ELSE 0
      /\ read[1] = IF c <= 1 THEN MsgLen ELSE 0
      /\ sent[2] = 0
      BY DEF PipeExact, PipeHeld, PipeOnce
<1>2. Pipe!Processes = {"parent", "child"}
      BY DEF Pipe!Processes
<1>3. script[x] # <<>> /\ UNCHANGED example
      BY PipeAct
<1>4. /\ p \in 0..4 /\ c \in 0..3
      /\ p = 0 <=> script["parent"] = <<>>
      /\ c = 0 <=> script["child"] = <<>>
      BY <1>1, OnceNext
<1>5. ASSUME Pipe!Advance(x)
      PROVE  /\ PipePlaces' /\ Left(x) \in Nat \ {0} /\ Left(x)' = Left(x) - 1
             /\ \A y \in Pipe!Processes : y # x => Left(y)' = Left(y)
      BY <1>1, <1>3, <1>5, PipeAdvance
<1>6. CASE x = "parent" /\ p = 4
  <2>1. Head(script[x]) = Pipe!Close(1, "r")
        BY <1>1, <1>6, OnceNext
  <2>2. Pipe!CloseEnd(x)
        BY <2>1, PipeAct DEF Pipe!Close
  <2>3. /\ \A d \in Pipe!Ends, y \in Pipe!Processes :
             (y \in open'[d]) <=> (y \in open[d] /\ ~(y = x /\ d = <<1, "r">>))
        /\ PipeTyped' /\ Pipe!Advance(x) /\ UNCHANGED <<sent, read, fifo, met, missed>>
        BY <1>1, <2>1, <2>2, CloseDoes
  <2>4. PipePlaces' /\ Left("parent")' = 3 /\ Left("child")' = c
        BY <1>2, <1>5, <1>6, <2>3
  <2>5. PipeHeld'
        BY <1>1, <1>2, <1>3, <1>4, <1>6, <2>3, <2>4 DEF PipeHeld, Holds
  <2>6. PipeOnce'
        BY <1>1, <1>4, <1>6, <2>3, <2>4 DEF PipeOnce
  <2> QED BY <1>3, <2>3, <2>4, <2>5, <2>6
<1>7. CASE x = "parent" /\ p = 3
  <2>1. Head(script[x]) = Pipe!Write(1)
        BY <1>1, <1>7, OnceNext
  <2>2. Pipe!WriteMessage(x)
        BY <2>1, PipeAct DEF Pipe!Write
  <2>3. /\ sent'[1] = sent[1] + MsgLen /\ sent'[2] = sent[2]
        /\ PipeTyped' /\ Pipe!Advance(x) /\ UNCHANGED <<open, read, fifo, met, missed>>
        BY <1>1, <2>1, <2>2, WriteDoes
  <2>4. PipePlaces' /\ Left("parent")' = 2 /\ Left("child")' = c
        BY <1>2, <1>5, <1>7, <2>3
  <2>5. PipeHeld'
        BY <1>1, <1>2, <1>3, <1>4, <1>7, <2>3, <2>4 DEF PipeHeld, Holds
  <2>6. PipeOnce'
        BY <1>1, <1>4, <1>7, <2>3, <2>4, PipeAssumption DEF PipeOnce
  <2> QED BY <1>3, <2>3, <2>4, <2>5, <2>6
<1>8. CASE x = "parent" /\ p = 2
  <2>1. Head(script[x]) = Pipe!Close(1, "w")
        BY <1>1, <1>8, OnceNext
  <2>2. Pipe!CloseEnd(x)
        BY <2>1, PipeAct DEF Pipe!Close
  <2>3. /\ \A d \in Pipe!Ends, y \in Pipe!Processes :
             (y \in open'[d]) <=> (y \in open[d] /\ ~(y = x /\ d = <<1, "w">>))
        /\ PipeTyped' /\ Pipe!Advance(x) /\ UNCHANGED <<sent, read, fifo, met, missed>>
        BY <1>1, <2>1, <2>2, CloseDoes
  <2>4. PipePlaces' /\ Left("parent")' = 1 /\ Left("child")' = c
        BY <1>2, <1>5, <1>8, <2>3
  <2>5. PipeHeld'
        BY <1>1, <1>2, <1>3, <1>4, <1>8, <2>3, <2>4 DEF PipeHeld, Holds
  <2>6. PipeOnce'
        BY <1>1, <1>4, <1>8, <2>3, <2>4 DEF PipeOnce
  <2> QED BY <1>3, <2>3, <2>4, <2>5, <2>6
<1>9. CASE x = "parent" /\ p = 1
  <2>1. Head(script[x]) = Pipe!Wait
        BY <1>1, <1>9, OnceNext
  <2>2. Pipe!Reap
        BY <2>1, PipeAct DEF Pipe!Wait
  <2>3. /\ script["child"] = <<>> /\ Pipe!Advance(x)
        /\ UNCHANGED <<open, sent, read, fifo, met, missed>>
        BY <1>9, <2>2 DEF Pipe!Reap
  <2>4. PipePlaces' /\ Left("parent")' = 0 /\ Left("child")' = c /\ c = 0
        BY <1>2, <1>4, <1>5, <1>9, <2>3
  <2>5. PipeHeld'
        BY <1>1, <1>2, <1>3, <1>4, <1>9, <2>3, <2>4 DEF PipeHeld, Holds
  <2>6. PipeOnce' /\ PipeTyped'
        BY <1>1, <1>4, <1>9, <2>3, <2>4 DEF PipeOnce, PipeTyped
  <2> QED BY <1>3, <2>3, <2>4, <2>5, <2>6
<1>10. CASE x = "child" /\ c = 3
  <2>1. Head(script[x]) = Pipe!Close(1, "w")
        BY <1>1, <1>10, OnceNext
  <2>2. Pipe!CloseEnd(x)
        BY <2>1, PipeAct DEF Pipe!Close
  <2>3. /\ \A d \in Pipe!Ends, y \in Pipe!Processes :
             (y \in open'[d]) <=> (y \in open[d] /\ ~(y = x /\ d = <<1, "w">>))
        /\ PipeTyped' /\ Pipe!Advance(x) /\ UNCHANGED <<sent, read, fifo, met, missed>>
        BY <1>1, <2>1, <2>2, CloseDoes
  <2>4. PipePlaces' /\ Left("child")' = 2 /\ Left("parent")' = p
        BY <1>2, <1>5, <1>10, <2>3
  <2>5. PipeHeld'
        BY <1>1, <1>2, <1>3, <1>4, <1>10, <2>3, <2>4 DEF PipeHeld, Holds
  <2>6. PipeOnce'
        BY <1>1, <1>4, <1>10, <2>3, <2>4 DEF PipeOnce
  <2> QED BY <1>3, <2>3, <2>4, <2>5, <2>6
<1>11. CASE x = "child" /\ c = 2
  <2>1. Head(script[x]) = Pipe!Read(1)
        BY <1>1, <1>11, OnceNext
  <2>2. Pipe!ReadSome(x) \/ Pipe!ReadEof(x)
        BY <2>1, PipeAct DEF Pipe!Read
  <2>3. ~Pipe!ReadEof(x)
    <3> SUFFICES ASSUME Pipe!ReadEof(x) PROVE FALSE
        OBVIOUS
    <3>1. read[1] = sent[1] /\ open[<<1, "w">>] = {}
          BY <1>1, <2>1, EofDoes
    <3>2. ~Holds("parent", <<1, "w">>)
          BY <1>1, <1>2, <3>1 DEF Pipe!Ends
    <3>3. p <= 1
          BY <1>4, <3>2 DEF Holds
    <3> QED BY <1>1, <1>4, <1>11, <3>1, <3>3, PipeAssumption
  <2>4. /\ read[1] < sent[1] /\ read'[1] = read[1] + Pipe!Smaller(sent[1] - read[1], BufLen)
        /\ Pipe!Advance(x) /\ PipeTyped' /\ UNCHANGED <<open, sent, fifo, met, missed>>
        BY <1>1, <2>1, <2>2, <2>3, ReadDoes
  <2>5. PipePlaces' /\ Left("child")' = 1 /\ Left("parent")' = p
        BY <1>2, <1>5, <1>11, <2>4
  <2>6. PipeHeld'
        BY <1>1, <1>2, <1>3, <1>4, <1>11, <2>4, <2>5 DEF PipeHeld, Holds
  <2>7. read'[1] = MsgLen
        BY <1>1, <1>4, <1>11, <2>4, PipeAssumption DEF Pipe!Smaller
  <2>8. PipeOnce'
        BY <1>1, <1>4, <1>11, <2>4, <2>5, <2>7 DEF PipeOnce
  <2> QED BY <1>3, <2>4, <2>5, <2>6, <2>8
<1>12. CASE x = "child" /\ c = 1
  <2>1. Head(script[x]) = Pipe!Close(1, "r")
        BY <1>1, <1>12, OnceNext
  <2>2. Pipe!CloseEnd(x)
        BY <2>1, PipeAct DEF Pipe!Close
  <2>3. /\ \A d \in Pipe!Ends, y \in Pipe!Processes :
             (y \in open'[d]) <=> (y \in open[d] /\ ~(y = x /\ d = <<1, "r">>))
        /\ PipeTyped' /\ Pipe!Advance(x) /\ UNCHANGED <<sent, read, fifo, met, missed>>
        BY <1>1, <2>1, <2>2, CloseDoes
  <2>4. PipePlaces' /\ Left("child")' = 0 /\ Left("parent")' = p
        BY <1>2, <1>5, <1>12, <2>3
  <2>5. PipeHeld'
        BY <1>1, <1>2, <1>3, <1>4, <1>12, <2>3, <2>4 DEF PipeHeld, Holds
  <2>6. PipeOnce'
        BY <1>1, <1>4, <1>12, <2>3, <2>4 DEF PipeOnce
  <2> QED BY <1>3, <2>3, <2>4, <2>5, <2>6
<1> QED BY <1>2, <1>3, <1>4, <1>6, <1>7, <1>8, <1>9, <1>10, <1>11, <1>12

\* Two messages: the next calls, and what they do.
LEMMA TwiceNext ==
  ASSUME PipePlaces, example = "bidirectional"
  PROVE  /\ Left("parent") \in 0..7 /\ Left("child") \in 0..6
         /\ Left("parent") = 0 <=> script["parent"] = <<>>
         /\ Left("child") = 0 <=> script["child"] = <<>>
         /\ Left("parent") = 7 => Head(script["parent"]) = Pipe!Close(1, "r")
         /\ Left("parent") = 6 => Head(script["parent"]) = Pipe!Close(2, "w")
         /\ Left("parent") = 5 => Head(script["parent"]) = Pipe!Write(1)
         /\ Left("parent") = 4 => Head(script["parent"]) = Pipe!Close(1, "w")
         /\ Left("parent") = 3 => Head(script["parent"]) = Pipe!Read(2)
         /\ Left("parent") = 2 => Head(script["parent"]) = Pipe!Close(2, "r")
         /\ Left("parent") = 1 => Head(script["parent"]) = Pipe!Wait
         /\ Left("child") = 6 => Head(script["child"]) = Pipe!Close(1, "w")
         /\ Left("child") = 5 => Head(script["child"]) = Pipe!Close(2, "r")
         /\ Left("child") = 4 => Head(script["child"]) = Pipe!Read(1)
         /\ Left("child") = 3 => Head(script["child"]) = Pipe!Close(1, "r")
         /\ Left("child") = 2 => Head(script["child"]) = Pipe!Write(2)
         /\ Left("child") = 1 => Head(script["child"]) = Pipe!Close(2, "w")
<1>1. "parent" \in Pipe!Processes /\ "child" \in Pipe!Processes
      BY DEF Pipe!Processes
<1> DEFINE f == <<Pipe!Close(1, "r"), Pipe!Close(2, "w"), Pipe!Write(1), Pipe!Close(1, "w"),
                  Pipe!Read(2), Pipe!Close(2, "r"), Pipe!Wait>>
           g == <<Pipe!Close(1, "w"), Pipe!Close(2, "r"), Pipe!Read(1), Pipe!Close(1, "r"),
                  Pipe!Write(2), Pipe!Close(2, "w")>>
<1>2. Calls("parent") = f /\ Calls("child") = g
      BY TwiceCalls
<1>3. /\ Len(f) = 7 /\ f[1] = Pipe!Close(1, "r") /\ f[2] = Pipe!Close(2, "w")
      /\ f[3] = Pipe!Write(1) /\ f[4] = Pipe!Close(1, "w") /\ f[5] = Pipe!Read(2)
      /\ f[6] = Pipe!Close(2, "r") /\ f[7] = Pipe!Wait
      /\ Len(g) = 6 /\ g[1] = Pipe!Close(1, "w") /\ g[2] = Pipe!Close(2, "r")
      /\ g[3] = Pipe!Read(1) /\ g[4] = Pipe!Close(1, "r") /\ g[5] = Pipe!Write(2)
      /\ g[6] = Pipe!Close(2, "w")
      OBVIOUS
<1> HIDE DEF f, g
<1>4. /\ Left("parent") \in 0..7 /\ (Left("parent") = 0 <=> script["parent"] = <<>>)
      /\ script["parent"] # <<>> => Head(script["parent"]) = f[(7 - Left("parent")) + 1]
      BY <1>1, <1>2, <1>3, PipeNext
<1>5. /\ Left("child") \in 0..6 /\ (Left("child") = 0 <=> script["child"] = <<>>)
      /\ script["child"] # <<>> => Head(script["child"]) = g[(6 - Left("child")) + 1]
      BY <1>1, <1>2, <1>3, PipeNext
<1> QED BY <1>3, <1>4, <1>5

LEMMA TwiceStep ==
  ASSUME PipeExact, example = "bidirectional", NEW x \in Pipe!Processes, Pipe!Process(x)
  PROVE  PipePlaces' /\ PipeTyped' /\ PipeHeld' /\ PipeTwice' /\ UNCHANGED <<example, missed>>
<1> DEFINE p == Left("parent")    c == Left("child")
<1>1. /\ PipePlaces /\ PipeTyped
      /\ \A e \in Pipe!Ends, y \in Pipe!Processes : (y \in open[e]) <=> Holds(y, e)
      /\ p = 0 => c = 0
      /\ sent[1] = IF p <= 4 THEN MsgLen ELSE 0
      /\ read[1] = IF c <= 3 THEN MsgLen ELSE 0
      /\ sent[2] = IF c <= 1 THEN MsgLen ELSE 0
      /\ read[2] = IF p <= 2 THEN MsgLen ELSE 0
      BY DEF PipeExact, PipeHeld, PipeTwice
<1>2. Pipe!Processes = {"parent", "child"}
      BY DEF Pipe!Processes
<1>3. script[x] # <<>> /\ UNCHANGED example
      BY PipeAct
<1>4. /\ p \in 0..7 /\ c \in 0..6
      /\ p = 0 <=> script["parent"] = <<>>
      /\ c = 0 <=> script["child"] = <<>>
      BY <1>1, TwiceNext
<1>5. ASSUME Pipe!Advance(x)
      PROVE  /\ PipePlaces' /\ Left(x) \in Nat \ {0} /\ Left(x)' = Left(x) - 1
             /\ \A y \in Pipe!Processes : y # x => Left(y)' = Left(y)
      BY <1>1, <1>3, <1>5, PipeAdvance
<1>6. CASE x = "parent" /\ p = 7
  <2>1. Head(script[x]) = Pipe!Close(1, "r")
        BY <1>1, <1>6, TwiceNext
  <2>2. Pipe!CloseEnd(x)
        BY <2>1, PipeAct DEF Pipe!Close
  <2>3. /\ \A d \in Pipe!Ends, y \in Pipe!Processes :
             (y \in open'[d]) <=> (y \in open[d] /\ ~(y = x /\ d = <<1, "r">>))
        /\ PipeTyped' /\ Pipe!Advance(x) /\ UNCHANGED <<sent, read, fifo, met, missed>>
        BY <1>1, <2>1, <2>2, CloseDoes
  <2>4. PipePlaces' /\ Left("parent")' = 6 /\ Left("child")' = c
        BY <1>2, <1>5, <1>6, <2>3
  <2>5. PipeHeld'
        BY <1>1, <1>2, <1>3, <1>4, <1>6, <2>3, <2>4 DEF PipeHeld, Holds
  <2>6. PipeTwice'
        BY <1>1, <1>4, <1>6, <2>3, <2>4 DEF PipeTwice
  <2> QED BY <1>3, <2>3, <2>4, <2>5, <2>6
<1>7. CASE x = "parent" /\ p = 6
  <2>1. Head(script[x]) = Pipe!Close(2, "w")
        BY <1>1, <1>7, TwiceNext
  <2>2. Pipe!CloseEnd(x)
        BY <2>1, PipeAct DEF Pipe!Close
  <2>3. /\ \A d \in Pipe!Ends, y \in Pipe!Processes :
             (y \in open'[d]) <=> (y \in open[d] /\ ~(y = x /\ d = <<2, "w">>))
        /\ PipeTyped' /\ Pipe!Advance(x) /\ UNCHANGED <<sent, read, fifo, met, missed>>
        BY <1>1, <2>1, <2>2, CloseDoes
  <2>4. PipePlaces' /\ Left("parent")' = 5 /\ Left("child")' = c
        BY <1>2, <1>5, <1>7, <2>3
  <2>5. PipeHeld'
        BY <1>1, <1>2, <1>3, <1>4, <1>7, <2>3, <2>4 DEF PipeHeld, Holds
  <2>6. PipeTwice'
        BY <1>1, <1>4, <1>7, <2>3, <2>4 DEF PipeTwice
  <2> QED BY <1>3, <2>3, <2>4, <2>5, <2>6
<1>8. CASE x = "parent" /\ p = 5
  <2>1. Head(script[x]) = Pipe!Write(1)
        BY <1>1, <1>8, TwiceNext
  <2>2. Pipe!WriteMessage(x)
        BY <2>1, PipeAct DEF Pipe!Write
  <2>3. /\ sent'[1] = sent[1] + MsgLen /\ sent'[2] = sent[2]
        /\ PipeTyped' /\ Pipe!Advance(x) /\ UNCHANGED <<open, read, fifo, met, missed>>
        BY <1>1, <2>1, <2>2, WriteDoes
  <2>4. PipePlaces' /\ Left("parent")' = 4 /\ Left("child")' = c
        BY <1>2, <1>5, <1>8, <2>3
  <2>5. PipeHeld'
        BY <1>1, <1>2, <1>3, <1>4, <1>8, <2>3, <2>4 DEF PipeHeld, Holds
  <2>6. PipeTwice'
        BY <1>1, <1>4, <1>8, <2>3, <2>4, PipeAssumption DEF PipeTwice
  <2> QED BY <1>3, <2>3, <2>4, <2>5, <2>6
<1>9. CASE x = "parent" /\ p = 4
  <2>1. Head(script[x]) = Pipe!Close(1, "w")
        BY <1>1, <1>9, TwiceNext
  <2>2. Pipe!CloseEnd(x)
        BY <2>1, PipeAct DEF Pipe!Close
  <2>3. /\ \A d \in Pipe!Ends, y \in Pipe!Processes :
             (y \in open'[d]) <=> (y \in open[d] /\ ~(y = x /\ d = <<1, "w">>))
        /\ PipeTyped' /\ Pipe!Advance(x) /\ UNCHANGED <<sent, read, fifo, met, missed>>
        BY <1>1, <2>1, <2>2, CloseDoes
  <2>4. PipePlaces' /\ Left("parent")' = 3 /\ Left("child")' = c
        BY <1>2, <1>5, <1>9, <2>3
  <2>5. PipeHeld'
        BY <1>1, <1>2, <1>3, <1>4, <1>9, <2>3, <2>4 DEF PipeHeld, Holds
  <2>6. PipeTwice'
        BY <1>1, <1>4, <1>9, <2>3, <2>4 DEF PipeTwice
  <2> QED BY <1>3, <2>3, <2>4, <2>5, <2>6
<1>10. CASE x = "parent" /\ p = 3
  <2>1. Head(script[x]) = Pipe!Read(2)
        BY <1>1, <1>10, TwiceNext
  <2>2. Pipe!ReadSome(x) \/ Pipe!ReadEof(x)
        BY <2>1, PipeAct DEF Pipe!Read
  <2>3. ~Pipe!ReadEof(x)
    <3> SUFFICES ASSUME Pipe!ReadEof(x) PROVE FALSE
        OBVIOUS
    <3>1. read[2] = sent[2] /\ open[<<2, "w">>] = {}
          BY <1>1, <2>1, EofDoes
    <3>2. ~Holds("child", <<2, "w">>)
          BY <1>1, <1>2, <3>1 DEF Pipe!Ends
    <3>3. c = 0
          BY <1>4, <3>2 DEF Holds
    <3> QED BY <1>1, <1>4, <1>10, <3>1, <3>3, PipeAssumption
  <2>4. /\ read[2] < sent[2] /\ read'[2] = read[2] + Pipe!Smaller(sent[2] - read[2], BufLen)
        /\ read'[1] = read[1]
        /\ Pipe!Advance(x) /\ PipeTyped' /\ UNCHANGED <<open, sent, fifo, met, missed>>
        BY <1>1, <2>1, <2>2, <2>3, ReadDoes
  <2>5. PipePlaces' /\ Left("parent")' = 2 /\ Left("child")' = c
        BY <1>2, <1>5, <1>10, <2>4
  <2>6. PipeHeld'
        BY <1>1, <1>2, <1>3, <1>4, <1>10, <2>4, <2>5 DEF PipeHeld, Holds
  <2>7. read'[2] = MsgLen
        BY <1>1, <1>4, <1>10, <2>4, PipeAssumption DEF Pipe!Smaller
  <2>8. PipeTwice'
        BY <1>1, <1>4, <1>10, <2>4, <2>5, <2>7 DEF PipeTwice
  <2> QED BY <1>3, <2>4, <2>5, <2>6, <2>8
<1>11. CASE x = "parent" /\ p = 2
  <2>1. Head(script[x]) = Pipe!Close(2, "r")
        BY <1>1, <1>11, TwiceNext
  <2>2. Pipe!CloseEnd(x)
        BY <2>1, PipeAct DEF Pipe!Close
  <2>3. /\ \A d \in Pipe!Ends, y \in Pipe!Processes :
             (y \in open'[d]) <=> (y \in open[d] /\ ~(y = x /\ d = <<2, "r">>))
        /\ PipeTyped' /\ Pipe!Advance(x) /\ UNCHANGED <<sent, read, fifo, met, missed>>
        BY <1>1, <2>1, <2>2, CloseDoes
  <2>4. PipePlaces' /\ Left("parent")' = 1 /\ Left("child")' = c
        BY <1>2, <1>5, <1>11, <2>3
  <2>5. PipeHeld'
        BY <1>1, <1>2, <1>3, <1>4, <1>11, <2>3, <2>4 DEF PipeHeld, Holds
  <2>6. PipeTwice'
        BY <1>1, <1>4, <1>11, <2>3, <2>4 DEF PipeTwice
  <2> QED BY <1>3, <2>3, <2>4, <2>5, <2>6
<1>12. CASE x = "parent" /\ p = 1
  <2>1. Head(script[x]) = Pipe!Wait
        BY <1>1, <1>12, TwiceNext
  <2>2. Pipe!Reap
        BY <2>1, PipeAct DEF Pipe!Wait
  <2>3. /\ script["child"] = <<>> /\ c = 0 /\ Pipe!Advance(x)
        /\ UNCHANGED <<open, sent, read, fifo, met, missed>>
        BY <1>4, <1>12, <2>2 DEF Pipe!Reap
  <2>4. PipePlaces' /\ Left("parent")' = 0 /\ Left("child")' = c
        BY <1>2, <1>5, <1>12, <2>3
  <2>5. PipeHeld'
        BY <1>1, <1>2, <1>3, <1>4, <1>12, <2>3, <2>4 DEF PipeHeld, Holds
  <2>6. PipeTwice' /\ PipeTyped'
        BY <1>1, <1>4, <1>12, <2>3, <2>4 DEF PipeTwice, PipeTyped
  <2> QED BY <1>3, <2>3, <2>4, <2>5, <2>6
<1>13. CASE x = "child" /\ c = 6
  <2>1. Head(script[x]) = Pipe!Close(1, "w")
        BY <1>1, <1>13, TwiceNext
  <2>2. Pipe!CloseEnd(x)
        BY <2>1, PipeAct DEF Pipe!Close
  <2>3. /\ \A d \in Pipe!Ends, y \in Pipe!Processes :
             (y \in open'[d]) <=> (y \in open[d] /\ ~(y = x /\ d = <<1, "w">>))
        /\ PipeTyped' /\ Pipe!Advance(x) /\ UNCHANGED <<sent, read, fifo, met, missed>>
        BY <1>1, <2>1, <2>2, CloseDoes
  <2>4. PipePlaces' /\ Left("child")' = 5 /\ Left("parent")' = p
        BY <1>2, <1>5, <1>13, <2>3
  <2>5. PipeHeld'
        BY <1>1, <1>2, <1>3, <1>4, <1>13, <2>3, <2>4 DEF PipeHeld, Holds
  <2>6. PipeTwice'
        BY <1>1, <1>4, <1>13, <2>3, <2>4 DEF PipeTwice
  <2> QED BY <1>3, <2>3, <2>4, <2>5, <2>6
<1>14. CASE x = "child" /\ c = 5
  <2>1. Head(script[x]) = Pipe!Close(2, "r")
        BY <1>1, <1>14, TwiceNext
  <2>2. Pipe!CloseEnd(x)
        BY <2>1, PipeAct DEF Pipe!Close
  <2>3. /\ \A d \in Pipe!Ends, y \in Pipe!Processes :
             (y \in open'[d]) <=> (y \in open[d] /\ ~(y = x /\ d = <<2, "r">>))
        /\ PipeTyped' /\ Pipe!Advance(x) /\ UNCHANGED <<sent, read, fifo, met, missed>>
        BY <1>1, <2>1, <2>2, CloseDoes
  <2>4. PipePlaces' /\ Left("child")' = 4 /\ Left("parent")' = p
        BY <1>2, <1>5, <1>14, <2>3
  <2>5. PipeHeld'
        BY <1>1, <1>2, <1>3, <1>4, <1>14, <2>3, <2>4 DEF PipeHeld, Holds
  <2>6. PipeTwice'
        BY <1>1, <1>4, <1>14, <2>3, <2>4 DEF PipeTwice
  <2> QED BY <1>3, <2>3, <2>4, <2>5, <2>6
<1>15. CASE x = "child" /\ c = 4
  <2>1. Head(script[x]) = Pipe!Read(1)
        BY <1>1, <1>15, TwiceNext
  <2>2. Pipe!ReadSome(x) \/ Pipe!ReadEof(x)
        BY <2>1, PipeAct DEF Pipe!Read
  <2>3. ~Pipe!ReadEof(x)
    <3> SUFFICES ASSUME Pipe!ReadEof(x) PROVE FALSE
        OBVIOUS
    <3>1. read[1] = sent[1] /\ open[<<1, "w">>] = {}
          BY <1>1, <2>1, EofDoes
    <3>2. ~Holds("parent", <<1, "w">>)
          BY <1>1, <1>2, <3>1 DEF Pipe!Ends
    <3>3. p <= 3
          BY <1>4, <3>2 DEF Holds
    <3> QED BY <1>1, <1>4, <1>15, <3>1, <3>3, PipeAssumption
  <2>4. /\ read[1] < sent[1] /\ read'[1] = read[1] + Pipe!Smaller(sent[1] - read[1], BufLen)
        /\ read'[2] = read[2]
        /\ Pipe!Advance(x) /\ PipeTyped' /\ UNCHANGED <<open, sent, fifo, met, missed>>
        BY <1>1, <2>1, <2>2, <2>3, ReadDoes
  <2>5. PipePlaces' /\ Left("child")' = 3 /\ Left("parent")' = p
        BY <1>2, <1>5, <1>15, <2>4
  <2>6. PipeHeld'
        BY <1>1, <1>2, <1>3, <1>4, <1>15, <2>4, <2>5 DEF PipeHeld, Holds
  <2>7. read'[1] = MsgLen
        BY <1>1, <1>4, <1>15, <2>4, PipeAssumption DEF Pipe!Smaller
  <2>8. PipeTwice'
        BY <1>1, <1>4, <1>15, <2>4, <2>5, <2>7 DEF PipeTwice
  <2> QED BY <1>3, <2>4, <2>5, <2>6, <2>8
<1>16. CASE x = "child" /\ c = 3
  <2>1. Head(script[x]) = Pipe!Close(1, "r")
        BY <1>1, <1>16, TwiceNext
  <2>2. Pipe!CloseEnd(x)
        BY <2>1, PipeAct DEF Pipe!Close
  <2>3. /\ \A d \in Pipe!Ends, y \in Pipe!Processes :
             (y \in open'[d]) <=> (y \in open[d] /\ ~(y = x /\ d = <<1, "r">>))
        /\ PipeTyped' /\ Pipe!Advance(x) /\ UNCHANGED <<sent, read, fifo, met, missed>>
        BY <1>1, <2>1, <2>2, CloseDoes
  <2>4. PipePlaces' /\ Left("child")' = 2 /\ Left("parent")' = p
        BY <1>2, <1>5, <1>16, <2>3
  <2>5. PipeHeld'
        BY <1>1, <1>2, <1>3, <1>4, <1>16, <2>3, <2>4 DEF PipeHeld, Holds
  <2>6. PipeTwice'
        BY <1>1, <1>4, <1>16, <2>3, <2>4 DEF PipeTwice
  <2> QED BY <1>3, <2>3, <2>4, <2>5, <2>6
<1>17. CASE x = "child" /\ c = 2
  <2>1. Head(script[x]) = Pipe!Write(2)
        BY <1>1, <1>17, TwiceNext
  <2>2. Pipe!WriteMessage(x)
        BY <2>1, PipeAct DEF Pipe!Write
  <2>3. /\ sent'[2] = sent[2] + MsgLen /\ sent'[1] = sent[1]
        /\ PipeTyped' /\ Pipe!Advance(x) /\ UNCHANGED <<open, read, fifo, met, missed>>
        BY <1>1, <2>1, <2>2, WriteDoes
  <2>4. PipePlaces' /\ Left("child")' = 1 /\ Left("parent")' = p
        BY <1>2, <1>5, <1>17, <2>3
  <2>5. PipeHeld'
        BY <1>1, <1>2, <1>3, <1>4, <1>17, <2>3, <2>4 DEF PipeHeld, Holds
  <2>6. PipeTwice'
        BY <1>1, <1>4, <1>17, <2>3, <2>4, PipeAssumption DEF PipeTwice
  <2> QED BY <1>3, <2>3, <2>4, <2>5, <2>6
<1>18. CASE x = "child" /\ c = 1
  <2>1. Head(script[x]) = Pipe!Close(2, "w")
        BY <1>1, <1>18, TwiceNext
  <2>2. Pipe!CloseEnd(x)
        BY <2>1, PipeAct DEF Pipe!Close
  <2>3. /\ \A d \in Pipe!Ends, y \in Pipe!Processes :
             (y \in open'[d]) <=> (y \in open[d] /\ ~(y = x /\ d = <<2, "w">>))
        /\ PipeTyped' /\ Pipe!Advance(x) /\ UNCHANGED <<sent, read, fifo, met, missed>>
        BY <1>1, <2>1, <2>2, CloseDoes
  <2>4. PipePlaces' /\ Left("child")' = 0 /\ Left("parent")' = p
        BY <1>2, <1>5, <1>18, <2>3
  <2>5. PipeHeld'
        BY <1>1, <1>2, <1>3, <1>4, <1>18, <2>3, <2>4 DEF PipeHeld, Holds
  <2>6. PipeTwice'
        BY <1>1, <1>4, <1>18, <2>3, <2>4 DEF PipeTwice
  <2> QED BY <1>3, <2>3, <2>4, <2>5, <2>6
<1> QED BY <1>2, <1>3, <1>4, <1>6, <1>7, <1>8, <1>9, <1>10, <1>11, <1>12, <1>13, <1>14, <1>15, <1>16, <1>17, <1>18

\* Many messages: the next calls, and what they do.
LEMMA FloodNext ==
  ASSUME PipePlaces, example = "many"
  PROVE  /\ Left("parent") \in 0..Flood + 3 /\ Left("child") \in 0..3
         /\ Left("parent") = 0 <=> script["parent"] = <<>>
         /\ Left("child") = 0 <=> script["child"] = <<>>
         /\ Left("parent") = Flood + 3 => Head(script["parent"]) = Pipe!Close(1, "r")
         /\ Left("parent") \in 3..Flood + 2 => Head(script["parent"]) = Pipe!Write(1)
         /\ Left("parent") = 2 => Head(script["parent"]) = Pipe!Close(1, "w")
         /\ Left("parent") = 1 => Head(script["parent"]) = Pipe!Wait
         /\ Left("child") = 3 => Head(script["child"]) = Pipe!Close(1, "w")
         /\ Left("child") = 2 => Head(script["child"]) = Pipe!ReadAll(1)
         /\ Left("child") = 1 => Head(script["child"]) = Pipe!Close(1, "r")
<1>1. "parent" \in Pipe!Processes /\ "child" \in Pipe!Processes
      BY DEF Pipe!Processes
<1> DEFINE f == Calls("parent")
           g == <<Pipe!Close(1, "w"), Pipe!ReadAll(1), Pipe!Close(1, "r")>>
<1>2. /\ Calls("child") = g
      /\ Len(f) = Flood + 3 /\ f[1] = Pipe!Close(1, "r")
      /\ \A k \in 2..Flood + 1 : f[k] = Pipe!Write(1)
      /\ f[Flood + 2] = Pipe!Close(1, "w") /\ f[Flood + 3] = Pipe!Wait
      BY FloodCalls
<1>3. /\ Len(g) = 3 /\ g[1] = Pipe!Close(1, "w") /\ g[2] = Pipe!ReadAll(1)
      /\ g[3] = Pipe!Close(1, "r")
      OBVIOUS
<1>4. /\ Left("parent") \in 0..Len(f) /\ (Left("parent") = 0 <=> script["parent"] = <<>>)
      /\ script["parent"] # <<>> => Head(script["parent"]) = f[(Len(f) - Left("parent")) + 1]
      BY <1>1, PipeNext
<1> HIDE DEF f, g
<1>5. /\ Left("child") \in 0..3 /\ (Left("child") = 0 <=> script["child"] = <<>>)
      /\ script["child"] # <<>> => Head(script["child"]) = g[(3 - Left("child")) + 1]
      BY <1>1, <1>2, <1>3, PipeNext
<1>6. /\ Left("parent") \in 0..Flood + 3
      /\ script["parent"] # <<>> =>
           Head(script["parent"]) = f[((Flood + 3) - Left("parent")) + 1]
      BY <1>2, <1>4
<1> DEFINE p == Left("parent")    h == Head(script["parent"])
<1>7. p = 0 <=> script["parent"] = <<>>
      BY <1>4
<1> HIDE DEF p, h
<1>8. p \in 0..Flood + 3 /\ (p # 0 => h = f[((Flood + 3) - p) + 1])
      BY <1>6, <1>7, Zenon DEF p, h
<1>9. p = Flood + 3 => h = f[1]
      BY <1>8, PipeAssumption
<1>10. p \in 3..Flood + 2 => h = Pipe!Write(1)
  <2> SUFFICES ASSUME p \in 3..Flood + 2 PROVE h = Pipe!Write(1)
      OBVIOUS
  <2>1. ((Flood + 3) - p) + 1 \in 2..Flood + 1 /\ p # 0
        BY PipeAssumption
  <2> QED BY <1>2, <1>8, <2>1
<1>11. p = 2 => h = f[Flood + 2]
       BY <1>8, PipeAssumption
<1>12. p = 1 => h = f[Flood + 3]
       BY <1>8, PipeAssumption
<1> QED BY <1>2, <1>3, <1>5, <1>6, <1>7, <1>9, <1>10, <1>11, <1>12 DEF p, h

LEMMA FloodStep ==
  ASSUME PipeExact, example = "many", NEW x \in Pipe!Processes, Pipe!Process(x)
  PROVE  PipePlaces' /\ PipeTyped' /\ PipeHeld' /\ PipeFlood' /\ UNCHANGED <<example, missed>>
<1> DEFINE p == Left("parent")    c == Left("child")
<1>1. /\ PipePlaces /\ PipeTyped
      /\ \A e \in Pipe!Ends, y \in Pipe!Processes : (y \in open[e]) <=> Holds(y, e)
      /\ p = 0 => c = 0
      /\ c <= 1 => p <= 1 /\ read[1] = sent[1]
      /\ sent[2] = 0
      BY DEF PipeExact, PipeHeld, PipeFlood
<1>2. Pipe!Processes = {"parent", "child"}
      BY DEF Pipe!Processes
<1>3. script[x] # <<>> /\ UNCHANGED example
      BY PipeAct
<1>4. /\ p \in 0..Flood + 3 /\ c \in 0..3 /\ Flood \in Nat
      /\ p = 0 <=> script["parent"] = <<>>
      /\ c = 0 <=> script["child"] = <<>>
      BY <1>1, FloodNext, PipeAssumption
<1>5. ASSUME Pipe!Advance(x)
      PROVE  /\ PipePlaces' /\ Left(x) \in Nat \ {0} /\ Left(x)' = Left(x) - 1
             /\ \A y \in Pipe!Processes : y # x => Left(y)' = Left(y)
      BY <1>1, <1>3, <1>5, PipeAdvance
<1>6. CASE x = "parent" /\ p = Flood + 3
  <2>1. Head(script[x]) = Pipe!Close(1, "r")
        BY <1>1, <1>6, FloodNext
  <2>2. Pipe!CloseEnd(x)
        BY <2>1, PipeAct DEF Pipe!Close
  <2>3. /\ \A d \in Pipe!Ends, y \in Pipe!Processes :
             (y \in open'[d]) <=> (y \in open[d] /\ ~(y = x /\ d = <<1, "r">>))
        /\ PipeTyped' /\ Pipe!Advance(x) /\ UNCHANGED <<sent, read, fifo, met, missed>>
        BY <1>1, <2>1, <2>2, CloseDoes
  <2>4. PipePlaces' /\ Left("parent")' = Flood + 2 /\ Left("child")' = c
        BY <1>2, <1>4, <1>5, <1>6, <2>3
  <2>5. PipeHeld'
        BY <1>1, <1>2, <1>3, <1>4, <1>6, <2>3, <2>4 DEF PipeHeld, Holds
  <2>6. PipeFlood'
        BY <1>1, <1>4, <1>6, <2>3, <2>4 DEF PipeFlood
  <2> QED BY <1>3, <2>3, <2>4, <2>5, <2>6
<1>7. CASE x = "parent" /\ p \in 3..Flood + 2
  <2>1. Head(script[x]) = Pipe!Write(1)
        BY <1>1, <1>7, FloodNext
  <2>2. Pipe!WriteMessage(x)
        BY <2>1, PipeAct DEF Pipe!Write
  <2>3. /\ sent'[1] = sent[1] + MsgLen /\ sent'[2] = sent[2]
        /\ PipeTyped' /\ Pipe!Advance(x) /\ UNCHANGED <<open, read, fifo, met, missed>>
        BY <1>1, <2>1, <2>2, WriteDoes
  <2>4. PipePlaces' /\ Left("parent")' = p - 1 /\ Left("child")' = c
        BY <1>2, <1>4, <1>5, <1>7, <2>3
  <2>5. PipeHeld'
        BY <1>1, <1>2, <1>3, <1>4, <1>7, <2>3, <2>4 DEF PipeHeld, Holds
  <2>6. PipeFlood'
        BY <1>1, <1>4, <1>7, <2>3, <2>4 DEF PipeFlood
  <2> QED BY <1>3, <2>3, <2>4, <2>5, <2>6
<1>8. CASE x = "parent" /\ p = 2
  <2>1. Head(script[x]) = Pipe!Close(1, "w")
        BY <1>1, <1>8, FloodNext
  <2>2. Pipe!CloseEnd(x)
        BY <2>1, PipeAct DEF Pipe!Close
  <2>3. /\ \A d \in Pipe!Ends, y \in Pipe!Processes :
             (y \in open'[d]) <=> (y \in open[d] /\ ~(y = x /\ d = <<1, "w">>))
        /\ PipeTyped' /\ Pipe!Advance(x) /\ UNCHANGED <<sent, read, fifo, met, missed>>
        BY <1>1, <2>1, <2>2, CloseDoes
  <2>4. PipePlaces' /\ Left("parent")' = 1 /\ Left("child")' = c
        BY <1>2, <1>5, <1>8, <2>3
  <2>5. PipeHeld'
        BY <1>1, <1>2, <1>3, <1>4, <1>8, <2>3, <2>4 DEF PipeHeld, Holds
  <2>6. PipeFlood'
        BY <1>1, <1>4, <1>8, <2>3, <2>4 DEF PipeFlood
  <2> QED BY <1>3, <2>3, <2>4, <2>5, <2>6
<1>9. CASE x = "parent" /\ p = 1
  <2>1. Head(script[x]) = Pipe!Wait
        BY <1>1, <1>9, FloodNext
  <2>2. Pipe!Reap
        BY <2>1, PipeAct DEF Pipe!Wait
  <2>3. /\ script["child"] = <<>> /\ Pipe!Advance(x)
        /\ UNCHANGED <<open, sent, read, fifo, met, missed>>
        BY <1>9, <2>2 DEF Pipe!Reap
  <2>4. PipePlaces' /\ Left("parent")' = 0 /\ Left("child")' = c /\ c = 0
        BY <1>2, <1>4, <1>5, <1>9, <2>3
  <2>5. PipeHeld'
        BY <1>1, <1>2, <1>3, <1>4, <1>9, <2>3, <2>4 DEF PipeHeld, Holds
  <2>6. PipeFlood' /\ PipeTyped'
        BY <1>1, <1>4, <1>9, <2>3, <2>4 DEF PipeFlood, PipeTyped
  <2> QED BY <1>3, <2>3, <2>4, <2>5, <2>6
<1>10. CASE x = "child" /\ c = 3
  <2>1. Head(script[x]) = Pipe!Close(1, "w")
        BY <1>1, <1>10, FloodNext
  <2>2. Pipe!CloseEnd(x)
        BY <2>1, PipeAct DEF Pipe!Close
  <2>3. /\ \A d \in Pipe!Ends, y \in Pipe!Processes :
             (y \in open'[d]) <=> (y \in open[d] /\ ~(y = x /\ d = <<1, "w">>))
        /\ PipeTyped' /\ Pipe!Advance(x) /\ UNCHANGED <<sent, read, fifo, met, missed>>
        BY <1>1, <2>1, <2>2, CloseDoes
  <2>4. PipePlaces' /\ Left("child")' = 2 /\ Left("parent")' = p
        BY <1>2, <1>5, <1>10, <2>3
  <2>5. PipeHeld'
        BY <1>1, <1>2, <1>3, <1>4, <1>10, <2>3, <2>4 DEF PipeHeld, Holds
  <2>6. PipeFlood'
        BY <1>1, <1>4, <1>10, <2>3, <2>4 DEF PipeFlood
  <2> QED BY <1>3, <2>3, <2>4, <2>5, <2>6
<1>11. CASE x = "child" /\ c = 2
  <2>1. Head(script[x]) = Pipe!ReadAll(1)
        BY <1>1, <1>11, FloodNext
  <2>2. Pipe!ReadSome(x) \/ Pipe!ReadEof(x)
        BY <2>1, PipeAct DEF Pipe!ReadAll
  <2>3. CASE Pipe!ReadSome(x)
    <3>1. PipeTyped' /\ UNCHANGED <<script, open, sent, fifo, met, missed>>
          BY <1>1, <2>1, <2>3, ReadDoes
    <3>2. /\ \A y \in Pipe!Processes : Left(y)' = Left(y)
          /\ Left("parent")' = p /\ Left("child")' = c
          BY <3>1 DEF Left
    <3>3. PipePlaces'
          BY <1>1, <1>3, <3>1 DEF PipePlaces, Left, Calls
    <3>4. PipeHeld'
          BY <1>1, <1>2, <1>3, <1>4, <1>11, <3>1, <3>2 DEF PipeHeld, Holds
    <3>5. PipeFlood'
          BY <1>1, <1>4, <1>11, <3>1, <3>2 DEF PipeFlood
    <3> QED BY <1>3, <3>1, <3>3, <3>4, <3>5
  <2>4. CASE Pipe!ReadEof(x)
    <3>1. /\ read[1] = sent[1] /\ open[<<1, "w">>] = {}
          /\ PipeTyped' /\ Pipe!Advance(x) /\ UNCHANGED <<open, sent, read, fifo, met, missed>>
          BY <1>1, <2>1, <2>4, EofDoes
    <3>2. ~Holds("parent", <<1, "w">>)
          BY <1>1, <1>2, <3>1 DEF Pipe!Ends
    <3>3. p <= 1
          BY <1>4, <3>2 DEF Holds
    <3>4. PipePlaces' /\ Left("child")' = 1 /\ Left("parent")' = p
          BY <1>2, <1>5, <1>11, <3>1
    <3>5. PipeHeld'
          BY <1>1, <1>2, <1>3, <1>4, <1>11, <3>1, <3>4 DEF PipeHeld, Holds
    <3>6. PipeFlood'
          BY <1>1, <1>4, <1>11, <3>1, <3>3, <3>4 DEF PipeFlood
    <3> QED BY <1>3, <3>1, <3>4, <3>5, <3>6
  <2> QED BY <2>2, <2>3, <2>4
<1>12. CASE x = "child" /\ c = 1
  <2>1. Head(script[x]) = Pipe!Close(1, "r")
        BY <1>1, <1>12, FloodNext
  <2>2. Pipe!CloseEnd(x)
        BY <2>1, PipeAct DEF Pipe!Close
  <2>3. /\ \A d \in Pipe!Ends, y \in Pipe!Processes :
             (y \in open'[d]) <=> (y \in open[d] /\ ~(y = x /\ d = <<1, "r">>))
        /\ PipeTyped' /\ Pipe!Advance(x) /\ UNCHANGED <<sent, read, fifo, met, missed>>
        BY <1>1, <2>1, <2>2, CloseDoes
  <2>4. PipePlaces' /\ Left("child")' = 0 /\ Left("parent")' = p
        BY <1>2, <1>5, <1>12, <2>3
  <2>5. PipeHeld'
        BY <1>1, <1>2, <1>3, <1>4, <1>12, <2>3, <2>4 DEF PipeHeld, Holds
  <2>6. PipeFlood'
        BY <1>1, <1>4, <1>12, <2>3, <2>4 DEF PipeFlood
  <2> QED BY <1>3, <2>3, <2>4, <2>5, <2>6
<1>13. p \in 3..Flood + 2 \/ p = Flood + 3 \/ p = 2 \/ p = 1 \/ p = 0
       BY <1>4
<1>14. c = 3 \/ c = 2 \/ c = 1 \/ c = 0
       BY <1>4
<1> HIDE DEF p, c
<1> QED BY <1>2, <1>3, <1>4, <1>6, <1>7, <1>8, <1>9, <1>10, <1>11, <1>12, <1>13, <1>14

\* The FIFO: the next calls, and what they do.
LEMMA NamedNext ==
  ASSUME PipePlaces, example = "fifo"
  PROVE  /\ Left("parent") \in 0..10 /\ Left("child") \in 0..4
         /\ Left("parent") = 0 <=> script["parent"] = <<>>
         /\ Left("child") = 0 <=> script["child"] = <<>>
         /\ Left("parent") = 10 => Head(script["parent"]) = <<"mkfifo">>
         /\ Left("parent") = 9 => Head(script["parent"]) = <<"open", "w">>
         /\ Left("parent") = 8 => Head(script["parent"]) = <<"opened", "w">>
         /\ Left("parent") \in 4..7 => Head(script["parent"]) = Pipe!Write(1)
         /\ Left("parent") = 3 => Head(script["parent"]) = Pipe!Close(1, "w")
         /\ Left("parent") = 2 => Head(script["parent"]) = Pipe!Wait
         /\ Left("parent") = 1 => Head(script["parent"]) = <<"unlink">>
         /\ Left("child") = 4 => Head(script["child"]) = <<"open", "r">>
         /\ Left("child") = 3 => Head(script["child"]) = <<"opened", "r">>
         /\ Left("child") = 2 => Head(script["child"]) = Pipe!ReadAll(1)
         /\ Left("child") = 1 => Head(script["child"]) = Pipe!Close(1, "r")
<1>1. "parent" \in Pipe!Processes /\ "child" \in Pipe!Processes
      BY DEF Pipe!Processes
<1> DEFINE f == Calls("parent")
           g == <<<<"open", "r">>, <<"opened", "r">>, Pipe!ReadAll(1), Pipe!Close(1, "r")>>
<1>2. /\ Calls("child") = g
      /\ Len(f) = 10 /\ f[1] = <<"mkfifo">> /\ f[2] = <<"open", "w">>
      /\ f[3] = <<"opened", "w">> /\ \A k \in 4..7 : f[k] = Pipe!Write(1)
      /\ f[8] = Pipe!Close(1, "w") /\ f[9] = Pipe!Wait /\ f[10] = <<"unlink">>
      BY NamedCalls
<1>3. /\ Len(g) = 4 /\ g[1] = <<"open", "r">> /\ g[2] = <<"opened", "r">>
      /\ g[3] = Pipe!ReadAll(1) /\ g[4] = Pipe!Close(1, "r")
      OBVIOUS
<1>4. /\ Left("parent") \in 0..Len(f) /\ (Left("parent") = 0 <=> script["parent"] = <<>>)
      /\ script["parent"] # <<>> => Head(script["parent"]) = f[(Len(f) - Left("parent")) + 1]
      BY <1>1, PipeNext
<1> HIDE DEF f, g
<1>5. /\ Left("child") \in 0..4 /\ (Left("child") = 0 <=> script["child"] = <<>>)
      /\ script["child"] # <<>> => Head(script["child"]) = g[(4 - Left("child")) + 1]
      BY <1>1, <1>2, <1>3, PipeNext
<1> DEFINE p == Left("parent")    h == Head(script["parent"])
<1>6. p \in 0..10 /\ (p = 0 <=> script["parent"] = <<>>) /\ (p # 0 => h = f[(10 - p) + 1])
      BY <1>2, <1>4
<1>7. Left("child") \in 0..4 /\ (Left("child") = 0 <=> script["child"] = <<>>)
      BY <1>5
<1>8. /\ Left("child") = 4 => Head(script["child"]) = g[1]
      /\ Left("child") = 3 => Head(script["child"]) = g[2]
      /\ Left("child") = 2 => Head(script["child"]) = g[3]
      /\ Left("child") = 1 => Head(script["child"]) = g[4]
      BY <1>5
<1> HIDE DEF p, h
<1>9. /\ p = 10 => h = f[1]
      /\ p = 9 => h = f[2]
      /\ p = 8 => h = f[3]
      /\ p = 3 => h = f[8]
      /\ p = 2 => h = f[9]
      /\ p = 1 => h = f[10]
      BY <1>6
<1>10. p \in 4..7 => h = Pipe!Write(1)
  <2> SUFFICES ASSUME p \in 4..7 PROVE h = Pipe!Write(1)
      OBVIOUS
  <2>1. (10 - p) + 1 \in 4..7 /\ p # 0
        OBVIOUS
  <2> QED BY <1>2, <1>6, <2>1
<1>11. /\ p = 10 => h = <<"mkfifo">>
       /\ p = 9 => h = <<"open", "w">>
       /\ p = 8 => h = <<"opened", "w">>
       /\ p = 3 => h = Pipe!Close(1, "w")
       /\ p = 2 => h = Pipe!Wait
       /\ p = 1 => h = <<"unlink">>
       BY <1>2, <1>9, Zenon
<1>12. /\ Left("child") = 4 => Head(script["child"]) = <<"open", "r">>
       /\ Left("child") = 3 => Head(script["child"]) = <<"opened", "r">>
       /\ Left("child") = 2 => Head(script["child"]) = Pipe!ReadAll(1)
       /\ Left("child") = 1 => Head(script["child"]) = Pipe!Close(1, "r")
       BY <1>3, <1>8, Zenon
<1> QED BY <1>6, <1>7, <1>10, <1>11, <1>12, Zenon DEF p, h

\* An end of the FIFO is there at once.
LEMMA OpenDoes ==
  ASSUME PipeTyped, NEW x \in Pipe!Processes, NEW e \in {"r", "w"},
         Head(script[x]) = <<"open", e>>, Pipe!OpenFifo(x)
  PROVE  /\ \A d \in Pipe!Ends, y \in Pipe!Processes :
              (y \in open'[d]) <=> (y \in open[d] \/ (y = x /\ d = <<1, e>>))
         /\ met' = met \cup {e}
         /\ PipeTyped' /\ Pipe!Advance(x) /\ UNCHANGED <<sent, read, fifo, missed>>
<1>1. Pipe!Pipe(x) = e
      BY DEF Pipe!Pipe
<1>2. <<1, e>> \in Pipe!Ends
      BY DEF Pipe!Ends
<1>3. /\ open' = [open EXCEPT ![<<1, e>>] = open[<<1, e>>] \cup {x}]
      /\ met' = met \cup {e}
      /\ Pipe!Advance(x) /\ UNCHANGED <<sent, read, fifo, missed>>
      BY <1>1 DEF Pipe!OpenFifo
<1>4. open \in [Pipe!Ends -> SUBSET Pipe!Processes]
      BY DEF PipeTyped
<1>5. /\ open' \in [Pipe!Ends -> SUBSET Pipe!Processes]
      /\ \A d \in Pipe!Ends : open'[d] = IF d = <<1, e>> THEN open[d] \cup {x} ELSE open[d]
      BY <1>2, <1>3, <1>4
<1>6. PipeTyped'
      BY <1>3, <1>5 DEF PipeTyped
<1> QED BY <1>3, <1>5, <1>6

LEMMA NamedStep ==
  ASSUME PipeExact, example = "fifo", NEW x \in Pipe!Processes, Pipe!Process(x)
  PROVE  PipePlaces' /\ PipeTyped' /\ PipeHeld' /\ PipeNamed' /\ UNCHANGED example
<1> DEFINE p == Left("parent")    c == Left("child")
<1>1. /\ PipePlaces /\ PipeTyped
      /\ \A e \in Pipe!Ends, y \in Pipe!Processes : (y \in open[e]) <=> Holds(y, e)
      /\ p = 0 => c = 0
      /\ sent[2] = 0
      /\ ("w" \in met) <=> (p <= 8)
      /\ ("r" \in met) <=> (~missed /\ c <= 3)
      /\ missed => c = 0
      /\ p \in 1..9 => fifo = TRUE
      /\ p <= 1 => c = 0
      /\ p <= 7 \/ (~missed /\ c <= 2) => met = {"r", "w"}
      /\ ~missed /\ c <= 1 => p <= 2 /\ read[1] = sent[1]
      BY DEF PipeExact, PipeHeld, PipeNamed
<1>2. Pipe!Processes = {"parent", "child"}
      BY DEF Pipe!Processes
<1>3. script[x] # <<>> /\ UNCHANGED example
      BY PipeAct
<1>4. /\ p \in 0..10 /\ c \in 0..4
      /\ p = 0 <=> script["parent"] = <<>>
      /\ c = 0 <=> script["child"] = <<>>
      BY <1>1, NamedNext
<1>5. ASSUME Pipe!Advance(x)
      PROVE  /\ PipePlaces' /\ Left(x) \in Nat \ {0} /\ Left(x)' = Left(x) - 1
             /\ \A y \in Pipe!Processes : y # x => Left(y)' = Left(y)
      BY <1>1, <1>3, <1>5, PipeAdvance
<1>6. CASE x = "parent" /\ p = 10
  <2>1. Head(script[x]) = <<"mkfifo">>
        BY <1>1, <1>6, NamedNext
  <2>2. Pipe!MakeFifo(x)
        BY <2>1, PipeAct
  <2>3. /\ fifo' = TRUE /\ Pipe!Advance(x) /\ UNCHANGED <<open, sent, read, met, missed>>
        BY <2>2 DEF Pipe!MakeFifo
  <2>4. PipePlaces' /\ Left("parent")' = 9 /\ Left("child")' = c
        BY <1>2, <1>5, <1>6, <2>3
  <2>5. PipeHeld'
        BY <1>1, <1>2, <1>3, <1>4, <1>6, <2>3, <2>4 DEF PipeHeld, Holds
  <2>6. PipeNamed'
        BY <1>1, <1>3, <1>4, <1>6, <2>3, <2>4 DEF PipeNamed
  <2>7. PipeTyped'
        BY <1>1, <1>4, <1>6, <2>3, <2>4 DEF PipeTyped
  <2> QED BY <1>3, <2>4, <2>5, <2>6, <2>7
<1>7. CASE x = "parent" /\ p = 9
  <2>1. Head(script[x]) = <<"open", "w">>
        BY <1>1, <1>7, NamedNext
  <2>2. Pipe!OpenFifo(x) \/ Pipe!OpenFails(x)
        BY <2>1, PipeAct
  <2>3. Pipe!OpenFifo(x)
        BY <1>1, <1>7, <2>2 DEF Pipe!OpenFails
  <2>4. /\ \A d \in Pipe!Ends, y \in Pipe!Processes :
             (y \in open'[d]) <=> (y \in open[d] \/ (y = x /\ d = <<1, "w">>))
        /\ met' = met \cup {"w"}
        /\ PipeTyped' /\ Pipe!Advance(x) /\ UNCHANGED <<sent, read, fifo, missed>>
        BY <1>1, <2>1, <2>3, OpenDoes
  <2>5. PipePlaces' /\ Left("parent")' = 8 /\ Left("child")' = c
        BY <1>2, <1>5, <1>7, <2>4
  <2>6. PipeHeld'
        BY <1>1, <1>2, <1>3, <1>4, <1>7, <2>4, <2>5 DEF PipeHeld, Holds
  <2>7. PipeNamed'
        BY <1>1, <1>3, <1>4, <1>7, <2>4, <2>5 DEF PipeNamed
  <2> QED BY <1>3, <2>4, <2>5, <2>6, <2>7
<1>8. CASE x = "parent" /\ p = 8
  <2>1. Head(script[x]) = <<"opened", "w">>
        BY <1>1, <1>8, NamedNext
  <2>2. Pipe!OpenReturns(x)
        BY <2>1, PipeAct
  <2>3. /\ met = {"r", "w"} /\ Pipe!Advance(x)
        /\ UNCHANGED <<open, sent, read, fifo, met, missed>>
        BY <2>2 DEF Pipe!OpenReturns
  <2>4. PipePlaces' /\ Left("parent")' = 7 /\ Left("child")' = c
        BY <1>2, <1>5, <1>8, <2>3
  <2>5. PipeHeld'
        BY <1>1, <1>2, <1>3, <1>4, <1>8, <2>3, <2>4 DEF PipeHeld, Holds
  <2>6. PipeNamed'
        BY <1>1, <1>3, <1>4, <1>8, <2>3, <2>4 DEF PipeNamed
  <2>7. PipeTyped'
        BY <1>1, <1>4, <1>8, <2>3, <2>4 DEF PipeTyped
  <2> QED BY <1>3, <2>4, <2>5, <2>6, <2>7
<1>9. CASE x = "parent" /\ p \in 4..7
  <2>1. Head(script[x]) = Pipe!Write(1)
        BY <1>1, <1>9, NamedNext
  <2>2. Pipe!WriteMessage(x)
        BY <2>1, PipeAct DEF Pipe!Write
  <2>3. /\ sent'[1] = sent[1] + MsgLen /\ sent'[2] = sent[2]
        /\ PipeTyped' /\ Pipe!Advance(x) /\ UNCHANGED <<open, read, fifo, met, missed>>
        BY <1>1, <2>1, <2>2, WriteDoes
  <2>4. PipePlaces' /\ Left("parent")' = p - 1 /\ Left("child")' = c
        BY <1>2, <1>4, <1>5, <1>9, <2>3
  <2>5. PipeHeld'
        BY <1>1, <1>2, <1>3, <1>4, <1>9, <2>3, <2>4 DEF PipeHeld, Holds
  <2>6. PipeNamed'
        BY <1>1, <1>3, <1>4, <1>9, <2>3, <2>4 DEF PipeNamed
  <2> QED BY <1>3, <2>3, <2>4, <2>5, <2>6
<1>10. CASE x = "parent" /\ p = 3
  <2>1. Head(script[x]) = Pipe!Close(1, "w")
        BY <1>1, <1>10, NamedNext
  <2>2. Pipe!CloseEnd(x)
        BY <2>1, PipeAct DEF Pipe!Close
  <2>3. /\ \A d \in Pipe!Ends, y \in Pipe!Processes :
             (y \in open'[d]) <=> (y \in open[d] /\ ~(y = x /\ d = <<1, "w">>))
        /\ PipeTyped' /\ Pipe!Advance(x) /\ UNCHANGED <<sent, read, fifo, met, missed>>
        BY <1>1, <2>1, <2>2, CloseDoes
  <2>4. PipePlaces' /\ Left("parent")' = 2 /\ Left("child")' = c
        BY <1>2, <1>5, <1>10, <2>3
  <2>5. PipeHeld'
        BY <1>1, <1>2, <1>3, <1>4, <1>10, <2>3, <2>4 DEF PipeHeld, Holds
  <2>6. PipeNamed'
        BY <1>1, <1>3, <1>4, <1>10, <2>3, <2>4 DEF PipeNamed
  <2> QED BY <1>3, <2>3, <2>4, <2>5, <2>6
<1>11. CASE x = "parent" /\ p = 2
  <2>1. Head(script[x]) = Pipe!Wait
        BY <1>1, <1>11, NamedNext
  <2>2. Pipe!Reap
        BY <2>1, PipeAct DEF Pipe!Wait
  <2>3. /\ script["child"] = <<>> /\ Pipe!Advance(x)
        /\ UNCHANGED <<open, sent, read, fifo, met, missed>>
        BY <1>11, <2>2 DEF Pipe!Reap
  <2>4. PipePlaces' /\ Left("parent")' = 1 /\ Left("child")' = c /\ c = 0
        BY <1>2, <1>4, <1>5, <1>11, <2>3
  <2>5. PipeHeld'
        BY <1>1, <1>2, <1>3, <1>4, <1>11, <2>3, <2>4 DEF PipeHeld, Holds
  <2>6. PipeNamed'
        BY <1>1, <1>3, <1>4, <1>11, <2>3, <2>4 DEF PipeNamed
  <2>7. PipeTyped'
        BY <1>1, <1>4, <1>11, <2>3, <2>4 DEF PipeTyped
  <2> QED BY <1>3, <2>4, <2>5, <2>6, <2>7
<1>12. CASE x = "parent" /\ p = 1
  <2>1. Head(script[x]) = <<"unlink">>
        BY <1>1, <1>12, NamedNext
  <2>2. Pipe!Unlink(x)
        BY <2>1, PipeAct
  <2>3. /\ fifo' = FALSE /\ Pipe!Advance(x) /\ UNCHANGED <<open, sent, read, met, missed>>
        BY <2>2 DEF Pipe!Unlink
  <2>4. PipePlaces' /\ Left("parent")' = 0 /\ Left("child")' = c
        BY <1>2, <1>5, <1>12, <2>3
  <2>5. PipeHeld'
        BY <1>1, <1>2, <1>3, <1>4, <1>12, <2>3, <2>4 DEF PipeHeld, Holds
  <2>6. PipeNamed'
        BY <1>1, <1>3, <1>4, <1>12, <2>3, <2>4 DEF PipeNamed
  <2>7. PipeTyped'
        BY <1>1, <1>4, <1>12, <2>3, <2>4 DEF PipeTyped
  <2> QED BY <1>3, <2>4, <2>5, <2>6, <2>7
<1>13. CASE x = "child" /\ c = 4
  <2>1. Head(script[x]) = <<"open", "r">>
        BY <1>1, <1>13, NamedNext
  <2>2. Pipe!OpenFifo(x) \/ Pipe!OpenFails(x)
        BY <2>1, PipeAct
  <2>3. CASE Pipe!OpenFifo(x)
    <3>1. /\ \A d \in Pipe!Ends, y \in Pipe!Processes :
               (y \in open'[d]) <=> (y \in open[d] \/ (y = x /\ d = <<1, "r">>))
          /\ met' = met \cup {"r"}
          /\ PipeTyped' /\ Pipe!Advance(x) /\ UNCHANGED <<sent, read, fifo, missed>>
          BY <1>1, <2>1, <2>3, OpenDoes
    <3>2. PipePlaces' /\ Left("child")' = 3 /\ Left("parent")' = p
          BY <1>2, <1>5, <1>13, <3>1
    <3>3. PipeHeld'
          BY <1>1, <1>2, <1>3, <1>4, <1>13, <3>1, <3>2 DEF PipeHeld, Holds
    <3>4. PipeNamed'
          BY <1>1, <1>3, <1>4, <1>13, <3>1, <3>2 DEF PipeNamed
    <3> QED BY <1>3, <3>1, <3>2, <3>3, <3>4
  <2>4. CASE Pipe!OpenFails(x)
    <3>1. /\ missed' = TRUE /\ script' = [script EXCEPT ![x] = <<>>]
          /\ UNCHANGED <<open, sent, read, fifo, met>>
          BY <2>4 DEF Pipe!OpenFails
    <3>2. /\ script \in [Pipe!Processes -> Seq(PipeCalls)]
          /\ \A y \in Pipe!Processes : Calls(y)' = Calls(y) /\ Calls(y) \in Seq(PipeCalls)
          BY <1>1, <1>3, AllCalls DEF PipePlaces, Calls
    <3>3. /\ script' \in [Pipe!Processes -> Seq(PipeCalls)]
          /\ script'["child"] = <<>> /\ script'["parent"] = script["parent"]
          BY <1>2, <1>13, <3>1, <3>2
    <3>4. Left("child")' = 0 /\ Left("parent")' = p
          BY <3>3 DEF Left
    <3>5. PipePlaces'
      <4>1. Len(Calls("child")) \in Nat
            BY <1>2, <3>2, LenProperties
      <4>2. /\ Left("child")' <= Len(Calls("child")')
            /\ \A k \in 1..Left("child")' :
                 script'["child"][k] = Calls("child")'[(Len(Calls("child")') - Left("child")') + k]
            BY <1>2, <3>2, <3>4, <4>1
      <4>3. /\ p <= Len(Calls("parent"))
            /\ \A k \in 1..p : script["parent"][k] = Calls("parent")[(Len(Calls("parent")) - p) + k]
            BY <1>1, <1>2 DEF PipePlaces
      <4>4. Calls("parent")' = Calls("parent")
            BY <1>2, <3>2
      <4>5. /\ Left("parent")' <= Len(Calls("parent")')
            /\ \A k \in 1..Left("parent")' :
                 script'["parent"][k]
                   = Calls("parent")'[(Len(Calls("parent")') - Left("parent")') + k]
            BY <3>3, <3>4, <4>3, <4>4, Zenon
      <4> QED BY <1>2, <1>3, <3>3, <4>2, <4>5 DEF PipePlaces
    <3>6. PipeHeld'
          BY <1>1, <1>2, <1>3, <1>4, <1>13, <3>1, <3>4 DEF PipeHeld, Holds
    <3>7. PipeNamed'
          BY <1>1, <1>3, <1>4, <1>13, <3>1, <3>4 DEF PipeNamed
    <3>8. PipeTyped'
          BY <1>1, <1>4, <1>13, <3>1, <3>4 DEF PipeTyped
    <3> QED BY <1>3, <3>5, <3>6, <3>7, <3>8
  <2> QED BY <2>2, <2>3, <2>4
<1>14. CASE x = "child" /\ c = 3
  <2>1. Head(script[x]) = <<"opened", "r">>
        BY <1>1, <1>14, NamedNext
  <2>2. Pipe!OpenReturns(x)
        BY <2>1, PipeAct
  <2>3. /\ met = {"r", "w"} /\ Pipe!Advance(x)
        /\ UNCHANGED <<open, sent, read, fifo, met, missed>>
        BY <2>2 DEF Pipe!OpenReturns
  <2>4. PipePlaces' /\ Left("child")' = 2 /\ Left("parent")' = p
        BY <1>2, <1>5, <1>14, <2>3
  <2>5. PipeHeld'
        BY <1>1, <1>2, <1>3, <1>4, <1>14, <2>3, <2>4 DEF PipeHeld, Holds
  <2>6. PipeNamed'
        BY <1>1, <1>3, <1>4, <1>14, <2>3, <2>4 DEF PipeNamed
  <2>7. PipeTyped'
        BY <1>1, <1>4, <1>14, <2>3, <2>4 DEF PipeTyped
  <2> QED BY <1>3, <2>4, <2>5, <2>6, <2>7
<1>15. CASE x = "child" /\ c = 2
  <2>1. Head(script[x]) = Pipe!ReadAll(1)
        BY <1>1, <1>15, NamedNext
  <2>2. Pipe!ReadSome(x) \/ Pipe!ReadEof(x)
        BY <2>1, PipeAct DEF Pipe!ReadAll
  <2>3. CASE Pipe!ReadSome(x)
    <3>1. PipeTyped' /\ UNCHANGED <<script, open, sent, fifo, met, missed>>
          BY <1>1, <2>1, <2>3, ReadDoes
    <3>2. /\ \A y \in Pipe!Processes : Left(y)' = Left(y)
          /\ Left("parent")' = p /\ Left("child")' = c
          BY <3>1 DEF Left
    <3>3. PipePlaces'
          BY <1>1, <1>3, <3>1 DEF PipePlaces, Left, Calls
    <3>4. PipeHeld'
          BY <1>1, <1>2, <1>3, <1>4, <1>15, <3>1, <3>2 DEF PipeHeld, Holds
    <3>5. PipeNamed'
          BY <1>1, <1>3, <1>4, <1>15, <3>1, <3>2 DEF PipeNamed
    <3> QED BY <1>3, <3>1, <3>3, <3>4, <3>5
  <2>4. CASE Pipe!ReadEof(x)
    <3>1. /\ read[1] = sent[1] /\ open[<<1, "w">>] = {}
          /\ PipeTyped' /\ Pipe!Advance(x) /\ UNCHANGED <<open, sent, read, fifo, met, missed>>
          BY <1>1, <2>1, <2>4, EofDoes
    <3>2. ~Holds("parent", <<1, "w">>)
          BY <1>1, <1>2, <3>1 DEF Pipe!Ends
    <3>3. p \notin 3..8
          BY <3>2 DEF Holds
    <3>4. p <= 2
          BY <1>1, <1>4, <1>15, <3>3
    <3>5. PipePlaces' /\ Left("child")' = 1 /\ Left("parent")' = p
          BY <1>2, <1>5, <1>15, <3>1
    <3>6. PipeHeld'
          BY <1>1, <1>2, <1>3, <1>4, <1>15, <3>1, <3>5 DEF PipeHeld, Holds
    <3>7. PipeNamed'
          BY <1>1, <1>3, <1>4, <1>15, <3>1, <3>4, <3>5 DEF PipeNamed
    <3> QED BY <1>3, <3>1, <3>5, <3>6, <3>7
  <2> QED BY <2>2, <2>3, <2>4
<1>16. CASE x = "child" /\ c = 1
  <2>1. Head(script[x]) = Pipe!Close(1, "r")
        BY <1>1, <1>16, NamedNext
  <2>2. Pipe!CloseEnd(x)
        BY <2>1, PipeAct DEF Pipe!Close
  <2>3. /\ \A d \in Pipe!Ends, y \in Pipe!Processes :
             (y \in open'[d]) <=> (y \in open[d] /\ ~(y = x /\ d = <<1, "r">>))
        /\ PipeTyped' /\ Pipe!Advance(x) /\ UNCHANGED <<sent, read, fifo, met, missed>>
        BY <1>1, <2>1, <2>2, CloseDoes
  <2>4. PipePlaces' /\ Left("child")' = 0 /\ Left("parent")' = p
        BY <1>2, <1>5, <1>16, <2>3
  <2>5. PipeHeld'
        BY <1>1, <1>2, <1>3, <1>4, <1>16, <2>3, <2>4 DEF PipeHeld, Holds
  <2>6. PipeNamed'
        BY <1>1, <1>3, <1>4, <1>16, <2>3, <2>4 DEF PipeNamed
  <2> QED BY <1>3, <2>3, <2>4, <2>5, <2>6
<1>17. /\ p \in 4..7 \/ p = 10 \/ p = 9 \/ p = 8 \/ p = 3 \/ p = 2 \/ p = 1 \/ p = 0
       /\ c = 4 \/ c = 3 \/ c = 2 \/ c = 1 \/ c = 0
       BY <1>4
<1> HIDE DEF p, c
<1> QED BY <1>2, <1>3, <1>4, <1>6, <1>7, <1>8, <1>9, <1>10, <1>11, <1>12, <1>13, <1>14, <1>15,
           <1>16, <1>17

LEMMA PipeInit == Init => PipeInv
<1> SUFFICES ASSUME program = "pipes", Pipe!Init PROVE PipeExact
    BY DEF Init, PipeInv
<1>1. example \in {"basic", "blocking", "bidirectional", "many", "fifo"}
      BY DEF Pipe!Init
<1>2. Pipe!Processes = {"parent", "child"}
      BY DEF Pipe!Processes
<1>3. script = Pipe!Script(example) /\ \A x : script[x] = Calls(x)
      BY DEF Pipe!Init, Calls
<1>4. \A x \in Pipe!Processes : Calls(x) \in Seq(PipeCalls) /\ Len(Calls(x)) \in Nat
      BY <1>1, AllCalls, LenProperties
<1>5. script \in [Pipe!Processes -> Seq(PipeCalls)]
  <2>1. script = [x \in Pipe!Processes |-> script[x]]
        BY <1>1, <1>3 DEF Pipe!Script, Pipe!OneMessage, Pipe!Bidirectional, Pipe!ManyMessages,
           Pipe!Fifo, Pipe!Processes
  <2> QED BY <1>3, <1>4, <2>1
<1>6. PipePlaces
  <2>1. ASSUME NEW x \in Pipe!Processes
        PROVE  /\ Left(x) <= Len(Calls(x))
               /\ \A k \in 1..Left(x) : script[x][k] = Calls(x)[(Len(Calls(x)) - Left(x)) + k]
    <3> DEFINE n == Len(Calls(x))
    <3>1. n \in Nat /\ Left(x) = n /\ script[x] = Calls(x)
          BY <1>3, <1>4 DEF Left
    <3> HIDE DEF n
    <3>2. n <= n /\ \A k \in 1..n : (n - n) + k = k
          BY <3>1
    <3> QED BY <3>1, <3>2 DEF n
  <2> QED BY <1>1, <1>5, <2>1 DEF PipePlaces
<1>7. /\ open = [e \in Pipe!Ends |->
                   IF e[1] \in Pipe!Used(example) THEN Pipe!Processes ELSE {}]
      /\ sent = [p \in {1, 2} |-> 0] /\ read = [p \in {1, 2} |-> 0]
      /\ fifo \in BOOLEAN /\ met = {} /\ missed = FALSE
      BY DEF Pipe!Init
<1>8. PipeTyped
  <2>1. open \in [Pipe!Ends -> SUBSET Pipe!Processes]
        BY <1>7
  <2>2. /\ sent \in [{1, 2} -> Nat] /\ read \in [{1, 2} -> Nat]
        /\ \A p \in {1, 2} : read[p] <= sent[p]
        BY <1>7
  <2>3. fifo \in BOOLEAN /\ missed \in BOOLEAN /\ met \subseteq {"r", "w"}
        BY <1>7
  <2> QED BY <2>1, <2>2, <2>3 DEF PipeTyped
<1>9. /\ example \in {"basic", "blocking"} => Left("parent") = 4 /\ Left("child") = 3
      /\ example = "bidirectional" => Left("parent") = 7 /\ Left("child") = 6
      /\ example = "many" => Left("parent") = Flood + 3 /\ Left("child") = 3
      /\ example = "fifo" => Left("parent") = 10 /\ Left("child") = 4
  <2>1. Left("parent") = Len(Calls("parent")) /\ Left("child") = Len(Calls("child"))
        BY <1>3 DEF Left
  <2>2. example \in {"basic", "blocking"} => Left("parent") = 4 /\ Left("child") = 3
        BY <2>1, OnceCalls
  <2>3. example = "bidirectional" => Left("parent") = 7 /\ Left("child") = 6
        BY <2>1, TwiceCalls
  <2>4. example = "many" => Left("parent") = Flood + 3 /\ Left("child") = 3
        BY <2>1, FloodCalls
  <2>5. example = "fifo" => Left("parent") = 10 /\ Left("child") = 4
        BY <2>1, NamedCalls
  <2> QED BY <2>2, <2>3, <2>4, <2>5
<1>10. PipeHeld
  <2>1. \A e \in Pipe!Ends, x \in Pipe!Processes :
          (x \in open[e]) <=> (e[1] \in Pipe!Used(example))
        BY <1>7
  <2>2. ASSUME NEW e \in Pipe!Ends, NEW x \in Pipe!Processes
        PROVE  Holds(x, e) <=> (e[1] \in Pipe!Used(example))
    <3>1. CASE example \in {"basic", "blocking"}
          BY <1>2, <1>9, <3>1 DEF Holds, Pipe!Used, Pipe!Ends
    <3>2. CASE example = "bidirectional"
          BY <1>2, <1>9, <3>2 DEF Holds, Pipe!Used, Pipe!Ends
    <3>3. CASE example = "many"
          BY <1>2, <1>9, <3>3, PipeAssumption DEF Holds, Pipe!Used, Pipe!Ends
    <3>4. CASE example = "fifo"
          BY <1>2, <1>9, <3>4 DEF Holds, Pipe!Used, Pipe!Ends
    <3> QED BY <1>1, <3>1, <3>2, <3>3, <3>4
  <2>3. Left("parent") # 0
        BY <1>1, <1>9, PipeAssumption
  <2> QED BY <2>1, <2>2, <2>3 DEF PipeHeld
<1>11. PipeOnce /\ PipeTwice
       BY <1>7, <1>9 DEF PipeOnce, PipeTwice
<1>12. PipeFlood /\ PipeNamed
       BY <1>7, <1>9 DEF PipeFlood, PipeNamed
<1> QED BY <1>6, <1>8, <1>10, <1>11, <1>12 DEF PipeExact

LEMMA PipeStep == PipeInv /\ [Next]_vars => PipeInv'
<1> SUFFICES ASSUME PipeInv, [Next]_vars, program' = "pipes" PROVE PipeExact'
    BY DEF PipeInv
<1>1. program = "pipes"
      BY DEF Next, RunPipes, RunQueue, RunSignals, RunSemaphores, RunShared, RunCreation, vars
<1>2. PipeExact
      BY <1>1 DEF PipeInv
<1>3. CASE Pipe!Next
  <2>1. PICK x \in Pipe!Processes : Pipe!Process(x)
        BY <1>3 DEF Pipe!Next
  <2>2. example \in {"basic", "blocking", "bidirectional", "many", "fifo"}
        BY <1>2 DEF PipeExact, PipePlaces
  <2>3. example # "fifo" => ~missed
        BY <1>2 DEF PipeExact, PipeNamed
  <2>4. CASE example \in {"basic", "blocking"}
    <3>1. PipePlaces' /\ PipeTyped' /\ PipeHeld' /\ PipeOnce' /\ UNCHANGED <<example, missed>>
          BY <1>2, <2>1, <2>4, OnceStep
    <3> QED BY <2>3, <2>4, <3>1 DEF PipeExact, PipeTwice, PipeFlood, PipeNamed
  <2>5. CASE example = "bidirectional"
    <3>1. PipePlaces' /\ PipeTyped' /\ PipeHeld' /\ PipeTwice' /\ UNCHANGED <<example, missed>>
          BY <1>2, <2>1, <2>5, TwiceStep
    <3> QED BY <2>3, <2>5, <3>1 DEF PipeExact, PipeOnce, PipeFlood, PipeNamed
  <2>6. CASE example = "many"
    <3>1. PipePlaces' /\ PipeTyped' /\ PipeHeld' /\ PipeFlood' /\ UNCHANGED <<example, missed>>
          BY <1>2, <2>1, <2>6, FloodStep
    <3> QED BY <2>3, <2>6, <3>1 DEF PipeExact, PipeOnce, PipeTwice, PipeNamed
  <2>7. CASE example = "fifo"
    <3>1. PipePlaces' /\ PipeTyped' /\ PipeHeld' /\ PipeNamed' /\ UNCHANGED example
          BY <1>2, <2>1, <2>7, NamedStep
    <3> QED BY <2>7, <3>1 DEF PipeExact, PipeOnce, PipeTwice, PipeFlood
  <2> QED BY <2>2, <2>4, <2>5, <2>6, <2>7
<1>4. CASE UNCHANGED vars
  <2>1. UNCHANGED <<example, script, open, sent, read, fifo, met, missed>>
        BY <1>4 DEF vars, commonVars, pipeVars
  <2>2. \A x : Left(x)' = Left(x) /\ Calls(x)' = Calls(x)
        BY <2>1 DEF Left, Calls
  <2>3. Left("parent")' = Left("parent") /\ Left("child")' = Left("child")
        BY <2>2
  <2>4. PipePlaces /\ PipeTyped /\ PipeHeld /\ PipeOnce /\ PipeTwice /\ PipeFlood /\ PipeNamed
        BY <1>2 DEF PipeExact
  <2>5. PipePlaces'
        BY <2>1, <2>4 DEF PipePlaces, Left, Calls
  <2>6. PipeTyped'
        BY <2>1, <2>4 DEF PipeTyped
  <2>7. PipeHeld'
        BY <2>1, <2>4 DEF PipeHeld, Holds, Left
  <2>8. PipeOnce' /\ PipeTwice'
        BY <2>1, <2>3, <2>4 DEF PipeOnce, PipeTwice
  <2>9. PipeFlood' /\ PipeNamed'
        BY <2>1, <2>3, <2>4 DEF PipeFlood, PipeNamed
  <2> QED BY <2>5, <2>6, <2>7, <2>8, <2>9 DEF PipeExact
<1> QED BY <1>1, <1>3, <1>4
        DEF Next, RunPipes, RunQueue, RunSignals, RunSemaphores, RunShared, RunCreation, vars

\* What is said of the pipes follows.
LEMMA PipeMeans ==
  ASSUME PipeInv, program = "pipes"
  PROVE  Pipe!TypeOK /\ Pipe!NothingLeaks /\ Pipe!AllRead
<1> DEFINE p == Left("parent")    c == Left("child")
<1>1. /\ PipePlaces /\ PipeTyped /\ PipeOnce /\ PipeTwice /\ PipeFlood /\ PipeNamed
      /\ \A e \in Pipe!Ends, x \in Pipe!Processes : (x \in open[e]) <=> Holds(x, e)
      /\ p = 0 => c = 0
      BY DEF PipeInv, PipeExact, PipeHeld
<1>2. Pipe!Processes = {"parent", "child"}
      BY DEF Pipe!Processes
<1>3. example \in {"basic", "blocking", "bidirectional", "many", "fifo"}
      BY <1>1 DEF PipePlaces
<1>4. \A x \in Pipe!Processes : Left(x) \in Nat /\ (Left(x) = 0 <=> script[x] = <<>>)
      BY <1>1, PipeNext
<1>5. Pipe!TypeOK
  <2>1. DOMAIN script = Pipe!Processes
        BY <1>1 DEF PipePlaces
  <2>2. \A q \in {1, 2} : sent[q] \in Nat /\ read[q] \in 0..sent[q]
        BY <1>1 DEF PipeTyped
  <2> QED BY <1>1, <1>3, <2>1, <2>2 DEF Pipe!TypeOK, PipeTyped
<1>6. Pipe!NothingLeaks
  <2> SUFFICES ASSUME NEW x \in Pipe!Processes, script[x] = <<>>, NEW e \in Pipe!Ends
               PROVE  ~Holds(x, e)
      BY <1>1 DEF Pipe!NothingLeaks
  <2>1. Left(x) = 0
        BY <1>4
  <2> QED BY <2>1, PipeAssumption DEF Holds
<1>7. ASSUME NEW q \in {1, 2}, open[<<q, "r">>] = {}, NEW x \in Pipe!Processes,
             Pipe!At(x, "write"), Pipe!Pipe(x) = q, example # "fifo"
      PROVE  FALSE
  <2>1. ~Holds("parent", <<q, "r">>) /\ ~Holds("child", <<q, "r">>)
        BY <1>1, <1>2, <1>7 DEF Pipe!Ends
  <2>2. script[x] # <<>> /\ Head(script[x])[1] = "write" /\ Head(script[x])[2] = q
        BY <1>7 DEF Pipe!At, Pipe!Pipe
  <2>3. CASE example \in {"basic", "blocking"}
    <3>1. p \in 0..4 /\ c \in 0..3
          BY <1>1, <2>3, OnceNext
    <3>2. x = "parent" /\ p = 3 /\ q = 1
      <4>1. /\ p = 4 => Head(script["parent"])[1] = "close"
            /\ p = 3 => Head(script["parent"])[2] = 1
            /\ p = 2 => Head(script["parent"])[1] = "close"
            /\ p = 1 => Head(script["parent"])[1] = "wait"
            /\ c = 3 => Head(script["child"])[1] = "close"
            /\ c = 2 => Head(script["child"])[1] = "read"
            /\ c = 1 => Head(script["child"])[1] = "close"
            BY <1>1, <2>3, OnceNext DEF Pipe!Close, Pipe!Write, Pipe!Wait, Pipe!Read
      <4>2. Left(x) # 0
            BY <1>4, <2>2
      <4> QED BY <1>2, <2>2, <3>1, <4>1, <4>2
    <3>3. c <= 1 => p <= 2
      <4>1. c <= 1 => read[1] = MsgLen
            BY <1>1, <2>3 DEF PipeOnce
      <4>2. p > 2 => sent[1] = 0
            BY <1>1, <2>3, <3>1 DEF PipeOnce
      <4>3. read[1] <= sent[1]
            BY <1>1 DEF PipeTyped
      <4> QED BY <3>1, <4>1, <4>2, <4>3, PipeAssumption
    <3> QED BY <2>1, <2>3, <3>1, <3>2, <3>3 DEF Holds
  <2>4. CASE example = "bidirectional"
    <3>1. p \in 0..7 /\ c \in 0..6
          BY <1>1, <2>4, TwiceNext
    <3>2. (x = "parent" /\ p = 5 /\ q = 1) \/ (x = "child" /\ c = 2 /\ q = 2)
      <4>1. /\ p \in {7, 6, 4, 2} => Head(script["parent"])[1] = "close"
            /\ p = 5 => Head(script["parent"])[2] = 1
            /\ p = 3 => Head(script["parent"])[1] = "read"
            /\ p = 1 => Head(script["parent"])[1] = "wait"
            BY <1>1, <2>4, TwiceNext DEF Pipe!Close, Pipe!Write, Pipe!Wait, Pipe!Read
      <4>2. /\ c \in {6, 5, 3, 1} => Head(script["child"])[1] = "close"
            /\ c = 4 => Head(script["child"])[1] = "read"
            /\ c = 2 => Head(script["child"])[2] = 2
            BY <1>1, <2>4, TwiceNext DEF Pipe!Close, Pipe!Write, Pipe!Wait, Pipe!Read
      <4>3. Left(x) # 0
            BY <1>4, <2>2
      <4> QED BY <1>2, <2>2, <3>1, <4>1, <4>2, <4>3
    <3>3. (c <= 3 => p <= 4) /\ (p <= 2 => c <= 1)
      <4>1. /\ c <= 3 => read[1] = MsgLen
            /\ p > 4 => sent[1] = 0
            /\ p <= 2 => read[2] = MsgLen
            /\ c > 1 => sent[2] = 0
            BY <1>1, <2>4, <3>1 DEF PipeTwice
      <4>2. read[1] <= sent[1] /\ read[2] <= sent[2]
            BY <1>1 DEF PipeTyped
      <4> QED BY <3>1, <4>1, <4>2, PipeAssumption
    <3> QED BY <2>1, <2>4, <3>1, <3>2, <3>3 DEF Holds
  <2>5. CASE example = "many"
    <3>1. p \in 0..Flood + 3 /\ c \in 0..3
          BY <1>1, <2>5, FloodNext
    <3>2. x = "parent" /\ p >= 3 /\ q = 1
      <4>1. /\ p \in 3..Flood + 2 => Head(script["parent"])[2] = 1
            /\ p = Flood + 3 => Head(script["parent"])[1] = "close"
            /\ p = 2 => Head(script["parent"])[1] = "close"
            /\ p = 1 => Head(script["parent"])[1] = "wait"
            BY <1>1, <2>5, FloodNext DEF Pipe!Close, Pipe!Write, Pipe!Wait
      <4>2. /\ c = 3 => Head(script["child"])[1] = "close"
            /\ c = 2 => Head(script["child"])[1] = "read_all"
            /\ c = 1 => Head(script["child"])[1] = "close"
            BY <1>1, <2>5, FloodNext DEF Pipe!Close, Pipe!ReadAll
      <4>3. Left(x) # 0
            BY <1>4, <2>2
      <4> HIDE DEF p, c
      <4>4. x = "parent" => p # 0
            BY <4>3 DEF p
      <4>5. x = "child" => c # 0
            BY <4>3 DEF c
      <4> QED BY <1>2, <2>2, <3>1, <4>1, <4>2, <4>4, <4>5, PipeAssumption
    <3>3. c <= 1 => p <= 1
          BY <1>1, <2>5 DEF PipeFlood
    <3> QED BY <2>1, <2>5, <3>1, <3>2, <3>3 DEF Holds
  <2> QED BY <1>3, <1>7, <2>3, <2>4, <2>5
<1>8. ASSUME script["parent"] = <<>>
      PROVE  sent = read
  <2>1. p = 0 /\ c = 0
        BY <1>1, <1>2, <1>4, <1>8
  <2>2. sent \in [{1, 2} -> Nat] /\ read \in [{1, 2} -> Nat] /\ read[2] <= sent[2]
        BY <1>1 DEF PipeTyped
  <2>3. CASE example \in {"basic", "blocking"}
        BY <1>1, <2>1, <2>2, <2>3 DEF PipeOnce
  <2>4. CASE example = "bidirectional"
        BY <1>1, <2>1, <2>2, <2>4 DEF PipeTwice
  <2>5. CASE example = "many"
        BY <1>1, <2>1, <2>2, <2>5 DEF PipeFlood
  <2>6. CASE example = "fifo"
        BY <1>1, <2>1, <2>2, <2>6 DEF PipeNamed
  <2> QED BY <1>3, <2>3, <2>4, <2>5, <2>6
<1>9. Pipe!AllRead
      BY <1>7, <1>8 DEF Pipe!AllRead
<1> QED BY <1>5, <1>6, <1>9

-----------------------------------------------------------------------------
\* Message queues (2_msgQueue.cpp).

QueueCalls ==
  {Queue!Send(t) : t \in Nat} \cup {Queue!Receive(t) : t \in Nat}
    \cup {Queue!Drain(t) : t \in Nat} \cup {Queue!Poll(t, n) : t \in Nat, n \in Int}
    \cup {<<"wait">>, <<"remove">>}

Messages == [type : Nat, run : Nat]

\* All the calls of a process.  A poll that has failed is left with an attempt
\* less.
Jobs(x)    == Queue!Script(example)[x]
Alike(c, d) == c = d \/ (c[1] = "poll" /\ d[1] = "poll" /\ c[2] = d[2])

QueuePlaces ==
  /\ example \in {"basic", "bidirectional", "priority", "non_blocking", "status"}
  /\ script \in [Queue!Processes -> Seq(QueueCalls)]
  /\ \A x \in Queue!Processes :
       /\ Left(x) <= Len(Jobs(x))
       /\ \A k \in 1..Left(x) :
            Alike(script[x][k], Jobs(x)[(Len(Jobs(x)) - Left(x)) + k])

QueueTyped ==
  /\ run \in 1..MaxRuns
  /\ queue \in Seq(Messages) /\ destroyed \in Seq(Messages)
  /\ got \in [Queue!Processes -> Seq(Messages)]
  /\ \A k \in 1..Len(queue) : queue[k].run \in 1..run

\* The child of priorityExample waits for the urgent message, then it drains.
Urgent ==
  example = "priority" =>
    /\ Left("child") = 2 => got["child"] = <<>>
    /\ Left("child") <= 1 =>
         /\ Len(got["child"]) >= 1 /\ got["child"][1].type = 10
         /\ \A k \in 2..Len(got["child"]) : got["child"][k].type = 3

\* An undisturbed run: what is in the queue, by the calls that are left.
OnlyBasic ==
  example = "basic" =>
    /\ Left("parent") = 3 => Left("child") = 1
    /\ Left("parent") <= 1 => Left("child") = 0
    /\ Len(queue) = IF Left("parent") = 3 THEN 0 ELSE Left("child")

OnlyAnswer ==
  example = "bidirectional" =>
    /\ Left("parent") <= 1 => Left("child") = 0
    /\ Left("child") = 2 => Left("parent") = 4
    /\ Left("child") = 0 => Left("parent") <= 2
    /\ Left("parent") = 4 /\ Left("child") = 1 => Len(queue) = 1 /\ queue[1].type = 1
    /\ Left("parent") # 4 /\ Left("child") = 1 =>
         Len(queue) = IF Left("parent") = 3 THEN 0 ELSE 1
    /\ Left("child") # 1 => queue = <<>>

OnlyPriority ==
  example = "priority" =>
    /\ Left("parent") <= 1 => Left("child") = 0
    /\ Left("child") = 2 =>
         /\ Left("parent") >= 2 /\ Len(queue) = 5 - Left("parent")
         /\ \A k \in 1..Len(queue) : queue[k].type = IF k = 2 THEN 10 ELSE 3
    /\ Left("child") <= 1 =>
         /\ Left("parent") <= 3
         /\ \A k \in 1..Len(queue) : queue[k].type = 3
    /\ Left("child") = 1 => Len(got["child"]) + Len(queue) >= 2
    /\ Left("child") = 0 => Len(got["child"]) >= 2
    /\ \A k \in 1..Len(destroyed) : destroyed[k].type = 3

OnlyPolls ==
  example = "non_blocking" =>
    /\ Left("parent") <= 1 => Left("child") = 0
    /\ Len(queue) + Len(got["child"]) = IF Left("parent") = 3 THEN 0 ELSE 1
    /\ Left("child") = 0 => Len(got["child"]) >= 1

OnlyStatus ==
  example = "status" /\ Left("parent") <= 1 => queue = <<>>

Undisturbed ==
  run = 1 =>
    /\ OnlyBasic /\ OnlyAnswer /\ OnlyPriority /\ OnlyPolls /\ OnlyStatus
    /\ example # "priority" => destroyed = <<>>

QueueExact == QueuePlaces /\ QueueTyped /\ Urgent /\ Undisturbed

QueueInv == program = "queue" => QueueExact

\* A non-empty set of naturals has a least element.
LEMMA LeastOf ==
  ASSUME NEW S, S \subseteq Nat, S # {}
  PROVE  Queue!First(S) \in S
<1> DEFINE R == OpToRel(<, Nat)
<1>1. IsWellFoundedOn(R, Nat)
      BY NatLessThanWellFounded
<1>2. R = {ss \in Nat \X Nat : ss[1] < ss[2]}
      BY DEF OpToRel
<1> HIDE DEF R
<1>3. PICK x \in S : \A y \in S : ~(<<y, x>> \in R)
      BY <1>1, WFMin
<1>4. ASSUME NEW y \in S PROVE x <= y
  <2>1. x \in Nat /\ y \in Nat
        OBVIOUS
  <2>2. ~(<<y, x>> \in R)
        BY <1>3
  <2>3. y < x => <<y, x>> \in R
        BY <1>2, <2>1
  <2> QED BY <2>1, <2>2, <2>3
<1> QED BY <1>3, <1>4 DEF Queue!First

\* RemoveAt closes the gap.
LEMMA RemoveDoes ==
  ASSUME NEW S, NEW s \in Seq(S), NEW i \in 1..Len(s)
  PROVE  /\ Queue!RemoveAt(s, i) \in Seq(S) /\ Len(Queue!RemoveAt(s, i)) = Len(s) - 1
         /\ \A k \in 1..i - 1 : Queue!RemoveAt(s, i)[k] = s[k]
         /\ \A k \in i..Len(s) - 1 : Queue!RemoveAt(s, i)[k] = s[k + 1]
<1> DEFINE n == Len(s)    a == SubSeq(s, 1, i - 1)    b == SubSeq(s, i + 1, n)
<1>1. n \in Nat /\ i \in 1..n
      BY LenProperties
<1>2. \A k \in 1..n : s[k] \in S
      BY ElementOfSeq
<1>3. /\ a \in Seq(S) /\ Len(a) = i - 1
      /\ \A k \in 1..i - 1 : a[k] = s[k]
  <2>1. 1 \in 1..n + 1 /\ i - 1 \in 0..n /\ \A k \in 1..i - 1 : s[k] \in S
        BY <1>1, <1>2
  <2> HIDE DEF n
  <2>2. \A k \in 1..i - 1 : k \in 1..n /\ 1 + k - 1 = k
        BY <1>1
  <2> QED BY <1>1, <2>1, <2>2, SubSeqProperties DEF n
<1>4. /\ b \in Seq(S) /\ Len(b) = n - i
      /\ \A k \in 1..n - i : b[k] = s[i + k]
  <2>1. i + 1 \in 1..n + 1 /\ n \in i..n /\ \A k \in i + 1..n : s[k] \in S
        BY <1>1, <1>2
  <2> QED BY <1>1, <2>1, SubSeqProperties
<1> HIDE DEF n, a, b
<1>5. /\ a \o b \in Seq(S) /\ Len(a \o b) = Len(a) + Len(b)
      /\ \A k \in 1..Len(a) + Len(b) : (a \o b)[k] = IF k <= Len(a) THEN a[k] ELSE b[k - Len(a)]
      BY <1>3, <1>4, ConcatProperties, Zenon
<1> DEFINE u == a \o b
<1>6. /\ u \in Seq(S) /\ Len(u) = n - 1
      /\ \A k \in 1..n - 1 : u[k] = IF k <= i - 1 THEN a[k] ELSE b[k - (i - 1)]
  <2>1. Len(a) + Len(b) = n - 1
        BY <1>1, <1>3, <1>4
  <2> QED BY <1>3, <1>5, <2>1
<1>7. u = Queue!RemoveAt(s, i)
      BY DEF Queue!RemoveAt, n, a, b
<1> HIDE DEF u
<1>8. \A k \in 1..i - 1 : u[k] = s[k]
      BY <1>1, <1>3, <1>6
<1>9. ASSUME NEW k \in i..n - 1 PROVE u[k] = s[k + 1]
  <2>1. k \in 1..n - 1 /\ ~(k <= i - 1) /\ k - (i - 1) \in 1..n - i /\ i + (k - (i - 1)) = k + 1
        BY <1>1
  <2>2. u[k] = b[k - (i - 1)]
        BY <1>6, <2>1
  <2>3. b[k - (i - 1)] = s[i + (k - (i - 1))]
        BY <1>4, <2>1
  <2> QED BY <2>1, <2>2, <2>3
<1> QED BY <1>6, <1>7, <1>8, <1>9 DEF n

\* What is left of a script, but for the attempts of a poll, is its end.
LEMMA NextLike ==
  ASSUME NEW S, NEW f \in Seq(S), NEW s \in Seq(S), Len(s) <= Len(f), s # <<>>,
         \A k \in 1..Len(s) : Alike(s[k], f[(Len(f) - Len(s)) + k])
  PROVE  /\ Len(s) \in 1..Len(f)
         /\ Alike(Head(s), f[(Len(f) - Len(s)) + 1])
         /\ Tail(s) \in Seq(S) /\ Len(Tail(s)) = Len(s) - 1
         /\ \A k \in 1..Len(Tail(s)) : Alike(Tail(s)[k], f[(Len(f) - Len(Tail(s))) + k])
         /\ \A k \in 2..Len(s) : Alike(Tail(s)[k - 1], f[(Len(f) - Len(s)) + k])
<1> DEFINE n == Len(s)    m == Len(f)
<1>1. n \in Nat /\ m \in Nat /\ n # 0 /\ n <= m
      BY LenProperties
<1>2. /\ Head(s) = s[1] /\ Tail(s) \in Seq(S) /\ Len(Tail(s)) = n - 1
      /\ \A k \in 1..n - 1 : Tail(s)[k] = s[k + 1]
      BY <1>1, HeadTailProperties
<1>3. \A k \in 1..n : Alike(s[k], f[(m - n) + k])
      OBVIOUS
<1> HIDE DEF n, m
<1>4. Alike(Head(s), f[(m - n) + 1])
  <2>1. 1 \in 1..n
        BY <1>1
  <2> QED BY <1>2, <1>3, <2>1, Zenon
<1>5. ASSUME NEW k \in 1..n - 1 PROVE Alike(Tail(s)[k], f[(m - (n - 1)) + k])
  <2>1. k + 1 \in 1..n /\ (m - n) + (k + 1) = (m - (n - 1)) + k
        BY <1>1
  <2>2. Alike(s[k + 1], f[(m - n) + (k + 1)])
        BY <1>3, <2>1, Zenon
  <2> QED BY <1>2, <2>1, <2>2
<1>6. ASSUME NEW k \in 2..n PROVE Alike(Tail(s)[k - 1], f[(m - n) + k])
  <2>1. k - 1 \in 1..n - 1 /\ k \in 1..n /\ (k - 1) + 1 = k
        BY <1>1
  <2>2. Alike(s[k], f[(m - n) + k])
        BY <1>3, <2>1, Zenon
  <2>3. Tail(s)[k - 1] = s[k]
        BY <1>2, <2>1
  <2> QED BY <2>2, <2>3, Zenon
<1>7. n \in 1..m
      BY <1>1
<1> QED BY <1>2, <1>4, <1>5, <1>6, <1>7 DEF n, m

\* All the calls of a process of each example, by name and type.
LEMMA BasicJobs ==
  ASSUME example = "basic"
  PROVE  /\ Jobs("parent") = <<Queue!Send(1), <<"wait">>, <<"remove">>>>
         /\ Jobs("child") = <<Queue!Receive(1)>>
<1>1. Queue!Script(example) = Queue!Basic
      BY DEF Queue!Script
<1> QED BY <1>1 DEF Jobs, Queue!Basic, Queue!Clear, Queue!REQUEST, Queue!Send, Queue!Receive

LEMMA AnswerJobs ==
  ASSUME example = "bidirectional"
  PROVE  /\ Jobs("parent") = <<Queue!Receive(1), Queue!Send(2), <<"wait">>, <<"remove">>>>
         /\ Jobs("child") = <<Queue!Send(1), Queue!Receive(2)>>
<1>1. Queue!Script(example) = Queue!Bidirectional
      BY DEF Queue!Script
<1> QED BY <1>1 DEF Jobs, Queue!Bidirectional, Queue!Clear, Queue!REQUEST, Queue!RESPONSE,
                    Queue!Send, Queue!Receive

LEMMA PriorityJobs ==
  ASSUME example = "priority"
  PROVE  /\ Jobs("parent") = <<Queue!Send(3), Queue!Send(10), Queue!Send(3), <<"wait">>,
                               <<"remove">>>>
         /\ Jobs("child") = <<Queue!Receive(10), Queue!Drain(3)>>
<1>1. Queue!Script(example) = Queue!Priority
      BY DEF Queue!Script
<1> QED BY <1>1 DEF Jobs, Queue!Priority, Queue!Clear, Queue!NOTIFICATION, Queue!PRIORITY,
                    Queue!Send, Queue!Receive, Queue!Drain

LEMMA PollJobs ==
  ASSUME example = "non_blocking"
  PROVE  /\ Jobs("parent") = <<Queue!Send(3), <<"wait">>, <<"remove">>>>
         /\ Jobs("child") = <<Queue!Poll(3, Tries), Queue!Receive(3)>>
<1>1. Queue!Script(example) = Queue!NonBlocking
      BY DEF Queue!Script
<1> QED BY <1>1 DEF Jobs, Queue!NonBlocking, Queue!Clear, Queue!NOTIFICATION,
                    Queue!Send, Queue!Receive, Queue!Poll

LEMMA StatusJobs ==
  ASSUME example = "status"
  PROVE  /\ Jobs("parent") = <<Queue!Send(1), Queue!Send(2), Queue!Send(3), Queue!Drain(0),
                               <<"remove">>>>
         /\ Jobs("child") = <<>>
<1>1. Queue!Script(example) = Queue!Status
      BY DEF Queue!Script
<1> QED BY <1>1 DEF Jobs, Queue!Status, Queue!AnyType, Queue!Send, Queue!Drain

LEMMA QueueCallsAre ==
  /\ \A t \in Nat : /\ Queue!Send(t) \in QueueCalls /\ Queue!Receive(t) \in QueueCalls
                    /\ Queue!Drain(t) \in QueueCalls
                    /\ \A n \in Int : Queue!Poll(t, n) \in QueueCalls
  /\ <<"wait">> \in QueueCalls /\ <<"remove">> \in QueueCalls
BY DEF QueueCalls

LEMMA ShortJobs ==
  /\ <<Queue!Send(1), <<"wait">>, <<"remove">>>> \in Seq(QueueCalls)
  /\ <<Queue!Receive(1)>> \in Seq(QueueCalls)
  /\ <<Queue!Receive(1), Queue!Send(2), <<"wait">>, <<"remove">>>> \in Seq(QueueCalls)
  /\ <<Queue!Send(1), Queue!Receive(2)>> \in Seq(QueueCalls)
  /\ <<Queue!Send(3), Queue!Send(10), Queue!Send(3), <<"wait">>, <<"remove">>>>
       \in Seq(QueueCalls)
  /\ <<Queue!Receive(10), Queue!Drain(3)>> \in Seq(QueueCalls)
  /\ <<Queue!Send(3), <<"wait">>, <<"remove">>>> \in Seq(QueueCalls)
  /\ <<Queue!Poll(3, Tries), Queue!Receive(3)>> \in Seq(QueueCalls)
  /\ <<Queue!Send(1), Queue!Send(2), Queue!Send(3), Queue!Drain(0), <<"remove">>>>
       \in Seq(QueueCalls)
  /\ <<>> \in Seq(QueueCalls)
<1>1. 0 \in Nat /\ 1 \in Nat /\ 2 \in Nat /\ 3 \in Nat /\ 10 \in Nat /\ Tries \in Int
      BY QueueAssumption
<1>2. /\ Queue!Send(1) \in QueueCalls /\ Queue!Send(2) \in QueueCalls
      /\ Queue!Send(3) \in QueueCalls /\ Queue!Send(10) \in QueueCalls
      BY <1>1, QueueCallsAre, Zenon
<1>3. /\ Queue!Receive(1) \in QueueCalls /\ Queue!Receive(2) \in QueueCalls
      /\ Queue!Receive(3) \in QueueCalls /\ Queue!Receive(10) \in QueueCalls
      BY <1>1, QueueCallsAre, Zenon
<1>4. /\ Queue!Drain(0) \in QueueCalls /\ Queue!Drain(3) \in QueueCalls
      /\ Queue!Poll(3, Tries) \in QueueCalls
      BY <1>1, QueueCallsAre, Zenon
<1>5. <<"wait">> \in QueueCalls /\ <<"remove">> \in QueueCalls
      BY QueueCallsAre
<1> QED BY <1>2, <1>3, <1>4, <1>5

LEMMA AllJobs ==
  ASSUME example \in {"basic", "bidirectional", "priority", "non_blocking", "status"}
  PROVE  \A x \in Queue!Processes : Jobs(x) \in Seq(QueueCalls)
<1>1. Queue!Processes = {"parent", "child"}
      BY DEF Queue!Processes
<1>2. Jobs("parent") \in Seq(QueueCalls) /\ Jobs("child") \in Seq(QueueCalls)
  <2>1. CASE example = "basic"
        BY <2>1, BasicJobs, ShortJobs, Zenon
  <2>2. CASE example = "bidirectional"
        BY <2>2, AnswerJobs, ShortJobs, Zenon
  <2>3. CASE example = "priority"
        BY <2>3, PriorityJobs, ShortJobs, Zenon
  <2>4. CASE example = "non_blocking"
        BY <2>4, PollJobs, ShortJobs, Zenon
  <2>5. CASE example = "status"
        BY <2>5, StatusJobs, ShortJobs, Zenon
  <2> QED BY <2>1, <2>2, <2>3, <2>4, <2>5
<1> QED BY <1>1, <1>2

\* The script of a process is a sequence of calls, as long as it should be.
LEMMA QueueScripts ==
  ASSUME QueuePlaces, NEW x \in Queue!Processes
  PROVE  /\ Jobs(x) \in Seq(QueueCalls) /\ script[x] \in Seq(QueueCalls)
         /\ Len(script[x]) <= Len(Jobs(x))
         /\ \A k \in 1..Len(script[x]) :
              Alike(script[x][k], Jobs(x)[(Len(Jobs(x)) - Len(script[x])) + k])
BY AllJobs DEF QueuePlaces, Left

\* The name of the next call, and the type of the messages that it is about.
Named(x) == Head(script[x])[1]
Asked(x) == Head(script[x])[2]

LEMMA QueueNext ==
  ASSUME QueuePlaces, NEW x \in Queue!Processes
  PROVE  /\ Left(x) \in 0..Len(Jobs(x)) /\ Len(Jobs(x)) \in Nat
         /\ Left(x) = 0 <=> script[x] = <<>>
         /\ script[x] # <<>> =>
              /\ Named(x) = Jobs(x)[(Len(Jobs(x)) - Left(x)) + 1][1]
              /\ Asked(x) = Jobs(x)[(Len(Jobs(x)) - Left(x)) + 1][2]
<1>1. /\ Jobs(x) \in Seq(QueueCalls) /\ script[x] \in Seq(QueueCalls)
      /\ Len(script[x]) <= Len(Jobs(x))
      /\ \A k \in 1..Len(script[x]) :
           Alike(script[x][k], Jobs(x)[(Len(Jobs(x)) - Len(script[x])) + k])
      BY QueueScripts
<1>2. Len(script[x]) \in Nat /\ Len(Jobs(x)) \in Nat
      BY <1>1, LenProperties
<1>3. script[x] # <<>> =>
        Alike(Head(script[x]), Jobs(x)[(Len(Jobs(x)) - Len(script[x])) + 1])
  <2> DEFINE f == Jobs(x)    r == script[x]
  <2>1. /\ f \in Seq(QueueCalls) /\ r \in Seq(QueueCalls) /\ Len(r) <= Len(f)
        /\ \A k \in 1..Len(r) : Alike(r[k], f[(Len(f) - Len(r)) + k])
        BY <1>1, Zenon
  <2> HIDE DEF f, r
  <2>2. r # <<>> => Alike(Head(r), f[(Len(f) - Len(r)) + 1])
        BY <2>1, NextLike
  <2> QED BY <2>2, Zenon DEF f, r
<1>4. ASSUME NEW c, NEW d, Alike(c, d) PROVE c[1] = d[1] /\ c[2] = d[2]
      BY <1>4 DEF Alike
<1>5. script[x] # <<>> =>
        /\ Head(script[x])[1] = Jobs(x)[(Len(Jobs(x)) - Len(script[x])) + 1][1]
        /\ Head(script[x])[2] = Jobs(x)[(Len(Jobs(x)) - Len(script[x])) + 1][2]
      BY <1>3, <1>4, Zenon
<1>6. Len(script[x]) = 0 <=> script[x] = <<>>
      BY <1>1
<1>7. Len(script[x]) \in 0..Len(Jobs(x))
      BY <1>1, <1>2
<1> QED BY <1>2, <1>5, <1>6, <1>7 DEF Left, Named, Asked

\* The next calls of each example.
LEMMA BasicNext ==
  ASSUME QueuePlaces, example = "basic"
  PROVE  /\ Left("parent") \in 0..3 /\ Left("child") \in 0..1
         /\ Left("parent") = 3 => Named("parent") = "send" /\ Asked("parent") = 1
         /\ Left("parent") = 2 => Named("parent") = "wait"
         /\ Left("parent") = 1 => Named("parent") = "remove"
         /\ Left("child") = 1 => Named("child") = "receive" /\ Asked("child") = 1
<1>1. "parent" \in Queue!Processes /\ "child" \in Queue!Processes
      BY DEF Queue!Processes
<1> DEFINE f == <<Queue!Send(1), <<"wait">>, <<"remove">>>>    g == <<Queue!Receive(1)>>
<1>2. Jobs("parent") = f /\ Jobs("child") = g
      BY BasicJobs
<1>3. /\ Len(f) = 3 /\ f[1][1] = "send" /\ f[1][2] = 1 /\ f[2][1] = "wait" /\ f[3][1] = "remove"
      /\ Len(g) = 1 /\ g[1][1] = "receive" /\ g[1][2] = 1
      BY DEF Queue!Send, Queue!Receive
<1> HIDE DEF f, g
<1>4. /\ Left("parent") \in 0..3 /\ (Left("parent") = 0 <=> script["parent"] = <<>>)
      /\ script["parent"] # <<>> => /\ Named("parent") = f[(3 - Left("parent")) + 1][1]
                                    /\ Asked("parent") = f[(3 - Left("parent")) + 1][2]
      BY <1>1, <1>2, <1>3, QueueNext
<1>5. /\ Left("child") \in 0..1 /\ (Left("child") = 0 <=> script["child"] = <<>>)
      /\ script["child"] # <<>> => /\ Named("child") = g[(1 - Left("child")) + 1][1]
                                   /\ Asked("child") = g[(1 - Left("child")) + 1][2]
      BY <1>1, <1>2, <1>3, QueueNext
<1> QED BY <1>3, <1>4, <1>5

LEMMA AnswerNext ==
  ASSUME QueuePlaces, example = "bidirectional"
  PROVE  /\ Left("parent") \in 0..4 /\ Left("child") \in 0..2
         /\ Left("parent") = 4 => Named("parent") = "receive" /\ Asked("parent") = 1
         /\ Left("parent") = 3 => Named("parent") = "send" /\ Asked("parent") = 2
         /\ Left("parent") = 2 => Named("parent") = "wait"
         /\ Left("parent") = 1 => Named("parent") = "remove"
         /\ Left("child") = 2 => Named("child") = "send" /\ Asked("child") = 1
         /\ Left("child") = 1 => Named("child") = "receive" /\ Asked("child") = 2
<1>1. "parent" \in Queue!Processes /\ "child" \in Queue!Processes
      BY DEF Queue!Processes
<1> DEFINE f == <<Queue!Receive(1), Queue!Send(2), <<"wait">>, <<"remove">>>>
           g == <<Queue!Send(1), Queue!Receive(2)>>
<1>2. Jobs("parent") = f /\ Jobs("child") = g
      BY AnswerJobs
<1>3. /\ Len(f) = 4 /\ f[1][1] = "receive" /\ f[1][2] = 1 /\ f[2][1] = "send"
      /\ f[2][2] = 2 /\ f[3][1] = "wait" /\ f[4][1] = "remove"
      BY DEF Queue!Receive, Queue!Send
<1>4. /\ Len(g) = 2 /\ g[1][1] = "send" /\ g[1][2] = 1 /\ g[2][1] = "receive"
      /\ g[2][2] = 2
      BY DEF Queue!Receive, Queue!Send
<1> HIDE DEF f, g
<1>5. /\ Left("parent") \in 0..4 /\ (Left("parent") = 0 <=> script["parent"] = <<>>)
      /\ script["parent"] # <<>> => /\ Named("parent") = f[(4 - Left("parent")) + 1][1]
                                    /\ Asked("parent") = f[(4 - Left("parent")) + 1][2]
      BY <1>1, <1>2, <1>3, <1>4, QueueNext
<1>6. /\ Left("child") \in 0..2 /\ (Left("child") = 0 <=> script["child"] = <<>>)
      /\ script["child"] # <<>> => /\ Named("child") = g[(2 - Left("child")) + 1][1]
                                   /\ Asked("child") = g[(2 - Left("child")) + 1][2]
      BY <1>1, <1>2, <1>3, <1>4, QueueNext
<1> QED BY <1>3, <1>4, <1>5, <1>6

LEMMA PriorityNext ==
  ASSUME QueuePlaces, example = "priority"
  PROVE  /\ Left("parent") \in 0..5 /\ Left("child") \in 0..2
         /\ Left("parent") = 5 => Named("parent") = "send" /\ Asked("parent") = 3
         /\ Left("parent") = 4 => Named("parent") = "send" /\ Asked("parent") = 10
         /\ Left("parent") = 3 => Named("parent") = "send" /\ Asked("parent") = 3
         /\ Left("parent") = 2 => Named("parent") = "wait"
         /\ Left("parent") = 1 => Named("parent") = "remove"
         /\ Left("child") = 2 => Named("child") = "receive" /\ Asked("child") = 10
         /\ Left("child") = 1 => Named("child") = "drain" /\ Asked("child") = 3
<1>1. "parent" \in Queue!Processes /\ "child" \in Queue!Processes
      BY DEF Queue!Processes
<1> DEFINE f == <<Queue!Send(3), Queue!Send(10), Queue!Send(3), <<"wait">>,
                 <<"remove">>>>
           g == <<Queue!Receive(10), Queue!Drain(3)>>
<1>2. Jobs("parent") = f /\ Jobs("child") = g
      BY PriorityJobs
<1>3. /\ Len(f) = 5 /\ f[1][1] = "send" /\ f[1][2] = 3 /\ f[2][1] = "send"
      /\ f[2][2] = 10 /\ f[3][1] = "send" /\ f[3][2] = 3 /\ f[4][1] = "wait"
      /\ f[5][1] = "remove"
      BY DEF Queue!Send
<1>4. /\ Len(g) = 2 /\ g[1][1] = "receive" /\ g[1][2] = 10 /\ g[2][1] = "drain"
      /\ g[2][2] = 3
      BY DEF Queue!Drain, Queue!Receive
<1> HIDE DEF f, g
<1>5. /\ Left("parent") \in 0..5 /\ (Left("parent") = 0 <=> script["parent"] = <<>>)
      /\ script["parent"] # <<>> => /\ Named("parent") = f[(5 - Left("parent")) + 1][1]
                                    /\ Asked("parent") = f[(5 - Left("parent")) + 1][2]
      BY <1>1, <1>2, <1>3, <1>4, QueueNext
<1>6. /\ Left("child") \in 0..2 /\ (Left("child") = 0 <=> script["child"] = <<>>)
      /\ script["child"] # <<>> => /\ Named("child") = g[(2 - Left("child")) + 1][1]
                                   /\ Asked("child") = g[(2 - Left("child")) + 1][2]
      BY <1>1, <1>2, <1>3, <1>4, QueueNext
<1> QED BY <1>3, <1>4, <1>5, <1>6

LEMMA PollNext ==
  ASSUME QueuePlaces, example = "non_blocking"
  PROVE  /\ Left("parent") \in 0..3 /\ Left("child") \in 0..2
         /\ Left("parent") = 3 => Named("parent") = "send" /\ Asked("parent") = 3
         /\ Left("parent") = 2 => Named("parent") = "wait"
         /\ Left("parent") = 1 => Named("parent") = "remove"
         /\ Left("child") = 2 => Named("child") = "poll" /\ Asked("child") = 3
         /\ Left("child") = 1 => Named("child") = "receive" /\ Asked("child") = 3
<1>1. "parent" \in Queue!Processes /\ "child" \in Queue!Processes
      BY DEF Queue!Processes
<1> DEFINE f == <<Queue!Send(3), <<"wait">>, <<"remove">>>>
           g == <<Queue!Poll(3, Tries), Queue!Receive(3)>>
<1>2. Jobs("parent") = f /\ Jobs("child") = g
      BY PollJobs
<1>3. /\ Len(f) = 3 /\ f[1][1] = "send" /\ f[1][2] = 3 /\ f[2][1] = "wait"
      /\ f[3][1] = "remove"
      BY DEF Queue!Send
<1>4. /\ Len(g) = 2 /\ g[1][1] = "poll" /\ g[1][2] = 3 /\ g[2][1] = "receive"
      /\ g[2][2] = 3
      BY DEF Queue!Poll, Queue!Receive
<1> HIDE DEF f, g
<1>5. /\ Left("parent") \in 0..3 /\ (Left("parent") = 0 <=> script["parent"] = <<>>)
      /\ script["parent"] # <<>> => /\ Named("parent") = f[(3 - Left("parent")) + 1][1]
                                    /\ Asked("parent") = f[(3 - Left("parent")) + 1][2]
      BY <1>1, <1>2, <1>3, <1>4, QueueNext
<1>6. /\ Left("child") \in 0..2 /\ (Left("child") = 0 <=> script["child"] = <<>>)
      /\ script["child"] # <<>> => /\ Named("child") = g[(2 - Left("child")) + 1][1]
                                   /\ Asked("child") = g[(2 - Left("child")) + 1][2]
      BY <1>1, <1>2, <1>3, <1>4, QueueNext
<1> QED BY <1>3, <1>4, <1>5, <1>6

LEMMA StatusNext ==
  ASSUME QueuePlaces, example = "status"
  PROVE  /\ Left("parent") \in 0..5 /\ Left("child") \in 0..0
         /\ Left("parent") = 5 => Named("parent") = "send" /\ Asked("parent") = 1
         /\ Left("parent") = 4 => Named("parent") = "send" /\ Asked("parent") = 2
         /\ Left("parent") = 3 => Named("parent") = "send" /\ Asked("parent") = 3
         /\ Left("parent") = 2 => Named("parent") = "drain" /\ Asked("parent") = 0
         /\ Left("parent") = 1 => Named("parent") = "remove"
<1>1. "parent" \in Queue!Processes /\ "child" \in Queue!Processes
      BY DEF Queue!Processes
<1> DEFINE f == <<Queue!Send(1), Queue!Send(2), Queue!Send(3), Queue!Drain(0),
                 <<"remove">>>>
           g == <<>>
<1>2. Jobs("parent") = f /\ Jobs("child") = g
      BY StatusJobs
<1>3. /\ Len(f) = 5 /\ f[1][1] = "send" /\ f[1][2] = 1 /\ f[2][1] = "send"
      /\ f[2][2] = 2 /\ f[3][1] = "send" /\ f[3][2] = 3 /\ f[4][1] = "drain"
      /\ f[4][2] = 0 /\ f[5][1] = "remove"
      BY DEF Queue!Drain, Queue!Send
<1>4. Len(f) = 5 /\ Len(g) = 0
      OBVIOUS
<1> HIDE DEF f, g
<1>5. /\ Left("parent") \in 0..5 /\ (Left("parent") = 0 <=> script["parent"] = <<>>)
      /\ script["parent"] # <<>> => /\ Named("parent") = f[(5 - Left("parent")) + 1][1]
                                    /\ Asked("parent") = f[(5 - Left("parent")) + 1][2]
      BY <1>1, <1>2, <1>4, QueueNext
<1>6. Left("child") = 0
      BY <1>1, <1>2, <1>4, QueueNext
<1> QED BY <1>3, <1>4, <1>5, <1>6

\* What a call does to the length of a script, to the queue, and to what x has.
Goes(x)  == Left(x)' = Left(x) - 1
Stays(x) == Left(x)' = Left(x)

Queued(t) ==
  /\ Len(queue') = Len(queue) + 1
  /\ \A k \in 1..Len(queue) : queue'[k] = queue[k]
  /\ queue'[Len(queue) + 1].type = t

Taken(x, t) ==
  \E i \in 1..Len(queue) :
    /\ t = 0 \/ queue[i].type = t
    /\ Len(queue') = Len(queue) - 1
    /\ \A k \in 1..i - 1 : queue'[k] = queue[k]
    /\ \A k \in i..Len(queue) - 1 : queue'[k] = queue[k + 1]
    /\ Len(got'[x]) = Len(got[x]) + 1
    /\ \A k \in 1..Len(got[x]) : got'[x][k] = got[x][k]
    /\ got'[x][Len(got[x]) + 1] = queue[i]
    /\ \A y \in Queue!Processes : y # x => got'[y] = got[y]

NoneOf(t) == \A k \in 1..Len(queue) : t # 0 /\ queue[k].type # t

\* A process that goes on has a call less; the others have what they had.
LEMMA QueueAdvance ==
  ASSUME QueuePlaces, NEW x \in Queue!Processes, script[x] # <<>>, Queue!Advance(x),
         UNCHANGED example
  PROVE  /\ QueuePlaces' /\ Goes(x)
         /\ \A y \in Queue!Processes : y # x => Stays(y)
<1>1. \A y \in Queue!Processes :
        /\ Jobs(y) \in Seq(QueueCalls) /\ script[y] \in Seq(QueueCalls)
        /\ Len(script[y]) <= Len(Jobs(y))
        /\ \A k \in 1..Len(script[y]) :
             Alike(script[y][k], Jobs(y)[(Len(Jobs(y)) - Len(script[y])) + k])
      BY QueueScripts
<1>2. /\ Len(script[x]) \in 1..Len(Jobs(x))
      /\ Tail(script[x]) \in Seq(QueueCalls) /\ Len(Tail(script[x])) = Len(script[x]) - 1
      /\ \A k \in 1..Len(Tail(script[x])) :
           Alike(Tail(script[x])[k], Jobs(x)[(Len(Jobs(x)) - Len(Tail(script[x]))) + k])
  <2> DEFINE f == Jobs(x)    r == script[x]
  <2>1. /\ f \in Seq(QueueCalls) /\ r \in Seq(QueueCalls) /\ Len(r) <= Len(f) /\ r # <<>>
        /\ \A k \in 1..Len(r) : Alike(r[k], f[(Len(f) - Len(r)) + k])
        BY <1>1, Zenon
  <2> HIDE DEF f, r
  <2>2. /\ Len(r) \in 1..Len(f)
        /\ Tail(r) \in Seq(QueueCalls) /\ Len(Tail(r)) = Len(r) - 1
        /\ \A k \in 1..Len(Tail(r)) : Alike(Tail(r)[k], f[(Len(f) - Len(Tail(r))) + k])
        BY <2>1, NextLike
  <2> QED BY <2>2, Zenon DEF f, r
<1>3. script \in [Queue!Processes -> Seq(QueueCalls)]
      BY DEF QueuePlaces
<1>4. /\ script'[x] = Tail(script[x])
      /\ \A y \in Queue!Processes : y # x => script'[y] = script[y]
      /\ script' \in [Queue!Processes -> Seq(QueueCalls)]
      BY <1>2, <1>3 DEF Queue!Advance
<1>5. \A y \in Queue!Processes : Jobs(y)' = Jobs(y)
      BY DEF Jobs
<1>6. Len(Jobs(x)) \in Nat /\ Len(script[x]) \in Nat
      BY <1>1, LenProperties
<1>7. Len(Tail(script[x])) <= Len(Jobs(x))
      BY <1>2, <1>6
<1>8. ASSUME NEW y \in Queue!Processes
      PROVE  /\ Len(script'[y]) <= Len(Jobs(y)')
             /\ \A k \in 1..Len(script'[y]) :
                  Alike(script'[y][k], Jobs(y)'[(Len(Jobs(y)') - Len(script'[y])) + k])
  <2>1. CASE y = x
        BY <1>2, <1>4, <1>5, <1>7, <2>1, Zenon
  <2>2. CASE y # x
    <3>1. script'[y] = script[y] /\ Jobs(y)' = Jobs(y)
          BY <1>4, <1>5, <2>2
    <3> QED BY <1>1, <3>1, Zenon
  <2> QED BY <2>1, <2>2
<1>9. QueuePlaces'
      BY <1>4, <1>8 DEF QueuePlaces, Left
<1>10. Left(x)' = Left(x) - 1
      BY <1>2, <1>4 DEF Left
<1> QED BY <1>4, <1>9, <1>10 DEF Left, Goes, Stays

\* An attempt less, and the same calls.
LEMMA QueueRetry ==
  ASSUME QueuePlaces, NEW x \in Queue!Processes, script[x] # <<>>, Named(x) = "poll",
         NEW t \in Nat, NEW n \in Int, Asked(x) = t,
         script' = [script EXCEPT ![x] = <<Queue!Poll(t, n)>> \o Tail(@)],
         UNCHANGED example
  PROVE  /\ QueuePlaces' /\ Stays(x)
         /\ \A y \in Queue!Processes : y # x => Stays(y)
<1>1. \A y \in Queue!Processes :
        /\ Jobs(y) \in Seq(QueueCalls) /\ script[y] \in Seq(QueueCalls)
        /\ Len(script[y]) <= Len(Jobs(y))
        /\ \A k \in 1..Len(script[y]) :
             Alike(script[y][k], Jobs(y)[(Len(Jobs(y)) - Len(script[y])) + k])
      BY QueueScripts
<1> DEFINE f == Jobs(x)    r == script[x]    c == Queue!Poll(t, n)    u == <<c>>
           s == u \o Tail(r)
<1>2. /\ f \in Seq(QueueCalls) /\ r \in Seq(QueueCalls) /\ Len(r) <= Len(f) /\ r # <<>>
      /\ \A k \in 1..Len(r) : Alike(r[k], f[(Len(f) - Len(r)) + k])
      BY <1>1, Zenon
<1>3. c \in QueueCalls /\ c[1] = "poll" /\ c[2] = t
  <2>1. c \in QueueCalls
        BY QueueCallsAre
  <2> QED BY <2>1 DEF Queue!Poll
<1>4. Head(r)[1] = "poll" /\ Head(r)[2] = t
      BY DEF Named, Asked
<1> HIDE DEF f, r, c
<1>5. u \in Seq(QueueCalls) /\ Len(u) = 1 /\ u[1] = c
      BY <1>3
<1> HIDE DEF u
<1>6. /\ Len(r) \in 1..Len(f)
      /\ Alike(Head(r), f[(Len(f) - Len(r)) + 1])
      /\ Tail(r) \in Seq(QueueCalls) /\ Len(Tail(r)) = Len(r) - 1
      /\ \A k \in 2..Len(r) : Alike(Tail(r)[k - 1], f[(Len(f) - Len(r)) + k])
      BY <1>2, NextLike
<1>7. /\ s \in Seq(QueueCalls) /\ Len(s) = Len(u) + Len(Tail(r))
      /\ \A k \in 1..Len(u) + Len(Tail(r)) :
           s[k] = IF k <= Len(u) THEN u[k] ELSE Tail(r)[k - Len(u)]
      BY <1>5, <1>6, ConcatProperties, Zenon
<1> HIDE DEF s
<1>8. Len(f) \in Nat /\ Len(r) \in Nat
      BY <1>2, LenProperties
<1>9. Len(s) = Len(r) /\ s[1] = c /\ \A k \in 2..Len(r) : s[k] = Tail(r)[k - 1]
  <2>1. Len(u) + Len(Tail(r)) = Len(r)
        BY <1>5, <1>6, <1>8
  <2>2. \A k \in 1..Len(r) : s[k] = IF k <= 1 THEN u[k] ELSE Tail(r)[k - 1]
        BY <1>5, <1>7, <2>1, Zenon
  <2> QED BY <1>5, <1>6, <1>7, <2>1, <2>2
<1>10. Alike(c, f[(Len(f) - Len(r)) + 1])
  <2>1. ASSUME NEW d, Alike(Head(r), d) PROVE Alike(c, d)
        BY <1>3, <1>4, <2>1 DEF Alike
  <2> QED BY <1>6, <2>1, Zenon
<1>11. ASSUME NEW k \in 1..Len(s) PROVE Alike(s[k], f[(Len(f) - Len(s)) + k])
  <2>1. CASE k = 1
        BY <1>9, <1>10, <2>1, Zenon
  <2>2. CASE k # 1
    <3>1. k \in 2..Len(r)
          BY <1>8, <1>9, <2>2
    <3> QED BY <1>6, <1>9, <3>1, Zenon
  <2> QED BY <2>1, <2>2
<1>12. script \in [Queue!Processes -> Seq(QueueCalls)]
      BY DEF QueuePlaces
<1>13. /\ script'[x] = s
       /\ \A y \in Queue!Processes : y # x => script'[y] = script[y]
       /\ script' \in [Queue!Processes -> Seq(QueueCalls)]
  <2>1. script' = [script EXCEPT ![x] = s]
        BY DEF s, u, c, r
  <2> QED BY <1>7, <1>12, <2>1
<1>14. \A y \in Queue!Processes : Jobs(y)' = Jobs(y)
      BY DEF Jobs
<1>15. ASSUME NEW y \in Queue!Processes
       PROVE  /\ Len(script'[y]) <= Len(Jobs(y)')
              /\ \A k \in 1..Len(script'[y]) :
                   Alike(script'[y][k], Jobs(y)'[(Len(Jobs(y)') - Len(script'[y])) + k])
  <2>1. CASE y = x
    <3>1. script'[y] = s /\ Jobs(y)' = f
          BY <1>13, <1>14, <2>1 DEF f
    <3>2. Len(s) <= Len(f)
          BY <1>2, <1>9
    <3> QED BY <1>11, <3>1, <3>2, Zenon
  <2>2. CASE y # x
    <3>1. script'[y] = script[y] /\ Jobs(y)' = Jobs(y)
          BY <1>13, <1>14, <2>2
    <3> QED BY <1>1, <3>1, Zenon
  <2> QED BY <2>1, <2>2
<1>16. QueuePlaces'
      BY <1>13, <1>15 DEF QueuePlaces, Left
<1>17. Left(x)' = Left(x)
      BY <1>9, <1>13 DEF Left, r
<1> QED BY <1>13, <1>16, <1>17 DEF Left, Stays

LEMMA SendDoes ==
  ASSUME QueueTyped, NEW x, NEW c \in QueueCalls, Head(script[x]) = c, c[1] = "send",
         Queue!SendMessage(x)
  PROVE  QueueTyped' /\ Queued(Asked(x))
<1> DEFINE t == Asked(x)    m == [type |-> t, run |-> run]    n == Len(queue)
           q == Append(queue, m)
<1>1. /\ queue' = q /\ run' = run
      /\ UNCHANGED <<got, destroyed>>
      BY DEF Queue!SendMessage, Queue!Type, Asked
<1>2. t \in Nat
  <2>1. c[2] \in Nat
        BY DEF QueueCalls, Queue!Send, Queue!Receive, Queue!Drain, Queue!Poll
  <2> QED BY <2>1 DEF Asked
<1>3. /\ run \in 1..MaxRuns /\ queue \in Seq(Messages) /\ destroyed \in Seq(Messages)
      /\ got \in [Queue!Processes -> Seq(Messages)]
      /\ \A k \in 1..n : queue[k].run \in 1..run
      BY DEF QueueTyped
<1> HIDE DEF t
<1>4. m \in Messages /\ m.type = t /\ m.run = run /\ run \in 1..run
      BY <1>2, <1>3, QueueAssumption DEF Messages
<1> HIDE DEF m
<1>5. /\ q \in Seq(Messages) /\ Len(q) = n + 1 /\ n \in Nat
      /\ \A k \in 1..n : q[k] = queue[k]
      /\ q[n + 1] = m
      BY <1>3, <1>4, AppendProperties, LenProperties
<1>6. \A k \in 1..n + 1 : q[k].run \in 1..run
      BY <1>3, <1>4, <1>5
<1> HIDE DEF q
<1>7. QueueTyped'
  <2>1. queue' \in Seq(Messages) /\ Len(queue') = n + 1
        BY <1>1, <1>5
  <2>2. \A k \in 1..Len(queue') : queue'[k].run \in 1..run'
        BY <1>1, <1>6, <2>1, Zenon
  <2> QED BY <1>1, <1>3, <2>1, <2>2 DEF QueueTyped
<1>8. Queued(t)
      BY <1>1, <1>4, <1>5 DEF Queued
<1> QED BY <1>7, <1>8 DEF t

LEMMA TakeDoes ==
  ASSUME QueueTyped, NEW x \in Queue!Processes, Queue!Take(x), UNCHANGED <<run, destroyed>>
  PROVE  QueueTyped' /\ Taken(x, Asked(x))
<1> DEFINE W == Queue!Wanted(x)    i == Queue!First(W)    t == Asked(x)
           m == queue[i]    q == Queue!RemoveAt(queue, i)
           g == Append(got[x], m)    n == Len(queue)
<1>1. /\ W # {} /\ got' = [got EXCEPT ![x] = g] /\ queue' = q
      BY DEF Queue!Take
<1>2. W = {k \in 1..n : t \in {0, queue[k].type}}
      BY DEF Queue!Wanted, Queue!Type, Queue!AnyType, Asked
<1>3. /\ run \in 1..MaxRuns /\ queue \in Seq(Messages) /\ destroyed \in Seq(Messages)
      /\ got \in [Queue!Processes -> Seq(Messages)]
      /\ \A k \in 1..n : queue[k].run \in 1..run
      BY DEF QueueTyped
<1> HIDE DEF t, W
<1>4. i \in W
  <2>1. W \subseteq Nat
        BY <1>2
  <2> QED BY <1>1, <2>1, LeastOf
<1>5. i \in 1..n /\ (t = 0 \/ queue[i].type = t)
      BY <1>2, <1>4
<1> HIDE DEF i
<1>6. /\ q \in Seq(Messages) /\ Len(q) = n - 1
      /\ \A k \in 1..i - 1 : q[k] = queue[k]
      /\ \A k \in i..n - 1 : q[k] = queue[k + 1]
      BY <1>3, <1>5, RemoveDoes
<1>7. m \in Messages
      BY <1>3, <1>5, ElementOfSeq
<1>8. got[x] \in Seq(Messages)
      BY <1>3
<1> HIDE DEF m, q
<1>9. /\ g \in Seq(Messages) /\ Len(g) = Len(got[x]) + 1
      /\ \A k \in 1..Len(got[x]) : g[k] = got[x][k]
      /\ g[Len(got[x]) + 1] = m
      BY <1>7, <1>8, AppendProperties
<1> HIDE DEF g
<1>10. /\ got' \in [Queue!Processes -> Seq(Messages)] /\ got'[x] = g
       /\ \A y \in Queue!Processes : y # x => got'[y] = got[y]
      BY <1>1, <1>3, <1>9
<1>11. n \in Nat
      BY <1>3, LenProperties
<1>12. ASSUME NEW k \in 1..n - 1 PROVE q[k].run \in 1..run
  <2>1. CASE k <= i - 1
    <3>1. k \in 1..i - 1 /\ k \in 1..n
          BY <1>5, <1>11, <2>1
    <3> QED BY <1>3, <1>6, <3>1
  <2>2. CASE ~(k <= i - 1)
    <3>1. k \in i..n - 1 /\ k + 1 \in 1..n
          BY <1>5, <1>11, <2>2
    <3> QED BY <1>3, <1>6, <3>1
  <2> QED BY <2>1, <2>2
<1>13. QueueTyped'
  <2>1. queue' \in Seq(Messages) /\ Len(queue') = n - 1
        BY <1>1, <1>6
  <2>2. \A k \in 1..Len(queue') : queue'[k].run \in 1..run'
        BY <1>12, <1>1, <2>1, Zenon
  <2> QED BY <1>3, <1>10, <2>1, <2>2 DEF QueueTyped
<1>14. Taken(x, t)
  <2>1. /\ Len(got'[x]) = Len(got[x]) + 1
        /\ \A k \in 1..Len(got[x]) : got'[x][k] = got[x][k]
        /\ got'[x][Len(got[x]) + 1] = queue[i]
        BY <1>9, <1>10, Zenon DEF m
  <2>2. /\ Len(queue') = Len(queue) - 1
        /\ \A k \in 1..i - 1 : queue'[k] = queue[k]
        /\ \A k \in i..Len(queue) - 1 : queue'[k] = queue[k + 1]
        BY <1>1, <1>6, Zenon
  <2> QED BY <1>5, <1>10, <2>1, <2>2, Zenon DEF Taken
<1> QED BY <1>13, <1>14 DEF t

\* What a step of a process does, by the name of the call.
LEMMA QueueDoes ==
  ASSUME QueuePlaces, QueueTyped, NEW x \in Queue!Processes, Queue!Process(x)
  PROVE  /\ QueuePlaces' /\ QueueTyped' /\ UNCHANGED <<example, run>>
         /\ Left(x) \in Nat \ {0}
         /\ \A y \in Queue!Processes : y # x => Stays(y)
         /\ \/ /\ Named(x) = "send" /\ Goes(x) /\ Queued(Asked(x))
               /\ UNCHANGED <<got, destroyed>>
            \/ /\ Named(x) \in {"receive", "drain", "poll"} /\ Taken(x, Asked(x))
               /\ IF Named(x) = "drain" THEN Stays(x) ELSE Goes(x)
               /\ UNCHANGED destroyed
            \/ /\ Named(x) = "drain" /\ NoneOf(Asked(x)) /\ Goes(x)
               /\ UNCHANGED <<queue, got, destroyed>>
            \/ /\ Named(x) = "poll" /\ (Goes(x) \/ Stays(x))
               /\ UNCHANGED <<queue, got, destroyed>>
            \/ /\ Named(x) = "wait" /\ x = "parent" /\ Left("child") = 0 /\ Goes(x)
               /\ UNCHANGED <<queue, got, destroyed>>
            \/ /\ Named(x) = "remove" /\ Goes(x)
               /\ queue' = <<>> /\ destroyed' = destroyed \o queue /\ UNCHANGED got
<1>1. /\ \/ Queue!SendMessage(x) \/ Queue!ReceiveMessage(x) \/ Queue!DrainEnds(x)
         \/ Queue!PollFails(x) \/ (x = "parent" /\ Queue!Reap)
         \/ (x = "parent" /\ Queue!RemoveQueue)
      BY DEF Queue!Process
<1>2. script[x] # <<>> /\ UNCHANGED <<example, run>>
      BY <1>1 DEF Queue!SendMessage, Queue!ReceiveMessage, Queue!DrainEnds, Queue!PollFails,
                  Queue!Reap, Queue!RemoveQueue, Queue!At
<1>3. script[x] \in Seq(QueueCalls) /\ Head(script[x]) \in QueueCalls
  <2>1. script[x] \in Seq(QueueCalls)
        BY DEF QueuePlaces
  <2> DEFINE r == script[x]
  <2>2. r \in Seq(QueueCalls) /\ r # <<>>
        BY <1>2, <2>1
  <2> HIDE DEF r
  <2>3. Head(r) \in QueueCalls
        BY <2>2, HeadTailProperties
  <2> QED BY <2>1, <2>3 DEF r
<1>4. Left(x) \in Nat \ {0}
  <2>1. Left(x) \in 0..Len(Jobs(x)) /\ Len(Jobs(x)) \in Nat /\ Left(x) # 0
        BY <1>2, QueueNext
  <2> QED BY <2>1
<1>5. ASSUME Queue!Advance(x)
      PROVE  QueuePlaces' /\ Goes(x) /\ \A y \in Queue!Processes : y # x => Stays(y)
      BY <1>2, <1>5, QueueAdvance
<1>6. ASSUME UNCHANGED script
      PROVE  QueuePlaces' /\ \A y \in Queue!Processes : Stays(y)
      BY <1>2, <1>6 DEF QueuePlaces, Jobs, Left, Stays
<1>7. ASSUME UNCHANGED <<queue, got, destroyed>> PROVE QueueTyped'
      BY <1>2, <1>7 DEF QueueTyped
<1>8. CASE Queue!SendMessage(x)
  <2>1. Named(x) = "send" /\ Queue!Advance(x) /\ UNCHANGED <<got, destroyed>>
        BY <1>8 DEF Queue!SendMessage, Queue!At, Named
  <2>2. QueueTyped' /\ Queued(Asked(x))
        BY <1>3, <1>8, <2>1, SendDoes DEF Named
  <2> QED BY <1>2, <1>4, <1>5, <2>1, <2>2
<1>9. CASE Queue!ReceiveMessage(x)
  <2>1. /\ Named(x) \in {"receive", "drain", "poll"} /\ Queue!Take(x) /\ UNCHANGED destroyed
        /\ IF Named(x) = "drain" THEN UNCHANGED script ELSE Queue!Advance(x)
        BY <1>9 DEF Queue!ReceiveMessage, Queue!At, Named
  <2>2. QueueTyped' /\ Taken(x, Asked(x))
        BY <1>2, <2>1, TakeDoes
  <2>3. /\ QueuePlaces' /\ \A y \in Queue!Processes : y # x => Stays(y)
        /\ IF Named(x) = "drain" THEN Stays(x) ELSE Goes(x)
    <3>1. CASE Named(x) = "drain"
          BY <1>6, <2>1, <3>1
    <3>2. CASE Named(x) # "drain"
          BY <1>5, <2>1, <3>2
    <3> QED BY <3>1, <3>2
  <2> QED BY <1>2, <1>4, <2>1, <2>2, <2>3
<1>10. CASE Queue!DrainEnds(x)
  <2>1. /\ Named(x) = "drain" /\ Queue!Advance(x) /\ UNCHANGED <<queue, got, destroyed>>
        /\ Queue!Wanted(x) = {}
        BY <1>10 DEF Queue!DrainEnds, Queue!At, Named
  <2>2. NoneOf(Asked(x))
        BY <2>1 DEF NoneOf, Queue!Wanted, Queue!Type, Queue!AnyType, Asked
  <2> QED BY <1>2, <1>4, <1>5, <1>7, <2>1, <2>2
<1>11. CASE Queue!PollFails(x)
  <2>1. Named(x) = "poll" /\ UNCHANGED <<queue, got, destroyed>>
        BY <1>11 DEF Queue!PollFails, Queue!At, Named
  <2>2. PICK t \in Nat, n \in Int : Head(script[x]) = Queue!Poll(t, n)
        BY <1>3, <2>1 DEF Named, QueueCalls, Queue!Send, Queue!Receive, Queue!Drain, Queue!Poll
  <2>3. Asked(x) = t /\ Queue!Type(x) = t /\ Head(script[x])[3] = n
        BY <2>2 DEF Asked, Queue!Type, Queue!Poll
  <2>4. \/ Queue!Advance(x)
        \/ script' = [script EXCEPT ![x] = <<Queue!Poll(t, n - 1)>> \o Tail(@)]
        BY <1>11, <2>3 DEF Queue!PollFails
  <2>5. CASE Queue!Advance(x)
        BY <1>2, <1>4, <1>5, <1>7, <2>1, <2>5
  <2>6. CASE script' = [script EXCEPT ![x] = <<Queue!Poll(t, n - 1)>> \o Tail(@)]
    <3>1. n - 1 \in Int
          OBVIOUS
    <3>2. QueuePlaces' /\ Stays(x) /\ \A y \in Queue!Processes : y # x => Stays(y)
          BY <1>2, <2>1, <2>3, <2>6, <3>1, QueueRetry
    <3> QED BY <1>2, <1>4, <1>7, <2>1, <3>2
  <2> QED BY <2>4, <2>5, <2>6
<1>12. CASE x = "parent" /\ Queue!Reap
  <2>1. /\ Named(x) = "wait" /\ Queue!Advance(x) /\ UNCHANGED <<queue, got, destroyed>>
        /\ script["child"] = <<>>
        BY <1>12 DEF Queue!Reap, Queue!At, Named
  <2>2. Left("child") = 0
        BY <2>1 DEF Left
  <2> QED BY <1>2, <1>4, <1>5, <1>7, <1>12, <2>1, <2>2
<1>13. CASE x = "parent" /\ Queue!RemoveQueue
  <2>1. /\ Named(x) = "remove" /\ Queue!Advance(x) /\ UNCHANGED got
        /\ queue' = <<>> /\ destroyed' = destroyed \o queue
        BY <1>13 DEF Queue!RemoveQueue, Queue!At, Named
  <2>2. QueueTyped'
    <3>1. queue \in Seq(Messages) /\ destroyed \in Seq(Messages)
          BY DEF QueueTyped
    <3>2. destroyed \o queue \in Seq(Messages)
          BY <3>1, ConcatProperties
    <3>3. queue' \in Seq(Messages) /\ Len(queue') = 0
          BY <2>1
    <3>4. \A k \in 1..Len(queue') : queue'[k].run \in 1..run'
          BY <3>3
    <3> QED BY <1>2, <2>1, <3>2, <3>3, <3>4 DEF QueueTyped
  <2> QED BY <1>2, <1>4, <1>5, <2>1, <2>2
<1> QED BY <1>1, <1>8, <1>9, <1>10, <1>11, <1>12, <1>13

LEMMA QueueLens ==
  ASSUME QueueTyped
  PROVE  /\ Len(queue) \in Nat /\ Len(got["child"]) \in Nat /\ Len(got["parent"]) \in Nat
         /\ Len(queue) = 0 <=> queue = <<>>
<1>1. /\ queue \in Seq(Messages)
      /\ got["child"] \in Seq(Messages) /\ got["parent"] \in Seq(Messages)
      BY DEF QueueTyped, Queue!Processes
<1> QED BY <1>1, LenProperties

\* An empty queue destroys no message.
LEMMA NothingDestroyed ==
  ASSUME queue = <<>>, destroyed = <<>>, destroyed' = destroyed \o queue
  PROVE  destroyed' = <<>>
OBVIOUS

LEMMA RequestStep ==
  ASSUME QueuePlaces, QueueTyped, example = "basic", OnlyBasic, destroyed = <<>>,
         NEW x \in Queue!Processes, Queue!Process(x)
  PROVE  OnlyBasic' /\ destroyed' = <<>>
<1> DEFINE p == Left("parent")    c == Left("child")    n == Len(queue)
<1>1. /\ p \in 0..3 /\ c \in 0..1 /\ n \in Nat
      /\ p = 3 => c = 1
      /\ p <= 1 => c = 0
      /\ n = IF p = 3 THEN 0 ELSE c
      BY BasicNext, QueueLens DEF OnlyBasic
<1>2. "parent" \in Queue!Processes /\ "child" \in Queue!Processes /\ x \in {"parent", "child"}
      BY DEF Queue!Processes
<1>3. UNCHANGED example
      BY QueueDoes
<1>4. CASE x = "parent" /\ p = 3
  <2>1. Named(x) = "send"
        BY <1>4, BasicNext
  <2>2. Left("parent")' = 2 /\ Left("child")' = c /\ Len(queue') = n + 1 /\ UNCHANGED destroyed
        BY <1>2, <1>4, <2>1, QueueDoes DEF Goes, Stays, Queued
  <2> QED BY <1>1, <1>3, <1>4, <2>2 DEF OnlyBasic
<1>5. CASE x = "parent" /\ p = 2
  <2>1. Named(x) = "wait"
        BY <1>5, BasicNext
  <2>2. /\ Left("parent")' = 1 /\ Left("child")' = c /\ c = 0
        /\ UNCHANGED <<queue, destroyed>>
        BY <1>2, <1>5, <2>1, QueueDoes DEF Goes, Stays
  <2> QED BY <1>1, <1>3, <1>5, <2>2 DEF OnlyBasic
<1>6. CASE x = "parent" /\ p = 1
  <2>1. Named(x) = "remove" /\ queue = <<>> /\ c = 0
        BY <1>1, <1>6, BasicNext, QueueLens
  <2>2. /\ Left("parent")' = 0 /\ Left("child")' = c
        /\ queue' = <<>> /\ destroyed' = destroyed \o queue
        BY <1>2, <1>6, <2>1, QueueDoes DEF Goes, Stays
  <2>3. destroyed' = <<>>
        BY <2>1, <2>2, NothingDestroyed
  <2> QED BY <1>1, <1>3, <1>6, <2>1, <2>2, <2>3 DEF OnlyBasic
<1>7. CASE x = "child" /\ c = 1
  <2>1. Named(x) = "receive"
        BY <1>7, BasicNext
  <2>2. /\ Left("parent")' = p /\ Left("child")' = 0 /\ UNCHANGED destroyed
        /\ n # 0 /\ Len(queue') = n - 1
        BY <1>2, <1>7, <2>1, QueueDoes DEF Goes, Stays, Taken
  <2> QED BY <1>1, <1>3, <1>7, <2>2 DEF OnlyBasic
<1>8. Left(x) # 0
      BY QueueDoes
<1> QED BY <1>1, <1>2, <1>4, <1>5, <1>6, <1>7, <1>8

LEMMA AnswerStep ==
  ASSUME QueuePlaces, QueueTyped, example = "bidirectional", OnlyAnswer, destroyed = <<>>,
         NEW x \in Queue!Processes, Queue!Process(x)
  PROVE  OnlyAnswer' /\ destroyed' = <<>>
<1> DEFINE p == Left("parent")    c == Left("child")    n == Len(queue)
<1>1. /\ p \in 0..4 /\ c \in 0..2 /\ n \in Nat
      /\ p <= 1 => c = 0
      /\ c = 2 => p = 4
      /\ c = 0 => p <= 2
      /\ p = 4 /\ c = 1 => n = 1 /\ queue[1].type = 1
      /\ p # 4 /\ c = 1 => n = IF p = 3 THEN 0 ELSE 1
      /\ c # 1 => n = 0
      BY AnswerNext, QueueLens DEF OnlyAnswer
<1>2. "parent" \in Queue!Processes /\ "child" \in Queue!Processes /\ x \in {"parent", "child"}
      BY DEF Queue!Processes
<1>3. UNCHANGED example /\ QueueTyped'
      BY QueueDoes
<1>4. Len(queue') = 0 <=> queue' = <<>>
  <2>1. queue' \in Seq(Messages)
        BY <1>3 DEF QueueTyped
  <2> QED BY <2>1
<1>5. CASE x = "parent" /\ p = 4
  <2>1. Named(x) = "receive"
        BY <1>5, AnswerNext
  <2>2. /\ Left("parent")' = 3 /\ Left("child")' = c /\ UNCHANGED destroyed
        /\ n # 0 /\ Len(queue') = n - 1
        BY <1>2, <1>5, <2>1, QueueDoes DEF Goes, Stays, Taken
  <2> QED BY <1>1, <1>3, <1>4, <1>5, <2>2 DEF OnlyAnswer
<1>6. CASE x = "parent" /\ p = 3
  <2>1. Named(x) = "send"
        BY <1>6, AnswerNext
  <2>2. /\ Left("parent")' = 2 /\ Left("child")' = c /\ UNCHANGED destroyed
        /\ Len(queue') = n + 1
        BY <1>2, <1>6, <2>1, QueueDoes DEF Goes, Stays, Queued
  <2> QED BY <1>1, <1>3, <1>4, <1>6, <2>2 DEF OnlyAnswer
<1>7. CASE x = "parent" /\ p = 2
  <2>1. Named(x) = "wait"
        BY <1>7, AnswerNext
  <2>2. /\ Left("parent")' = 1 /\ Left("child")' = c /\ c = 0
        /\ UNCHANGED <<queue, destroyed>>
        BY <1>2, <1>7, <2>1, QueueDoes DEF Goes, Stays
  <2> QED BY <1>1, <1>3, <1>4, <1>7, <2>2 DEF OnlyAnswer
<1>8. CASE x = "parent" /\ p = 1
  <2>1. Named(x) = "remove" /\ queue = <<>> /\ c = 0
        BY <1>1, <1>8, AnswerNext, QueueLens
  <2>2. /\ Left("parent")' = 0 /\ Left("child")' = c
        /\ queue' = <<>> /\ destroyed' = destroyed \o queue
        BY <1>2, <1>8, <2>1, QueueDoes DEF Goes, Stays
  <2>3. destroyed' = <<>>
        BY <2>1, <2>2, NothingDestroyed
  <2> QED BY <1>1, <1>3, <1>8, <2>1, <2>2, <2>3 DEF OnlyAnswer
<1>9. CASE x = "child" /\ c = 2
  <2>1. Named(x) = "send" /\ Asked(x) = 1
        BY <1>9, AnswerNext
  <2>2. /\ Left("parent")' = p /\ Left("child")' = 1 /\ UNCHANGED destroyed
        /\ Len(queue') = n + 1 /\ queue'[n + 1].type = 1
        BY <1>2, <1>9, <2>1, QueueDoes DEF Goes, Stays, Queued
  <2>3. n = 0 /\ p = 4 /\ Len(queue') = 1 /\ queue'[1].type = 1
        BY <1>1, <1>9, <2>2
  <2> QED BY <1>3, <1>9, <2>2, <2>3 DEF OnlyAnswer
<1>10. CASE x = "child" /\ c = 1
  <2>1. Named(x) = "receive" /\ Asked(x) = 2
        BY <1>10, AnswerNext
  <2>2. Taken(x, 2) /\ Left("parent")' = p /\ Left("child")' = 0 /\ UNCHANGED destroyed
        BY <1>2, <1>10, <2>1, QueueDoes DEF Goes, Stays
  <2>3. PICK i \in 1..n : queue[i].type = 2 /\ Len(queue') = n - 1
        BY <2>2 DEF Taken
  <2>4. p # 4
        BY <1>1, <1>10, <2>3
  <2> QED BY <1>1, <1>3, <1>4, <1>10, <2>2, <2>3, <2>4 DEF OnlyAnswer
<1>11. Left(x) # 0
      BY QueueDoes
<1> QED BY <1>1, <1>2, <1>5, <1>6, <1>7, <1>8, <1>9, <1>10, <1>11

LEMMA PollStep ==
  ASSUME QueuePlaces, QueueTyped, example = "non_blocking", OnlyPolls, destroyed = <<>>,
         NEW x \in Queue!Processes, Queue!Process(x)
  PROVE  OnlyPolls' /\ destroyed' = <<>>
<1> DEFINE p == Left("parent")    c == Left("child")    n == Len(queue)
           g == Len(got["child"])
<1>1. /\ p \in 0..3 /\ c \in 0..2 /\ n \in Nat /\ g \in Nat
      /\ p <= 1 => c = 0
      /\ n + g = IF p = 3 THEN 0 ELSE 1
      /\ c = 0 => g >= 1
      BY PollNext, QueueLens DEF OnlyPolls
<1>2. "parent" \in Queue!Processes /\ "child" \in Queue!Processes /\ x \in {"parent", "child"}
      BY DEF Queue!Processes
<1>3. UNCHANGED example
      BY QueueDoes
<1>4. CASE x = "parent" /\ p = 3
  <2>1. Named(x) = "send"
        BY <1>4, PollNext
  <2>2. Goes(x) /\ Queued(Asked(x)) /\ Stays("child") /\ got' = got /\ destroyed' = destroyed
        BY <1>2, <1>4, <2>1, QueueDoes
  <2>3. Left("parent")' = 2 /\ Left("child")' = c /\ Len(queue') = n + 1
        BY <1>4, <2>2 DEF Goes, Stays, Queued
  <2>4. Len(got'["child"]) = g
        BY <2>2
  <2>5. n = 0 /\ g = 0 /\ c # 0
        BY <1>1, <1>4
  <2>6. /\ Left("parent")' = 2 /\ Left("child")' # 0
        /\ Len(queue') = 1 /\ Len(got'["child"]) = 0
        BY <2>3, <2>4, <2>5
  <2>7. OnlyPolls'
        BY <1>3, <2>6 DEF OnlyPolls
  <2> QED BY <2>2, <2>7
<1>5. CASE x = "parent" /\ p = 2
  <2>1. Named(x) = "wait"
        BY <1>5, PollNext
  <2>2. /\ Left("parent")' = 1 /\ Left("child")' = c /\ c = 0
        /\ UNCHANGED <<queue, got, destroyed>>
        BY <1>2, <1>5, <2>1, QueueDoes DEF Goes, Stays
  <2> QED BY <1>1, <1>3, <1>5, <2>2 DEF OnlyPolls
<1>6. CASE x = "parent" /\ p = 1
  <2>1. Named(x) = "remove" /\ queue = <<>> /\ c = 0
        BY <1>1, <1>6, PollNext, QueueLens
  <2>2. /\ Left("parent")' = 0 /\ Left("child")' = c /\ UNCHANGED got
        /\ queue' = <<>> /\ destroyed' = destroyed \o queue
        BY <1>2, <1>6, <2>1, QueueDoes DEF Goes, Stays
  <2>3. destroyed' = <<>>
        BY <2>1, <2>2, NothingDestroyed
  <2>4. UNCHANGED queue
        BY <2>1, <2>2
  <2> QED BY <1>1, <1>3, <1>6, <2>1, <2>2, <2>3, <2>4 DEF OnlyPolls
<1>7. CASE x = "child" /\ c = 2
  <2>1. Named(x) = "poll"
        BY <1>7, PollNext
  <2>2. \/ /\ Left("child")' = 1 /\ n # 0 /\ Len(queue') = n - 1 /\ Len(got'["child"]) = g + 1
        \/ Left("child")' \in {1, 2} /\ UNCHANGED <<queue, got>>
        BY <1>2, <1>7, <2>1, QueueDoes DEF Goes, Stays, Taken
  <2>3. Left("parent")' = p /\ UNCHANGED destroyed
        BY <1>2, <1>7, <2>1, QueueDoes DEF Stays
  <2> QED BY <1>1, <1>3, <1>7, <2>2, <2>3 DEF OnlyPolls
<1>8. CASE x = "child" /\ c = 1
  <2>1. Named(x) = "receive"
        BY <1>8, PollNext
  <2>2. /\ Left("parent")' = p /\ Left("child")' = 0 /\ UNCHANGED destroyed
        /\ n # 0 /\ Len(queue') = n - 1 /\ Len(got'["child"]) = g + 1
        BY <1>2, <1>8, <2>1, QueueDoes DEF Goes, Stays, Taken
  <2> QED BY <1>1, <1>3, <1>8, <2>2 DEF OnlyPolls
<1>9. Left(x) # 0
      BY QueueDoes
<1> QED BY <1>1, <1>2, <1>4, <1>5, <1>6, <1>7, <1>8, <1>9

LEMMA StatusStep ==
  ASSUME QueuePlaces, QueueTyped, example = "status", OnlyStatus, destroyed = <<>>,
         NEW x \in Queue!Processes, Queue!Process(x)
  PROVE  OnlyStatus' /\ destroyed' = <<>>
<1> DEFINE p == Left("parent")    c == Left("child")
<1>1. /\ p \in 0..5 /\ c = 0 /\ Left(x) # 0
      /\ p <= 1 => queue = <<>>
      BY StatusNext, QueueDoes DEF OnlyStatus
<1>2. "parent" \in Queue!Processes /\ "child" \in Queue!Processes /\ x \in {"parent", "child"}
      BY DEF Queue!Processes
<1>3. UNCHANGED example /\ x = "parent"
      BY <1>1, <1>2, QueueDoes
<1>4. CASE p \in {3, 4, 5}
  <2>1. Named(x) = "send"
        BY <1>3, <1>4, StatusNext
  <2>2. Left("parent")' = p - 1 /\ UNCHANGED destroyed
        BY <1>2, <1>3, <2>1, QueueDoes DEF Goes
  <2> QED BY <1>1, <1>3, <1>4, <2>2 DEF OnlyStatus
<1>5. CASE p = 2
  <2>1. Named(x) = "drain" /\ Asked(x) = 0
        BY <1>3, <1>5, StatusNext
  <2>2. \/ Left("parent")' = p
        \/ Left("parent")' = p - 1 /\ NoneOf(0) /\ UNCHANGED queue
        BY <1>2, <1>3, <2>1, QueueDoes DEF Goes, Stays
  <2>3. UNCHANGED destroyed
        BY <2>1, QueueDoes
  <2>4. NoneOf(0) => queue = <<>>
        BY QueueLens DEF NoneOf
  <2> QED BY <1>1, <1>3, <1>5, <2>2, <2>3, <2>4 DEF OnlyStatus
<1>6. CASE p = 1
  <2>1. Named(x) = "remove" /\ queue = <<>>
        BY <1>1, <1>3, <1>6, StatusNext
  <2>2. queue' = <<>> /\ destroyed' = destroyed \o queue
        BY <2>1, QueueDoes
  <2>3. destroyed' = <<>>
        BY <2>1, <2>2, NothingDestroyed
  <2> QED BY <1>3, <2>2, <2>3 DEF OnlyStatus
<1> QED BY <1>1, <1>3, <1>4, <1>5, <1>6

\* A message that is taken leaves the others, in the order they were in.
LEMMA TakenLeaves ==
  ASSUME QueueTyped, NEW x, NEW t, Taken(x, t), \A k \in 1..Len(queue) : queue[k].type = 3
  PROVE  \A k \in 1..Len(queue') : queue'[k].type = 3
<1> DEFINE n == Len(queue)
<1>1. n \in Nat
      BY QueueLens
<1>2. PICK i \in 1..n :
        /\ Len(queue') = n - 1
        /\ \A k \in 1..i - 1 : queue'[k] = queue[k]
        /\ \A k \in i..n - 1 : queue'[k] = queue[k + 1]
      BY DEF Taken
<1>3. \A k \in 1..n : queue[k].type = 3
      OBVIOUS
<1> HIDE DEF n
<1>4. ASSUME NEW k \in 1..n - 1 PROVE queue'[k].type = 3
  <2>1. CASE k <= i - 1
    <3>1. k \in 1..i - 1 /\ k \in 1..n
          BY <1>1, <2>1
    <3> QED BY <1>2, <1>3, <3>1
  <2>2. CASE ~(k <= i - 1)
    <3>1. k \in i..n - 1 /\ k + 1 \in 1..n
          BY <1>1, <2>2
    <3> QED BY <1>2, <1>3, <3>1
  <2> QED BY <2>1, <2>2
<1> QED BY <1>2, <1>4

LEMMA UrgentStep ==
  ASSUME QueuePlaces, QueueTyped, Urgent, NEW x \in Queue!Processes, Queue!Process(x)
  PROVE  Urgent'
<1> SUFFICES ASSUME example = "priority" PROVE Urgent'
  <2>1. example' = example
        BY QueueDoes
  <2> QED BY <2>1 DEF Urgent
<1> DEFINE p == Left("parent")    c == Left("child")    g == Len(got["child"])
<1>1. /\ p \in 0..5 /\ c \in 0..2 /\ g \in Nat
      /\ c = 2 => got["child"] = <<>>
      /\ c <= 1 => /\ g >= 1 /\ got["child"][1].type = 10
                   /\ \A k \in 2..g : got["child"][k].type = 3
      BY PriorityNext, QueueLens DEF Urgent
<1>2. "parent" \in Queue!Processes /\ "child" \in Queue!Processes /\ x \in {"parent", "child"}
      BY DEF Queue!Processes
<1>3. UNCHANGED example /\ Left(x) # 0
      BY QueueDoes
<1>4. CASE x = "parent"
  <2>1. Named(x) \in {"send", "wait", "remove"}
        BY <1>1, <1>3, <1>4, PriorityNext
  <2>2. got' = got
        BY <2>1, QueueDoes
  <2>3. Left("child")' = c
        BY <1>2, <1>4, QueueDoes DEF Stays
  <2> QED BY <1>3, <2>2, <2>3 DEF Urgent
<1>5. CASE x = "child" /\ c = 2
  <2>1. Named(x) = "receive" /\ Asked(x) = 10
        BY <1>5, PriorityNext
  <2>2. Taken("child", 10) /\ Goes("child")
        BY <1>5, <2>1, QueueDoes
  <2>3. /\ Left("child")' = 1 /\ Len(got'["child"]) = g + 1
        /\ got'["child"][g + 1].type = 10
        BY <1>5, <2>2 DEF Goes, Taken
  <2>4. g = 0
        BY <1>1, <1>5
  <2>5. Len(got'["child"]) = 1 /\ got'["child"][1].type = 10
        BY <2>3, <2>4
  <2> QED BY <1>3, <2>3, <2>5 DEF Urgent
<1>6. CASE x = "child" /\ c = 1
  <2>1. Named(x) = "drain" /\ Asked(x) = 3
        BY <1>6, PriorityNext
  <2>2. \/ Taken("child", 3) /\ Left("child")' = 1
        \/ Left("child")' = 0 /\ UNCHANGED got
        BY <1>6, <2>1, QueueDoes DEF Goes, Stays
  <2>3. CASE Taken("child", 3) /\ Left("child")' = 1
    <3>1. /\ Len(got'["child"]) = g + 1
          /\ \A k \in 1..g : got'["child"][k] = got["child"][k]
          /\ got'["child"][g + 1].type = 3
          BY <2>3 DEF Taken
    <3>2. /\ Len(got'["child"]) >= 1 /\ got'["child"][1].type = 10
          /\ \A k \in 2..Len(got'["child"]) : got'["child"][k].type = 3
          BY <1>1, <1>6, <3>1
    <3> QED BY <1>3, <2>3, <3>2 DEF Urgent
  <2>4. CASE Left("child")' = 0 /\ UNCHANGED got
        BY <1>1, <1>3, <1>6, <2>4 DEF Urgent
  <2> QED BY <2>2, <2>3, <2>4
<1> QED BY <1>1, <1>2, <1>3, <1>4, <1>5, <1>6

LEMMA PriorityStep ==
  ASSUME QueuePlaces, QueueTyped, Urgent, example = "priority", OnlyPriority,
         NEW x \in Queue!Processes, Queue!Process(x)
  PROVE  OnlyPriority'
<1> DEFINE p == Left("parent")    c == Left("child")    n == Len(queue)
           g == Len(got["child"])
<1>1. p \in 0..5 /\ c \in 0..2 /\ n \in Nat /\ g \in Nat
      BY PriorityNext, QueueLens
<1>2. /\ p <= 1 => c = 0
      /\ c = 2 => /\ p >= 2 /\ n = 5 - p
                  /\ \A k \in 1..n : queue[k].type = IF k = 2 THEN 10 ELSE 3
      /\ c <= 1 => p <= 3 /\ \A k \in 1..n : queue[k].type = 3
      /\ c = 1 => g + n >= 2
      /\ c = 0 => g >= 2
      /\ \A k \in 1..Len(destroyed) : destroyed[k].type = 3
      BY DEF OnlyPriority
<1>3. "parent" \in Queue!Processes /\ "child" \in Queue!Processes /\ x \in {"parent", "child"}
      BY DEF Queue!Processes
<1>4. UNCHANGED example /\ Left(x) # 0
      BY QueueDoes
<1>5. CASE x = "parent" /\ p \in 3..5
  <2>1. Named(x) = "send" /\ Asked(x) = IF p = 4 THEN 10 ELSE 3
        BY <1>5, PriorityNext
  <2>2. Goes(x) /\ Queued(Asked(x)) /\ Stays("child") /\ got' = got /\ destroyed' = destroyed
        BY <1>3, <1>5, <2>1, QueueDoes
  <2>3. /\ Left("parent")' = p - 1 /\ Left("child")' = c /\ Len(queue') = n + 1
        /\ \A k \in 1..n : queue'[k] = queue[k]
        /\ queue'[n + 1].type = IF p = 4 THEN 10 ELSE 3
        BY <1>5, <2>1, <2>2 DEF Goes, Stays, Queued
  <2>4. Len(got'["child"]) = g
        BY <2>2
  <2>5. CASE c = 2
    <3>1. n = 5 - p /\ \A k \in 1..n : queue[k].type = IF k = 2 THEN 10 ELSE 3
          BY <1>2, <2>5
    <3>2. \A k \in 1..n + 1 : queue'[k].type = IF k = 2 THEN 10 ELSE 3
          BY <1>1, <1>5, <2>3, <3>1
    <3>3. /\ Left("child")' = 2 /\ Left("parent")' >= 2 /\ Len(queue') = 5 - Left("parent")'
          BY <1>5, <2>3, <2>5, <3>1
    <3>4. \A k \in 1..Len(queue') : queue'[k].type = IF k = 2 THEN 10 ELSE 3
          BY <2>3, <3>2
    <3>5. \A k \in 1..Len(destroyed') : destroyed'[k].type = 3
          BY <1>2, <2>2
    <3>6. ~(Left("parent")' <= 1) /\ ~(Left("child")' <= 1)
          BY <1>5, <2>3, <3>3
    <3> QED BY <1>4, <3>3, <3>4, <3>5, <3>6 DEF OnlyPriority
  <2>6. CASE c # 2
    <3>1. c <= 1 /\ p = 3
          BY <1>1, <1>2, <1>5, <2>6
    <3>2. \A k \in 1..n + 1 : queue'[k].type = 3
          BY <1>1, <1>2, <2>3, <3>1
    <3>3. \A k \in 1..Len(queue') : queue'[k].type = 3
          BY <2>3, <3>2
    <3>4. /\ Left("parent")' = 2 /\ Left("child")' \in {0, 1}
          /\ Left("child")' = 1 => Len(got'["child"]) + Len(queue') >= 2
          /\ Left("child")' = 0 => Len(got'["child"]) >= 2
      <4>1. (c = 1 => g + n >= 2) /\ (c = 0 => g >= 2) /\ c \in {0, 1}
            BY <1>1, <1>2, <3>1
      <4>2. /\ Left("parent")' = p - 1 /\ Left("child")' = c
            /\ Len(queue') = n + 1 /\ Len(got'["child"]) = g
            BY <2>3, <2>4
      <4> HIDE DEF p, c, n, g
      <4>3. g + n >= 2 => g + (n + 1) >= 2
            BY <1>1
      <4> QED BY <3>1, <4>1, <4>2, <4>3
    <3>5. \A k \in 1..Len(destroyed') : destroyed'[k].type = 3
          BY <1>2, <2>2
    <3> QED BY <1>4, <3>3, <3>4, <3>5 DEF OnlyPriority
  <2> QED BY <2>5, <2>6
<1>6. CASE x = "parent" /\ p = 2
  <2>1. Named(x) = "wait"
        BY <1>6, PriorityNext
  <2>2. /\ Goes(x) /\ Stays("child") /\ c = 0
        /\ queue' = queue /\ got' = got /\ destroyed' = destroyed
        BY <1>3, <1>6, <2>1, QueueDoes
  <2>3. Left("parent")' = 1 /\ Left("child")' = 0
        BY <1>6, <2>2 DEF Goes, Stays
  <2>4. /\ \A k \in 1..Len(queue') : queue'[k].type = 3
        /\ Len(got'["child"]) >= 2
        BY <1>2, <2>2
  <2> QED BY <1>2, <1>4, <2>2, <2>3, <2>4 DEF OnlyPriority
<1>7. CASE x = "parent" /\ p = 1
  <2>1. Named(x) = "remove" /\ c = 0
        BY <1>2, <1>7, PriorityNext
  <2>2. /\ Goes(x) /\ Stays("child")
        /\ queue' = <<>> /\ destroyed' = destroyed \o queue /\ got' = got
        BY <1>3, <1>7, <2>1, QueueDoes
  <2>3. Left("parent")' = 0 /\ Left("child")' = 0 /\ Len(queue') = 0 /\ Len(got'["child"]) >= 2
        BY <1>2, <1>7, <2>1, <2>2 DEF Goes, Stays
  <2>4. \A k \in 1..Len(destroyed') : destroyed'[k].type = 3
    <3> DEFINE m == Len(destroyed)    d == destroyed \o queue
    <3>1. destroyed \in Seq(Messages) /\ queue \in Seq(Messages) /\ m \in Nat
      <4>1. destroyed \in Seq(Messages) /\ queue \in Seq(Messages)
            BY DEF QueueTyped
      <4> QED BY <4>1, LenProperties
    <3>2. /\ Len(d) = m + n
          /\ \A k \in 1..m + n : d[k] = IF k <= m THEN destroyed[k] ELSE queue[k - m]
          BY <3>1, ConcatProperties
    <3>3. /\ \A k \in 1..m : destroyed[k].type = 3
          /\ \A k \in 1..n : queue[k].type = 3
          BY <1>2, <2>1
    <3> HIDE DEF m, d, n
    <3>4. ASSUME NEW k \in 1..m + n PROVE d[k].type = 3
      <4>1. CASE k <= m
        <5>1. k \in 1..m
              BY <1>1, <3>1, <4>1
        <5> QED BY <3>2, <3>3, <4>1, <5>1
      <4>2. CASE ~(k <= m)
        <5>1. k - m \in 1..n
              BY <1>1, <3>1, <4>2
        <5> QED BY <3>2, <3>3, <4>2, <5>1
      <4> QED BY <4>1, <4>2
    <3> QED BY <2>2, <3>2, <3>4 DEF d
  <2>5. \A k \in 1..Len(queue') : queue'[k].type = 3
        BY <2>3
  <2> QED BY <1>4, <2>3, <2>4, <2>5 DEF OnlyPriority
<1>8. CASE x = "child" /\ c = 2
  <2>1. Named(x) = "receive" /\ Asked(x) = 10
        BY <1>8, PriorityNext
  <2>2. Taken("child", 10) /\ Goes("child") /\ Stays("parent") /\ destroyed' = destroyed
        BY <1>3, <1>8, <2>1, QueueDoes
  <2>3. PICK i \in 1..n :
          /\ queue[i].type = 10 /\ Len(queue') = n - 1
          /\ \A k \in 1..i - 1 : queue'[k] = queue[k]
          /\ \A k \in i..n - 1 : queue'[k] = queue[k + 1]
          /\ Len(got'["child"]) = g + 1
        BY <2>2 DEF Taken
  <2>4. n = 5 - p /\ \A k \in 1..n : queue[k].type = IF k = 2 THEN 10 ELSE 3
        BY <1>2, <1>8
  <2>5. i = 2
        BY <2>3, <2>4
  <2>6. ASSUME NEW k \in 1..n - 1 PROVE queue'[k].type = 3
    <3>1. CASE k = 1
      <4>1. 1 \in 1..i - 1 /\ 1 \in 1..n
            BY <1>1, <2>3, <2>5
      <4> QED BY <2>3, <2>4, <3>1, <4>1
    <3>2. CASE k # 1
      <4>1. k \in i..n - 1 /\ k + 1 \in 1..n /\ k + 1 # 2
            BY <1>1, <2>5, <3>2
      <4> QED BY <2>3, <2>4, <4>1
    <3> QED BY <3>1, <3>2
  <2>7. \A k \in 1..Len(queue') : queue'[k].type = 3
        BY <2>3, <2>6
  <2>8. /\ Left("parent")' = p /\ Left("child")' = 1
        BY <1>8, <2>2 DEF Goes, Stays
  <2>9. p \in 2..3 /\ Len(got'["child"]) + Len(queue') >= 2
        BY <1>1, <1>2, <1>8, <2>3, <2>4, <2>5
  <2> QED BY <1>2, <1>4, <2>2, <2>7, <2>8, <2>9 DEF OnlyPriority
<1>9. CASE x = "child" /\ c = 1
  <2>1. Named(x) = "drain" /\ Asked(x) = 3
        BY <1>9, PriorityNext
  <2>2. \/ Taken("child", 3) /\ Stays("child")
        \/ NoneOf(3) /\ Goes("child") /\ queue' = queue /\ got' = got
        BY <1>9, <2>1, QueueDoes
  <2>3. Stays("parent") /\ destroyed' = destroyed
        BY <1>3, <1>9, <2>1, QueueDoes
  <2>4. \A k \in 1..n : queue[k].type = 3
        BY <1>2, <1>9
  <2>5. CASE Taken("child", 3) /\ Stays("child")
    <3>1. Len(queue') = n - 1 /\ n # 0 /\ Len(got'["child"]) = g + 1
          BY <2>5 DEF Taken
    <3>2. \A k \in 1..Len(queue') : queue'[k].type = 3
          BY <2>4, <2>5, TakenLeaves
    <3>3. /\ Left("parent")' = p /\ Left("child")' = 1 /\ p \in 2..3
          /\ Len(got'["child"]) + Len(queue') >= 2
          BY <1>1, <1>2, <1>9, <2>3, <2>5, <3>1 DEF Stays
    <3> QED BY <1>2, <1>4, <2>3, <3>2, <3>3 DEF OnlyPriority
  <2>6. CASE NoneOf(3) /\ Goes("child") /\ queue' = queue /\ got' = got
    <3>1. n = 0
      <4>1. \A k \in 1..n : queue[k].type # 3
            BY <2>6 DEF NoneOf
      <4>2. n # 0 => 1 \in 1..n
            BY <1>1
      <4> QED BY <2>4, <4>1, <4>2
    <3>2. g >= 2
          BY <1>1, <1>2, <1>9, <3>1
    <3>3. /\ Left("parent")' = p /\ Left("child")' = 0 /\ p \in 2..3
          /\ Len(got'["child"]) >= 2 /\ Len(queue') = 0
          BY <1>1, <1>2, <1>9, <2>3, <2>6, <3>1, <3>2 DEF Stays, Goes
    <3>4. \A k \in 1..Len(queue') : queue'[k].type = 3
          BY <3>3
    <3> QED BY <1>2, <1>4, <2>3, <3>3, <3>4 DEF OnlyPriority
  <2> QED BY <2>2, <2>5, <2>6
<1> QED BY <1>1, <1>3, <1>4, <1>5, <1>6, <1>7, <1>8, <1>9

\* The scripts at the start of a run.
LEMMA StartOver ==
  ASSUME example \in {"basic", "bidirectional", "priority", "non_blocking", "status"},
         NEW s, s = Queue!Script(example)
  PROVE  /\ s \in [Queue!Processes -> Seq(QueueCalls)]
         /\ \A x \in Queue!Processes :
              /\ s[x] = Jobs(x) /\ Len(s[x]) <= Len(Jobs(x))
              /\ \A k \in 1..Len(s[x]) :
                   Alike(s[x][k], Jobs(x)[(Len(Jobs(x)) - Len(s[x])) + k])
<1>1. \A x \in Queue!Processes : Jobs(x) \in Seq(QueueCalls) /\ s[x] = Jobs(x)
      BY AllJobs DEF Jobs
<1>2. s = [x \in Queue!Processes |-> s[x]]
      BY DEF Queue!Script, Queue!Basic, Queue!Bidirectional, Queue!Priority, Queue!NonBlocking,
             Queue!Status, Queue!Processes
<1>3. s \in [Queue!Processes -> Seq(QueueCalls)]
      BY <1>1, <1>2
<1>4. ASSUME NEW x \in Queue!Processes
      PROVE  /\ Len(s[x]) <= Len(Jobs(x))
             /\ \A k \in 1..Len(s[x]) :
                  Alike(s[x][k], Jobs(x)[(Len(Jobs(x)) - Len(s[x])) + k])
  <2> DEFINE f == Jobs(x)    n == Len(f)
  <2>1. n \in Nat /\ s[x] = f
        BY <1>1, LenProperties
  <2> HIDE DEF n
  <2>2. n <= n /\ \A k \in 1..n : (n - n) + k = k
        BY <2>1
  <2>3. \A k \in 1..n : Alike(f[k], f[(n - n) + k])
        BY <2>2 DEF Alike
  <2> QED BY <2>1, <2>2, <2>3 DEF n
<1> QED BY <1>1, <1>3, <1>4

LEMMA QueueInit == Init => QueueInv
<1> SUFFICES ASSUME program = "queue", Queue!Init PROVE QueueExact
    BY DEF Init, QueueInv
<1>1. /\ example \in {"basic", "bidirectional", "priority", "non_blocking", "status"}
      /\ run = 1 /\ script = Queue!Script(example)
      /\ queue = <<>> /\ got = [x \in Queue!Processes |-> <<>>] /\ destroyed = <<>>
      BY DEF Queue!Init
<1>2. /\ script \in [Queue!Processes -> Seq(QueueCalls)]
      /\ \A x \in Queue!Processes :
           /\ script[x] = Jobs(x) /\ Len(script[x]) <= Len(Jobs(x))
           /\ \A k \in 1..Len(script[x]) :
                Alike(script[x][k], Jobs(x)[(Len(Jobs(x)) - Len(script[x])) + k])
      BY <1>1, StartOver
<1>3. QueuePlaces
      BY <1>1, <1>2 DEF QueuePlaces, Left
<1>4. QueueTyped
  <2>1. <<>> \in Seq(Messages)
        OBVIOUS
  <2>2. run \in 1..MaxRuns /\ Len(queue) = 0
        BY <1>1, QueueAssumption
  <2> QED BY <1>1, <2>1, <2>2 DEF QueueTyped
<1>5. /\ example = "basic" => Left("parent") = 3 /\ Left("child") = 1
      /\ example = "bidirectional" => Left("parent") = 4 /\ Left("child") = 2
      /\ example = "priority" => Left("parent") = 5 /\ Left("child") = 2
      /\ example = "non_blocking" => Left("parent") = 3 /\ Left("child") = 2
      /\ example = "status" => Left("parent") = 5
  <2>1. Left("parent") = Len(Jobs("parent")) /\ Left("child") = Len(Jobs("child"))
        BY <1>2 DEF Left, Queue!Processes
  <2>2. example = "basic" => Left("parent") = 3 /\ Left("child") = 1
        BY <2>1, BasicJobs
  <2>3. example = "bidirectional" => Left("parent") = 4 /\ Left("child") = 2
        BY <2>1, AnswerJobs
  <2>4. example = "priority" => Left("parent") = 5 /\ Left("child") = 2
        BY <2>1, PriorityJobs
  <2>5. example = "non_blocking" => Left("parent") = 3 /\ Left("child") = 2
        BY <2>1, PollJobs
  <2>6. example = "status" => Left("parent") = 5
        BY <2>1, StatusJobs
  <2> QED BY <2>2, <2>3, <2>4, <2>5, <2>6
<1>6. got["child"] = <<>> /\ Len(queue) = 0 /\ Len(got["child"]) = 0
      BY <1>1 DEF Queue!Processes
<1>7. Urgent
      BY <1>5, <1>6 DEF Urgent
<1>8. OnlyBasic /\ OnlyAnswer
      BY <1>1, <1>5, <1>6 DEF OnlyBasic, OnlyAnswer
<1>9. OnlyPriority
      BY <1>1, <1>5, <1>6 DEF OnlyPriority
<1>10. OnlyPolls /\ OnlyStatus
      BY <1>1, <1>5, <1>6 DEF OnlyPolls, OnlyStatus
<1> QED BY <1>1, <1>3, <1>4, <1>7, <1>8, <1>9, <1>10 DEF QueueExact, Undisturbed

LEMMA QueueStep == QueueInv /\ [Next]_vars => QueueInv'
<1> SUFFICES ASSUME QueueInv, [Next]_vars, program' = "queue" PROVE QueueExact'
    BY DEF QueueInv
<1>1. program = "queue"
      BY DEF Next, RunPipes, RunQueue, RunSignals, RunSemaphores, RunShared, RunCreation, vars
<1>2. QueuePlaces /\ QueueTyped /\ Urgent /\ Undisturbed
      BY <1>1 DEF QueueInv, QueueExact
<1>3. example \in {"basic", "bidirectional", "priority", "non_blocking", "status"}
      BY <1>2 DEF QueuePlaces
<1>4. ASSUME NEW x \in Queue!Processes, Queue!Process(x) PROVE QueueExact'
  <2>1. QueuePlaces' /\ QueueTyped' /\ UNCHANGED <<example, run>>
        BY <1>2, <1>4, QueueDoes
  <2>2. Urgent'
        BY <1>2, <1>4, UrgentStep
  <2>3. ASSUME run = 1 PROVE Undisturbed'
    <3>1. /\ OnlyBasic /\ OnlyAnswer /\ OnlyPriority /\ OnlyPolls /\ OnlyStatus
          /\ example # "priority" => destroyed = <<>>
          BY <1>2, <2>3 DEF Undisturbed
    <3>2. CASE example = "basic"
      <4>1. OnlyBasic' /\ destroyed' = <<>>
            BY <1>2, <1>4, <3>1, <3>2, RequestStep
      <4> QED BY <2>1, <3>2, <4>1
              DEF Undisturbed, OnlyAnswer, OnlyPriority, OnlyPolls, OnlyStatus
    <3>3. CASE example = "bidirectional"
      <4>1. OnlyAnswer' /\ destroyed' = <<>>
            BY <1>2, <1>4, <3>1, <3>3, AnswerStep
      <4> QED BY <2>1, <3>3, <4>1
              DEF Undisturbed, OnlyBasic, OnlyPriority, OnlyPolls, OnlyStatus
    <3>4. CASE example = "priority"
      <4>1. OnlyPriority'
            BY <1>2, <1>4, <3>1, <3>4, PriorityStep
      <4> QED BY <2>1, <3>4, <4>1
              DEF Undisturbed, OnlyBasic, OnlyAnswer, OnlyPolls, OnlyStatus
    <3>5. CASE example = "non_blocking"
      <4>1. OnlyPolls' /\ destroyed' = <<>>
            BY <1>2, <1>4, <3>1, <3>5, PollStep
      <4> QED BY <2>1, <3>5, <4>1
              DEF Undisturbed, OnlyBasic, OnlyAnswer, OnlyPriority, OnlyStatus
    <3>6. CASE example = "status"
      <4>1. OnlyStatus' /\ destroyed' = <<>>
            BY <1>2, <1>4, <3>1, <3>6, StatusStep
      <4> QED BY <2>1, <3>6, <4>1
              DEF Undisturbed, OnlyBasic, OnlyAnswer, OnlyPriority, OnlyPolls
    <3> QED BY <1>3, <3>2, <3>3, <3>4, <3>5, <3>6
  <2>4. ASSUME run # 1 PROVE Undisturbed'
        BY <2>1, <2>4 DEF Undisturbed
  <2> QED BY <2>1, <2>2, <2>3, <2>4 DEF QueueExact
<1>5. CASE Queue!Interrupt
  <2>1. /\ run < MaxRuns /\ run' = run + 1 /\ script' = Queue!Script(example)
        /\ got' = [x \in Queue!Processes |-> <<>>]
        /\ UNCHANGED <<example, queue, destroyed>>
        BY <1>5 DEF Queue!Interrupt
  <2>2. /\ script' \in [Queue!Processes -> Seq(QueueCalls)]
        /\ \A x \in Queue!Processes :
             /\ script'[x] = Jobs(x) /\ Len(script'[x]) <= Len(Jobs(x))
             /\ \A k \in 1..Len(script'[x]) :
                  Alike(script'[x][k], Jobs(x)[(Len(Jobs(x)) - Len(script'[x])) + k])
        BY <1>3, <2>1, StartOver
  <2>3. \A x : Jobs(x)' = Jobs(x)
        BY <2>1 DEF Jobs
  <2>4. QueuePlaces'
    <3>1. \A x \in Queue!Processes :
            /\ Len(script'[x]) <= Len(Jobs(x)')
            /\ \A k \in 1..Len(script'[x]) :
                 Alike(script'[x][k], Jobs(x)'[(Len(Jobs(x)') - Len(script'[x])) + k])
          BY <2>2, <2>3, Zenon
    <3>2. example' \in {"basic", "bidirectional", "priority", "non_blocking", "status"}
          BY <1>3, <2>1
    <3> QED BY <2>2, <3>1, <3>2 DEF QueuePlaces, Left
  <2>5. /\ run \in 1..MaxRuns /\ queue \in Seq(Messages) /\ destroyed \in Seq(Messages)
        /\ \A k \in 1..Len(queue) : queue[k].run \in 1..run
        BY <1>2 DEF QueueTyped
  <2>6. run' \in 1..MaxRuns /\ run' # 1 /\ \A j \in 1..run : j \in 1..run'
        BY <2>1, <2>5, QueueAssumption
  <2>7. QueueTyped'
    <3>1. \A k \in 1..Len(queue) : queue[k].run \in 1..run'
          BY <2>5, <2>6
    <3>2. got' \in [Queue!Processes -> Seq(Messages)]
      <4>1. <<>> \in Seq(Messages)
            OBVIOUS
      <4> QED BY <2>1, <4>1
    <3> QED BY <2>1, <2>5, <2>6, <3>1, <3>2 DEF QueueTyped
  <2>8. Urgent'
    <3>1. CASE example = "priority"
      <4>1. script'["child"] = Jobs("child") /\ got'["child"] = <<>>
            BY <2>1, <2>2 DEF Queue!Processes
      <4>2. Len(Jobs("child")) = 2
            BY <3>1, PriorityJobs
      <4>3. Left("child")' = 2
            BY <4>1, <4>2 DEF Left
      <4> QED BY <4>1, <4>3 DEF Urgent
    <3>2. CASE example # "priority"
          BY <2>1, <3>2 DEF Urgent
    <3> QED BY <3>1, <3>2
  <2>9. Undisturbed'
        BY <2>6 DEF Undisturbed
  <2> QED BY <2>4, <2>7, <2>8, <2>9 DEF QueueExact
<1>6. CASE UNCHANGED vars
  <2>1. UNCHANGED <<example, script, run, queue, got, destroyed>>
        BY <1>6 DEF vars, commonVars, queueVars
  <2>2. QueuePlaces'
        BY <1>2, <2>1 DEF QueuePlaces, Left, Jobs
  <2>3. QueueTyped'
        BY <1>2, <2>1 DEF QueueTyped
  <2>4. Left("parent")' = Left("parent") /\ Left("child")' = Left("child")
        BY <2>1 DEF Left
  <2>5. Urgent'
        BY <1>2, <2>1, <2>4 DEF Urgent
  <2>6. Undisturbed'
        BY <1>2, <2>1, <2>4
        DEF Undisturbed, OnlyBasic, OnlyAnswer, OnlyPriority, OnlyPolls, OnlyStatus
  <2> QED BY <2>2, <2>3, <2>5, <2>6 DEF QueueExact
<1>7. CASE RunQueue
      BY <1>4, <1>5, <1>7 DEF RunQueue, Queue!Next
<1> QED BY <1>1, <1>6, <1>7
        DEF Next, RunPipes, RunSignals, RunSemaphores, RunShared, RunCreation

\* What is said of the queue follows.
LEMMA QueueMeans ==
  ASSUME QueueInv, program = "queue"
  PROVE  Queue!TypeOK /\ Queue!UrgentFirst /\ Queue!NothingMissed
<1>1. QueuePlaces /\ QueueTyped /\ Urgent /\ Undisturbed
      BY DEF QueueInv, QueueExact
<1>2. example \in {"basic", "bidirectional", "priority", "non_blocking", "status"}
      BY <1>1 DEF QueuePlaces
<1>3. Queue!TypeOK
      BY <1>1 DEF QueueTyped, QueuePlaces, Queue!TypeOK
<1>4. Queue!UrgentFirst
  <2> SUFFICES ASSUME example = "priority", NEW k \in 1..Len(got["child"])
               PROVE  (k = 1) <=> (got["child"][k].type = 10)
      BY DEF Queue!UrgentFirst, Queue!PRIORITY
  <2>1. Left("child") \in 0..2 /\ Len(got["child"]) \in Nat
        BY <1>1, PriorityNext, QueueLens
  <2>2. Left("child") # 2
    <3>1. Left("child") = 2 => Len(got["child"]) = 0
          BY <1>1 DEF Urgent
    <3> QED BY <2>1, <3>1
  <2>3. got["child"][1].type = 10 /\ \A j \in 2..Len(got["child"]) : got["child"][j].type = 3
        BY <1>1, <2>1, <2>2 DEF Urgent
  <2>4. k = 1 \/ k \in 2..Len(got["child"])
        BY <2>1
  <2> QED BY <2>3, <2>4
<1>5. Queue!NothingMissed
  <2> SUFFICES ASSUME run = 1, script["parent"] = <<>>
               PROVE  IF example = "priority"
                        THEN /\ Len(got["child"]) >= 2
                             /\ \A k \in 1..Len(destroyed) : destroyed[k].type = 3
                        ELSE destroyed = <<>>
      BY DEF Queue!NothingMissed, Queue!Ended, Queue!NOTIFICATION
  <2>1. Left("parent") = 0
        BY DEF Left
  <2>2. CASE example = "priority"
    <3>1. Left("child") = 0
          BY <1>1, <2>1, <2>2 DEF Undisturbed, OnlyPriority
    <3> QED BY <1>1, <2>2, <3>1 DEF Undisturbed, OnlyPriority
  <2>3. CASE example # "priority"
        BY <1>1, <2>3 DEF Undisturbed
  <2> QED BY <2>2, <2>3
<1> QED BY <1>3, <1>4, <1>5

-----------------------------------------------------------------------------
\* The programs, one at a time.

\* The semaphores of 4_semaphore.cpp exclude, the ring and the counter are
\* exact, and what 5_sharedMemory.cpp shares without a lock is right unless two
\* updates overlap: for any number of readers, counting processes and rounds.
THEOREM MemoryIsSafe == Spec => []MemorySafe
<1>1. Init => SharedInv /\ SemaInv
      BY SharedInit, SemaInit
<1>2. SharedInv /\ SemaInv /\ [Next]_vars => SharedInv' /\ SemaInv'
      BY SharedStep, SemaStep
<1>3. SharedInv /\ SemaInv => MemorySafe
      BY SharedMeans, SemaMeans DEF MemorySafe
<1> QED BY <1>1, <1>2, <1>3, PTL DEF Spec

\* No end of a pipe of 1_pipeAndFIFO.cpp is left open and nothing is left in
\* it; the urgent message of 2_msgQueue.cpp comes first and an undisturbed run
\* misses none; no signal of 3_signal.cpp kills, and the loops end for the right
\* one: for any number of messages, attempts, runs and rounds.
THEOREM ChannelsAreSafe == Spec => []ChannelsSafe
<1>1. Init => PipeInv /\ QueueInv /\ SignalInv
      BY PipeInit, QueueInit, SignalInit
<1>2. PipeInv /\ QueueInv /\ SignalInv /\ [Next]_vars => PipeInv' /\ QueueInv' /\ SignalInv'
      BY PipeStep, QueueStep, SignalStep
<1>3. PipeInv /\ QueueInv /\ SignalInv => ChannelsSafe
      BY PipeMeans, QueueMeans, SignalMeans DEF ChannelsSafe
<1> QED BY <1>1, <1>2, <1>3, PTL DEF Spec
=============================================================================
