-------------------------- MODULE BenchmarksProofs --------------------------
(***************************************************************************)
(* The benchmark program's mapping over dual, its pools over TBB, its      *)
(* mutex over a nested loop and its timed counters, for every number of    *)
(* partitions, threads, callables, tasks and operations.                   *)
(*                                                                         *)
(* The first invariant accounts for every partition: at the start of some  *)
(* lambda, in a future, or in main's sum.  The second says where every     *)
(* callable of a pool is - in the queue, with a pusher, in a thread - and  *)
(* in which order the owner, the arena and the pool's own threads go.  The *)
(* third describes the stacks of the threads that wait in nested loops.    *)
(* The fourth and the fifth account for every increment of a counter: made *)
(* and counted, or still owed by a thread or a batch.                      *)
(***************************************************************************)
EXTENDS Benchmarks, FiniteSetTheorems, FunctionTheorems, SequenceTheorems, TLAPS

-----------------------------------------------------------------------------
\* Sequences.

\* An element that is appended.
LEMMA AppendHas ==
  ASSUME NEW S, NEW s \in Seq(S), NEW e \in S
  PROVE  /\ Append(s, e) \in Seq(S) /\ Len(Append(s, e)) = Len(s) + 1
         /\ Len(s) \in Nat
         /\ \A n \in 1..Len(s) : Append(s, e)[n] = s[n]
         /\ Append(s, e)[Len(s) + 1] = e
         /\ \A n \in 1..Len(s) + 1 : n \in 1..Len(s) \/ n = Len(s) + 1
         /\ {Append(s, e)[n] : n \in 1..Len(s) + 1}
              = {s[n] : n \in 1..Len(s)} \cup {e}
<1>1. /\ Append(s, e) \in Seq(S) /\ Len(Append(s, e)) = Len(s) + 1
      /\ Len(s) \in Nat
      /\ \A n \in 1..Len(s) : Append(s, e)[n] = s[n]
      /\ Append(s, e)[Len(s) + 1] = e
      BY AppendProperties, LenProperties
<1>2. \A n \in 1..Len(s) + 1 : n \in 1..Len(s) \/ n = Len(s) + 1
      BY <1>1
<1>3. \A n \in 1..Len(s) : n \in 1..Len(s) + 1
      BY <1>1
<1>4. Len(s) + 1 \in 1..Len(s) + 1
      BY <1>1
<1> QED BY <1>1, <1>2, <1>3, <1>4

\* A sequence without repetitions, and its elements.
Distinct(s)  == \A m, n \in 1..Len(s) : s[m] = s[n] => m = n
Member(s, x) == \E n \in 1..Len(s) : s[n] = x

\* Removing an element from a sequence without repetitions.
LEMMA RemoveFirstIs ==
  ASSUME NEW S, NEW s \in Seq(S), NEW i \in 1..Len(s),
         \A m, n \in 1..Len(s) : s[m] = s[n] => m = n
  PROVE  Tbb!RemoveFirst(s, s[i]) = SubSeq(s, 1, i - 1) \o SubSeq(s, i + 1, Len(s))
<1>1. {j \in 1..Len(s) : s[j] = s[i]} = {i}
      OBVIOUS
<1>2. Tbb!Min({i}) = i
  <2>1. \A x \in {i} : x <= i
        OBVIOUS
  <2> QED BY <2>1 DEF Tbb!Min
<1>3. Tbb!SelectInSeq(s, LAMBDA v : v = s[i]) = i
      BY <1>1, <1>2 DEF Tbb!SelectInSeq
<1>4. \E j \in 1..Len(s) : s[j] = s[i]
      OBVIOUS
<1> QED BY <1>3, <1>4 DEF Tbb!RemoveFirst, Tbb!RemoveAt

\* What is left then is the rest.
LEMMA RemoveFirstLeaves ==
  ASSUME NEW S, NEW s \in Seq(S), NEW i \in 1..Len(s), NEW r,
         Distinct(s), r = Tbb!RemoveFirst(s, s[i])
  PROVE  /\ r \in Seq(S) /\ Distinct(r)
         /\ \A x : Member(r, x) <=> x # s[i] /\ Member(s, x)
<1>0. \A m, n \in 1..Len(s) : s[m] = s[n] => m = n
      BY DEF Distinct
<1>1. Len(s) \in Nat
      BY LenProperties
<1>2. /\ r \in Seq(S) /\ Len(r) = Len(s) - 1
      /\ \A n \in 1..Len(r) : r[n] = IF n < i THEN s[n] ELSE s[n + 1]
  <2> DEFINE a == SubSeq(s, 1, i - 1)
             b == SubSeq(s, i + 1, Len(s))
  <2>1. a \in Seq(S) /\ Len(a) = i - 1 /\ \A n \in 1..i - 1 : a[n] = s[n]
        BY <1>1, SubSeqProperties
  <2>2. /\ b \in Seq(S) /\ Len(b) = Len(s) - i
        /\ \A n \in 1..Len(s) - i : b[n] = s[i + n]
        BY <1>1, SubSeqProperties
  <2>3. r = a \o b
        BY <1>0, RemoveFirstIs
  <2> HIDE DEF a, b
  <2>4. /\ r \in Seq(S) /\ Len(r) = (i - 1) + (Len(s) - i)
        /\ \A n \in 1..Len(r) :
             r[n] = IF n <= i - 1 THEN a[n] ELSE b[n - (i - 1)]
    <3>1. /\ a \o b \in Seq(S) /\ Len(a \o b) = Len(a) + Len(b)
          /\ \A n \in 1..Len(a) + Len(b) :
               (a \o b)[n] = IF n <= Len(a) THEN a[n] ELSE b[n - Len(a)]
      <4>1. a \in Seq(S) /\ b \in Seq(S)
            BY <2>1, <2>2
      <4> QED BY <4>1, ConcatProperties
    <3> QED BY <2>1, <2>2, <2>3, <3>1
  <2>5. Len(r) = Len(s) - 1
        BY <1>1, <2>4
  <2>6. ASSUME NEW n \in 1..Len(r)
        PROVE  r[n] = IF n < i THEN s[n] ELSE s[n + 1]
    <3>1. CASE n < i
      <4>1. n <= i - 1 /\ n \in 1..i - 1
            BY <1>1, <2>5, <3>1
      <4> QED BY <2>1, <2>4, <3>1, <4>1
    <3>2. CASE ~(n < i)
      <4>1. ~(n <= i - 1) /\ n - (i - 1) \in 1..Len(s) - i
              /\ i + (n - (i - 1)) = n + 1
            BY <1>1, <2>5, <3>2
      <4> QED BY <2>2, <2>4, <3>2, <4>1
    <3> QED BY <3>1, <3>2
  <2> QED BY <2>4, <2>5, <2>6
<1>3. \A n \in 1..Len(r) : n \in 1..Len(s) /\ n + 1 \in 1..Len(s)
      BY <1>1, <1>2
<1>4. \A m, n \in 1..Len(r) : r[m] = r[n] => m = n
      BY <1>0, <1>1, <1>2, <1>3
<1>5. ASSUME NEW n \in 1..Len(r) PROVE r[n] # s[i] /\ \E m \in 1..Len(s) : s[m] = r[n]
      BY <1>0, <1>1, <1>2, <1>3
<1>6. ASSUME NEW n \in 1..Len(s), s[n] # s[i] PROVE \E m \in 1..Len(r) : r[m] = s[n]
  <2>1. CASE n < i
    <3>1. n \in 1..Len(r)
          BY <1>1, <1>2, <2>1
    <3> QED BY <1>2, <2>1, <3>1
  <2>2. CASE n > i
    <3>1. n - 1 \in 1..Len(r) /\ ~(n - 1 < i) /\ (n - 1) + 1 = n
          BY <1>1, <1>2, <2>2
    <3> QED BY <1>2, <3>1
  <2>3. n # i
        BY <1>6
  <2>4. n < i \/ n > i
        BY <1>1, <2>3
  <2> QED BY <2>1, <2>2, <2>4
<1>7. ASSUME NEW x
      PROVE  (\E n \in 1..Len(r) : r[n] = x)
               <=> x # s[i] /\ \E n \in 1..Len(s) : s[n] = x
  <2>1. ASSUME NEW n \in 1..Len(r), r[n] = x
        PROVE  x # s[i] /\ \E m \in 1..Len(s) : s[m] = x
        BY <1>5, <2>1
  <2>2. ASSUME NEW n \in 1..Len(s), s[n] = x, x # s[i]
        PROVE  \E m \in 1..Len(r) : r[m] = x
        BY <1>6, <2>2
  <2> QED BY <2>1, <2>2
<1> QED BY <1>2, <1>4, <1>7 DEF Distinct, Member
\* The same for the front.
LEMMA TailLeaves ==
  ASSUME NEW S, NEW s \in Seq(S), s # <<>>, Distinct(s)
  PROVE  /\ Tail(s) \in Seq(S) /\ Distinct(Tail(s))
         /\ Head(s) \in S /\ Member(s, Head(s))
         /\ \A x : Member(Tail(s), x) <=> x # Head(s) /\ Member(s, x)
<1>0. \A m, n \in 1..Len(s) : s[m] = s[n] => m = n
      BY DEF Distinct
<1>1. /\ Tail(s) \in Seq(S) /\ Head(s) \in S
      /\ Len(s) \in Nat /\ Len(s) >= 1 /\ Len(Tail(s)) = Len(s) - 1
      /\ \A n \in 1..Len(Tail(s)) : Tail(s)[n] = s[n + 1]
      /\ Head(s) = s[1]
      BY HeadTailProperties, LenProperties, ElementOfSeq, EmptySeq
<1>2. 1 \in 1..Len(s)
      BY <1>1
<1>3. \A n \in 1..Len(Tail(s)) : n + 1 \in 1..Len(s) /\ n + 1 # 1
      BY <1>1
<1>4. ASSUME NEW m \in 1..Len(Tail(s)), NEW n \in 1..Len(Tail(s)),
             Tail(s)[m] = Tail(s)[n]
      PROVE  m = n
  <2>1. m + 1 = n + 1
        BY <1>0, <1>1, <1>3, <1>4
  <2> QED BY <1>1, <2>1
<1>5. ASSUME NEW n \in 1..Len(s), s[n] # Head(s)
      PROVE  \E m \in 1..Len(Tail(s)) : Tail(s)[m] = s[n]
  <2>1. n # 1
        BY <1>1, <1>5
  <2>2. n - 1 \in 1..Len(Tail(s)) /\ (n - 1) + 1 = n
        BY <1>1, <2>1
  <2> QED BY <1>1, <2>2
<1>6. ASSUME NEW n \in 1..Len(Tail(s)) PROVE Tail(s)[n] # Head(s)
      BY <1>0, <1>1, <1>2, <1>3
<1>7. ASSUME NEW x
      PROVE  (\E n \in 1..Len(Tail(s)) : Tail(s)[n] = x)
               <=> x # Head(s) /\ \E n \in 1..Len(s) : s[n] = x
  <2>1. ASSUME NEW n \in 1..Len(Tail(s)), Tail(s)[n] = x
        PROVE  x # Head(s) /\ \E m \in 1..Len(s) : s[m] = x
        BY <1>1, <1>3, <1>6, <2>1
  <2>2. ASSUME NEW n \in 1..Len(s), s[n] = x, x # Head(s)
        PROVE  \E m \in 1..Len(Tail(s)) : Tail(s)[m] = x
        BY <1>5, <2>2
  <2> QED BY <2>1, <2>2
<1> QED BY <1>1, <1>2, <1>4, <1>7 DEF Distinct, Member

-----------------------------------------------------------------------------
\* block, pipeline, std_async, dual and parallel_reduce.

ReduceThreads == Workers \cup 1..ReduceItems

\* The items whose result was computed, and those whose result was added.
mapped  == {i \in 1..ReduceItems : computed[i] # 0}
reduced == {i \in 1..ReduceItems : total_sum[i] # 0}

\* No item is computed or added more than once.
Once == \A i \in 1..ReduceItems : computed[i] <= 1 /\ total_sum[i] <= 1

\* A thread works on one item, that nobody else has or has had; it records a
\* future only if another pool reduces.
Working ==
  /\ \A w \in ReduceThreads :
       /\ at[w] = "idle" <=> doing[w] = 0
       /\ doing[w] \in 0..submitted /\ doing[w] \notin ready
       /\ at[w] = "mapped" => strategy \in {"dual", "parallel_reduce"}
       /\ at[w] = "recording" => strategy = "dual"
  /\ \A v, w \in ReduceThreads : doing[v] = doing[w] /\ doing[v] # 0 => v = w
  /\ ready \subseteq 1..submitted

\* An item has a result if its callable has returned or has come that far.
Results ==
  \A i \in 1..ReduceItems : i \in mapped <=>
    i \in ready \/ \E w \in ReduceThreads : doing[w] = i /\ at[w] # "mapping"

\* The items that were handed to the pool of one thread.
Handed == ready \cup {doing[w] : w \in {x \in ReduceThreads : at[x] = "recording"}}

\* dual: what was handed over is in the queue or in the sum, and once; the
\* recorded futures are those of the callables that have returned.
InSerialPool ==
  /\ strategy # "dual" => serial_pool = <<>>
  /\ strategy = "dual" =>
       /\ {serial_pool[n] : n \in 1..Len(serial_pool)} \cup reduced = Handed
       /\ \A n \in 1..Len(serial_pool) : serial_pool[n] \notin reduced
       /\ \A m, n \in 1..Len(serial_pool) : serial_pool[m] = serial_pool[n] => m = n

Recorded ==
  strategy = "dual" =>
    /\ {serial_futures[n] : n \in 1..Len(serial_futures)} = ready
    /\ Len(serial_futures) = Cardinality(ready)
    /\ reduce_main = "serial" => \A n \in 1..k - 1 : serial_futures[n] \in reduced

\* What is in the sum, when a worker or main reduces.
Summed ==
  /\ strategy = "parallel_reduce" => reduced = ready
  /\ strategy = "block" =>
       reduced = CASE reduce_main = "reducing" -> 1..k - 1
                   [] reduce_main = "finished" -> 1..ReduceItems
                   [] OTHER                    -> {}
  /\ strategy \in {"pipeline", "std_async"} =>
       reduced = IF reduce_main = "finished" THEN 1..ReduceItems ELSE 1..k - 1

\* How far main is, and what that says about the items.
MainKnows ==
  /\ reduce_main = "submitting" => k = 1
  /\ reduce_main # "submitting" => submitted = ReduceItems
  /\ reduce_main = "getting" => 1..k - 1 \subseteq ready
  /\ reduce_main \in {"serial", "finished"} => ready = 1..ReduceItems
  /\ reduce_main = "serial" => strategy = "dual"
  /\ reduce_main = "reducing" =>
       \/ strategy = "block" /\ ready = 1..ReduceItems
       \/ strategy \in {"pipeline", "std_async"} /\ k <= ReduceItems
            /\ 1..k \subseteq ready
  /\ reduce_main = "finished" => reduced = 1..ReduceItems

ReduceInv == /\ Reduction!TypeOK /\ Working /\ Results
             /\ InSerialPool /\ Recorded /\ Summed /\ MainKnows

ReduceDefs ==
  /\ Reduction!Items = 1..ReduceItems /\ Reduction!Threads = ReduceThreads
  /\ ReduceItems \in Nat /\ ReduceItems > 0

LEMMA ReduceNames == ReduceDefs
BY BenchmarkAssumption
   DEF ReduceDefs, ReduceThreads, Reduction!Items, Reduction!Threads

\* The types, without and with those of the counts.
PlaceTypes ==
  /\ strategy \in Reduction!Strategies
  /\ submitted \in 0..ReduceItems
  /\ reduce_main \in {"submitting", "getting", "reducing", "serial", "finished"}
  /\ k \in 1..ReduceItems + 1
  /\ doing \in [ReduceThreads -> 0..ReduceItems]
  /\ at \in [ReduceThreads -> {"idle", "mapping", "mapped", "recording"}]
  /\ ready \in SUBSET (1..ReduceItems)
  /\ serial_pool \in Seq(1..ReduceItems)
  /\ serial_futures \in Seq(1..ReduceItems)

CountTypes ==
  computed \in [1..ReduceItems -> Nat] /\ total_sum \in [1..ReduceItems -> Nat]

LEMMA ReduceTypes == /\ Reduction!TypeOK <=> PlaceTypes /\ CountTypes
                     /\ Reduction!TypeOK' <=> (PlaceTypes /\ CountTypes)'
<1>1. Reduction!TypeOK <=> PlaceTypes /\ CountTypes
      BY ReduceNames, Zenon
      DEF ReduceDefs, Reduction!TypeOK, PlaceTypes, CountTypes
<1>2. Reduction!TypeOK' <=> (PlaceTypes /\ CountTypes)'
      BY ReduceNames, Zenon
      DEF ReduceDefs, Reduction!TypeOK, PlaceTypes, CountTypes
<1> QED BY <1>1, <1>2

\* The items that are ready are finitely many.
LEMMA ReadyCount ==
  ASSUME NEW S \in SUBSET (1..ReduceItems)
  PROVE  /\ IsFiniteSet(S) /\ Cardinality(S) \in 0..ReduceItems
         /\ \A i \in (1..ReduceItems) \ S :
              Cardinality(S \cup {i}) = Cardinality(S) + 1
<1>1. IsFiniteSet(1..ReduceItems) /\ Cardinality(1..ReduceItems) = ReduceItems
      BY ReduceNames, FS_Interval DEF ReduceDefs
<1>2. /\ IsFiniteSet(S) /\ Cardinality(S) <= ReduceItems
      BY <1>1, FS_Subset
<1>3. Cardinality(S) \in Nat
      BY <1>2, FS_CardinalityType
<1>4. \A i \in (1..ReduceItems) \ S : Cardinality(S \cup {i}) = Cardinality(S) + 1
      BY <1>2, FS_AddElement
<1> QED BY <1>2, <1>3, <1>4, ReduceNames DEF ReduceDefs

\* What is counted once more is in the set of what was counted.
LEMMA CountAdds ==
  ASSUME NEW f \in [1..ReduceItems -> Nat], NEW h, NEW i \in 1..ReduceItems,
         h = [f EXCEPT ![i] = @ + 1]
  PROVE  /\ h \in [1..ReduceItems -> Nat]
         /\ {j \in 1..ReduceItems : h[j] # 0}
              = {j \in 1..ReduceItems : f[j] # 0} \cup {i}
<1>1. /\ h \in [1..ReduceItems -> Nat]
      /\ h[i] # 0 /\ \A j \in 1..ReduceItems : j # i => h[j] = f[j]
      OBVIOUS
<1> QED BY <1>1

LEMMA ReduceBegins == Init => ReduceInv /\ Once
<1> SUFFICES ASSUME Reduction!Init PROVE ReduceInv /\ Once
    BY DEF Init
<1>0. \A i \in 1..ReduceItems : computed[i] = 0 /\ total_sum[i] = 0
      BY ReduceNames DEF ReduceDefs, Reduction!Init
<1>1. Cardinality({}) = 0 /\ mapped = {} /\ reduced = {}
      BY <1>0, FS_EmptySet DEF mapped, reduced
<1>2. Reduction!TypeOK
      BY ReduceNames DEF ReduceDefs, Reduction!Init, Reduction!TypeOK
<1>3. Working /\ Results
      BY <1>1, ReduceNames DEF ReduceDefs, Reduction!Init, Working, Results
<1>4. InSerialPool /\ Recorded
      BY <1>1, ReduceNames
      DEF ReduceDefs, Reduction!Init, InSerialPool, Recorded, Handed
<1>5. Summed /\ MainKnows
      BY <1>1, ReduceNames DEF ReduceDefs, Reduction!Init, Summed, MainKnows
<1> QED BY <1>0, <1>2, <1>3, <1>4, <1>5 DEF ReduceInv, Once

\* What a thread works on is an item.
LEMMA WorkIsItem ==
  ASSUME ReduceInv, NEW w \in ReduceThreads, at[w] # "idle"
  PROVE  doing[w] \in 1..ReduceItems /\ doing[w] \in 1..submitted
BY ReduceNames DEF ReduceDefs, ReduceInv, Reduction!TypeOK, Working

\* main submits.
LEMMA ReduceSubmits ==
  ReduceInv /\ Reduction!Submit
    => ReduceInv' /\ UNCHANGED <<computed, total_sum, reduce_main = "finished">>
<1> SUFFICES ASSUME ReduceInv, Reduction!Submit
             PROVE  ReduceInv' /\ UNCHANGED <<computed, total_sum,
                                              reduce_main = "finished">>
    OBVIOUS
<1> USE ReduceNames DEF ReduceDefs, ReduceInv
<1>1. /\ UNCHANGED <<strategy, k, doing, at, ready, computed, mapped,
                     serial_pool, serial_futures, total_sum, reduced>>
      /\ reduce_main = "submitting"
      /\ \/ submitted < ReduceItems /\ submitted' = submitted + 1
              /\ reduce_main' = "submitting"
         \/ submitted >= ReduceItems /\ submitted' = submitted
              /\ reduce_main' = "getting"
      BY DEF Reduction!Submit, mapped, reduced, Reduction!TypeOK
<1>2. Reduction!TypeOK' /\ submitted <= submitted' /\ submitted \in Nat
  <2>1. PlaceTypes' /\ submitted <= submitted' /\ submitted \in Nat
        BY <1>1, ReduceTypes DEF PlaceTypes
  <2>2. CountTypes'
        BY <1>1, ReduceTypes DEF CountTypes
  <2> QED BY <2>1, <2>2, ReduceTypes
<1>3. Working'
      BY <1>1, <1>2 DEF Working, Reduction!TypeOK
<1>4. Results'
      BY <1>1 DEF Results
<1>5. InSerialPool' /\ Recorded'
      BY <1>1 DEF InSerialPool, Recorded, Handed
<1>6. Summed'
      BY <1>1 DEF Summed, MainKnows
<1>7. MainKnows'
      BY <1>1, <1>2 DEF MainKnows, Reduction!TypeOK
<1>8. UNCHANGED <<computed, total_sum, reduce_main = "finished">>
      BY <1>1
<1> QED BY <1>2, <1>3, <1>4, <1>5, <1>6, <1>7, <1>8

\* A thread takes an item that nobody has.
LEMMA ReduceTakes ==
  ASSUME ReduceInv, NEW w \in ReduceThreads, NEW i \in 1..ReduceItems,
         Reduction!Take(w, i)
  PROVE  ReduceInv' /\ UNCHANGED <<computed, total_sum, reduce_main>>
<1> USE ReduceNames DEF ReduceDefs, ReduceInv
<1>1. /\ UNCHANGED <<strategy, submitted, reduce_main, k, ready, computed,
                     mapped, serial_pool, serial_futures, total_sum, reduced>>
      /\ at[w] = "idle" /\ i \in 1..submitted /\ i \notin ready
      /\ \A v \in ReduceThreads : doing[v] # i
      /\ doing' = [doing EXCEPT ![w] = i] /\ at' = [at EXCEPT ![w] = "mapping"]
      BY DEF Reduction!Take, Reduction!Taken, mapped, reduced
<1>2. /\ \A v \in ReduceThreads \ {w} : doing'[v] = doing[v] /\ at'[v] = at[v]
      /\ doing'[w] = i /\ at'[w] = "mapping" /\ doing[w] = 0
      BY <1>1 DEF Reduction!TypeOK, Working
<1>3. Reduction!TypeOK'
  <2>1. PlaceTypes'
        BY <1>1, ReduceTypes DEF PlaceTypes
  <2>2. CountTypes'
        BY <1>1, ReduceTypes DEF CountTypes
  <2> QED BY <2>1, <2>2, ReduceTypes
<1>4. Working'
  <2>1. i # 0 /\ i \in 0..submitted /\ i \notin ready
        BY <1>1 DEF Reduction!TypeOK
  <2>2. \A u, v \in ReduceThreads :
          doing'[u] = doing'[v] /\ doing'[u] # 0 => u = v
        BY <1>1, <1>2 DEF Working
  <2>3. UNCHANGED <<submitted, strategy, ready>>
        BY <1>1
  <2> QED BY <1>2, <2>1, <2>2, <2>3 DEF Working
<1>5. Results'
      BY <1>1, <1>2 DEF Results, Working
<1>6. Handed' = Handed
      BY <1>1, <1>2 DEF Handed
<1>7. InSerialPool' /\ Recorded'
      BY <1>1, <1>6 DEF InSerialPool, Recorded
<1>8. Summed' /\ MainKnows'
      BY <1>1 DEF Summed, MainKnows
<1> QED BY <1>1, <1>3, <1>4, <1>5, <1>7, <1>8

\* A callable returns.
LEMMA ReduceReturns ==
  ASSUME ReduceInv, NEW w \in ReduceThreads, at[w] # "idle", Reduction!Return(w),
         UNCHANGED <<strategy, submitted, reduce_main, k>>
  PROVE  /\ ready' = ready \cup {doing[w]} /\ doing[w] \notin ready
         /\ doing[w] \in 1..ReduceItems
         /\ ready' \in SUBSET (1..ReduceItems)
         /\ \A v \in ReduceThreads \ {w} : doing'[v] = doing[v] /\ at'[v] = at[v]
         /\ \A v \in ReduceThreads \ {w} : doing[v] # doing[w]
         /\ doing'[w] = 0 /\ at'[w] = "idle"
         /\ doing' \in [ReduceThreads -> 0..ReduceItems]
         /\ at' \in [ReduceThreads -> {"idle", "mapping", "mapped", "recording"}]
         /\ Working'
<1> USE ReduceNames DEF ReduceDefs, ReduceInv
<1>1. /\ ready' = ready \cup {doing[w]} /\ doing[w] \notin ready
      /\ doing[w] \in 1..ReduceItems /\ doing[w] \in 1..submitted
      /\ ready' \in SUBSET (1..ReduceItems)
      BY WorkIsItem DEF Reduction!Return, Reduction!TypeOK, Working
<1>2. /\ \A v \in ReduceThreads \ {w} : doing'[v] = doing[v] /\ at'[v] = at[v]
      /\ doing'[w] = 0 /\ at'[w] = "idle"
      /\ doing' \in [ReduceThreads -> 0..ReduceItems]
      /\ at' \in [ReduceThreads -> {"idle", "mapping", "mapped", "recording"}]
      BY <1>1 DEF Reduction!Return, Reduction!TypeOK
<1>3. \A v \in ReduceThreads \ {w} : doing[v] # doing[w]
      BY <1>1 DEF Working
<1>4. Working'
  <2>1. 0 \in 0..submitted /\ submitted' = submitted /\ strategy' = strategy
        BY DEF Reduction!TypeOK
  <2>2. /\ \A v \in ReduceThreads \ {w} : doing[v] \notin ready'
        /\ ready' \subseteq 1..submitted /\ 0 \notin ready'
        BY <1>1, <1>3 DEF Working
  <2> QED BY <1>2, <2>1, <2>2 DEF Working
<1> QED BY <1>1, <1>2, <1>3, <1>4

\* An item is computed.
LEMMA ReduceMaps ==
  ASSUME ReduceInv, NEW w \in ReduceThreads, Reduction!Map(w)
  PROVE  /\ ReduceInv' /\ UNCHANGED <<total_sum, reduce_main>>
         /\ doing[w] \in 1..ReduceItems \ mapped
         /\ computed' = [computed EXCEPT ![doing[w]] = @ + 1]
<1> USE ReduceNames DEF ReduceDefs, ReduceInv
<1>1. /\ UNCHANGED <<strategy, submitted, reduce_main, k, serial_pool,
                     serial_futures, total_sum, reduced>>
      /\ at[w] = "mapping"
      /\ computed' = [computed EXCEPT ![doing[w]] = @ + 1]
      BY DEF Reduction!Map, reduced
<1>2. /\ doing[w] \in 1..ReduceItems /\ doing[w] \in 1..submitted
      /\ computed' \in [1..ReduceItems -> Nat] /\ mapped' = mapped \cup {doing[w]}
  <2>1. doing[w] \in 1..ReduceItems /\ doing[w] \in 1..submitted
        BY <1>1, WorkIsItem
  <2>2. computed \in [1..ReduceItems -> Nat]
        BY DEF Reduction!TypeOK
  <2> QED BY <1>1, <2>1, <2>2, CountAdds DEF mapped
<1>3. doing[w] \notin mapped
      BY <1>1, <1>2 DEF Results, Working
<1>4. CASE strategy \in {"dual", "parallel_reduce"}
  <2>1. UNCHANGED <<doing, ready>> /\ at' = [at EXCEPT ![w] = "mapped"]
        BY <1>4 DEF Reduction!Map
  <2>2. /\ \A v \in ReduceThreads \ {w} : at'[v] = at[v]
        /\ at'[w] = "mapped"
        BY <2>1 DEF Reduction!TypeOK
  <2>3. Reduction!TypeOK'
    <3>1. PlaceTypes'
          BY <1>1, <1>2, <2>1, ReduceTypes DEF PlaceTypes
    <3>2. CountTypes'
          BY <1>1, <1>2, <2>1, ReduceTypes DEF CountTypes
    <3> QED BY <3>1, <3>2, ReduceTypes
  <2>4. Working'
        BY <1>1, <1>4, <2>1, <2>2 DEF Working
  <2>5. Results'
        BY <1>1, <1>2, <2>1, <2>2 DEF Results, Working
  <2>6. Handed' = Handed
        BY <1>1, <2>1, <2>2 DEF Handed
  <2>7. InSerialPool' /\ Recorded'
        BY <1>1, <2>1, <2>6 DEF InSerialPool, Recorded
  <2>8. Summed' /\ MainKnows'
        BY <1>1, <2>1 DEF Summed, MainKnows
  <2> QED BY <1>1, <1>2, <1>3, <2>3, <2>4, <2>5, <2>7, <2>8
<1>5. CASE strategy \notin {"dual", "parallel_reduce"}
  <2>1. Reduction!Return(w)
        BY <1>5 DEF Reduction!Map
  <2>2. /\ ready' = ready \cup {doing[w]} /\ doing[w] \notin ready
        /\ ready' \in SUBSET (1..ReduceItems)
        /\ \A v \in ReduceThreads \ {w} : doing'[v] = doing[v] /\ at'[v] = at[v]
        /\ \A v \in ReduceThreads \ {w} : doing[v] # doing[w]
        /\ doing'[w] = 0 /\ at'[w] = "idle"
        /\ doing' \in [ReduceThreads -> 0..ReduceItems]
        /\ at' \in [ReduceThreads -> {"idle", "mapping", "mapped", "recording"}]
        /\ Working'
        BY <1>1, <2>1, ReduceReturns
  <2>3. Reduction!TypeOK'
    <3>1. PlaceTypes'
          BY <1>1, <1>2, <2>2, ReduceTypes DEF PlaceTypes
    <3>2. CountTypes'
          BY <1>1, <1>2, <2>2, ReduceTypes DEF CountTypes
    <3> QED BY <3>1, <3>2, ReduceTypes
  <2>4. Results'
    <3> SUFFICES ASSUME NEW i \in 1..ReduceItems
                 PROVE  i \in mapped' <=>
                          \/ i \in ready'
                          \/ \E v \in ReduceThreads : doing'[v] = i
                                                      /\ at'[v] # "mapping"
        BY DEF Results
    <3>1. CASE i = doing[w]
          BY <1>2, <2>2, <3>1
    <3>2. CASE i # doing[w]
      <4>1. i # 0 /\ (i \in mapped' <=> i \in mapped)
                  /\ (i \in ready' <=> i \in ready)
            BY <1>2, <2>2, <3>2
      <4>2. ASSUME NEW v \in ReduceThreads
            PROVE  doing'[v] = i /\ at'[v] # "mapping"
                     <=> doing[v] = i /\ at[v] # "mapping"
            BY <2>2, <3>2, <4>1
      <4>3. i \in mapped <=>
              i \in ready \/ \E v \in ReduceThreads : doing[v] = i
                                                       /\ at[v] # "mapping"
            BY DEF Results
      <4> QED BY <4>1, <4>2, <4>3
    <3> QED BY <3>1, <3>2
  <2>5. InSerialPool' /\ Recorded'
        BY <1>1, <1>5 DEF InSerialPool, Recorded
  <2>6. Summed' /\ MainKnows'
        BY <1>1, <1>5, <2>2 DEF Summed, MainKnows
  <2> QED BY <1>1, <1>2, <1>3, <2>2, <2>3, <2>4, <2>5, <2>6
<1> QED BY <1>4, <1>5

\* parallel_reduce: a worker adds its result to the sum.
LEMMA ReduceAdds ==
  ASSUME ReduceInv, NEW w \in ReduceThreads, Reduction!ReduceInWorker(w)
  PROVE  /\ ReduceInv' /\ UNCHANGED <<computed, reduce_main>>
         /\ doing[w] \in mapped \ reduced
         /\ total_sum' = [total_sum EXCEPT ![doing[w]] = @ + 1]
<1> USE ReduceNames DEF ReduceDefs, ReduceInv
<1>1. /\ UNCHANGED <<strategy, submitted, reduce_main, k, computed, mapped,
                     serial_pool, serial_futures>>
      /\ strategy = "parallel_reduce" /\ at[w] = "mapped"
      /\ total_sum' = [total_sum EXCEPT ![doing[w]] = @ + 1]
      /\ Reduction!Return(w)
      BY DEF Reduction!ReduceInWorker, mapped
<1>2. /\ ready' = ready \cup {doing[w]} /\ doing[w] \notin ready
      /\ doing[w] \in 1..ReduceItems
      /\ ready' \in SUBSET (1..ReduceItems)
      /\ \A v \in ReduceThreads \ {w} : doing'[v] = doing[v] /\ at'[v] = at[v]
      /\ \A v \in ReduceThreads \ {w} : doing[v] # doing[w]
      /\ doing'[w] = 0 /\ at'[w] = "idle"
      /\ doing' \in [ReduceThreads -> 0..ReduceItems]
      /\ at' \in [ReduceThreads -> {"idle", "mapping", "mapped", "recording"}]
      /\ Working'
      BY <1>1, ReduceReturns
<1>3. /\ reduced = ready /\ doing[w] \in mapped
      /\ total_sum' \in [1..ReduceItems -> Nat]
      /\ reduced' = reduced \cup {doing[w]}
  <2>1. reduced = ready /\ doing[w] \in mapped
        BY <1>1, <1>2 DEF Summed, Results
  <2>2. total_sum \in [1..ReduceItems -> Nat]
        BY DEF Reduction!TypeOK
  <2> QED BY <1>1, <1>2, <2>1, <2>2, CountAdds DEF reduced
<1>4. Reduction!TypeOK'
  <2>1. PlaceTypes'
        BY <1>1, <1>2, <1>3, ReduceTypes DEF PlaceTypes
  <2>2. CountTypes'
        BY <1>1, <1>2, <1>3, ReduceTypes DEF CountTypes
  <2> QED BY <2>1, <2>2, ReduceTypes
<1>5. Results'
      BY <1>1, <1>2 DEF Results, Working
<1>6. InSerialPool' /\ Recorded'
      BY <1>1 DEF InSerialPool, Recorded
<1>7. Summed' /\ MainKnows'
      BY <1>1, <1>2, <1>3 DEF Summed, MainKnows
<1> QED BY <1>1, <1>2, <1>3, <1>4, <1>5, <1>6, <1>7

\* dual: the result goes to the other pool.
LEMMA ReduceHandsOver ==
  ASSUME ReduceInv, NEW w \in ReduceThreads, Reduction!HandOver(w)
  PROVE  ReduceInv' /\ UNCHANGED <<computed, total_sum, reduce_main>>
<1> USE ReduceNames DEF ReduceDefs, ReduceInv
<1>1. /\ UNCHANGED <<strategy, submitted, reduce_main, k, doing, ready,
                     computed, mapped, serial_futures, total_sum, reduced>>
      /\ strategy = "dual" /\ at[w] = "mapped"
      /\ serial_pool' = Append(serial_pool, doing[w])
      /\ at' = [at EXCEPT ![w] = "recording"]
      BY DEF Reduction!HandOver, mapped, reduced
<1>2. /\ \A v \in ReduceThreads \ {w} : at'[v] = at[v]
      /\ at'[w] = "recording"
      BY <1>1 DEF Reduction!TypeOK
<1>3. doing[w] \in 1..ReduceItems
      BY <1>1, WorkIsItem
<1>4. doing[w] \notin Handed
      BY <1>1, <1>3 DEF Working, Handed
<1>5. Handed' = Handed \cup {doing[w]}
      BY <1>1, <1>2 DEF Handed
<1>6. serial_pool \in Seq(1..ReduceItems)
      BY DEF Reduction!TypeOK
<1>7. /\ serial_pool' \in Seq(1..ReduceItems)
      /\ Len(serial_pool) \in Nat /\ Len(serial_pool') = Len(serial_pool) + 1
      /\ \A n \in 1..Len(serial_pool) : serial_pool'[n] = serial_pool[n]
      /\ serial_pool'[Len(serial_pool) + 1] = doing[w]
      /\ \A n \in 1..Len(serial_pool') :
           n \in 1..Len(serial_pool) \/ n = Len(serial_pool) + 1
      /\ {serial_pool'[n] : n \in 1..Len(serial_pool')}
           = {serial_pool[n] : n \in 1..Len(serial_pool)} \cup {doing[w]}
      BY <1>1, <1>3, <1>6, AppendHas
<1>8. Reduction!TypeOK'
  <2>1. PlaceTypes'
        BY <1>1, <1>7, ReduceTypes DEF PlaceTypes
  <2>2. CountTypes'
        BY <1>1, <1>7, ReduceTypes DEF CountTypes
  <2> QED BY <2>1, <2>2, ReduceTypes
<1>9. Working' /\ Results'
      BY <1>1, <1>2 DEF Working, Results
<1>10. InSerialPool'
  <2>1. doing[w] \notin reduced /\ \A n \in 1..Len(serial_pool) : serial_pool[n] # doing[w]
        BY <1>1, <1>4 DEF InSerialPool
  <2>2. {serial_pool'[n] : n \in 1..Len(serial_pool')} \cup reduced' = Handed'
        BY <1>1, <1>5, <1>7 DEF InSerialPool
  <2>3. \A n \in 1..Len(serial_pool') : serial_pool'[n] \notin reduced'
        BY <1>1, <1>7, <2>1 DEF InSerialPool
  <2>4. \A m, n \in 1..Len(serial_pool') :
          serial_pool'[m] = serial_pool'[n] => m = n
        BY <1>1, <1>7, <2>1 DEF InSerialPool
  <2> QED BY <1>1, <2>2, <2>3, <2>4 DEF InSerialPool
<1>11. Recorded' /\ Summed' /\ MainKnows'
      BY <1>1 DEF Recorded, Summed, MainKnows
<1> QED BY <1>1, <1>8, <1>9, <1>10, <1>11

\* dual: the future of the handed item is recorded, and the callable returns.
LEMMA ReduceRecords ==
  ASSUME ReduceInv, NEW w \in ReduceThreads, Reduction!Record(w)
  PROVE  ReduceInv' /\ UNCHANGED <<computed, total_sum, reduce_main>>
<1> USE ReduceNames DEF ReduceDefs, ReduceInv
<1>1. /\ UNCHANGED <<strategy, submitted, reduce_main, k, computed, mapped,
                     serial_pool, total_sum, reduced>>
      /\ at[w] = "recording" /\ strategy = "dual"
      /\ serial_futures' = Append(serial_futures, doing[w])
      /\ Reduction!Return(w)
      BY DEF Reduction!Record, Working, mapped, reduced
<1>2. /\ ready' = ready \cup {doing[w]} /\ doing[w] \notin ready
      /\ doing[w] \in 1..ReduceItems
      /\ ready' \in SUBSET (1..ReduceItems)
      /\ \A v \in ReduceThreads \ {w} : doing'[v] = doing[v] /\ at'[v] = at[v]
      /\ \A v \in ReduceThreads \ {w} : doing[v] # doing[w]
      /\ doing'[w] = 0 /\ at'[w] = "idle"
      /\ doing' \in [ReduceThreads -> 0..ReduceItems]
      /\ at' \in [ReduceThreads -> {"idle", "mapping", "mapped", "recording"}]
      /\ Working'
      BY <1>1, ReduceReturns
<1>3. serial_futures \in Seq(1..ReduceItems)
      BY DEF Reduction!TypeOK
<1>4. /\ serial_futures' \in Seq(1..ReduceItems)
      /\ Len(serial_futures) \in Nat
      /\ Len(serial_futures') = Len(serial_futures) + 1
      /\ \A n \in 1..Len(serial_futures) : serial_futures'[n] = serial_futures[n]
      /\ {serial_futures'[n] : n \in 1..Len(serial_futures')}
           = {serial_futures[n] : n \in 1..Len(serial_futures)} \cup {doing[w]}
      BY <1>1, <1>2, <1>3, AppendHas
<1>5. Handed' = Handed
      BY <1>1, <1>2 DEF Handed
<1>6. Reduction!TypeOK'
  <2>1. serial_futures' \in Seq(1..ReduceItems)
        BY <1>4
  <2>2. /\ UNCHANGED <<strategy, submitted, reduce_main, k, computed, mapped,
                       serial_pool, total_sum, reduced>>
        /\ ready' \in SUBSET (1..ReduceItems)
        /\ doing' \in [ReduceThreads -> 0..ReduceItems]
        /\ at' \in [ReduceThreads -> {"idle", "mapping", "mapped", "recording"}]
        BY <1>1, <1>2
  <2>3. PlaceTypes'
        BY <2>1, <2>2, ReduceTypes DEF PlaceTypes
  <2>4. CountTypes'
        BY <2>1, <2>2, ReduceTypes DEF CountTypes
  <2> QED BY <2>2, <2>3, <2>4, ReduceTypes
<1>7. Results'
  <2>1. mapped' = mapped /\ at[w] # "mapping"
        BY <1>1
  <2>2. /\ ready' = ready \cup {doing[w]}
        /\ \A v \in ReduceThreads \ {w} : doing'[v] = doing[v] /\ at'[v] = at[v]
        /\ doing'[w] = 0
        BY <1>2
  <2>3. ASSUME NEW i \in 1..ReduceItems
        PROVE  i \in mapped' <=>
                 i \in ready' \/ \E v \in ReduceThreads : doing'[v] = i /\ at'[v] # "mapping"
    <3>1. i \in mapped <=>
            i \in ready \/ \E v \in ReduceThreads : doing[v] = i /\ at[v] # "mapping"
          BY DEF Results
    <3> QED BY <2>1, <2>2, <3>1
  <2> QED BY <2>3 DEF Results
<1>8. InSerialPool'
      BY <1>1, <1>5 DEF InSerialPool
<1>9. MainKnows' /\ reduce_main # "serial"
      BY <1>1, <1>2 DEF MainKnows
<1>10. Recorded'
  <2>1. Cardinality(ready') = Cardinality(ready) + 1
        BY <1>2, ReadyCount DEF Reduction!TypeOK
  <2> QED BY <1>1, <1>2, <1>4, <1>9, <2>1 DEF Recorded
<1>11. Summed'
      BY <1>1 DEF Summed
<1> QED BY <1>1, <1>2, <1>6, <1>7, <1>8, <1>9, <1>10, <1>11

\* dual: the other pool reduces the item at the front.
LEMMA ReduceInOther ==
  ASSUME ReduceInv, Reduction!ReduceInPool
  PROVE  /\ ReduceInv' /\ UNCHANGED <<computed, reduce_main>>
         /\ Head(serial_pool) \in mapped \ reduced
         /\ Head(serial_pool) \in 1..ReduceItems
         /\ total_sum' = [total_sum EXCEPT ![Head(serial_pool)] = @ + 1]
<1> USE ReduceNames DEF ReduceDefs, ReduceInv
<1>1. /\ UNCHANGED <<strategy, submitted, reduce_main, k, doing, at, ready,
                     computed, mapped, serial_futures>>
      /\ serial_pool # <<>> /\ serial_pool' = Tail(serial_pool)
      /\ total_sum' = [total_sum EXCEPT ![Head(serial_pool)] = @ + 1]
      BY DEF Reduction!ReduceInPool, mapped
<1>2. serial_pool \in Seq(1..ReduceItems)
      BY DEF Reduction!TypeOK
<1>3. /\ serial_pool' \in Seq(1..ReduceItems)
      /\ Len(serial_pool) \in Nat /\ Len(serial_pool) >= 1
      /\ Len(serial_pool') = Len(serial_pool) - 1
      /\ \A n \in 1..Len(serial_pool') : serial_pool'[n] = serial_pool[n + 1]
      /\ Head(serial_pool) = serial_pool[1]
      /\ serial_pool[1] \in 1..ReduceItems
      BY <1>1, <1>2, HeadTailProperties, LenProperties, ElementOfSeq, EmptySeq
<1>4. PICK i \in 1..ReduceItems : i = serial_pool[1] /\ i = Head(serial_pool)
      BY <1>3
<1>5. strategy = "dual"
  <2>1. serial_pool # <<>> => strategy = "dual"
        BY DEF InSerialPool
  <2> QED BY <1>1, <2>1
<1>6. Reduction!TypeOK' /\ reduced' = reduced \cup {i}
  <2>1. total_sum \in [1..ReduceItems -> Nat]
        BY DEF Reduction!TypeOK
  <2>2. /\ total_sum' \in [1..ReduceItems -> Nat]
        /\ reduced' = reduced \cup {i}
        BY <1>1, <1>4, <2>1, CountAdds DEF reduced
  <2>3. PlaceTypes'
        BY <1>1, <1>3, <2>2, ReduceTypes DEF PlaceTypes
  <2>4. CountTypes'
        BY <1>1, <1>3, <2>2, ReduceTypes DEF CountTypes
  <2> QED BY <2>2, <2>3, <2>4, ReduceTypes
<1>7. Working' /\ Results' /\ Recorded'
      BY <1>1, <1>6 DEF Working, Results, Recorded
<1>8. i \in Handed \ reduced
      BY <1>3, <1>4, <1>5 DEF InSerialPool
<1>9. i \in mapped
      BY <1>8 DEF Handed, Results
<1>10. InSerialPool'
  <2>1. {serial_pool[n] : n \in 1..Len(serial_pool)}
          = {serial_pool'[n] : n \in 1..Len(serial_pool')} \cup {i}
    <3>1. ASSUME NEW n \in 1..Len(serial_pool), n # 1
          PROVE  \E m \in 1..Len(serial_pool') : serial_pool'[m] = serial_pool[n]
      <4>1. n - 1 \in 1..Len(serial_pool') /\ (n - 1) + 1 = n
            BY <1>3, <3>1
      <4> QED BY <1>3, <4>1
    <3>2. \A m \in 1..Len(serial_pool') : m + 1 \in 1..Len(serial_pool)
          BY <1>3
    <3>3. 1 \in 1..Len(serial_pool)
          BY <1>3
    <3>4. \A n \in 1..Len(serial_pool) :
            \/ serial_pool[n] = i
            \/ \E m \in 1..Len(serial_pool') : serial_pool[n] = serial_pool'[m]
          BY <1>4, <3>1
    <3>5. \A m \in 1..Len(serial_pool') :
            \E n \in 1..Len(serial_pool) : serial_pool'[m] = serial_pool[n]
          BY <1>3, <3>2
    <3>6. \E n \in 1..Len(serial_pool) : i = serial_pool[n]
          BY <1>4, <3>3
    <3>7. ASSUME NEW x
          PROVE  (\E n \in 1..Len(serial_pool) : x = serial_pool[n]) <=>
                   (\E n \in 1..Len(serial_pool') : x = serial_pool'[n]) \/ x = i
          BY <3>4, <3>5, <3>6
    <3> QED BY <3>7
  <2>2. \A n \in 1..Len(serial_pool') : n + 1 \in 1..Len(serial_pool) /\ n + 1 # 1
        BY <1>3
  <2>3. 1 \in 1..Len(serial_pool)
        BY <1>3
  <2>4. \A n \in 1..Len(serial_pool') : serial_pool'[n] # i
        BY <1>3, <1>4, <1>5, <2>2, <2>3 DEF InSerialPool
  <2>5. Handed' = Handed
        BY <1>1 DEF Handed
  <2>6. {serial_pool'[n] : n \in 1..Len(serial_pool')} \cup reduced' = Handed'
        BY <1>1, <1>4, <1>5, <1>6, <2>1, <2>5 DEF InSerialPool
  <2>7. \A n \in 1..Len(serial_pool') : serial_pool'[n] \notin reduced'
        BY <1>1, <1>3, <1>4, <1>5, <1>6, <2>2, <2>4 DEF InSerialPool
  <2>8. \A m, n \in 1..Len(serial_pool') :
          serial_pool'[m] = serial_pool'[n] => m = n
    <3> SUFFICES ASSUME NEW m \in 1..Len(serial_pool'), NEW n \in 1..Len(serial_pool'),
                        serial_pool'[m] = serial_pool'[n]
                 PROVE  m = n
        OBVIOUS
    <3>1. serial_pool[m + 1] = serial_pool[n + 1]
          BY <1>3
    <3>2. \A a, b \in 1..Len(serial_pool) :
            serial_pool[a] = serial_pool[b] => a = b
          BY <1>5 DEF InSerialPool
    <3>3. m + 1 = n + 1
          BY <2>2, <3>1, <3>2
    <3> QED BY <1>3, <3>3
  <2> QED BY <1>1, <1>5, <2>6, <2>7, <2>8 DEF InSerialPool
<1>11. Summed' /\ MainKnows'
      BY <1>1, <1>5, <1>6, <1>8 DEF Summed, MainKnows, Handed, Reduction!TypeOK
<1> QED BY <1>1, <1>4, <1>6, <1>7, <1>8, <1>9, <1>10, <1>11

\* main gets a future.
LEMMA ReduceGets ==
  ReduceInv /\ Reduction!Get
    => ReduceInv' /\ UNCHANGED <<computed, total_sum, reduce_main = "finished">>
<1> SUFFICES ASSUME ReduceInv, Reduction!Get
             PROVE  ReduceInv' /\ UNCHANGED <<computed, total_sum,
                                              reduce_main = "finished">>
    OBVIOUS
<1> USE ReduceNames DEF ReduceDefs, ReduceInv
<1>1. /\ UNCHANGED <<strategy, submitted, doing, at, ready, computed, mapped,
                     serial_pool, serial_futures, total_sum, reduced>>
      /\ reduce_main = "getting" /\ k \in ready
      /\ \/ /\ strategy \in {"pipeline", "std_async"}
            /\ reduce_main' = "reducing" /\ k' = k
         \/ /\ strategy \notin {"pipeline", "std_async"}
            /\ reduce_main' = "getting" /\ k' = k + 1
      BY DEF Reduction!Get, mapped, reduced
<1>2. k \in 1..ReduceItems
      BY <1>1 DEF Reduction!TypeOK
<1>3. Reduction!TypeOK'
  <2>1. PlaceTypes'
        BY <1>1, <1>2, ReduceTypes DEF PlaceTypes
  <2>2. CountTypes'
        BY <1>1, <1>2, ReduceTypes DEF CountTypes
  <2> QED BY <2>1, <2>2, ReduceTypes
<1>4. Working' /\ Results' /\ InSerialPool'
      BY <1>1 DEF Working, Results, InSerialPool, Handed
<1>5. Recorded'
      BY <1>1 DEF Recorded
<1>6. Summed'
      BY <1>1 DEF Summed
<1>7. 1..k \subseteq ready
  <2>1. \A n \in 1..k : n \in 1..k - 1 \/ n = k
        BY <1>2
  <2> QED BY <1>1, <2>1 DEF MainKnows
<1>8. MainKnows'
  <2>1. (k + 1) - 1 = k
        BY <1>2
  <2> QED BY <1>1, <1>2, <1>7, <2>1 DEF MainKnows
<1> QED BY <1>1, <1>3, <1>4, <1>5, <1>6, <1>8

\* main adds a result.
LEMMA ReduceByMain ==
  ReduceInv /\ Reduction!ReduceInMain
    => /\ ReduceInv' /\ UNCHANGED <<computed, reduce_main = "finished">>
       /\ k \in mapped \ reduced /\ k \in 1..ReduceItems
       /\ total_sum' = [total_sum EXCEPT ![k] = @ + 1]
<1> SUFFICES ASSUME ReduceInv, Reduction!ReduceInMain
             PROVE  /\ ReduceInv' /\ UNCHANGED <<computed,
                                                 reduce_main = "finished">>
                    /\ k \in mapped \ reduced /\ k \in 1..ReduceItems
                    /\ total_sum' = [total_sum EXCEPT ![k] = @ + 1]
    OBVIOUS
<1> USE ReduceNames DEF ReduceDefs, ReduceInv
<1>1. /\ UNCHANGED <<strategy, submitted, doing, at, ready, computed, mapped,
                     serial_pool, serial_futures>>
      /\ reduce_main = "reducing" /\ k <= ReduceItems
      /\ total_sum' = [total_sum EXCEPT ![k] = @ + 1] /\ k' = k + 1
      /\ reduce_main' = IF strategy = "block" THEN "reducing" ELSE "getting"
      BY DEF Reduction!ReduceInMain, mapped
<1>2. k \in 1..ReduceItems
      BY <1>1 DEF Reduction!TypeOK
<1>3. Reduction!TypeOK' /\ reduced' = reduced \cup {k}
  <2>1. total_sum \in [1..ReduceItems -> Nat]
        BY DEF Reduction!TypeOK
  <2>2. /\ total_sum' \in [1..ReduceItems -> Nat]
        /\ reduced' = reduced \cup {k}
        BY <1>1, <1>2, <2>1, CountAdds DEF reduced
  <2>3. PlaceTypes'
        BY <1>1, <1>2, <2>2, ReduceTypes DEF PlaceTypes
  <2>4. CountTypes'
        BY <1>1, <1>2, <2>2, ReduceTypes DEF CountTypes
  <2> QED BY <2>2, <2>3, <2>4, ReduceTypes
<1>4. Working' /\ Results'
      BY <1>1 DEF Working, Results
<1>5. strategy \in {"block", "pipeline", "std_async"} /\ k \in ready
      BY <1>1, <1>2 DEF MainKnows
<1>6. InSerialPool' /\ Recorded'
      BY <1>1, <1>5 DEF InSerialPool, Recorded
<1>7. reduced = 1..k - 1
      BY <1>1, <1>5 DEF Summed
<1>8. k \in mapped \ reduced
      BY <1>2, <1>5, <1>7 DEF Results
<1>9. reduced' = 1..k' - 1
  <2>1. k' - 1 = k /\ 1..k = 1..k - 1 \cup {k}
        BY <1>1, <1>2
  <2> QED BY <1>1, <1>3, <1>7, <2>1
<1>10. Summed'
      BY <1>1, <1>5, <1>9 DEF Summed
<1>11. MainKnows'
  <2>1. k' - 1 = k
        BY <1>1, <1>2
  <2>2. CASE strategy = "block"
        BY <1>1, <2>2 DEF MainKnows
  <2>3. CASE strategy # "block"
    <3>1. 1..k \subseteq ready
          BY <1>1, <2>3 DEF MainKnows
    <3> QED BY <1>1, <2>1, <2>3, <3>1 DEF MainKnows
  <2> QED BY <2>2, <2>3
<1> QED BY <1>1, <1>2, <1>3, <1>4, <1>6, <1>8, <1>10, <1>11

\* main leaves a loop; the benchmark has ended only when all is in the sum.
LEMMA ReduceEnds ==
  ReduceInv /\ Reduction!EndLoop
    => /\ ReduceInv' /\ UNCHANGED <<computed, total_sum>>
       /\ reduce_main # "finished"
       /\ reduce_main' = "finished" => reduced = 1..ReduceItems
<1> SUFFICES ASSUME ReduceInv, Reduction!EndLoop
             PROVE  /\ ReduceInv' /\ UNCHANGED <<computed, total_sum>>
                    /\ reduce_main # "finished"
                    /\ reduce_main' = "finished" => reduced = 1..ReduceItems
    OBVIOUS
<1> USE ReduceNames DEF ReduceDefs, ReduceInv
<1>1. /\ UNCHANGED <<strategy, submitted, doing, at, ready, computed, mapped,
                     serial_pool, serial_futures, total_sum, reduced>>
      /\ reduce_main \in {"getting", "reducing"} /\ k = ReduceItems + 1 /\ k' = 1
      /\ reduce_main' = CASE reduce_main = "getting" /\ strategy = "block" -> "reducing"
                          [] reduce_main = "getting" /\ strategy = "dual"  -> "serial"
                          [] OTHER -> "finished"
      BY DEF Reduction!EndLoop, mapped, reduced
<1>2. k - 1 = ReduceItems /\ k' - 1 = 0
      BY <1>1
<1>3. Reduction!TypeOK'
  <2>1. PlaceTypes'
        BY <1>1, ReduceTypes DEF PlaceTypes
  <2>2. CountTypes'
        BY <1>1, ReduceTypes DEF CountTypes
  <2> QED BY <2>1, <2>2, ReduceTypes
<1>4. Working' /\ Results' /\ InSerialPool'
      BY <1>1 DEF Working, Results, InSerialPool, Handed
<1>5. strategy \in {"block", "pipeline", "std_async", "dual", "parallel_reduce"}
      BY DEF Reduction!TypeOK, Reduction!Strategies
<1>6. ready \subseteq 1..ReduceItems
      BY DEF Reduction!TypeOK
<1>7. CASE reduce_main = "getting"
  <2>1. ready = 1..ReduceItems
        BY <1>2, <1>6, <1>7 DEF MainKnows
  <2>2. submitted = ReduceItems
        BY <1>7 DEF MainKnows
  <2>3. 1..k' - 1 = {}
        BY <1>2
  <2>4. CASE strategy = "block"
    <3>1. reduced = {} /\ reduce_main' = "reducing"
          BY <1>1, <1>7, <2>4 DEF Summed
    <3>2. Summed'
          BY <1>1, <2>3, <2>4, <3>1 DEF Summed
    <3>3. MainKnows'
          BY <1>1, <2>1, <2>2, <2>4, <3>1 DEF MainKnows
    <3>4. Recorded'
          BY <1>1, <2>4 DEF Recorded
    <3> QED BY <1>1, <1>3, <1>4, <3>1, <3>2, <3>3, <3>4
  <2>5. CASE strategy = "dual"
    <3>1. reduce_main' = "serial"
          BY <1>1, <1>7, <2>5
    <3>2. Summed'
          BY <1>1, <2>5 DEF Summed
    <3>3. MainKnows'
          BY <1>1, <2>1, <2>2, <2>5, <3>1 DEF MainKnows
    <3>4. Recorded'
          BY <1>1, <2>3, <2>5 DEF Recorded
    <3> QED BY <1>1, <1>3, <1>4, <3>1, <3>2, <3>3, <3>4
  <2>6. CASE strategy \in {"pipeline", "std_async", "parallel_reduce"}
    <3>1. reduce_main' = "finished"
          BY <1>1, <1>7, <2>6
    <3>2. reduced = 1..ReduceItems
          BY <1>2, <1>7, <2>1, <2>6 DEF Summed
    <3>3. Summed'
          BY <1>1, <2>1, <2>6, <3>1, <3>2 DEF Summed
    <3>4. MainKnows'
          BY <1>1, <2>1, <2>2, <3>1, <3>2 DEF MainKnows
    <3>5. Recorded'
          BY <1>1, <2>6 DEF Recorded
    <3> QED BY <1>1, <1>3, <1>4, <3>2, <3>3, <3>4, <3>5
  <2> QED BY <1>5, <2>4, <2>5, <2>6
<1>8. CASE reduce_main = "reducing"
  <2>1. strategy = "block" /\ ready = 1..ReduceItems /\ submitted = ReduceItems
        BY <1>1, <1>8 DEF MainKnows
  <2>2. reduce_main' = "finished"
        BY <1>1, <1>8
  <2>3. reduced = 1..ReduceItems
        BY <1>2, <1>8, <2>1 DEF Summed
  <2>4. Summed'
        BY <1>1, <2>1, <2>2, <2>3 DEF Summed
  <2>5. MainKnows'
        BY <1>1, <2>1, <2>2, <2>3 DEF MainKnows
  <2>6. Recorded'
        BY <1>1, <2>1 DEF Recorded
  <2> QED BY <1>1, <1>3, <1>4, <2>3, <2>4, <2>5, <2>6
<1> QED BY <1>1, <1>7, <1>8

\* dual: main gets the futures of the other pool.
LEMMA ReduceGetsSerial ==
  ReduceInv /\ Reduction!GetSerial
    => /\ ReduceInv' /\ UNCHANGED <<computed, total_sum>>
       /\ reduce_main # "finished"
       /\ reduce_main' = "finished" => reduced = 1..ReduceItems
<1> SUFFICES ASSUME ReduceInv, Reduction!GetSerial
             PROVE  /\ ReduceInv' /\ UNCHANGED <<computed, total_sum>>
                    /\ reduce_main # "finished"
                    /\ reduce_main' = "finished" => reduced = 1..ReduceItems
    OBVIOUS
<1> USE ReduceNames DEF ReduceDefs, ReduceInv
<1>0. /\ total_sum \in [1..ReduceItems -> Nat] /\ k \in 1..ReduceItems + 1
      /\ Len(serial_futures) \in Nat
      /\ \A n \in 1..Len(serial_futures) : serial_futures[n] \in 1..ReduceItems
      BY LenProperties, ElementOfSeq DEF Reduction!TypeOK
<1>1. /\ UNCHANGED <<strategy, submitted, doing, at, ready, computed, mapped,
                     serial_pool, serial_futures, total_sum, reduced>>
      /\ reduce_main = "serial"
      /\ \/ k > Len(serial_futures) /\ reduce_main' = "finished" /\ k' = k
         \/ /\ k <= Len(serial_futures) /\ serial_futures[k] \in reduced
            /\ k' = k + 1 /\ reduce_main' = "serial"
      BY <1>0 DEF Reduction!GetSerial, reduced, mapped
<1>2. /\ strategy = "dual" /\ ready = 1..ReduceItems /\ submitted = ReduceItems
      /\ k \in Nat /\ k >= 1
      BY <1>1 DEF MainKnows, Reduction!TypeOK
<1>3. Len(serial_futures) = ReduceItems
  <2>1. Cardinality(1..ReduceItems) = ReduceItems
        BY FS_Interval
  <2> QED BY <1>2, <2>1 DEF Recorded
<1>4. Reduction!TypeOK'
  <2>1. PlaceTypes'
        BY <1>1, <1>2, <1>3, ReduceTypes DEF PlaceTypes
  <2>2. CountTypes'
        BY <1>1, <1>2, <1>3, ReduceTypes DEF CountTypes
  <2> QED BY <2>1, <2>2, ReduceTypes
<1>5. Working' /\ Results' /\ InSerialPool'
      BY <1>1 DEF Working, Results, InSerialPool, Handed
<1>6. CASE k > Len(serial_futures)
  <2>1. \A n \in 1..Len(serial_futures) : n \in 1..k - 1
        BY <1>2, <1>3, <1>6
  <2>2. \A i \in 1..ReduceItems : i \in reduced
        BY <1>1, <1>2, <2>1 DEF Recorded
  <2>3. reduced = 1..ReduceItems
        BY <2>2 DEF reduced
  <2>4. reduce_main' = "finished"
        BY <1>1, <1>2, <1>3, <1>6
  <2>5. Recorded'
        BY <1>1, <2>4 DEF Recorded
  <2>6. Summed' /\ MainKnows'
        BY <1>1, <1>2, <2>3, <2>4 DEF Summed, MainKnows
  <2> QED BY <1>1, <1>4, <1>5, <2>3, <2>5, <2>6
<1>7. CASE k <= Len(serial_futures)
  <2>1. /\ serial_futures[k] \in reduced /\ k' = k + 1 /\ reduce_main' = "serial"
        BY <1>1, <1>2, <1>3, <1>7
  <2>2. \A n \in 1..k' - 1 : n \in 1..k - 1 \/ n = k
        BY <1>2, <2>1
  <2>3. Recorded'
        BY <1>1, <1>2, <2>1, <2>2 DEF Recorded
  <2>4. Summed' /\ MainKnows'
        BY <1>1, <1>2, <2>1 DEF Summed, MainKnows
  <2> QED BY <1>1, <1>4, <1>5, <2>1, <2>3, <2>4
<1> QED BY <1>2, <1>3, <1>6, <1>7

\* A step of a benchmark is a step of MapReduce or none.
LEMMA ReduceSteps ==
  ReduceInv /\ Once /\ Reduction!Next
    => /\ ReduceInv' /\ Once'
       /\ [Reduction!Iteration!Next]_(Reduction!Iteration!vars)
<1> SUFFICES ASSUME ReduceInv, Once, Reduction!Next
             PROVE  /\ ReduceInv' /\ Once'
                    /\ [Reduction!Iteration!Next]_(Reduction!Iteration!vars)
    OBVIOUS
<1> DEFINE Mapping(i)  == /\ i \in 1..ReduceItems \ mapped
                          /\ computed' = [computed EXCEPT ![i] = @ + 1]
                          /\ UNCHANGED <<total_sum, reduce_main = "finished">>
           Reducing(i) == /\ i \in mapped \ reduced /\ i \in 1..ReduceItems
                          /\ total_sum' = [total_sum EXCEPT ![i] = @ + 1]
                          /\ UNCHANGED <<computed, reduce_main = "finished">>
           Ending      == /\ reduce_main # "finished"
                          /\ reduce_main' = "finished" => reduced = 1..ReduceItems
                          /\ UNCHANGED <<computed, total_sum>>
           Staying     == UNCHANGED <<computed, total_sum,
                                      reduce_main = "finished">>
<1>1. /\ ReduceInv'
      /\ (\E i : Mapping(i)) \/ (\E i : Reducing(i)) \/ Ending \/ Staying
  <2>1. CASE Reduction!Submit
        BY <2>1, ReduceSubmits
  <2>2. CASE Reduction!Get
        BY <2>2, ReduceGets
  <2>3. CASE Reduction!ReduceInMain
    <3>1. ReduceInv' /\ Reducing(k)
          BY <2>3, ReduceByMain
    <3> QED BY <3>1
  <2>4. CASE Reduction!EndLoop
        BY <2>4, ReduceEnds
  <2>5. CASE Reduction!GetSerial
        BY <2>5, ReduceGetsSerial
  <2>6. CASE Reduction!ReduceInPool
    <3>1. ReduceInv' /\ Reducing(Head(serial_pool))
          BY <2>6, ReduceInOther
    <3> QED BY <3>1
  <2>7. ASSUME NEW w \in ReduceThreads, Reduction!Thread(w)
        PROVE  /\ ReduceInv'
               /\ (\E i : Mapping(i)) \/ (\E i : Reducing(i)) \/ Ending \/ Staying
    <3>1. CASE \E i \in 1..ReduceItems : Reduction!Take(w, i)
          BY <3>1, ReduceTakes
    <3>2. CASE Reduction!Map(w)
      <4>1. ReduceInv' /\ Mapping(doing[w])
            BY <3>2, ReduceMaps
      <4> QED BY <4>1
    <3>3. CASE Reduction!ReduceInWorker(w)
      <4>1. w \in ReduceThreads /\ at[w] # "idle"
            BY <3>3 DEF Reduction!ReduceInWorker
      <4>2. doing[w] \in 1..ReduceItems
            BY <4>1, WorkIsItem
      <4>3. ReduceInv' /\ Reducing(doing[w])
            BY <3>3, <4>2, ReduceAdds
      <4> QED BY <4>3
    <3>4. CASE Reduction!HandOver(w)
          BY <3>4, ReduceHandsOver
    <3>5. CASE Reduction!Record(w)
          BY <3>5, ReduceRecords
    <3> QED BY <2>7, <3>1, <3>2, <3>3, <3>4, <3>5, ReduceNames
            DEF Reduction!Thread, ReduceDefs
  <2> QED BY <2>1, <2>2, <2>3, <2>4, <2>5, <2>6, <2>7, ReduceNames
          DEF Reduction!Next, Reduction!Main, ReduceDefs
<1>2. /\ computed \in [1..ReduceItems -> Nat]
      /\ total_sum \in [1..ReduceItems -> Nat]
      BY ReduceNames DEF ReduceDefs, ReduceInv, Reduction!TypeOK
<1>3. ASSUME NEW i, Mapping(i) PROVE Once' /\ Reduction!Iteration!Next
  <2>1. i \in 1..ReduceItems /\ computed[i] = 0
        BY <1>3 DEF mapped
  <2>2. Reduction!Iteration!Map(i)
        BY <1>3, <2>1 DEF Reduction!Iteration!Map
  <2>3. Once'
        BY <1>2, <1>3, <2>1 DEF Once
  <2> QED BY <2>1, <2>2, <2>3, ReduceNames DEF Reduction!Iteration!Next, ReduceDefs
<1>4. ASSUME NEW i, Reducing(i) PROVE Once' /\ Reduction!Iteration!Next
  <2>1. i \in 1..ReduceItems /\ computed[i] # 0 /\ total_sum[i] = 0
        BY <1>4 DEF mapped, reduced
  <2>2. computed[i] = 1
        BY <1>2, <2>1 DEF Once
  <2>3. Reduction!Iteration!Reduce(i)
        BY <1>4, <2>1, <2>2 DEF Reduction!Iteration!Reduce
  <2>4. Once'
        BY <1>2, <1>4, <2>1 DEF Once
  <2> QED BY <2>1, <2>3, <2>4, ReduceNames DEF Reduction!Iteration!Next, ReduceDefs
<1>5. Ending => Once' /\ [Reduction!Iteration!Next]_(Reduction!Iteration!vars)
  <2> SUFFICES ASSUME Ending
               PROVE  Once' /\ [Reduction!Iteration!Next]_(Reduction!Iteration!vars)
      OBVIOUS
  <2>1. CASE reduce_main' = "finished"
    <3>1. \A i \in 1..ReduceItems : total_sum[i] # 0
          BY <2>1 DEF reduced
    <3>2. \A i \in 1..ReduceItems : total_sum[i] = 1
          BY <1>2, <3>1 DEF Once
    <3>3. Reduction!Iteration!Finish
          BY <2>1, <3>2, ReduceNames DEF Reduction!Iteration!Finish, ReduceDefs
    <3> QED BY <3>3 DEF Reduction!Iteration!Next, Once
  <2>2. CASE reduce_main' # "finished"
        BY <2>2 DEF Reduction!Iteration!vars, Once
  <2> QED BY <2>1, <2>2
<1>6. Staying => Once' /\ UNCHANGED Reduction!Iteration!vars
      BY DEF Reduction!Iteration!vars, Once
<1> HIDE DEF Mapping, Reducing, Ending, Staying
<1> QED BY <1>1, <1>3, <1>4, <1>5, <1>6

\* While another program runs nothing happens to the five.
LEMMA ReduceIdles ==
  ReduceInv /\ Once /\ UNCHANGED reduceVars
    => ReduceInv' /\ Once' /\ UNCHANGED Reduction!Iteration!vars
<1> SUFFICES ASSUME ReduceInv, Once, UNCHANGED reduceVars
             PROVE  ReduceInv' /\ Once' /\ UNCHANGED Reduction!Iteration!vars
    OBVIOUS
<1> USE DEF reduceVars, ReduceInv
<1>0. UNCHANGED <<mapped, reduced>> /\ Once'
      BY DEF mapped, reduced, Once
<1>1. Reduction!TypeOK'
  <2>1. PlaceTypes'
        BY ReduceTypes DEF PlaceTypes
  <2>2. CountTypes'
        BY ReduceTypes DEF CountTypes
  <2> QED BY <2>1, <2>2, ReduceTypes
<1>2. Working' /\ Results' /\ InSerialPool' /\ Recorded'
      BY <1>0 DEF Working, Results, InSerialPool, Recorded, Handed
<1>3. Summed' /\ MainKnows'
      BY <1>0 DEF Summed, MainKnows
<1> QED BY <1>0, <1>1, <1>2, <1>3 DEF Reduction!Iteration!vars

LEMMA ReduceStep ==
  ReduceInv /\ Once /\ [Next]_vars
    => /\ ReduceInv' /\ Once'
       /\ [Reduction!Iteration!Next]_(Reduction!Iteration!vars)
<1>1. Next => (program = "reduce" /\ Reduction!Next) \/ UNCHANGED reduceVars
      BY DEF Next, RunReduction, RunSearch, RunCover, RunThreaded, RunTbb,
             RunGate, RunTeam, RunSplitting, RunSlotted, RunSteal
<1>2. UNCHANGED vars => UNCHANGED reduceVars
      BY DEF vars
<1> QED BY <1>1, <1>2, ReduceSteps, ReduceIdles

\* What the invariant says about dual's vector of futures.
LEMMA ReduceConsistent == ReduceInv => Reduction!Consistent
<1> SUFFICES ASSUME ReduceInv PROVE Reduction!Consistent
    OBVIOUS
<1> USE ReduceNames DEF ReduceDefs, ReduceInv
<1>1. CASE reduce_main = "serial"
  <2>1. strategy = "dual" /\ ready = 1..ReduceItems
        BY <1>1 DEF MainKnows
  <2>2. Cardinality(1..ReduceItems) = ReduceItems
        BY FS_Interval
  <2>3. Reduction!ToSet(serial_futures) = 1..ReduceItems
    <3>1. serial_futures \in Seq(1..ReduceItems)
          BY DEF Reduction!TypeOK
    <3>2. DOMAIN serial_futures = 1..Len(serial_futures)
          BY <3>1, LenProperties
    <3> QED BY <2>1, <3>2 DEF Recorded, Reduction!ToSet
  <2>4. ASSUME NEW w \in ReduceThreads PROVE at[w] = "idle"
    <3>1. doing[w] \in 0..ReduceItems /\ doing[w] \notin 1..ReduceItems
          BY <2>1 DEF Working, Reduction!TypeOK
    <3> QED BY <3>1 DEF Working
  <2> QED BY <2>1, <2>2, <2>3, <2>4
          DEF Reduction!Consistent, Reduction!FuturesComplete, Recorded
<1>2. CASE reduce_main # "serial"
      BY <1>2 DEF Reduction!Consistent, Reduction!FuturesComplete
<1> QED BY <1>1, <1>2

\* block, pipeline, std_async, dual and parallel_reduce implement MapReduce:
\* every item is computed once, whichever threads reduce its result is added
\* to the sum once, after it was computed, and all results are in the sum when
\* the benchmark ends (case3_submitTasks.cpp).
THEOREM ReducesCorrect == Spec => Reduces
<1>1. Init => Reduction!Iteration!Init
  <2> SUFFICES ASSUME Reduction!Init PROVE Reduction!Iteration!Init
      BY DEF Init
  <2> QED BY DEF Reduction!Init, Reduction!Iteration!Init
<1> QED BY <1>1, ReduceBegins, ReduceStep, PTL
        DEF Spec, Reduces, Reduction!Reduces, Reduction!Iteration!Spec
-----------------------------------------------------------------------------
\* The pools of lib/tbbThreadPool.


TbbThreads == PoolThreads \cup Helpers \cup {PoolOwner}

\* A callable is in the queue exactly while its future says so, and once.
TbbQueue ==
  /\ \A m, n \in 1..Len(tasks) : tasks[m] = tasks[n] => m = n
  /\ \A c \in PoolTasks :
       (\E n \in 1..Len(tasks) : tasks[n] = c) <=> status[c] = "queued"

\* A thread runs one callable, which no other thread has; whoever is to start
\* one has none.
TbbHolders ==
  /\ \A x \in TbbThreads : cur[x] # {} =>
       /\ tbb_pc[x] \in {"running", "enqueueing", "dangling"}
       /\ \E c \in PoolTasks : cur[x] = {c}
  /\ \A x, y \in TbbThreads : \A c \in PoolTasks :
       c \in cur[x] /\ c \in cur[y] => x = y
  /\ \A c \in PoolTasks :
       status[c] = "running" <=> \E x \in TbbThreads : c \in cur[x]

Gone == {"released", "destroyed"}

\* ParallelLib: the owner runs no callables, and joins its threads.
TbbArena ==
  lib = "arena" =>
    /\ cur[PoolOwner] = {}
    /\ tbb_pc[PoolOwner] \in (Tbb!OwnerPlaces \ {"waiting"}) \cup {"enqueueing"}
    /\ tbb_pc[PoolOwner] \in Gone => \A w \in PoolThreads : tbb_pc[w] = "exited"

\* The pools over a task_group: nobody polls, and wait() leaves nothing.
TbbGroup ==
  lib = "group" =>
    /\ \A x \in TbbThreads :
         tbb_pc[x] \in {"idle", "running", "getting", "waiting"} \cup Gone
    /\ tbb_pc[PoolOwner] \in Gone => tasks = <<>> /\ \A x \in TbbThreads : cur[x] = {}
    /\ lambdas = 0

\* There is a lambda for a submission at most.
Pushing   == {x \in TbbThreads : tbb_pc[x] = "enqueueing"}
Submitted == {c \in PoolTasks : status[c] # "new"}
TbbRoom   == /\ IsFiniteSet(Pushing)
             /\ lambdas \in Nat
             /\ lambdas + Cardinality(Pushing) <= Cardinality(Submitted)

\* The types without the bound of lambdas.
TbbTypes ==
  /\ lib \in {"arena", "group"} /\ granted \in SUBSET Helpers
  /\ tasks \in Seq(PoolTasks)
  /\ stop \in BOOLEAN
  /\ tbb_pc \in [TbbThreads -> Tbb!Places]
  /\ cur \in [TbbThreads -> SUBSET PoolTasks]
  /\ awaited \in SUBSET PoolTasks
  /\ status \in [PoolTasks -> {"new", "queued", "running", "ready", "broken"}]

TbbInv == /\ TbbTypes /\ TbbQueue /\ TbbHolders /\ TbbArena /\ TbbGroup /\ TbbRoom

TbbNames == /\ Tbb!Threads = TbbThreads
            /\ PoolOwner \notin PoolThreads \cup Helpers
            /\ PoolThreads \cap Helpers = {}
            /\ PoolOwner \in TbbThreads
            /\ PoolThreads \subseteq TbbThreads /\ Helpers \subseteq TbbThreads

LEMMA TbbNamed == TbbNames
BY BenchmarkAssumption DEF TbbNames, Tbb!Threads, TbbThreads

LEMMA TbbCardinality == \A S : Tbb!Cardinality(S) = Cardinality(S)
BY DEF Tbb!Cardinality, Cardinality

\* The submitted callables are finitely many.
LEMMA SubmittedCount ==
  ASSUME NEW S \in SUBSET PoolTasks
  PROVE  /\ IsFiniteSet(S) /\ Cardinality(S) \in Nat
         /\ Cardinality(S) <= Cardinality(PoolTasks)
         /\ \A c \in PoolTasks \ S : Cardinality(S \cup {c}) = Cardinality(S) + 1
<1>1. IsFiniteSet(S) /\ Cardinality(S) <= Cardinality(PoolTasks)
      BY FS_Subset, BenchmarkAssumption
<1>2. Cardinality(S) \in Nat
      BY <1>1, FS_CardinalityType
<1>3. \A c \in PoolTasks \ S : Cardinality(S \cup {c}) = Cardinality(S) + 1
      BY <1>1, FS_AddElement
<1> QED BY <1>1, <1>2, <1>3

LEMMA TbbBegins == Init => TbbInv
<1> SUFFICES ASSUME Tbb!Init PROVE TbbInv
    BY DEF Init
<1> USE TbbNamed DEF TbbNames
<1>1. /\ lib \in {"arena", "group"} /\ granted \in SUBSET Helpers
      /\ tasks = <<>> /\ lambdas = 0 /\ stop = FALSE /\ awaited = {}
      /\ cur = [x \in TbbThreads |-> {}]
      /\ status = [c \in PoolTasks |-> "new"]
      BY DEF Tbb!Init
<1>2. /\ tbb_pc \in [TbbThreads -> {"checking", "idle"}]
      /\ tbb_pc[PoolOwner] = "idle"
      /\ lib = "group" => \A x \in TbbThreads : tbb_pc[x] = "idle"
  <2>1. tbb_pc = [x \in TbbThreads |-> IF x \in PoolThreads /\ lib = "arena"
                                       THEN "checking" ELSE "idle"]
        BY DEF Tbb!Init
  <2> QED BY <2>1
<1>3. Pushing = {} /\ Submitted = {} /\ Cardinality({}) = 0 /\ IsFiniteSet({})
      BY <1>1, <1>2, FS_EmptySet DEF Pushing, Submitted
<1>4. TbbTypes
  <2>1. tbb_pc \in [TbbThreads -> Tbb!Places]
        BY <1>2 DEF Tbb!Places, Tbb!OwnerPlaces
  <2>2. tasks \in Seq(PoolTasks) /\ stop \in BOOLEAN
        BY <1>1, EmptySeq
  <2>3. /\ cur \in [TbbThreads -> SUBSET PoolTasks]
        /\ status \in [PoolTasks -> {"new", "queued", "running", "ready", "broken"}]
        BY <1>1
  <2> QED BY <1>1, <2>1, <2>2, <2>3 DEF TbbTypes
<1>5. TbbQueue /\ TbbHolders
      BY <1>1 DEF TbbQueue, TbbHolders
<1>6. TbbArena /\ TbbGroup
      BY <1>1, <1>2 DEF TbbArena, TbbGroup, Tbb!OwnerPlaces, Gone
<1>7. TbbRoom
      BY <1>1, <1>3 DEF TbbRoom
<1> QED BY <1>4, <1>5, <1>6, <1>7 DEF TbbInv

\* A step that changes who is where, but neither the queue nor the callables.
LEMMA TbbWalks ==
  ASSUME TbbInv, NEW x \in TbbThreads, NEW place \in Tbb!Places,
         tbb_pc' = [tbb_pc EXCEPT ![x] = place],
         UNCHANGED <<lib, granted, tasks, cur, status>>,
         stop' \in BOOLEAN, awaited' \in SUBSET PoolTasks,
         cur[x] # {} => place \in {"running", "enqueueing", "dangling"},
         TbbArena', TbbGroup', TbbRoom'
  PROVE  TbbInv'
<1>1. TbbTypes'
      BY DEF TbbInv, TbbTypes
<1>2. TbbQueue'
      BY DEF TbbInv, TbbQueue
<1>3. TbbHolders'
      BY DEF TbbInv, TbbTypes, TbbHolders
<1> QED BY <1>1, <1>2, <1>3 DEF TbbInv

\* A thread starts a callable of the queue: it is the only one that runs it.
LEMMA TbbStarts ==
  ASSUME TbbInv, NEW x \in TbbThreads, NEW c \in PoolTasks, NEW r \in Seq(PoolTasks),
         Tbb!Start(x, c), tasks' = r, cur[x] = {},
         tbb_pc[x] \in {"popping", "idle", "waiting"},
         \A m, n \in 1..Len(r) : r[m] = r[n] => m = n,
         \A z : (\E n \in 1..Len(r) : r[n] = z)
                   <=> z # c /\ \E n \in 1..Len(tasks) : tasks[n] = z,
         \E n \in 1..Len(tasks) : tasks[n] = c,
         UNCHANGED <<lib, granted, lambdas, stop, awaited>>
  PROVE  /\ TbbTypes' /\ TbbQueue' /\ TbbHolders' /\ TbbRoom'
         /\ status[c] = "queued" /\ status' = [status EXCEPT ![c] = "running"]
<1> USE TbbNamed DEF TbbNames, TbbInv
<1>1. /\ cur' = [cur EXCEPT ![x] = {c}]
      /\ status' = [status EXCEPT ![c] = "running"]
      /\ tbb_pc' = [tbb_pc EXCEPT ![x] = "running"]
      BY DEF Tbb!Start, Tbb!Goto
<1>2. status[c] = "queued"
      BY DEF TbbQueue
<1>3. TbbTypes'
  <2>1. /\ cur' \in [TbbThreads -> SUBSET PoolTasks]
        /\ status' \in [PoolTasks -> {"new", "queued", "running", "ready", "broken"}]
        BY <1>1 DEF TbbTypes
  <2>2. tbb_pc' \in [TbbThreads -> Tbb!Places]
        BY <1>1 DEF TbbTypes, Tbb!Places
  <2>3. tasks' \in Seq(PoolTasks)
        OBVIOUS
  <2>4. /\ lib' \in {"arena", "group"} /\ granted' \in SUBSET Helpers
        /\ stop' \in BOOLEAN /\ awaited' \in SUBSET PoolTasks
        BY DEF TbbTypes
  <2> QED BY <2>1, <2>2, <2>3, <2>4 DEF TbbTypes
<1>4. TbbQueue'
  <2>1. \A m, n \in 1..Len(tasks') : tasks'[m] = tasks'[n] => m = n
        OBVIOUS
  <2>2. ASSUME NEW d \in PoolTasks
        PROVE  (\E n \in 1..Len(tasks') : tasks'[n] = d) <=> status'[d] = "queued"
    <3>1. (\E n \in 1..Len(tasks') : tasks'[n] = d)
            <=> d # c /\ \E n \in 1..Len(tasks) : tasks[n] = d
          OBVIOUS
    <3>2. status'[d] = IF d = c THEN "running" ELSE status[d]
          BY <1>1 DEF TbbTypes
    <3>3. (\E n \in 1..Len(tasks) : tasks[n] = d) <=> status[d] = "queued"
          BY DEF TbbQueue
    <3> QED BY <3>1, <3>2, <3>3
  <2> QED BY <2>1, <2>2 DEF TbbQueue
<1>5. /\ \A y \in TbbThreads \ {x} : cur'[y] = cur[y] /\ tbb_pc'[y] = tbb_pc[y]
      /\ cur'[x] = {c} /\ tbb_pc'[x] = "running"
      /\ \A d \in PoolTasks \ {c} : status'[d] = status[d]
      /\ status'[c] = "running"
      BY <1>1 DEF TbbTypes
<1>6. \A y \in TbbThreads : c \notin cur[y]
      BY <1>2 DEF TbbHolders
<1>7. TbbHolders'
  <2>1. \A y \in TbbThreads : cur'[y] # {} =>
          /\ tbb_pc'[y] \in {"running", "enqueueing", "dangling"}
          /\ \E d \in PoolTasks : cur'[y] = {d}
        BY <1>5 DEF TbbHolders
  <2>2. \A y, z \in TbbThreads : \A d \in PoolTasks :
          d \in cur'[y] /\ d \in cur'[z] => y = z
        BY <1>5, <1>6 DEF TbbHolders
  <2>3. \A d \in PoolTasks :
          status'[d] = "running" <=> \E y \in TbbThreads : d \in cur'[y]
        BY <1>5 DEF TbbHolders
  <2> QED BY <2>1, <2>2, <2>3 DEF TbbHolders
<1>8. TbbRoom'
  <2>1. Pushing' = Pushing
        BY <1>5 DEF Pushing
  <2>2. Submitted' = Submitted
        BY <1>2, <1>5 DEF Submitted
  <2> QED BY <2>1, <2>2 DEF TbbRoom
<1> QED BY <1>1, <1>2, <1>3, <1>4, <1>7, <1>8

\* A callable is submitted.
LEMMA TbbSubmits ==
  ASSUME TbbInv, NEW x \in TbbThreads, NEW c \in PoolTasks, Tbb!Submit(x, c)
  PROVE  TbbInv'
<1> USE TbbNamed DEF TbbNames, TbbInv
<1>1. /\ tasks' = Append(tasks, c) /\ status[c] = "new"
      /\ status' = [status EXCEPT ![c] = "queued"]
      /\ UNCHANGED <<lib, granted, lambdas, stop, cur, awaited>>
      /\ x = PoolOwner \/ cur[x] # {}
      /\ tbb_pc[x] = IF cur[x] = {} THEN "idle" ELSE "running"
      BY DEF Tbb!Submit, Tbb!Home
<1>2. PICK place \in {"enqueueing", tbb_pc[x]} :
        /\ tbb_pc' = [tbb_pc EXCEPT ![x] = place]
        /\ lib = "group" => place = tbb_pc[x]
        /\ lib = "arena" => place = "enqueueing"
      BY DEF Tbb!Submit, Tbb!Goto, TbbTypes
<1>3. /\ \A y \in TbbThreads \ {x} : tbb_pc'[y] = tbb_pc[y]
      /\ tbb_pc'[x] = place
      /\ \A d \in PoolTasks \ {c} : status'[d] = status[d]
      /\ status'[c] = "queued"
      BY <1>1, <1>2 DEF TbbTypes
<1>4. tasks \in Seq(PoolTasks)
      BY DEF TbbTypes
<1>5. /\ tasks' \in Seq(PoolTasks)
      /\ Len(tasks) \in Nat /\ Len(tasks') = Len(tasks) + 1
      /\ \A n \in 1..Len(tasks) : tasks'[n] = tasks[n]
      /\ tasks'[Len(tasks) + 1] = c
      /\ \A n \in 1..Len(tasks) + 1 : n \in 1..Len(tasks) \/ n = Len(tasks) + 1
      /\ {tasks'[n] : n \in 1..Len(tasks')} = {tasks[n] : n \in 1..Len(tasks)} \cup {c}
      BY <1>1, <1>4, AppendHas
<1>6. TbbTypes'
  <2>1. tbb_pc' \in [TbbThreads -> Tbb!Places]
        BY <1>2 DEF TbbTypes, Tbb!Places
  <2>2. status' \in [PoolTasks -> {"new", "queued", "running", "ready", "broken"}]
        BY <1>1 DEF TbbTypes
  <2>3. /\ lib' \in {"arena", "group"} /\ granted' \in SUBSET Helpers
        /\ stop' \in BOOLEAN /\ awaited' \in SUBSET PoolTasks
        /\ cur' \in [TbbThreads -> SUBSET PoolTasks]
        BY <1>1 DEF TbbTypes
  <2> QED BY <1>5, <2>1, <2>2, <2>3 DEF TbbTypes
<1>7. TbbQueue'
  <2>1. \A n \in 1..Len(tasks) : tasks[n] # c
        BY <1>1 DEF TbbQueue
  <2>2. \A m, n \in 1..Len(tasks') : tasks'[m] = tasks'[n] => m = n
        BY <1>5, <2>1 DEF TbbQueue
  <2>3. ASSUME NEW d \in PoolTasks
        PROVE  (\E n \in 1..Len(tasks') : tasks'[n] = d) <=> status'[d] = "queued"
    <3>1. (\E n \in 1..Len(tasks') : tasks'[n] = d)
            <=> d = c \/ \E n \in 1..Len(tasks) : tasks[n] = d
          BY <1>5
    <3>2. (\E n \in 1..Len(tasks) : tasks[n] = d) <=> status[d] = "queued"
          BY DEF TbbQueue
    <3> QED BY <1>3, <3>1, <3>2
  <2> QED BY <2>2, <2>3 DEF TbbQueue
<1>8. TbbHolders'
  <2>1. \A y \in TbbThreads : cur'[y] # {} =>
          /\ tbb_pc'[y] \in {"running", "enqueueing", "dangling"}
          /\ \E d \in PoolTasks : cur'[y] = {d}
        BY <1>1, <1>2, <1>3 DEF TbbHolders
  <2>2. \A y, z \in TbbThreads : \A d \in PoolTasks :
          d \in cur'[y] /\ d \in cur'[z] => y = z
        BY <1>1 DEF TbbHolders
  <2>3. \A d \in PoolTasks :
          status'[d] = "running" <=> \E y \in TbbThreads : d \in cur'[y]
        BY <1>1, <1>3 DEF TbbHolders
  <2> QED BY <2>1, <2>2, <2>3 DEF TbbHolders
<1>9. TbbArena'
      BY <1>1, <1>2, <1>3 DEF TbbArena, Gone, Tbb!OwnerPlaces
<1>10. TbbGroup'
  <2>1. lib = "group" => tbb_pc[PoolOwner] \notin Gone
        BY <1>1 DEF TbbGroup, Gone
  <2> QED BY <1>1, <1>2, <1>3, <2>1 DEF TbbGroup
<1>11. TbbRoom'
  <2>1. Submitted' = Submitted \cup {c} /\ c \in PoolTasks \ Submitted
        BY <1>1, <1>3 DEF Submitted
  <2>2. Cardinality(Submitted') = Cardinality(Submitted) + 1
          /\ Cardinality(Submitted) \in Nat
        BY <2>1, SubmittedCount DEF Submitted
  <2>3. x \notin Pushing
        BY <1>1 DEF Pushing
  <2>4. Pushing' = Pushing \/ Pushing' = Pushing \cup {x}
        BY <1>2, <1>3 DEF Pushing
  <2>5. /\ IsFiniteSet(Pushing) /\ Cardinality(Pushing) \in Nat
        /\ IsFiniteSet(Pushing \cup {x})
        /\ Cardinality(Pushing \cup {x}) = Cardinality(Pushing) + 1
        BY <2>3, FS_AddElement, FS_CardinalityType DEF TbbRoom
  <2>6. IsFiniteSet(Pushing') /\ Cardinality(Pushing') <= Cardinality(Pushing) + 1
        BY <2>4, <2>5
  <2>7. Cardinality(Pushing') \in Nat
        BY <2>6, FS_CardinalityType
  <2> QED BY <1>1, <2>2, <2>5, <2>6, <2>7 DEF TbbRoom
<1> QED BY <1>6, <1>7, <1>8, <1>9, <1>10, <1>11

\* A thread that is not pushing goes elsewhere: no room is taken.
LEMMA RoomStays ==
  ASSUME TbbInv, NEW x \in TbbThreads, NEW place \in Tbb!Places,
         tbb_pc' = [tbb_pc EXCEPT ![x] = place],
         tbb_pc[x] # "enqueueing", place # "enqueueing",
         UNCHANGED status, lambdas' \in Nat, lambdas' <= lambdas
  PROVE  TbbRoom'
<1>1. Pushing' = Pushing
      BY DEF TbbInv, TbbTypes, Pushing
<1>2. Submitted' = Submitted
      BY DEF Submitted
<1>3. Cardinality(Pushing) \in Nat /\ Cardinality(Submitted) \in Nat
      BY FS_CardinalityType, SubmittedCount DEF TbbInv, TbbRoom, Submitted
<1> QED BY <1>1, <1>2, <1>3 DEF TbbInv, TbbRoom

\* A lambda is enqueued.
LEMMA TbbEnqueues ==
  ASSUME TbbInv, NEW x \in TbbThreads, Tbb!Enqueue(x)
  PROVE  TbbInv'
<1> USE TbbNamed DEF TbbNames
<1>1. /\ tbb_pc[x] = "enqueueing" /\ lib = "arena"
      /\ UNCHANGED <<lib, granted, tasks, stop, cur, awaited, status>>
      BY DEF Tbb!Enqueue, TbbInv, TbbTypes, TbbGroup, Gone
<1>2. PICK place \in {"dangling", "idle", "running"} :
        /\ tbb_pc' = [tbb_pc EXCEPT ![x] = place]
        /\ lambdas' \in {lambdas, lambdas + 1}
        /\ cur[x] # {} => place # "idle"
        /\ x = PoolOwner => place = "idle"
  <2>1. CASE Tbb!Destroyed
    <3>1. tbb_pc' = [tbb_pc EXCEPT ![x] = "dangling"] /\ lambdas' = lambdas
          BY <2>1 DEF Tbb!Enqueue, Tbb!Goto
    <3> QED BY <1>1, <2>1, <3>1 DEF Tbb!Destroyed
  <2>2. CASE ~Tbb!Destroyed
    <3>1. /\ tbb_pc' = [tbb_pc EXCEPT ![x] = IF cur[x] = {} THEN "idle" ELSE "running"]
          /\ lambdas' = lambdas + 1
          BY <2>2 DEF Tbb!Enqueue, Tbb!Goto, Tbb!Home
    <3> QED BY <1>1, <3>1 DEF TbbInv, TbbArena
  <2> QED BY <2>1, <2>2
<1>3. /\ \A y \in TbbThreads \ {x} : tbb_pc'[y] = tbb_pc[y]
      /\ tbb_pc'[x] = place
      BY <1>2 DEF TbbInv, TbbTypes
<1>4. TbbArena'
      BY <1>1, <1>2, <1>3 DEF TbbInv, TbbArena, Gone, Tbb!OwnerPlaces
<1>5. TbbGroup'
      BY <1>1 DEF TbbGroup
<1>6. TbbRoom'
  <2>1. Pushing' = Pushing \ {x} /\ x \in Pushing
        BY <1>1, <1>2, <1>3 DEF Pushing
  <2>2. IsFiniteSet(Pushing') /\ Cardinality(Pushing') = Cardinality(Pushing) - 1
        BY <2>1, FS_RemoveElement DEF TbbInv, TbbRoom
  <2>3. Submitted' = Submitted
        BY <1>1 DEF Submitted
  <2>4. Cardinality(Pushing) \in Nat /\ Cardinality(Submitted) \in Nat
        BY FS_CardinalityType, SubmittedCount DEF TbbInv, TbbRoom, Submitted
  <2> QED BY <1>2, <2>2, <2>3, <2>4 DEF TbbInv, TbbRoom
<1> QED BY <1>1, <1>2, <1>4, <1>5, <1>6, TbbWalks
        DEF TbbInv, TbbTypes, Tbb!Places, Tbb!OwnerPlaces

\* A thread that polls looks at stop, or finds the queue empty, or gone; a
\* thread of TBB calls a lambda.
LEMMA TbbPolls ==
  ASSUME TbbInv, NEW x \in TbbThreads,
         Tbb!CheckStop(x) \/ Tbb!CallLambda(x) \/ Tbb!TryPopFails(x)
           \/ Tbb!TryPopDangles(x)
  PROVE  TbbInv'
<1> USE TbbNamed DEF TbbNames
<1>1. /\ tbb_pc[x] \in {"checking", "popping", "idle"} /\ lib = "arena"
      /\ x # PoolOwner
      /\ UNCHANGED <<lib, granted, tasks, stop, cur, awaited, status>>
      /\ lambdas' \in Nat /\ lambdas' <= lambdas
  <2>1. CASE Tbb!CallLambda(x)
        BY <2>1 DEF Tbb!CallLambda, TbbInv, TbbTypes, TbbGroup, TbbRoom
  <2>2. CASE Tbb!CheckStop(x) \/ Tbb!TryPopFails(x) \/ Tbb!TryPopDangles(x)
    <3>1. /\ tbb_pc[x] \in {"checking", "popping"}
          /\ UNCHANGED <<lib, granted, tasks, lambdas, stop, cur, awaited, status>>
          BY <2>2 DEF Tbb!CheckStop, Tbb!TryPopFails, Tbb!TryPopDangles
    <3>2. lib = "arena"
          BY <3>1 DEF TbbInv, TbbTypes, TbbGroup, Gone
    <3>3. x # PoolOwner
          BY <3>1, <3>2 DEF TbbInv, TbbArena, Tbb!OwnerPlaces
    <3> QED BY <3>1, <3>2, <3>3 DEF TbbInv, TbbRoom
  <2> QED BY <2>1, <2>2
<1>2. PICK place \in {"exited", "popping", "checking", "idle", "dangling"} :
        tbb_pc' = [tbb_pc EXCEPT ![x] = place]
      BY DEF Tbb!CheckStop, Tbb!CallLambda, Tbb!TryPopFails, Tbb!TryPopDangles,
             Tbb!Goto
<1>3. \A y \in TbbThreads \ {x} : tbb_pc'[y] = tbb_pc[y]
      BY <1>2 DEF TbbInv, TbbTypes
<1>4. TbbArena'
      BY <1>1, <1>3 DEF TbbInv, TbbArena
<1>5. TbbGroup'
      BY <1>1 DEF TbbGroup
<1>6. place \in Tbb!Places
      BY DEF Tbb!Places, Tbb!OwnerPlaces
<1>7. TbbRoom'
      BY <1>1, <1>2, <1>6, RoomStays
<1>8. cur[x] = {}
      BY <1>1 DEF TbbInv, TbbHolders
<1> QED BY <1>1, <1>2, <1>4, <1>5, <1>6, <1>7, <1>8, TbbWalks
        DEF TbbInv, TbbTypes

\* try_pop has a callable.
LEMMA TbbPops ==
  ASSUME TbbInv, NEW x \in TbbThreads, Tbb!TryPop(x)
  PROVE  TbbInv'
<1> USE TbbNamed DEF TbbNames
<1>1. /\ tbb_pc[x] = "popping" /\ tasks # <<>>
      /\ Tbb!Start(x, Head(tasks)) /\ tasks' = Tail(tasks)
      /\ UNCHANGED <<lib, granted, lambdas, stop, awaited>>
      BY DEF Tbb!TryPop
<1>2. lib = "arena"
      BY <1>1 DEF TbbInv, TbbTypes, TbbGroup, Gone
<1>3. x # PoolOwner
      BY <1>1, <1>2 DEF TbbInv, TbbArena, Tbb!OwnerPlaces
<1>4. cur[x] = {}
      BY <1>1 DEF TbbInv, TbbHolders
<1>5. tasks \in Seq(PoolTasks) /\ Distinct(tasks)
      BY DEF TbbInv, TbbTypes, TbbQueue, Distinct
<1>6. PICK c \in PoolTasks : c = Head(tasks)
      BY <1>1, <1>5, TailLeaves
<1>7. PICK r \in Seq(PoolTasks) : r = Tail(tasks)
      BY <1>1, <1>5, TailLeaves
<1>8. /\ \A m, n \in 1..Len(r) : r[m] = r[n] => m = n
      /\ \A z : (\E n \in 1..Len(r) : r[n] = z)
                  <=> z # c /\ \E n \in 1..Len(tasks) : tasks[n] = z
      /\ \E n \in 1..Len(tasks) : tasks[n] = c
  <2>1. /\ Distinct(r) /\ Member(tasks, c)
        /\ \A z : Member(r, z) <=> z # c /\ Member(tasks, z)
        BY <1>1, <1>5, <1>6, <1>7, TailLeaves
  <2> QED BY <2>1 DEF Distinct, Member
<1>9. TbbTypes' /\ TbbQueue' /\ TbbHolders' /\ TbbRoom'
  <2>1. Tbb!Start(x, c) /\ tasks' = r
        BY <1>1, <1>6, <1>7
  <2> QED BY <1>1, <1>4, <1>8, <2>1, TbbStarts
<1>10. TbbArena'
  <2>1. /\ \A y \in TbbThreads \ {x} : tbb_pc'[y] = tbb_pc[y]
        /\ cur'[PoolOwner] = cur[PoolOwner]
        BY <1>1, <1>3 DEF TbbInv, TbbTypes, Tbb!Start, Tbb!Goto
  <2> QED BY <1>1, <1>2, <1>3, <2>1 DEF TbbInv, TbbArena
<1>11. TbbGroup'
      BY <1>1, <1>2 DEF TbbGroup
<1> QED BY <1>9, <1>10, <1>11 DEF TbbInv

\* A callable of a group is started.
LEMMA TbbStartsSpawned ==
  ASSUME TbbInv, NEW x \in TbbThreads, NEW c \in PoolTasks, Tbb!StartSpawned(x, c)
  PROVE  TbbInv' /\ status[c] = "queued" /\ status' = [status EXCEPT ![c] = "running"]
<1> USE TbbNamed DEF TbbNames
<1>1. /\ lib = "group" /\ tbb_pc[x] \in {"idle", "waiting"}
      /\ Tbb!Start(x, c) /\ tasks' = Tbb!RemoveFirst(tasks, c)
      /\ UNCHANGED <<lib, granted, lambdas, stop, awaited>>
      /\ c \in Tbb!ToSet(tasks)
      BY DEF Tbb!StartSpawned
<1>2. cur[x] = {}
      BY <1>1 DEF TbbInv, TbbHolders
<1>3. tasks \in Seq(PoolTasks) /\ Distinct(tasks)
      BY DEF TbbInv, TbbTypes, TbbQueue, Distinct
<1>4. PICK i \in 1..Len(tasks) : tasks[i] = c
  <2>1. DOMAIN tasks = 1..Len(tasks)
        BY <1>3, LenProperties
  <2> QED BY <1>1, <2>1 DEF Tbb!ToSet
<1>5. PICK r : r = Tbb!RemoveFirst(tasks, c)
      OBVIOUS
<1>6. /\ r \in Seq(PoolTasks)
      /\ \A m, n \in 1..Len(r) : r[m] = r[n] => m = n
      /\ \A z : (\E n \in 1..Len(r) : r[n] = z)
                  <=> z # c /\ \E n \in 1..Len(tasks) : tasks[n] = z
  <2>1. r = Tbb!RemoveFirst(tasks, tasks[i])
        BY <1>4, <1>5
  <2>2. /\ r \in Seq(PoolTasks) /\ Distinct(r)
        /\ \A z : Member(r, z) <=> z # tasks[i] /\ Member(tasks, z)
        BY <1>3, <2>1, RemoveFirstLeaves
  <2> QED BY <1>4, <2>2 DEF Distinct, Member
<1>7. /\ TbbTypes' /\ TbbQueue' /\ TbbHolders' /\ TbbRoom'
      /\ status[c] = "queued" /\ status' = [status EXCEPT ![c] = "running"]
  <2>1. tasks' = r
        BY <1>1, <1>5
  <2> QED BY <1>1, <1>2, <1>4, <1>6, <2>1, TbbStarts
<1>8. TbbArena'
      BY <1>1 DEF TbbArena
<1>9. TbbGroup'
  <2>1. tbb_pc' = [tbb_pc EXCEPT ![x] = "running"]
        BY <1>1 DEF Tbb!Start, Tbb!Goto
  <2>2. tbb_pc[PoolOwner] \notin Gone
    <3>1. tasks # <<>>
          BY <1>3, <1>4, EmptySeq
    <3> QED BY <1>1, <3>1 DEF TbbInv, TbbGroup
  <2>3. tbb_pc'[PoolOwner] \notin Gone
        BY <2>1, <2>2 DEF TbbInv, TbbTypes, Gone
  <2>4. \A y \in TbbThreads :
          tbb_pc'[y] \in {"idle", "running", "getting", "waiting"} \cup Gone
        BY <1>1, <2>1 DEF TbbInv, TbbTypes, TbbGroup
  <2> QED BY <1>1, <2>3, <2>4 DEF TbbInv, TbbGroup
<1> QED BY <1>7, <1>8, <1>9 DEF TbbInv

\* A callable returns.
LEMMA TbbFinishes ==
  ASSUME TbbInv, NEW x \in TbbThreads, Tbb!Finish(x)
  PROVE  TbbInv'
<1> USE TbbNamed DEF TbbNames
<1>1. /\ tbb_pc[x] = "running"
      /\ status' = [c \in PoolTasks |-> IF c \in cur[x] THEN "ready" ELSE status[c]]
      /\ cur' = [cur EXCEPT ![x] = {}]
      /\ UNCHANGED <<lib, granted, tasks, lambdas, stop, awaited>>
      BY DEF Tbb!Finish
<1>2. PICK place \in {"popping", "waiting", "idle"} :
        /\ tbb_pc' = [tbb_pc EXCEPT ![x] = place]
        /\ lib = "group" => place # "popping"
      BY DEF Tbb!Finish, Tbb!Goto
<1>3. /\ \A y \in TbbThreads \ {x} : cur'[y] = cur[y] /\ tbb_pc'[y] = tbb_pc[y]
      /\ cur'[x] = {} /\ tbb_pc'[x] = place
      /\ \A c \in PoolTasks : status'[c] = IF c \in cur[x] THEN "ready" ELSE status[c]
      BY <1>1, <1>2 DEF TbbInv, TbbTypes
<1>4. \A c \in PoolTasks : c \in cur[x] => status[c] = "running"
      BY DEF TbbInv, TbbHolders
<1>5. TbbTypes'
  <2>1. status' \in [PoolTasks -> {"new", "queued", "running", "ready", "broken"}]
        BY <1>1 DEF TbbInv, TbbTypes
  <2>2. cur' \in [TbbThreads -> SUBSET PoolTasks]
        BY <1>1 DEF TbbInv, TbbTypes
  <2>3. tbb_pc' \in [TbbThreads -> Tbb!Places]
        BY <1>2 DEF TbbInv, TbbTypes, Tbb!Places, Tbb!OwnerPlaces
  <2> QED BY <1>1, <2>1, <2>2, <2>3 DEF TbbInv, TbbTypes
<1>6. TbbQueue'
      BY <1>1, <1>3, <1>4 DEF TbbInv, TbbQueue
<1>7. TbbHolders'
  <2>1. \A y \in TbbThreads : cur'[y] # {} =>
          /\ tbb_pc'[y] \in {"running", "enqueueing", "dangling"}
          /\ \E c \in PoolTasks : cur'[y] = {c}
        BY <1>3 DEF TbbInv, TbbHolders
  <2>2. \A y, z \in TbbThreads : \A c \in PoolTasks :
          c \in cur'[y] /\ c \in cur'[z] => y = z
        BY <1>3 DEF TbbInv, TbbHolders
  <2>3. ASSUME NEW c \in PoolTasks
        PROVE  status'[c] = "running" <=> \E y \in TbbThreads : c \in cur'[y]
    <3>1. CASE c \in cur[x]
          BY <1>3, <3>1 DEF TbbInv, TbbHolders
    <3>2. CASE c \notin cur[x]
          BY <1>3, <3>2 DEF TbbInv, TbbHolders
    <3> QED BY <3>1, <3>2
  <2> QED BY <2>1, <2>2, <2>3 DEF TbbHolders
<1>8. TbbArena'
  <2>1. lib = "arena" => x # PoolOwner
        BY <1>1 DEF TbbInv, TbbArena, Tbb!OwnerPlaces
  <2> QED BY <1>1, <1>3, <2>1 DEF TbbInv, TbbArena
<1>9. TbbGroup'
  <2>1. tbb_pc'[PoolOwner] \in Gone => tbb_pc[PoolOwner] \in Gone
        BY <1>3 DEF Gone
  <2> QED BY <1>1, <1>2, <1>3, <2>1 DEF TbbInv, TbbGroup
<1>10. TbbRoom'
  <2>1. Pushing' = Pushing
        BY <1>1, <1>3 DEF Pushing
  <2>2. Submitted' = Submitted
        BY <1>3, <1>4 DEF Submitted
  <2> QED BY <1>1, <2>1, <2>2 DEF TbbInv, TbbRoom
<1> QED BY <1>5, <1>6, <1>7, <1>8, <1>9, <1>10 DEF TbbInv

\* The owner gets a future, or destroys the pool.
LEMMA TbbOwns ==
  ASSUME TbbInv,
         (\E c \in PoolTasks : Tbb!Get(c)) \/ Tbb!GetReturn \/ Tbb!Destroy
           \/ Tbb!Join \/ Tbb!WaitReturn
  PROVE  TbbInv'
<1> USE TbbNamed DEF TbbNames
<1>1. /\ UNCHANGED <<lib, granted, tasks, lambdas, cur, status>>
      /\ tbb_pc[PoolOwner] \in {"idle", "getting", "joining", "waiting"}
      /\ awaited' \in SUBSET PoolTasks
      BY DEF Tbb!Get, Tbb!GetReturn, Tbb!Destroy, Tbb!Join, Tbb!WaitReturn,
             TbbInv, TbbTypes
<1>2. stop' \in BOOLEAN
  <2>1. CASE Tbb!Destroy
        BY <2>1 DEF Tbb!Destroy
  <2>2. CASE ~Tbb!Destroy
    <3>1. UNCHANGED stop
          BY <2>2 DEF Tbb!Get, Tbb!GetReturn, Tbb!Join, Tbb!WaitReturn
    <3> QED BY <3>1 DEF TbbInv, TbbTypes
  <2> QED BY <2>1, <2>2
<1>3. PICK place \in {"getting", "idle", "joining", "waiting", "released"} :
        /\ tbb_pc' = [tbb_pc EXCEPT ![PoolOwner] = place]
        /\ place = "joining" => lib = "arena"
        /\ place = "waiting" => lib # "arena"
        /\ place = "released" =>
             \/ tbb_pc[PoolOwner] = "joining" /\ \A w \in PoolThreads : tbb_pc[w] = "exited"
             \/ /\ tbb_pc[PoolOwner] = "waiting"
                /\ tasks = <<>> /\ \A y \in TbbThreads : cur[y] = {}
  <2>1. CASE \E c \in PoolTasks : Tbb!Get(c)
        BY <2>1 DEF Tbb!Get, Tbb!Goto
  <2>2. CASE Tbb!GetReturn
        BY <2>2 DEF Tbb!GetReturn, Tbb!Goto
  <2>3. CASE Tbb!Destroy
        BY <2>3 DEF Tbb!Destroy, Tbb!Goto
  <2>4. CASE Tbb!Join
        BY <2>4 DEF Tbb!Join, Tbb!Goto
  <2>5. CASE Tbb!WaitReturn
        BY <2>5 DEF Tbb!WaitReturn, Tbb!Goto
  <2> QED BY <2>1, <2>2, <2>3, <2>4, <2>5
<1>4. /\ \A y \in TbbThreads \ {PoolOwner} : tbb_pc'[y] = tbb_pc[y]
      /\ tbb_pc'[PoolOwner] = place
      BY <1>3 DEF TbbInv, TbbTypes
<1>5. TbbArena'
      BY <1>1, <1>3, <1>4 DEF TbbInv, TbbArena, Gone, Tbb!OwnerPlaces
<1>6. TbbGroup'
      BY <1>1, <1>3, <1>4 DEF TbbInv, TbbTypes, TbbGroup, Gone
<1>7. place \in Tbb!Places
      BY DEF Tbb!Places, Tbb!OwnerPlaces
<1>8. TbbRoom'
  <2>1. lambdas' \in Nat /\ lambdas' <= lambdas
        BY <1>1 DEF TbbInv, TbbRoom
  <2>2. tbb_pc[PoolOwner] # "enqueueing" /\ place # "enqueueing" /\ UNCHANGED status
        BY <1>1
  <2> QED BY <1>3, <1>7, <2>1, <2>2, RoomStays
<1>9. cur[PoolOwner] = {}
      BY <1>1 DEF TbbInv, TbbHolders
<1> QED BY <1>1, <1>2, <1>3, <1>5, <1>6, <1>7, <1>8, <1>9, TbbWalks

\* The members are destroyed: what is still queued is broken.
LEMMA TbbDestroys ==
  ASSUME TbbInv, Tbb!DestroyMembers
  PROVE  TbbInv' /\ (lib = "group" => status' = status)
<1> USE TbbNamed DEF TbbNames
<1>1. /\ tbb_pc[PoolOwner] = "released"
      /\ status' = [c \in PoolTasks |-> IF status[c] = "queued" THEN "broken"
                                        ELSE status[c]]
      /\ tasks' = <<>>
      /\ tbb_pc' = [tbb_pc EXCEPT ![PoolOwner] = "destroyed"]
      /\ UNCHANGED <<lib, granted, lambdas, stop, cur, awaited>>
      BY DEF Tbb!DestroyMembers, Tbb!Goto
<1>2. /\ \A y \in TbbThreads \ {PoolOwner} : tbb_pc'[y] = tbb_pc[y]
      /\ tbb_pc'[PoolOwner] = "destroyed"
      /\ \A c \in PoolTasks : status'[c] = IF status[c] = "queued" THEN "broken"
                                           ELSE status[c]
      BY <1>1 DEF TbbInv, TbbTypes
<1>3. TbbTypes'
  <2>1. status' \in [PoolTasks -> {"new", "queued", "running", "ready", "broken"}]
        BY <1>1 DEF TbbInv, TbbTypes
  <2>2. tbb_pc' \in [TbbThreads -> Tbb!Places]
        BY <1>1 DEF TbbInv, TbbTypes, Tbb!Places, Tbb!OwnerPlaces
  <2>3. tasks' \in Seq(PoolTasks)
        BY <1>1, EmptySeq
  <2> QED BY <1>1, <2>1, <2>2, <2>3 DEF TbbInv, TbbTypes
<1>4. TbbQueue'
      BY <1>1, <1>2 DEF TbbQueue
<1>5. TbbHolders'
  <2>1. cur[PoolOwner] = {}
        BY <1>1 DEF TbbInv, TbbHolders
  <2> QED BY <1>1, <1>2, <2>1 DEF TbbInv, TbbHolders
<1>6. TbbArena'
      BY <1>1, <1>2 DEF TbbInv, TbbArena, Gone, Tbb!OwnerPlaces
<1>7. TbbGroup'
      BY <1>1, <1>2 DEF TbbInv, TbbTypes, TbbGroup, Gone
<1>8. TbbRoom'
  <2>1. Pushing' = Pushing
        BY <1>1, <1>2 DEF Pushing
  <2>2. Submitted' = Submitted
        BY <1>2 DEF Submitted
  <2> QED BY <1>1, <2>1, <2>2 DEF TbbInv, TbbRoom
<1>9. lib = "group" => status' = status
  <2>1. lib = "group" => \A c \in PoolTasks : status[c] # "queued"
    <3>1. lib = "group" => tasks = <<>>
          BY <1>1 DEF TbbInv, TbbGroup, Gone
    <3> QED BY <3>1 DEF TbbInv, TbbQueue
  <2> QED BY <1>1, <2>1 DEF TbbInv, TbbTypes
<1> QED BY <1>3, <1>4, <1>5, <1>6, <1>7, <1>8, <1>9 DEF TbbInv

LEMMA TbbStep == TbbInv /\ [Next]_vars => TbbInv'
<1>1. TbbInv /\ UNCHANGED tbbVars => TbbInv'
  <2> SUFFICES ASSUME TbbInv, UNCHANGED tbbVars PROVE TbbInv'
      OBVIOUS
  <2> USE DEF tbbVars, TbbInv
  <2>1. TbbTypes'
        BY DEF TbbTypes
  <2>2. TbbQueue' /\ TbbHolders'
        BY DEF TbbQueue, TbbHolders
  <2>3. TbbArena' /\ TbbGroup'
        BY DEF TbbArena, TbbGroup
  <2>4. Pushing' = Pushing /\ Submitted' = Submitted
        BY DEF Pushing, Submitted
  <2>5. TbbRoom'
        BY <2>4 DEF TbbRoom
  <2> QED BY <2>1, <2>2, <2>3, <2>5
<1>2. ASSUME TbbInv, Tbb!Next PROVE TbbInv'
  <2>1. ASSUME NEW x \in TbbThreads, Tbb!Thread(x) PROVE TbbInv'
    <3>1. CASE Tbb!CheckStop(x) \/ Tbb!CallLambda(x) \/ Tbb!TryPopFails(x)
                 \/ Tbb!TryPopDangles(x)
          BY <1>2, <3>1, TbbPolls
    <3>2. CASE Tbb!TryPop(x)
          BY <1>2, <3>2, TbbPops
    <3>3. CASE Tbb!Finish(x)
          BY <1>2, <3>3, TbbFinishes
    <3>4. CASE Tbb!Enqueue(x)
          BY <1>2, <3>4, TbbEnqueues
    <3>5. CASE \E c \in PoolTasks : Tbb!StartSpawned(x, c)
          BY <1>2, <3>5, TbbStartsSpawned
    <3> QED BY <2>1, <3>1, <3>2, <3>3, <3>4, <3>5 DEF Tbb!Thread
  <2>2. ASSUME NEW x \in TbbThreads, NEW c \in PoolTasks, Tbb!Submit(x, c)
        PROVE  TbbInv'
        BY <1>2, <2>2, TbbSubmits
  <2>3. CASE (\E c \in PoolTasks : Tbb!Get(c)) \/ Tbb!GetReturn \/ Tbb!Destroy
               \/ Tbb!Join \/ Tbb!WaitReturn
        BY <1>2, <2>3, TbbOwns
  <2>4. CASE Tbb!DestroyMembers
        BY <1>2, <2>4, TbbDestroys
  <2> QED BY <1>2, <2>1, <2>2, <2>3, <2>4, TbbNamed
          DEF Tbb!Next, Tbb!Destructor, TbbNames
<1>3. Next => (program = "tbb" /\ Tbb!Next) \/ UNCHANGED tbbVars
      BY DEF Next, RunReduction, RunSearch, RunCover, RunThreaded, RunTbb,
             RunGate, RunTeam, RunSplitting, RunSlotted, RunSteal
<1>4. UNCHANGED vars => UNCHANGED tbbVars
      BY DEF vars
<1> QED BY <1>1, <1>2, <1>3, <1>4

LEMMA CardinalityOfOne == ASSUME NEW x PROVE Tbb!Cardinality({x}) = 1
BY FS_Singleton, TbbCardinality

LEMMA CardinalityOfNone == Tbb!Cardinality({}) = 0
BY FS_EmptySet, TbbCardinality

\* The invariant says where every callable is.
LEMMA TbbConsistent == TbbInv => Tbb!Consistent /\ Tbb!OwnThreadsOutlived
<1> SUFFICES ASSUME TbbInv PROVE Tbb!Consistent /\ Tbb!OwnThreadsOutlived
    OBVIOUS
<1> USE TbbNamed DEF TbbNames, TbbInv
<1>1. lambdas \in 0..Tbb!Cardinality(PoolTasks)
  <2>1. /\ Cardinality(Pushing) \in Nat /\ Cardinality(Submitted) \in Nat
        /\ Cardinality(Submitted) <= Cardinality(PoolTasks)
        /\ Cardinality(PoolTasks) \in Nat
        BY FS_CardinalityType, SubmittedCount, BenchmarkAssumption
        DEF TbbRoom, Submitted
  <2> QED BY <2>1, TbbCardinality DEF TbbRoom
<1>2. Tbb!TypeOK
  <2> HIDE DEF TbbInv
  <2> QED BY <1>1 DEF TbbInv, TbbTypes, Tbb!TypeOK
<1>3. DOMAIN tasks = 1..Len(tasks)
  <2>1. tasks \in Seq(PoolTasks)
        BY DEF TbbTypes
  <2> QED BY <2>1, LenProperties
<1>4. Tbb!IsInjective(tasks)
      BY <1>3 DEF TbbQueue, Tbb!IsInjective
<1>5. \A c \in PoolTasks : (c \in Tbb!ToSet(tasks)) <=> (status[c] = "queued")
      BY <1>3 DEF TbbQueue, Tbb!ToSet
<1>6. ASSUME NEW x \in TbbThreads PROVE Tbb!Cardinality(cur[x]) <= 1
  <2>1. CASE cur[x] = {}
        BY <2>1, CardinalityOfNone
  <2>2. CASE cur[x] # {}
    <3>1. PICK c \in PoolTasks : cur[x] = {c}
          BY <2>2 DEF TbbHolders
    <3>2. Tbb!Cardinality(cur[x]) = 1
      <4> HIDE DEF TbbInv
      <4> QED BY <3>1, CardinalityOfOne
    <3> QED BY <3>2
  <2> QED BY <2>1, <2>2
<1>7. ASSUME NEW c \in PoolTasks
      PROVE  status[c] = "running"
               <=> Tbb!Cardinality({x \in TbbThreads : c \in cur[x]}) = 1
  <2>1. CASE status[c] = "running"
    <3>1. PICK y \in TbbThreads : c \in cur[y]
          BY <2>1 DEF TbbHolders
    <3>2. {x \in TbbThreads : c \in cur[x]} = {y}
          BY <3>1 DEF TbbHolders
    <3> QED BY <2>1, <3>2, CardinalityOfOne
  <2>2. CASE status[c] # "running"
    <3>1. {x \in TbbThreads : c \in cur[x]} = {}
          BY <2>2 DEF TbbHolders
    <3>2. Tbb!Cardinality({x \in TbbThreads : c \in cur[x]}) = 0
          BY <3>1, CardinalityOfNone, Zenon
    <3> QED BY <2>2, <3>2
  <2> QED BY <2>1, <2>2
<1>8. Tbb!HeldOnce
      BY <1>4, <1>5, <1>6, <1>7 DEF Tbb!HeldOnce
<1>9. Tbb!OwnThreadsOutlived
      BY DEF Tbb!OwnThreadsOutlived, TbbArena, TbbGroup, Gone
<1> QED BY <1>2, <1>8, <1>9 DEF Tbb!Consistent

\* The pools are consistent although several kinds of threads share them:
\* dual's vector is complete when main reads it, and in the pools over TBB
\* every callable is in one place and no own thread outlives its pool
\* (case3_submitTasks.cpp:257-263, tbbThreadPool.cpp:32-58).
THEOREM PoolsCorrect == Spec => []PoolsSafe
<1>1. ReduceInv /\ TbbInv => PoolsSafe
      BY ReduceConsistent, TbbConsistent DEF PoolsSafe
<1> QED BY <1>1, ReduceBegins, ReduceStep, TbbBegins, TbbStep, PTL DEF Spec

-----------------------------------------------------------------------------
\* The pools over a task_group keep the promise of Executor.

PhaseOf(place) == CASE place = "destroyed" -> "closed"
                    [] place = "released"  -> "closing"
                    [] OTHER               -> "open"

LEMMA PhaseIs == Tbb!AbstractPhase = PhaseOf(tbb_pc[PoolOwner])
BY DEF Tbb!AbstractPhase, PhaseOf

LEMMA PhaseNext == Tbb!AbstractPhase' = PhaseOf(tbb_pc'[PoolOwner])
<1>1. (Tbb!AbstractPhase = PhaseOf(tbb_pc[PoolOwner]))'
      BY PhaseIs, PTL
<1> QED BY <1>1 DEF PhaseOf

\* As long as the owner is not past wait() the pool is open.
LEMMA PhaseOpen ==
  ASSUME NEW place, place \notin Gone
  PROVE  PhaseOf(place) = "open"
BY DEF PhaseOf, Gone

\* Every step of a group is a step of the promise or none.
LEMMA GroupSteps ==
  ASSUME TbbInv, Tbb!Next, lib = "group"
  PROVE  [Tbb!Promise!Next]_(Tbb!Promise!vars)
<1> USE TbbNamed DEF TbbNames
<1> DEFINE Stays == /\ status' = status
                    /\ PhaseOf(tbb_pc'[PoolOwner]) = PhaseOf(tbb_pc[PoolOwner])
<1>1. Stays => UNCHANGED Tbb!Promise!vars
      BY PhaseIs, PhaseNext DEF Tbb!Promise!vars
<1>2. ASSUME NEW c \in PoolTasks, NEW from, NEW to, status[c] = from,
             status' = [status EXCEPT ![c] = to],
             PhaseOf(tbb_pc'[PoolOwner]) = PhaseOf(tbb_pc[PoolOwner])
      PROVE  Tbb!Promise!Move(c, from, to)
      BY <1>2, PhaseIs, PhaseNext DEF Tbb!Promise!Move
<1>3. \A x \in TbbThreads :
        tbb_pc[x] \in {"idle", "running", "getting", "waiting"} \cup Gone
      BY DEF TbbInv, TbbGroup
<1>4. lambdas = 0
      BY DEF TbbInv, TbbGroup
<1>5. ASSUME NEW x \in TbbThreads, NEW c \in PoolTasks, Tbb!Submit(x, c)
      PROVE  Tbb!Promise!Next
  <2>1. /\ status[c] = "new" /\ status' = [status EXCEPT ![c] = "queued"]
        /\ tbb_pc' = [tbb_pc EXCEPT ![x] = tbb_pc[x]]
        /\ x = PoolOwner \/ cur[x] # {}
        /\ tbb_pc[x] \in {"idle", "running"}
        BY <1>5 DEF Tbb!Submit, Tbb!Goto, Tbb!Home
  <2>2. tbb_pc' = tbb_pc
        BY <2>1 DEF TbbInv, TbbTypes
  <2>3. tbb_pc[PoolOwner] \notin Gone
        BY <2>1 DEF TbbInv, TbbGroup, Gone
  <2>4. Tbb!AbstractPhase = "open"
        BY <2>3, PhaseIs, PhaseOpen
  <2>5. Tbb!Promise!Move(c, "new", "queued")
        BY <1>2, <2>1, <2>2
  <2> QED BY <2>4, <2>5 DEF Tbb!Promise!Next, Tbb!Promise!Accept
<1>6. ASSUME NEW x \in TbbThreads, NEW c \in PoolTasks, Tbb!StartSpawned(x, c)
      PROVE  Tbb!Promise!Next
  <2>1. status[c] = "queued" /\ status' = [status EXCEPT ![c] = "running"]
        BY <1>6, TbbStartsSpawned
  <2>2. tbb_pc' = [tbb_pc EXCEPT ![x] = "running"] /\ c \in Tbb!ToSet(tasks)
        BY <1>6 DEF Tbb!StartSpawned, Tbb!Start, Tbb!Goto
  <2>3. tbb_pc[PoolOwner] \notin Gone
    <3>1. Tbb!ToSet(<<>>) = {}
          BY DEF Tbb!ToSet
    <3> QED BY <2>2, <3>1 DEF TbbInv, TbbGroup
  <2>4. tbb_pc'[PoolOwner] \notin Gone
        BY <2>2, <2>3 DEF TbbInv, TbbTypes, Gone
  <2>5. /\ PhaseOf(tbb_pc'[PoolOwner]) = "open"
        /\ PhaseOf(tbb_pc[PoolOwner]) = "open"
        BY <2>3, <2>4, PhaseOpen
  <2>6. Tbb!Promise!Move(c, "queued", "running")
        BY <1>2, <2>1, <2>5
  <2> QED BY <2>5, <2>6, PhaseIs DEF Tbb!Promise!Next, Tbb!Promise!Start
<1>7. ASSUME NEW x \in TbbThreads, Tbb!Finish(x)
      PROVE  [Tbb!Promise!Next]_(Tbb!Promise!vars)
  <2>1. /\ tbb_pc[x] = "running"
        /\ status' = [c \in PoolTasks |-> IF c \in cur[x] THEN "ready" ELSE status[c]]
        BY <1>7 DEF Tbb!Finish
  <2>2. \E place \in {"waiting", "idle"} : tbb_pc' = [tbb_pc EXCEPT ![x] = place]
        BY <1>7 DEF Tbb!Finish, Tbb!Goto
  <2>3. /\ tbb_pc'[PoolOwner] \notin Gone /\ tbb_pc[PoolOwner] \notin Gone
        \/ tbb_pc'[PoolOwner] = tbb_pc[PoolOwner]
        BY <2>1, <2>2 DEF TbbInv, TbbTypes, Gone
  <2>4. PhaseOf(tbb_pc'[PoolOwner]) = PhaseOf(tbb_pc[PoolOwner])
        BY <2>3, PhaseOpen
  <2>5. CASE cur[x] = {}
    <3>1. status' = status
          BY <2>1, <2>5 DEF TbbInv, TbbTypes
    <3> QED BY <1>1, <2>4, <3>1
  <2>6. CASE cur[x] # {}
    <3>1. PICK c \in PoolTasks : cur[x] = {c}
          BY <2>6 DEF TbbInv, TbbHolders
    <3>2. status[c] = "running" /\ status' = [status EXCEPT ![c] = "ready"]
      <4>1. status[c] = "running"
            BY <3>1 DEF TbbInv, TbbHolders
      <4>2. status' = [status EXCEPT ![c] = "ready"]
            BY <2>1, <3>1 DEF TbbInv, TbbTypes
      <4> QED BY <4>1, <4>2
    <3>3. tbb_pc[PoolOwner] # "destroyed"
          BY <2>6 DEF TbbInv, TbbGroup, Gone
    <3>4. Tbb!AbstractPhase # "closed"
          BY <3>3, PhaseIs DEF PhaseOf
    <3>5. Tbb!Promise!Move(c, "running", "ready")
          BY <1>2, <2>4, <3>2
    <3> QED BY <3>4, <3>5 DEF Tbb!Promise!Next, Tbb!Promise!Finish
  <2> QED BY <2>5, <2>6
<1>8. ASSUME (\E c \in PoolTasks : Tbb!Get(c)) \/ Tbb!GetReturn \/ Tbb!Destroy
      PROVE  UNCHANGED Tbb!Promise!vars
  <2>1. /\ status' = status
        /\ tbb_pc[PoolOwner] \in {"idle", "getting"}
        /\ \E place \in {"getting", "idle", "waiting"} :
             tbb_pc' = [tbb_pc EXCEPT ![PoolOwner] = place]
        BY <1>8 DEF Tbb!Get, Tbb!GetReturn, Tbb!Destroy, Tbb!Goto
  <2>2. tbb_pc'[PoolOwner] \notin Gone /\ tbb_pc[PoolOwner] \notin Gone
        BY <2>1 DEF TbbInv, TbbTypes, Gone
  <2> QED BY <1>1, <2>1, <2>2, PhaseOpen
<1>9. ASSUME Tbb!WaitReturn PROVE Tbb!Promise!Next
  <2>1. /\ tbb_pc[PoolOwner] = "waiting" /\ status' = status
        /\ tbb_pc' = [tbb_pc EXCEPT ![PoolOwner] = "released"]
        BY <1>9 DEF Tbb!WaitReturn, Tbb!Goto
  <2>2. tbb_pc'[PoolOwner] = "released"
        BY <2>1 DEF TbbInv, TbbTypes
  <2>3. Tbb!AbstractPhase = "open" /\ Tbb!AbstractPhase' = "closing"
        BY <2>1, <2>2, PhaseIs, PhaseNext DEF PhaseOf
  <2> QED BY <2>1, <2>3 DEF Tbb!Promise!Next, Tbb!Promise!BeginClose
<1>10. ASSUME Tbb!DestroyMembers PROVE Tbb!Promise!Next
  <2>1. /\ tbb_pc[PoolOwner] = "released"
        /\ tbb_pc' = [tbb_pc EXCEPT ![PoolOwner] = "destroyed"]
        BY <1>10 DEF Tbb!DestroyMembers, Tbb!Goto
  <2>2. tbb_pc'[PoolOwner] = "destroyed"
        BY <2>1 DEF TbbInv, TbbTypes
  <2>3. Tbb!AbstractPhase = "closing" /\ Tbb!AbstractPhase' = "closed"
        BY <2>1, <2>2, PhaseIs, PhaseNext DEF PhaseOf
  <2>4. status' = status
        BY <1>10, TbbDestroys
  <2>5. \A c \in PoolTasks : status[c] \notin {"queued", "running"}
    <3>1. tasks = <<>> /\ \A y \in TbbThreads : cur[y] = {}
          BY <2>1 DEF TbbInv, TbbGroup, Gone
    <3> QED BY <3>1 DEF TbbInv, TbbQueue, TbbHolders
  <2> QED BY <2>3, <2>4, <2>5 DEF Tbb!Promise!Next, Tbb!Promise!Close
<1>11. ASSUME NEW x \in TbbThreads
       PROVE  ~(Tbb!CheckStop(x) \/ Tbb!CallLambda(x) \/ Tbb!TryPop(x)
                  \/ Tbb!TryPopFails(x) \/ Tbb!TryPopDangles(x) \/ Tbb!Enqueue(x))
       BY <1>3, <1>4 DEF Gone, Tbb!CheckStop, Tbb!CallLambda, Tbb!TryPop,
            Tbb!TryPopFails, Tbb!TryPopDangles, Tbb!Enqueue
<1>12. ~Tbb!Join
       BY <1>3 DEF Gone, Tbb!Join
<1>13. ASSUME NEW x \in TbbThreads, Tbb!Thread(x)
       PROVE  [Tbb!Promise!Next]_(Tbb!Promise!vars)
       BY <1>6, <1>7, <1>11, <1>13 DEF Tbb!Thread
<1> QED BY <1>5, <1>8, <1>9, <1>10, <1>12, <1>13 DEF Tbb!Next, Tbb!Destructor

\* The pools over a task_group keep the promise of Executor: what they
\* accepted has run to its end before the destructor returns
\* (tbbThreadPool.cpp:83-87).
THEOREM GroupKeepsPromiseCorrect == Spec => GroupKeepsPromise
<1>1. Init => Tbb!Promise!Init
  <2> SUFFICES ASSUME Tbb!Init PROVE Tbb!Promise!Init
      BY DEF Init
  <2>1. tbb_pc[PoolOwner] \notin Gone /\ status = [c \in PoolTasks |-> "new"]
        BY TbbNamed DEF TbbNames, Tbb!Init, Gone
  <2> QED BY <2>1, PhaseIs, PhaseOpen DEF Tbb!Promise!Init
<1>2. TbbInv /\ [Next]_vars
        => [lib = "group" => Tbb!Promise!Next]_(Tbb!Promise!vars)
  <2>1. UNCHANGED tbbVars => UNCHANGED Tbb!Promise!vars
        BY PhaseIs, PhaseNext DEF tbbVars, Tbb!Promise!vars
  <2>2. Next => (program = "tbb" /\ Tbb!Next) \/ UNCHANGED tbbVars
        BY DEF Next, RunReduction, RunSearch, RunCover, RunThreaded, RunTbb,
               RunGate, RunTeam, RunSplitting, RunSlotted, RunSteal
  <2>3. UNCHANGED vars => UNCHANGED tbbVars
        BY DEF vars
  <2> QED BY <2>1, <2>2, <2>3, GroupSteps
<1> QED BY <1>1, <1>2, TbbBegins, TbbStep, PTL
        DEF Spec, GroupKeepsPromise, Tbb!GroupKeepsPromise

-----------------------------------------------------------------------------
\* The mutex held over a nested loop.

StealCalls == [task : 1..Outer, at : {"locking", "waiting", "chunk"}]

\* Call d of thread x.
Call(x, d) == steal_stack[x][d]
Calls(x)   == 1..Len(steal_stack[x])

\* A thread leaves a call unfinished only where it waits in an inner loop; who
\* waits there holds the mutex, and is alone.
StealStacks ==
  /\ steal_stack \in [StealThreads -> Seq(StealCalls)]
  /\ \A x \in StealThreads : \A d \in Calls(x) :
       d # Len(steal_stack[x]) => Call(x, d).at = "waiting"

StealMutex ==
  /\ \A x \in StealThreads : \A d \in Calls(x) :
       Call(x, d).at = "waiting" => steal_mtx = {Call(x, d).task}
  /\ \A x, y \in StealThreads : \A d \in Calls(x), e \in Calls(y) :
       Call(x, d).at = "waiting" /\ Call(y, e).at = "waiting" => x = y /\ d = e
  /\ steal_mtx # {} =>
       \E x \in StealThreads : \E d \in Calls(x) : Call(x, d).at = "waiting"

\* isolate: a task of the outer loop is nobody's second call.
StealIsolated ==
  isolated => \A x \in StealThreads : \A d \in Calls(x) :
                Call(x, d).at = "locking" => d = 1

\* The watchdog aborts where a thread locks again and no chunk is under way.
StealAborted ==
  over = "aborted" =>
    /\ \E x \in StealThreads : Steal!LocksAgain(x)
    /\ \A i \in 1..Outer : Steal!Running(i) = {}

StealInv == StealStacks /\ StealMutex /\ StealIsolated /\ StealAborted

StealRight == program = "steal" => StealInv

\* A call more on top of thread x.
LEMMA StealPushes ==
  ASSUME StealStacks, NEW x \in StealThreads, NEW call \in StealCalls,
         Steal!Push(x, call)
  PROVE  /\ steal_stack' \in [StealThreads -> Seq(StealCalls)]
         /\ \A y \in StealThreads \ {x} : steal_stack'[y] = steal_stack[y]
         /\ Len(steal_stack[x]) \in Nat
         /\ Len(steal_stack'[x]) = Len(steal_stack[x]) + 1
         /\ \A d \in Calls(x) : steal_stack'[x][d] = steal_stack[x][d]
         /\ steal_stack'[x][Len(steal_stack[x]) + 1] = call
<1>1. steal_stack[x] \in Seq(StealCalls)
      BY DEF StealStacks
<1>2. /\ Append(steal_stack[x], call) \in Seq(StealCalls)
      /\ Len(Append(steal_stack[x], call)) = Len(steal_stack[x]) + 1
      /\ Len(steal_stack[x]) \in Nat
      /\ \A d \in Calls(x) : Append(steal_stack[x], call)[d] = steal_stack[x][d]
      /\ Append(steal_stack[x], call)[Len(steal_stack[x]) + 1] = call
      BY <1>1, AppendProperties, LenProperties DEF Calls
<1>3. steal_stack' = [steal_stack EXCEPT ![x] = Append(steal_stack[x], call)]
      BY DEF Steal!Push
<1>4. steal_stack'[x] = Append(steal_stack[x], call)
      BY <1>3 DEF StealStacks
<1>5. /\ steal_stack' \in [StealThreads -> Seq(StealCalls)]
      /\ \A y \in StealThreads \ {x} : steal_stack'[y] = steal_stack[y]
      BY <1>2, <1>3 DEF StealStacks
<1> QED BY <1>2, <1>4, <1>5

\* The call on top of thread x returns.
LEMMA StealPops ==
  ASSUME StealStacks, NEW x \in StealThreads, steal_stack[x] # <<>>,
         Steal!Pop(x)
  PROVE  /\ steal_stack' \in [StealThreads -> Seq(StealCalls)]
         /\ \A y \in StealThreads \ {x} : steal_stack'[y] = steal_stack[y]
         /\ Len(steal_stack[x]) \in Nat \ {0}
         /\ Len(steal_stack'[x]) = Len(steal_stack[x]) - 1
         /\ \A d \in 1..Len(steal_stack[x]) - 1 :
              steal_stack'[x][d] = steal_stack[x][d]
<1> DEFINE s == steal_stack[x]
           r == SubSeq(s, 1, Len(s) - 1)
<1>1. s \in Seq(StealCalls)
      BY DEF StealStacks
<1>2. Len(s) \in Nat \ {0}
      BY <1>1, LenProperties, EmptySeq
<1>3. /\ r \in Seq(StealCalls) /\ Len(r) = Len(s) - 1
      /\ \A d \in 1..Len(s) - 1 : r[d] = s[d]
      BY <1>1, <1>2, SubSeqProperties
<1>4. steal_stack' = [steal_stack EXCEPT ![x] = r]
      BY DEF Steal!Pop
<1> HIDE DEF r
<1>5. steal_stack'[x] = r
      BY <1>4 DEF StealStacks
<1>6. /\ steal_stack' \in [StealThreads -> Seq(StealCalls)]
      /\ \A y \in StealThreads \ {x} : steal_stack'[y] = steal_stack[y]
      BY <1>3, <1>4 DEF StealStacks
<1> QED BY <1>2, <1>3, <1>5, <1>6

\* The call on top of thread x goes on to its inner loop.
LEMMA StealBecomes ==
  ASSUME StealStacks, NEW x \in StealThreads, steal_stack[x] # <<>>,
         Steal!Become(x, "waiting")
  PROVE  /\ steal_stack' \in [StealThreads -> Seq(StealCalls)]
         /\ \A y \in StealThreads \ {x} : steal_stack'[y] = steal_stack[y]
         /\ Len(steal_stack[x]) \in Nat \ {0}
         /\ Len(steal_stack'[x]) = Len(steal_stack[x])
         /\ \A d \in 1..Len(steal_stack[x]) - 1 :
              steal_stack'[x][d] = steal_stack[x][d]
         /\ steal_stack'[x][Len(steal_stack[x])]
              = [task |-> Call(x, Len(steal_stack[x])).task, at |-> "waiting"]
<1> DEFINE s == steal_stack[x]
           n == Len(s)
           r == [s EXCEPT ![n] = [task |-> s[n].task, at |-> "waiting"]]
<1>1. s \in Seq(StealCalls)
      BY DEF StealStacks
<1>2. n \in Nat \ {0}
      BY <1>1, LenProperties, EmptySeq
<1>3. s[n] \in StealCalls
      BY <1>1, <1>2, ElementOfSeq
<1>4. [task |-> s[n].task, at |-> "waiting"] \in StealCalls
      BY <1>3 DEF StealCalls
<1>5. /\ r \in Seq(StealCalls) /\ Len(r) = n
      /\ \A d \in 1..n - 1 : r[d] = s[d]
      /\ r[n] = [task |-> s[n].task, at |-> "waiting"]
      BY <1>1, <1>2, <1>4, ExceptSeq
<1>6. [s[n] EXCEPT !.at = "waiting"] = [task |-> s[n].task, at |-> "waiting"]
      BY <1>3 DEF StealCalls
<1>7. steal_stack' = [steal_stack EXCEPT ![x] = r]
      BY <1>6 DEF Steal!Become
<1> HIDE DEF r
<1>8. steal_stack'[x] = r
      BY <1>7 DEF StealStacks
<1>9. /\ steal_stack' \in [StealThreads -> Seq(StealCalls)]
      /\ \A y \in StealThreads \ {x} : steal_stack'[y] = steal_stack[y]
      BY <1>5, <1>7 DEF StealStacks
<1> QED BY <1>2, <1>5, <1>8, <1>9 DEF Call

\* Where the innermost call is.
LEMMA StealTop ==
  ASSUME StealStacks, NEW x \in StealThreads
  PROVE  /\ Len(steal_stack[x]) \in Nat
         /\ steal_stack[x] # <<>> =>
              /\ Len(steal_stack[x]) \in Calls(x)
              /\ Steal!Top(x) = Call(x, Len(steal_stack[x]))
         /\ steal_stack[x] = <<>> => Calls(x) = {}
         /\ \A d \in Calls(x) : Call(x, d) \in StealCalls
<1>1. steal_stack[x] \in Seq(StealCalls)
      BY DEF StealStacks
<1>2. Len(steal_stack[x]) \in Nat
      BY <1>1, LenProperties
<1>3. steal_stack[x] # <<>> => Len(steal_stack[x]) # 0
      BY <1>1, EmptySeq
<1>4. steal_stack[x] = <<>> => Len(steal_stack[x]) = 0
      BY <1>1, EmptySeq
<1>5. \A d \in Calls(x) : Call(x, d) \in StealCalls
      BY <1>1, ElementOfSeq DEF Call, Calls
<1> QED BY <1>2, <1>3, <1>4, <1>5 DEF Call, Calls, Steal!Top

\* Whoever starts something waits in a loop.
LEMMA StealStarts ==
  ASSUME StealInv, over = "no", NEW x \in StealThreads, NEW call \in StealCalls,
         call.at \in {"locking", "chunk"}, Steal!Push(x, call),
         steal_stack[x] # <<>> => Steal!Top(x).at = "waiting",
         isolated /\ call.at = "locking" => steal_stack[x] = <<>>,
         UNCHANGED <<isolated, steal_mtx, over>>
  PROVE  StealInv'
<1> DEFINE n == Len(steal_stack[x])
<1> USE DEF StealInv
<1>1. /\ steal_stack' \in [StealThreads -> Seq(StealCalls)]
      /\ \A y \in StealThreads \ {x} : steal_stack'[y] = steal_stack[y]
      /\ n \in Nat
      /\ Len(steal_stack'[x]) = n + 1
      /\ \A d \in Calls(x) : steal_stack'[x][d] = steal_stack[x][d]
      /\ steal_stack'[x][n + 1] = call
      BY StealPushes
<1>2. /\ n # 0 => Call(x, n).at = "waiting"
      /\ isolated /\ call.at = "locking" => n = 0
      BY StealTop DEF Calls
<1>3. ASSUME NEW y \in StealThreads, NEW d \in Calls(y)'
      PROVE  \/ d \in Calls(y) /\ Call(y, d)' = Call(y, d)
             \/ y = x /\ d = n + 1 /\ Call(y, d)' = call
      BY <1>1 DEF Calls, Call
<1>4. ASSUME NEW y \in StealThreads, NEW d \in Calls(y)
      PROVE  d \in Calls(y)' /\ Call(y, d)' = Call(y, d)
      BY <1>1 DEF Calls, Call
<1>5. StealStacks'
  <2>1. ASSUME NEW y \in StealThreads, NEW d \in Calls(y)', d # Len(steal_stack'[y])
        PROVE  Call(y, d)'.at = "waiting"
    <3>1. CASE y = x
          BY <1>1, <1>2, <1>3, <2>1, <3>1 DEF Calls, StealStacks
    <3>2. CASE y # x
          BY <1>1, <1>3, <2>1, <3>2 DEF StealStacks
    <3> QED BY <3>1, <3>2
  <2> QED BY <1>1, <2>1 DEF StealStacks
<1>6. StealMutex'
  <2>1. ASSUME NEW y \in StealThreads, NEW d \in Calls(y)', Call(y, d)'.at = "waiting"
        PROVE  d \in Calls(y) /\ Call(y, d)' = Call(y, d)
        BY <1>3, <2>1
  <2> HIDE DEF Call, Calls
  <2> QED BY <1>4, <2>1 DEF StealMutex
<1>7. StealIsolated'
      BY <1>2, <1>3 DEF StealIsolated
<1>8. StealAborted'
      BY DEF StealAborted
<1> QED BY <1>5, <1>6, <1>7, <1>8

\* A task or a chunk is started.
LEMMA StealTakes ==
  ASSUME StealInv, NEW x \in StealThreads, NEW i \in 1..Outer,
         Steal!StartTask(x, i) \/ Steal!StartChunk(x, i)
  PROVE  StealInv'
<1>1. /\ [task |-> i, at |-> "locking"] \in StealCalls
      /\ [task |-> i, at |-> "chunk"] \in StealCalls
      BY DEF StealCalls
<1>2. CASE Steal!StartTask(x, i)
      BY <1>1, <1>2, StealStarts
      DEF Steal!StartTask, Steal!MayStartTask, Steal!TakesAnyTask,
          Steal!InOuterLoop, Steal!InInnerLoop
<1>3. CASE Steal!StartChunk(x, i)
      BY <1>1, <1>3, StealStarts
      DEF Steal!StartChunk, Steal!MayStartChunk, Steal!TakesAnyTask,
          Steal!InOuterLoop, Steal!InInnerLoop
<1> QED BY <1>2, <1>3

\* Who gets the mutex is the only one to wait under it.
LEMMA StealLocks ==
  ASSUME StealInv, NEW x \in StealThreads, Steal!Lock(x)
  PROVE  StealInv'
<1>0. PICK n : n = Len(steal_stack[x])
      OBVIOUS
<1> USE <1>0 DEF StealInv
<1>1. /\ steal_stack[x] # <<>> /\ Steal!Become(x, "waiting")
      /\ steal_mtx = {} /\ steal_mtx' = {Steal!Top(x).task}
      /\ isolated' = isolated /\ over' = over /\ over = "no"
      BY DEF Steal!Lock
<1>2. /\ steal_stack' \in [StealThreads -> Seq(StealCalls)]
      /\ \A y \in StealThreads \ {x} : steal_stack'[y] = steal_stack[y]
      /\ n \in Nat \ {0}
      /\ Len(steal_stack'[x]) = n
      /\ \A d \in 1..n - 1 : steal_stack'[x][d] = steal_stack[x][d]
      /\ steal_stack'[x][n] = [task |-> Call(x, n).task, at |-> "waiting"]
      BY <1>1, StealBecomes
<1>3. Steal!Top(x) = Call(x, n) /\ n \in Calls(x)
      BY <1>1, StealTop
<1>4. ASSUME NEW y \in StealThreads, NEW d \in Calls(y)'
      PROVE  /\ d \in Calls(y)
             /\ \/ Call(y, d)' = Call(y, d)
                \/ y = x /\ d = n
      BY <1>2 DEF Calls, Call
<1>5. \A y \in StealThreads : \A d \in Calls(y) : Call(y, d).at # "waiting"
      BY <1>1 DEF StealMutex
<1>6. n \in Calls(x)'
      BY <1>2 DEF Calls
<1>7. StealStacks'
      BY <1>2, <1>4 DEF StealStacks
<1>8. StealMutex'
  <2>1. ASSUME NEW y \in StealThreads, NEW d \in Calls(y)', Call(y, d)'.at = "waiting"
        PROVE  y = x /\ d = n
        BY <1>4, <1>5, <2>1
  <2>2. Call(x, n)'.at = "waiting" /\ steal_mtx' = {Call(x, n)'.task}
        BY <1>1, <1>2, <1>3 DEF Call
  <2>3. \E y \in StealThreads : \E d \in Calls(y)' : Call(y, d)'.at = "waiting"
    <3> HIDE DEF Call, Calls
    <3> QED BY <1>6, <2>2
  <2>4. ASSUME NEW y \in StealThreads, NEW d \in Calls(y)', Call(y, d)'.at = "waiting"
        PROVE  steal_mtx' = {Call(y, d)'.task}
    <3> HIDE DEF Call, Calls
    <3> QED BY <2>1, <2>2, <2>4
  <2>5. ASSUME NEW y \in StealThreads, NEW d \in Calls(y)', Call(y, d)'.at = "waiting",
               NEW z \in StealThreads, NEW e \in Calls(z)', Call(z, e)'.at = "waiting"
        PROVE  y = z /\ d = e
    <3> HIDE DEF Call, Calls
    <3> QED BY <2>1, <2>5
  <2> HIDE DEF Call, Calls
  <2> QED BY <2>3, <2>4, <2>5 DEF StealMutex
<1>9. StealIsolated'
      BY <1>1, <1>2, <1>4 DEF StealIsolated, Call
<1>10. StealAborted'
      BY <1>1 DEF StealAborted
<1> QED BY <1>7, <1>8, <1>9, <1>10

\* A call returns that is a chunk, or the one that held the mutex.
LEMMA StealReturns ==
  ASSUME StealInv, NEW x \in StealThreads, Steal!FinishChunk(x) \/ Steal!Unlock(x)
  PROVE  StealInv'
<1> DEFINE n == Len(steal_stack[x])
<1> USE DEF StealInv
<1>1. /\ steal_stack[x] # <<>> /\ Steal!Pop(x) /\ over = "no"
      /\ isolated' = isolated /\ over' = over
      /\ \/ Steal!Top(x).at = "chunk" /\ steal_mtx' = steal_mtx
         \/ Steal!Top(x).at = "waiting" /\ steal_mtx' = {}
      BY DEF Steal!FinishChunk, Steal!Unlock, Steal!InInnerLoop
<1>2. /\ steal_stack' \in [StealThreads -> Seq(StealCalls)]
      /\ \A y \in StealThreads \ {x} : steal_stack'[y] = steal_stack[y]
      /\ n \in Nat \ {0}
      /\ Len(steal_stack'[x]) = n - 1
      /\ \A d \in 1..n - 1 : steal_stack'[x][d] = steal_stack[x][d]
      BY <1>1, StealPops
<1>3. Steal!Top(x) = Call(x, n) /\ n \in Calls(x)
      BY <1>1, StealTop
<1>4. ASSUME NEW y \in StealThreads, NEW d \in Calls(y)'
      PROVE  /\ d \in Calls(y) /\ Call(y, d)' = Call(y, d)
             /\ ~(y = x /\ d = n)
      BY <1>2 DEF Calls, Call
<1>5. ASSUME NEW y \in StealThreads, NEW d \in Calls(y), ~(y = x /\ d = n)
      PROVE  d \in Calls(y)' /\ Call(y, d)' = Call(y, d)
  <2>1. CASE y = x
    <3>1. d \in 1..n - 1
          BY <1>2, <1>5, <2>1 DEF Calls
    <3> QED BY <1>2, <2>1, <3>1 DEF Calls, Call
  <2>2. CASE y # x
        BY <1>2, <2>2 DEF Calls, Call
  <2> QED BY <2>1, <2>2
<1>6. StealStacks'
  <2>1. ASSUME NEW y \in StealThreads, NEW d \in Calls(y)', d # Len(steal_stack'[y])
        PROVE  Call(y, d)'.at = "waiting"
        BY <1>2, <1>4, <2>1 DEF StealStacks, Calls
  <2> QED BY <1>2, <2>1 DEF StealStacks
<1>7. StealMutex'
  <2>1. CASE Steal!Top(x).at = "chunk" /\ steal_mtx' = steal_mtx
    <3> HIDE DEF Call, Calls
    <3> QED BY <1>3, <1>4, <1>5, <2>1 DEF StealMutex
  <2>2. CASE Steal!Top(x).at = "waiting" /\ steal_mtx' = {}
    <3>1. ASSUME NEW y \in StealThreads, NEW d \in Calls(y)'
          PROVE  Call(y, d)'.at # "waiting"
          BY <1>3, <1>4, <2>2 DEF StealMutex
    <3> QED BY <2>2, <3>1 DEF StealMutex
  <2> QED BY <1>1, <2>1, <2>2
<1>8. StealIsolated'
      BY <1>1, <1>4 DEF StealIsolated
<1>9. StealAborted'
      BY <1>1 DEF StealAborted
<1> QED BY <1>6, <1>7, <1>8, <1>9

\* When every thread is blocked or finds nothing, the holder is blocked.
LEMMA StealAborts ==
  ASSUME StealInv, Steal!WatchdogAborts
  PROVE  StealInv'
<1> USE DEF StealInv
<1>1. /\ UNCHANGED <<isolated, outer, chunks, steal_stack, steal_mtx>>
      /\ \E x \in StealThreads : Steal!Blocked(x)
      /\ \A x \in StealThreads : Steal!Blocked(x) \/ Steal!FindsNothing(x)
      BY DEF Steal!WatchdogAborts
\* Nobody is inside a chunk.
<1>2. ASSUME NEW i \in 1..Outer
      PROVE  Steal!Running(i) = {}
  <2>1. SUFFICES ASSUME NEW y \in StealThreads, NEW d \in DOMAIN steal_stack[y],
                        steal_stack[y][d] = [task |-> i, at |-> "chunk"]
                 PROVE  FALSE
        BY DEF Steal!Running
  <2>2. d \in Calls(y)
        BY LenProperties DEF Calls, StealStacks
  <2>3. Call(y, d).at = "chunk"
        BY <2>1 DEF Call
  <2>4. d = Len(steal_stack[y])
        BY <2>2, <2>3 DEF StealStacks
  <2>5. steal_stack[y] # <<>> /\ Steal!Top(y).at = "chunk"
        BY <2>2, <2>3, <2>4, StealTop
  <2> QED BY <1>1, <2>5
          DEF Steal!Blocked, Steal!FindsNothing, Steal!InOuterLoop, Steal!InInnerLoop
\* Somebody holds the mutex.
<1>3. PICK x \in StealThreads : \E d \in Calls(x) : Call(x, d).at = "waiting"
      BY <1>1 DEF Steal!Blocked, StealMutex
<1>4. PICK d \in Calls(x) : Call(x, d).at = "waiting"
      BY <1>3
<1>5. /\ steal_mtx = {Call(x, d).task} /\ Call(x, d) \in StealCalls
      /\ Len(steal_stack[x]) \in Nat /\ steal_stack[x] # <<>>
      /\ Steal!Top(x) = Call(x, Len(steal_stack[x]))
      BY <1>4, StealTop DEF StealMutex
\* He does not wait for his inner loop, of which no chunk is left.
<1>6. Steal!Blocked(x)
  <2>1. SUFFICES ASSUME Steal!FindsNothing(x) PROVE FALSE
        BY <1>1
  <2>2. PICK i \in 1..Outer : Steal!InInnerLoop(x, i) /\ Steal!Unfinished(i)
        BY <1>5, <2>1 DEF Steal!FindsNothing, Steal!InOuterLoop, Steal!OuterTasks
  <2>3. Steal!MayStartChunk(x, i)
        BY <1>2, <2>2 DEF Steal!Unfinished, Steal!MayStartChunk
  <2> QED BY <2>1, <2>3 DEF Steal!FindsNothing, Steal!OuterTasks
<1>7. d # Len(steal_stack[x])
      BY <1>4, <1>5, <1>6 DEF Steal!Blocked
<1>8. d \in 1..Len(steal_stack[x]) - 1
      BY <1>4, <1>5, <1>7 DEF Calls
<1>9. Steal!LocksAgain(x)
      BY <1>5, <1>6, <1>8 DEF Steal!LocksAgain, Steal!Blocked, Call
<1>10. Steal!LocksAgain(x)' /\ \A i \in 1..Outer : Steal!Running(i)' = {}
      BY <1>1, <1>2, <1>9 DEF Steal!LocksAgain, Steal!Running, Steal!Top
<1>11. StealStacks' /\ StealMutex' /\ StealIsolated'
      BY <1>1 DEF StealStacks, StealMutex, StealIsolated, Call, Calls
<1> QED BY <1>10, <1>11 DEF StealAborted

\* The loop ends with every stack empty.
LEMMA StealFinishes ==
  ASSUME StealInv, Steal!Finish
  PROVE  StealInv'
<1> USE DEF StealInv
<1>1. /\ UNCHANGED <<isolated, outer, chunks, steal_stack, steal_mtx>>
      /\ over' = "done"
      BY DEF Steal!Finish
<1>2. StealStacks' /\ StealMutex' /\ StealIsolated'
      BY <1>1 DEF StealStacks, StealMutex, StealIsolated, Call, Calls
<1> QED BY <1>1, <1>2 DEF StealAborted

LEMMA StealBegins == Init => StealRight
<1> SUFFICES ASSUME Init, program = "steal" PROVE StealInv
    BY DEF StealRight
<1>1. Steal!Init
      BY DEF Init
<1>2. \A x \in StealThreads : steal_stack[x] = <<>>
      BY <1>1 DEF Steal!Init
<1>3. steal_stack \in [StealThreads -> Seq(StealCalls)]
      BY <1>1, EmptySeq DEF Steal!Init
<1>4. \A x \in StealThreads : Calls(x) = {}
      BY <1>2, EmptySeq DEF Calls
<1> QED BY <1>1, <1>3, <1>4
        DEF Steal!Init, StealInv, StealStacks, StealMutex, StealIsolated, StealAborted

LEMMA StealStep == StealRight /\ [Next]_vars => StealRight'
<1> SUFFICES ASSUME StealRight, [Next]_vars PROVE StealRight'
    OBVIOUS
<1>1. CASE RunSteal
  <2>1. StealInv /\ Steal!Next
        BY <1>1 DEF RunSteal, StealRight
  <2>2. StealInv'
        BY <2>1, StealTakes, StealLocks, StealReturns, StealAborts, StealFinishes
        DEF Steal!Next, Steal!Thread, Steal!OuterTasks
  <2> QED BY <2>2 DEF StealRight
<1>2. CASE program' = program /\ (program # "steal" \/ UNCHANGED stealVars)
  <2>1. CASE program # "steal"
        BY <1>2, <2>1 DEF StealRight
  <2>2. CASE UNCHANGED stealVars
    <3> SUFFICES ASSUME StealInv PROVE StealInv'
        BY <1>2 DEF StealRight
    <3> QED BY <2>2 DEF stealVars, StealInv, StealStacks, StealMutex, StealIsolated,
                        StealAborted, Steal!LocksAgain, Steal!Running, Steal!Top,
                        Call, Calls
  <2> QED BY <1>2, <2>1, <2>2
<1>3. Next => RunSteal \/ (program' = program /\ program # "steal")
      BY DEF Next, RunReduction, RunSearch, RunCover, RunThreaded, RunTbb,
             RunGate, RunTeam, RunSplitting, RunSlotted
<1>4. UNCHANGED vars => program' = program /\ UNCHANGED stealVars
      BY DEF vars
<1> QED BY <1>1, <1>2, <1>3, <1>4

\* A mutex held over a nested loop deadlocks only when its holder starts
\* another task that locks it, and never inside isolate
\* (case3_nestedTask.cpp:313-324, 342-355).
THEOREM NestedLockCorrect == Spec => []NestedLock
<1>1. StealRight => NestedLock
  <2> SUFFICES ASSUME StealInv, isolated, NEW x \in StealThreads,
                      Steal!LocksAgain(x)
               PROVE  FALSE
      BY DEF StealRight, StealInv, StealAborted, NestedLock,
             Steal!DeadlocksOnItself, Steal!OuterTasks
  <2>1. PICK d \in 1..Len(steal_stack[x]) - 1 : steal_stack[x][d].task \in steal_mtx
        BY DEF Steal!LocksAgain
  <2>2. /\ Len(steal_stack[x]) \in Calls(x) /\ Len(steal_stack[x]) \in Nat
        /\ Call(x, Len(steal_stack[x])).at = "locking"
        BY StealTop DEF Steal!LocksAgain, StealInv
  <2>3. Len(steal_stack[x]) = 1
        BY <2>2 DEF StealInv, StealIsolated
  <2> QED BY <2>1, <2>3
<1> QED BY <1>1, StealBegins, StealStep, PTL DEF Spec

-----------------------------------------------------------------------------
\* The timed counters behind a gate.

GateAt(place) == {u \in Gate!Threads : gate_pc[u] = place}

\* The increments that were made: thread u makes its j-th one when the rest is
\* less than j.
Counted == {x \in Gate!Threads \X (1..Gate!per_thread) :
              /\ gate_pc[x[1]] \in {"counting", "storing", "exited"}
              /\ left[x[1]] < x[2]}

\* What n threads leave of the work when each takes the same share.
Leftover(n) == TotalWork % n

GateTypes ==
  /\ bench \in Gate!Gated \cup {"per_task_thread"} /\ gate_threads \in Nat
  /\ DOMAIN gate_pc = Gate!Threads
  /\ left \in [Gate!Threads -> Nat] /\ gate_seen \in [Gate!Threads -> Nat]
  /\ gate_counter \in Nat /\ next_task \in Nat /\ gate_done \in Nat
  /\ go \in BOOLEAN /\ gate_mtx \subseteq Gate!Threads

\* Where the threads of each benchmark may be.
GatePlaces ==
  /\ bench = "thread_count" => \A u \in Gate!Threads :
       gate_pc[u] \in {"absent", "starting", "waiting", "claiming", "running",
                       "reporting", "exited"}
  /\ bench \in Gate!Counting => \A u \in Gate!Threads :
       /\ gate_pc[u] \in {"absent", "starting", "waiting", "counting", "storing",
                          "exited"}
       /\ gate_pc[u] = "storing" => bench = "mutex"
  /\ bench = "per_task_thread" => \A u \in Gate!Threads :
       gate_pc[u] \in {"absent", "running", "exited"}

\* How far main is, and what that says about the threads: the gate is closed
\* until all are there, and the clock stops when all have reported.
GatePhases ==
  /\ gate_main \in {"creating", "gathering", "timing", "joining", "verifying",
                    "finished", "aborted", "undefined"}
  /\ gate_main \notin {"creating", "undefined"} => gate_threads # 0
  /\ bench \in Gate!Gated /\ gate_main = "creating" => gate_threads # 0
  /\ bench \notin Gate!Gated => gate_main \notin {"gathering", "timing"}
                                 /\ gate_threads = TotalTasks
  /\ bench \in Gate!Gated /\ gate_main \in {"creating", "gathering"} => ~go
  /\ bench \in Gate!Gated /\ ~go => \A u \in Gate!Threads :
       gate_pc[u] \in {"absent", "starting", "waiting"}
  /\ bench \in Gate!Gated => gate_done = Cardinality(GateAt("exited"))
  /\ \/ gate_main \in {"verifying", "finished", "aborted"}
     \/ gate_main = "joining" /\ bench \in Gate!Gated
     => \A u \in Gate!Threads : gate_pc[u] = "exited"
  /\ gate_main = "aborted" => bench \in {"mutex", "atomic"}
                               /\ Leftover(gate_threads) # 0
  /\ gate_main # "creating" => \A u \in Gate!Threads : gate_pc[u] # "absent"

\* What was counted so far.
GateCounts ==
  /\ bench = "baseline" => gate_counter = 0
  /\ bench = "per_task_thread" => gate_counter = Cardinality(GateAt("exited"))
  /\ bench \in {"mutex", "atomic"} /\ gate_threads # 0 =>
       gate_counter = Cardinality(Counted)
  /\ bench \in Gate!Counting => \A u \in Gate!Threads :
       /\ gate_pc[u] \in {"counting", "storing"} => left[u] <= Gate!per_thread
       /\ gate_pc[u] = "storing" => left[u] # 0
       /\ gate_pc[u] = "exited" => left[u] = 0
  /\ bench = "thread_count" =>
       /\ ~go => next_task = 0
       /\ gate_counter + Cardinality(GateAt("running")) =
            IF next_task < TotalTasks THEN next_task ELSE TotalTasks
       /\ \A u \in Gate!Threads :
            gate_pc[u] \in {"reporting", "exited"} => next_task >= TotalTasks

\* The mutex is of the thread that is about to store what it loaded.
GateLock ==
  /\ \A u \in Gate!Threads : u \in gate_mtx <=> gate_pc[u] = "storing"
  /\ \A u, v \in gate_mtx : u = v
  /\ \A u \in gate_mtx : gate_seen[u] = gate_counter

GateInv == GateTypes /\ GatePlaces /\ GatePhases /\ GateCounts /\ GateLock

GateRight == program = "gate" => GateInv

\* The threads are finitely many.
LEMMA GateCount ==
  ASSUME gate_threads \in Nat, NEW S \in SUBSET Gate!Threads
  PROVE  /\ IsFiniteSet(S) /\ Cardinality(S) \in Nat
         /\ \A u \in Gate!Threads \ S : Cardinality(S \cup {u}) = Cardinality(S) + 1
         /\ \A u \in S : Cardinality(S \ {u}) = Cardinality(S) - 1
         /\ Cardinality(S) = gate_threads => S = Gate!Threads
<1>1. /\ IsFiniteSet(Gate!Threads)
      /\ Cardinality(Gate!Threads) = gate_threads
      BY FS_Interval DEF Gate!Threads
<1>2. IsFiniteSet(S)
      BY <1>1, FS_Subset
<1>3. Cardinality(S) \in Nat
      BY <1>2, FS_CardinalityType
<1>4. \A u \in Gate!Threads \ S : Cardinality(S \cup {u}) = Cardinality(S) + 1
      BY <1>2, FS_AddElement
<1>5. \A u \in S : Cardinality(S \ {u}) = Cardinality(S) - 1
      BY <1>2, FS_RemoveElement
<1>6. Cardinality(S) = gate_threads => S = Gate!Threads
      BY <1>1, FS_Subset
<1> QED BY <1>2, <1>3, <1>4, <1>5, <1>6

\* And so are their increments.
LEMMA CountedCount ==
  ASSUME gate_threads \in Nat, gate_threads # 0,
         NEW S \in SUBSET (Gate!Threads \X (1..Gate!per_thread))
  PROVE  /\ Gate!per_thread \in Nat
         /\ IsFiniteSet(S) /\ Cardinality(S) \in Nat
         /\ \A x : x \notin S => Cardinality(S \cup {x}) = Cardinality(S) + 1
         /\ Cardinality(Gate!Threads \X (1..Gate!per_thread))
              = gate_threads * Gate!per_thread
<1>1. Gate!per_thread \in Nat
      BY BenchmarkAssumption DEF Gate!per_thread
<1>2. /\ IsFiniteSet(Gate!Threads)
      /\ Cardinality(Gate!Threads) = gate_threads
      BY FS_Interval DEF Gate!Threads
<1>3. IsFiniteSet(1..Gate!per_thread) /\ Cardinality(1..Gate!per_thread) = Gate!per_thread
      BY <1>1, FS_Interval
<1>4. /\ IsFiniteSet(Gate!Threads \X (1..Gate!per_thread))
      /\ Cardinality(Gate!Threads \X (1..Gate!per_thread))
           = gate_threads * Gate!per_thread
      BY <1>2, <1>3, FS_Product
<1>5. IsFiniteSet(S)
      BY <1>4, FS_Subset
<1> QED BY <1>1, <1>4, <1>5, FS_CardinalityType, FS_AddElement

\* What the threads count together, and what is left.
LEMMA WorkDivides ==
  ASSUME NEW n \in Nat, n # 0
  PROVE  n * (TotalWork \div n) = TotalWork - Leftover(n) /\ Leftover(n) \in Nat
BY BenchmarkAssumption DEF Leftover

\* When all threads have gone, all was counted, but for what is left.
LEMMA GateTotal ==
  ASSUME GateInv, gate_threads # 0,
         \A u \in Gate!Threads : gate_pc[u] = "exited"
  PROVE  /\ gate_counter = Gate!Expected - Gate!Dropped
         /\ Gate!Verified <=> Gate!Dropped = 0
         /\ Gate!Dropped # 0 <=> bench \in {"mutex", "atomic"}
                                 /\ Leftover(gate_threads) # 0
<1> USE DEF GateInv
<1>0. gate_threads \in Nat
      BY DEF GateTypes
<1>1. CASE bench \in {"mutex", "atomic"}
  <2>1. Counted = Gate!Threads \X (1..Gate!per_thread)
    <3>1. \A u \in Gate!Threads : left[u] = 0
          BY <1>1 DEF GateCounts, Gate!Counting
    <3>2. Gate!per_thread \in Nat
          BY <1>0, CountedCount
    <3> QED BY <3>1, <3>2 DEF Counted
  <2>2. Cardinality(Counted) = gate_threads * Gate!per_thread
        BY <1>0, <2>1, CountedCount, Zenon
  <2>3. gate_counter = gate_threads * (TotalWork \div gate_threads)
        BY <1>1, <2>2 DEF GateCounts, Gate!per_thread
  <2>4. gate_counter = TotalWork - Leftover(gate_threads) /\ Leftover(gate_threads) \in Nat
        BY <1>0, <2>3, WorkDivides
  <2>5. /\ Gate!Expected = TotalWork /\ Gate!Dropped = Leftover(gate_threads)
        /\ Gate!Verified <=> gate_counter = TotalWork
        BY <1>1 DEF Gate!Expected, Gate!Dropped, Gate!Verified, Leftover
  <2>6. gate_counter = TotalWork <=> Leftover(gate_threads) = 0
        BY <2>4, BenchmarkAssumption
  <2> QED BY <1>1, <2>4, <2>5, <2>6
<1>2. CASE bench \notin {"mutex", "atomic"}
  <2>1. gate_counter = Gate!Expected /\ Gate!Expected \in Nat
    <3>1. CASE bench = "baseline"
          BY <3>1 DEF GateCounts, Gate!Expected
    <3>2. CASE bench = "thread_count"
      <4>1. GateAt("running") = {}
            BY DEF GateAt
      <4>2. Cardinality(GateAt("running")) = 0
            BY <4>1, FS_EmptySet, Zenon
      <4>3. 0 \in Gate!Threads
            BY <1>0 DEF Gate!Threads
      <4>4. next_task >= TotalTasks
            BY <3>2, <4>3 DEF GateCounts
      <4> QED BY <3>2, <4>2, <4>4, BenchmarkAssumption
              DEF GateCounts, GateTypes, Gate!Expected
    <3>3. CASE bench = "per_task_thread"
      <4>1. GateAt("exited") = Gate!Threads
            BY DEF GateAt
      <4>2. Cardinality(GateAt("exited")) = gate_threads
            BY <1>0, <4>1, FS_Interval DEF Gate!Threads
      <4> QED BY <3>3, <4>2, BenchmarkAssumption
              DEF GateCounts, GatePhases, Gate!Expected, Gate!Gated, Gate!Counting
    <3> QED BY <1>2, <3>1, <3>2, <3>3 DEF GateTypes, Gate!Gated, Gate!Counting
  <2>2. Gate!Dropped = 0 /\ Gate!Verified
        BY <1>2 DEF Gate!Dropped, Gate!Verified
  <2> QED BY <1>2, <2>1, <2>2
<1> QED BY <1>1, <1>2

\* What main reads off the counter.
LEMMA GateMeans == GateInv => Gate!TimedExactly
<1> SUFFICES ASSUME GateInv PROVE Gate!TimedExactly
    OBVIOUS
<1> USE DEF GateInv
<1>0. gate_threads \in Nat
      BY DEF GateTypes
<1>1. ASSUME bench \in Gate!Gated, gate_main \in {"creating", "gathering"}
      PROVE  gate_counter = 0
  <2>1. \A u \in Gate!Threads : gate_pc[u] \in {"absent", "starting", "waiting"}
        BY <1>1 DEF GatePhases
  <2>2. GateAt("running") = {} /\ Counted = {}
        BY <2>1 DEF GateAt, Counted
  <2>3. Cardinality(GateAt("running")) = 0 /\ Cardinality(Counted) = 0
        BY <2>2, FS_EmptySet, Zenon
  <2>4. gate_threads # 0 /\ ~go
        BY <1>1 DEF GatePhases
  <2> QED BY <1>1, <2>3, <2>4, BenchmarkAssumption
          DEF GateCounts, GateTypes, Gate!Gated, Gate!Counting
<1>2. ASSUME gate_main = "verifying" \/ (gate_main = "joining" /\ bench \in Gate!Gated)
      PROVE  /\ gate_counter = Gate!Expected - Gate!Dropped
             /\ Gate!Verified <=> Gate!Dropped = 0
  <2>1. gate_threads # 0 /\ \A u \in Gate!Threads : gate_pc[u] = "exited"
        BY <1>2 DEF GatePhases
  <2> QED BY <2>1, GateTotal
<1>3. ASSUME gate_main = "aborted"
      PROVE  Gate!Dropped # 0
  <2>1. gate_threads # 0 /\ \A u \in Gate!Threads : gate_pc[u] = "exited"
        BY <1>3 DEF GatePhases
  <2>2. bench \in {"mutex", "atomic"} /\ Leftover(gate_threads) # 0
        BY <1>3 DEF GatePhases
  <2> QED BY <2>1, <2>2, GateTotal
<1> QED BY <1>1, <1>2, <1>3 DEF Gate!TimedExactly

\* A thread goes to another place.
LEMMA GateGoes ==
  ASSUME GateTypes, NEW u \in Gate!Threads, NEW place, Gate!Goto(u, place),
         gate_threads' = gate_threads
  PROVE  /\ Gate!Threads' = Gate!Threads /\ Gate!per_thread' = Gate!per_thread
         /\ DOMAIN gate_pc' = Gate!Threads
         /\ gate_pc'[u] = place
         /\ \A v \in Gate!Threads \ {u} : gate_pc'[v] = gate_pc[v]
         /\ GateAt(place)' = GateAt(place) \cup {u}
         /\ \A p : p # place => GateAt(p)' = GateAt(p) \ {u}
<1>1. Gate!Threads' = Gate!Threads /\ Gate!per_thread' = Gate!per_thread
      BY DEF Gate!Threads, Gate!per_thread
<1>2. gate_pc' = [gate_pc EXCEPT ![u] = place]
      BY DEF Gate!Goto
<1>3. /\ DOMAIN gate_pc' = Gate!Threads
      /\ gate_pc'[u] = place
      /\ \A v \in Gate!Threads \ {u} : gate_pc'[v] = gate_pc[v]
      BY <1>2 DEF GateTypes
<1>4. GateAt(place)' = GateAt(place) \cup {u}
      BY <1>1, <1>3 DEF GateAt
<1>5. ASSUME NEW p, p # place
      PROVE  GateAt(p)' = GateAt(p) \ {u}
      BY <1>1, <1>3, <1>5 DEF GateAt
<1> QED BY <1>1, <1>3, <1>4, <1>5

\* How the cardinalities change.
LEMMA GateTally ==
  ASSUME GateTypes, NEW u \in Gate!Threads, NEW from, NEW place,
         Gate!Goto(u, place), gate_threads' = gate_threads,
         gate_pc[u] = from, from # place
  PROVE  /\ \A p : Cardinality(GateAt(p)) \in Nat
         /\ Cardinality(GateAt(place)') = Cardinality(GateAt(place)) + 1
         /\ Cardinality(GateAt(from)') = Cardinality(GateAt(from)) - 1
         /\ \A p : p \notin {place, from} => GateAt(p)' = GateAt(p)
<1>0. gate_threads \in Nat
      BY DEF GateTypes
<1>1. \A p : GateAt(p) \in SUBSET Gate!Threads
      BY DEF GateAt
<1>2. u \notin GateAt(place) /\ u \in GateAt(from)
      BY DEF GateAt
<1>3. Cardinality(GateAt(place) \cup {u}) = Cardinality(GateAt(place)) + 1
      BY <1>0, <1>1, <1>2, GateCount
<1>4. Cardinality(GateAt(from) \ {u}) = Cardinality(GateAt(from)) - 1
      BY <1>0, <1>1, <1>2, GateCount
<1>5. \A p : Cardinality(GateAt(p)) \in Nat
      BY <1>0, <1>1, GateCount
<1>6. \A p : p \notin {place, from} => GateAt(p)' = GateAt(p)
  <2>1. \A p : p # from => u \notin GateAt(p)
        BY DEF GateAt
  <2> QED BY <2>1, GateGoes
<1>7. GateAt(place)' = GateAt(place) \cup {u}
      BY GateGoes
<1>8. GateAt(from)' = GateAt(from) \ {u}
      BY GateGoes
<1> QED BY <1>3, <1>4, <1>5, <1>6, <1>7, <1>8

\* main creates its threads.
LEMMA GateCreates ==
  ASSUME GateInv, NEW u \in Gate!Threads, Gate!Create(u)
  PROVE  GateInv'
<1> USE DEF GateInv
<1>1. PICK place : place = IF bench \in Gate!Gated THEN "starting" ELSE "running"
      OBVIOUS
<1>2. /\ gate_main = "creating" /\ gate_pc[u] = "absent"
      /\ \A v \in 0..u - 1 : gate_pc[v] # "absent"
      /\ Gate!Goto(u, place)
      /\ gate_main' = IF u # gate_threads - 1 THEN "creating"
                      ELSE IF bench \in Gate!Gated THEN "gathering" ELSE "joining"
      /\ UNCHANGED <<bench, gate_threads, gate_done, go, next_task, gate_counter,
                     gate_mtx, left, gate_seen>>
      BY <1>1 DEF Gate!Create
<1>3. /\ Gate!Threads' = Gate!Threads /\ Gate!per_thread' = Gate!per_thread
      /\ DOMAIN gate_pc' = Gate!Threads
      /\ gate_pc'[u] = place
      /\ \A v \in Gate!Threads \ {u} : gate_pc'[v] = gate_pc[v]
      BY <1>2, GateGoes
<1>4. GateAt("exited")' = GateAt("exited")
      BY <1>1, <1>2, GateTally
<1>5. bench \in Gate!Gated => GateAt("running")' = GateAt("running")
      BY <1>1, <1>2, GateTally
<1>6. Counted' = Counted
      BY <1>1, <1>2, <1>3 DEF Counted
<1>7. GateTypes'
      BY <1>2, <1>3 DEF GateTypes, Gate!Gated, Gate!Counting
<1>8. GatePlaces'
      BY <1>1, <1>2, <1>3 DEF GatePlaces, Gate!Gated, Gate!Counting
<1>9. GatePhases'
  <2>1. ASSUME u = gate_threads - 1, NEW v \in Gate!Threads
        PROVE  gate_pc'[v] # "absent"
    <3>1. v # u => v \in 0..u - 1
          BY <2>1 DEF GateTypes, Gate!Threads
    <3> QED BY <1>1, <1>2, <1>3, <3>1
  <2>2. gate_threads # 0
        BY DEF Gate!Threads, GateTypes
  <2>3. bench \in Gate!Gated => \A v \in Gate!Threads :
          gate_pc'[v] \in {"absent", "starting", "waiting"}
        BY <1>1, <1>2, <1>3 DEF GatePhases
  <2> QED BY <1>2, <1>3, <1>4, <2>1, <2>2, <2>3 DEF GatePhases
<1>10. GateCounts'
      BY <1>1, <1>2, <1>3, <1>4, <1>5, <1>6 DEF GateCounts, Gate!Gated, Gate!Counting
<1>11. GateLock'
      BY <1>1, <1>2, <1>3 DEF GateLock
<1> QED BY <1>7, <1>8, <1>9, <1>10, <1>11

\* main opens the gate, stops the clock, joins, verifies and ends.
LEMMA GateMainGoes ==
  ASSUME GateInv, \/ Gate!Release \/ Gate!StopClock \/ Gate!Join
                  \/ Gate!VerifyFails \/ Gate!Finish
  PROVE  GateInv'
<1> USE DEF GateInv
<1>1. UNCHANGED <<bench, gate_threads, gate_done, next_task, gate_counter,
                  gate_mtx, gate_pc, left, gate_seen>>
      BY DEF Gate!Release, Gate!StopClock, Gate!Join, Gate!VerifyFails, Gate!Finish
<1>2. Gate!Threads' = Gate!Threads /\ Gate!per_thread' = Gate!per_thread
      BY <1>1 DEF Gate!Threads, Gate!per_thread
<1>3. /\ \A p : GateAt(p)' = GateAt(p)
      /\ Counted' = Counted
      BY <1>1, <1>2 DEF GateAt, Counted
<1>4. /\ gate_main = "gathering" /\ gate_main' = "timing" /\ go' = TRUE
      \/ /\ \/ gate_main = "timing" /\ gate_main' = "joining"
               /\ gate_done = gate_threads
            \/ gate_main = "joining" /\ gate_main' = "verifying"
               /\ \A u \in Gate!Threads : gate_pc[u] = "exited"
            \/ gate_main = "verifying" /\ gate_main' = "finished"
            \/ gate_main = "verifying" /\ gate_main' = "aborted" /\ ~Gate!Verified
         /\ go' = go
      BY DEF Gate!Release, Gate!StopClock, Gate!Join, Gate!VerifyFails, Gate!Finish
<1>5. GateTypes' /\ GatePlaces' /\ GateLock'
      BY <1>1, <1>2, <1>4 DEF GateTypes, GatePlaces, GateLock
<1>6. GateCounts'
  <2>1. go => go'
        BY <1>4
  <2> QED BY <1>1, <1>2, <1>3, <2>1 DEF GateCounts
<1>7. GatePhases'
  <2>1. bench \in Gate!Gated /\ gate_done = gate_threads =>
          \A u \in Gate!Threads : gate_pc[u] = "exited"
    <3>1. GateAt("exited") \in SUBSET Gate!Threads
          BY DEF GateAt
    <3>2. bench \in Gate!Gated /\ gate_done = gate_threads =>
            GateAt("exited") = Gate!Threads
          BY <3>1, GateCount DEF GatePhases, GateTypes
    <3> QED BY <3>2 DEF GateAt
  <2>2. gate_main = "verifying" /\ ~Gate!Verified =>
          bench \in {"mutex", "atomic"} /\ Leftover(gate_threads) # 0
    <3>1. gate_main = "verifying" =>
            gate_threads # 0 /\ \A u \in Gate!Threads : gate_pc[u] = "exited"
          BY DEF GatePhases
    <3> QED BY <3>1, GateTotal
  <2> QED BY <1>1, <1>2, <1>3, <1>4, <2>1, <2>2 DEF GatePhases
<1> QED BY <1>5, <1>6, <1>7

\* An iteration more.
LEMMA GateAgain ==
  ASSUME GateInv, Gate!NextIteration
  PROVE  GateInv'
<1> USE DEF GateInv
<1>1. /\ gate_main = "verifying" /\ gate_main' = "creating"
      /\ gate_done' = 0 /\ go' = FALSE /\ next_task' = 0 /\ gate_counter' = 0
      /\ gate_pc' = [u \in Gate!Threads |-> "absent"]
      /\ UNCHANGED <<bench, gate_threads, gate_mtx, left, gate_seen>>
      BY DEF Gate!NextIteration, Gate!Fresh
<1>2. Gate!Threads' = Gate!Threads /\ Gate!per_thread' = Gate!per_thread
      BY <1>1 DEF Gate!Threads, Gate!per_thread
<1>3. \A p : p # "absent" => GateAt(p)' = {}
      BY <1>1, <1>2 DEF GateAt
<1>4. Counted' = {}
      BY <1>1, <1>2 DEF Counted
<1>5. /\ Cardinality(GateAt("exited")') = 0 /\ Cardinality(GateAt("running")') = 0
      /\ Cardinality(Counted') = 0
      BY <1>3, <1>4, FS_EmptySet
<1>6. gate_mtx = {}
      BY <1>1 DEF GatePhases, GateLock, GateTypes
<1>7. GateTypes' /\ GatePlaces' /\ GateLock'
      BY <1>1, <1>2, <1>6 DEF GateTypes, GatePlaces, GateLock
<1>8. GateCounts'
      BY <1>1, <1>2, <1>5, BenchmarkAssumption DEF GateCounts
<1>9. GatePhases'
      BY <1>1, <1>2, <1>5 DEF GatePhases
<1> QED BY <1>7, <1>8, <1>9

\* A thread comes to the gate, or passes it.
LEMMA GateEnters ==
  ASSUME GateInv, NEW u \in Gate!Threads, Gate!Announce(u) \/ Gate!Pass(u)
  PROVE  GateInv'
<1> USE DEF GateInv
<1>1. PICK from, place :
        /\ gate_pc[u] = from /\ Gate!Goto(u, place)
        /\ \/ from = "starting" /\ place = "waiting" /\ left' = left
           \/ /\ from = "waiting" /\ go
              /\ place = IF bench = "thread_count" THEN "claiming" ELSE "counting"
              /\ left' = [left EXCEPT ![u] = IF bench \in Gate!Counting
                                             THEN Gate!per_thread ELSE 0]
        /\ UNCHANGED <<bench, gate_threads, gate_main, gate_done, go, next_task,
                       gate_counter, gate_mtx, gate_seen>>
      BY DEF Gate!Announce, Gate!Pass
<1>2. /\ Gate!Threads' = Gate!Threads /\ Gate!per_thread' = Gate!per_thread
      /\ DOMAIN gate_pc' = Gate!Threads
      /\ gate_pc'[u] = place
      /\ \A v \in Gate!Threads \ {u} : gate_pc'[v] = gate_pc[v]
      BY <1>1, GateGoes
<1>3. GateAt("exited")' = GateAt("exited") /\ GateAt("running")' = GateAt("running")
      BY <1>1, GateTally
<1>4. Gate!per_thread \in Nat
  <2>1. gate_threads \in Nat \ {0}
        BY DEF GateTypes, Gate!Threads
  <2> QED BY <2>1, CountedCount
<1>5. bench \in Gate!Gated
      BY <1>1 DEF GateTypes, GatePlaces
<1>6. /\ left' \in [Gate!Threads -> Nat]
      /\ \A v \in Gate!Threads \ {u} : left'[v] = left[v]
      /\ from = "waiting" /\ bench \in Gate!Counting => left'[u] = Gate!per_thread
      BY <1>1, <1>4 DEF GateTypes
<1>7. bench \in Gate!Counting => Counted' = Counted
  <2>1. ASSUME bench \in Gate!Counting, NEW v \in Gate!Threads,
               NEW j \in 1..Gate!per_thread
        PROVE  <<v, j>> \in Counted' <=> <<v, j>> \in Counted
    <3>1. CASE v = u
          BY <1>1, <1>2, <1>4, <1>6, <2>1, <3>1 DEF Counted, Gate!Counting
    <3>2. CASE v # u
          BY <1>2, <1>6, <3>2 DEF Counted
    <3> QED BY <3>1, <3>2
  <2> QED BY <1>2, <2>1 DEF Counted
<1>8. GateTypes'
      BY <1>1, <1>2, <1>6 DEF GateTypes
<1>9. GatePlaces'
      BY <1>1, <1>2, <1>5 DEF GatePlaces, Gate!Gated, Gate!Counting
<1>10. GatePhases'
      BY <1>1, <1>2, <1>3, <1>5 DEF GatePhases
<1>11. GateCounts'
      BY <1>1, <1>2, <1>3, <1>4, <1>5, <1>6, <1>7
      DEF GateCounts, Gate!Gated, Gate!Counting
<1>12. GateLock'
      BY <1>1, <1>2 DEF GateLock
<1> QED BY <1>8, <1>9, <1>10, <1>11, <1>12

\* A task is claimed, or none is left.
LEMMA GateClaims ==
  ASSUME GateInv, NEW u \in Gate!Threads, Gate!Claim(u)
  PROVE  GateInv'
<1> USE DEF GateInv
<1>1. PICK place : place = IF next_task >= TotalTasks THEN "reporting" ELSE "running"
      OBVIOUS
<1>2. /\ gate_pc[u] = "claiming" /\ next_task' = next_task + 1
      /\ Gate!Goto(u, place)
      /\ UNCHANGED <<bench, gate_threads, gate_main, gate_done, go, gate_counter,
                     gate_mtx, left, gate_seen>>
      BY <1>1 DEF Gate!Claim
<1>3. /\ Gate!Threads' = Gate!Threads /\ Gate!per_thread' = Gate!per_thread
      /\ DOMAIN gate_pc' = Gate!Threads
      /\ gate_pc'[u] = place
      /\ \A v \in Gate!Threads \ {u} : gate_pc'[v] = gate_pc[v]
      BY <1>2, GateGoes
<1>4. bench = "thread_count" /\ go
      BY <1>2 DEF GateTypes, GatePlaces, GatePhases, Gate!Gated, Gate!Counting
<1>5. /\ GateAt("exited")' = GateAt("exited")
      /\ Cardinality(GateAt("running")) \in Nat
      /\ Cardinality(GateAt("running")') =
           IF next_task >= TotalTasks THEN Cardinality(GateAt("running"))
           ELSE Cardinality(GateAt("running")) + 1
      BY <1>1, <1>2, GateTally
<1>6. GateTypes'
      BY <1>2, <1>3 DEF GateTypes
<1>7. GatePlaces'
      BY <1>1, <1>2, <1>3, <1>4 DEF GatePlaces, Gate!Counting
<1>8. GatePhases'
      BY <1>1, <1>2, <1>3, <1>4, <1>5 DEF GatePhases
<1>9. GateCounts'
  <2>1. gate_counter' + Cardinality(GateAt("running")') =
          IF next_task' < TotalTasks THEN next_task' ELSE TotalTasks
        BY <1>2, <1>4, <1>5, BenchmarkAssumption DEF GateCounts, GateTypes
  <2>2. \A v \in Gate!Threads : gate_pc'[v] \in {"reporting", "exited"} =>
          next_task' >= TotalTasks
        BY <1>1, <1>2, <1>3, <1>4, BenchmarkAssumption DEF GateCounts, GateTypes
  <2> QED BY <1>2, <1>3, <1>4, <2>1, <2>2 DEF GateCounts, Gate!Counting
<1>10. GateLock'
      BY <1>1, <1>2, <1>3 DEF GateLock
<1> QED BY <1>6, <1>7, <1>8, <1>9, <1>10

\* A task is run.
LEMMA GateRuns ==
  ASSUME GateInv, NEW u \in Gate!Threads, Gate!RunTask(u)
  PROVE  GateInv'
<1> USE DEF GateInv
<1>1. PICK place : place = IF bench = "thread_count" THEN "claiming" ELSE "exited"
      OBVIOUS
<1>2. /\ gate_pc[u] = "running" /\ gate_counter' = gate_counter + 1
      /\ Gate!Goto(u, place)
      /\ UNCHANGED <<bench, gate_threads, gate_main, gate_done, go, next_task,
                     gate_mtx, left, gate_seen>>
      BY <1>1 DEF Gate!RunTask
<1>3. /\ Gate!Threads' = Gate!Threads /\ Gate!per_thread' = Gate!per_thread
      /\ DOMAIN gate_pc' = Gate!Threads
      /\ gate_pc'[u] = place
      /\ \A v \in Gate!Threads \ {u} : gate_pc'[v] = gate_pc[v]
      BY <1>2, GateGoes
<1>4. \/ bench = "thread_count" /\ go
      \/ bench = "per_task_thread" /\ bench \notin Gate!Gated
      BY <1>2 DEF GateTypes, GatePlaces, GatePhases, Gate!Gated, Gate!Counting
<1>5. /\ Cardinality(GateAt("running")) \in Nat
      /\ Cardinality(GateAt("exited")) \in Nat
      /\ Cardinality(GateAt("running")') = Cardinality(GateAt("running")) - 1
      /\ bench = "thread_count" => GateAt("exited")' = GateAt("exited")
      /\ bench # "thread_count" =>
           Cardinality(GateAt("exited")') = Cardinality(GateAt("exited")) + 1
      BY <1>1, <1>2, GateTally
<1>6. GateTypes'
      BY <1>2, <1>3 DEF GateTypes
<1>7. GatePlaces'
      BY <1>1, <1>2, <1>3, <1>4 DEF GatePlaces, Gate!Counting, Gate!Gated
<1>8. GatePhases'
      BY <1>1, <1>2, <1>3, <1>4, <1>5 DEF GatePhases
<1>9. GateCounts'
  <2>1. bench = "thread_count" => gate_counter' + Cardinality(GateAt("running")') =
          IF next_task' < TotalTasks THEN next_task' ELSE TotalTasks
        BY <1>2, <1>4, <1>5, BenchmarkAssumption DEF GateCounts, GateTypes
  <2>2. bench = "thread_count" =>
          \A v \in Gate!Threads : gate_pc'[v] \in {"reporting", "exited"} =>
            next_task' >= TotalTasks
        BY <1>1, <1>2, <1>3 DEF GateCounts
  <2>3. bench = "per_task_thread" =>
          gate_counter' = Cardinality(GateAt("exited")')
        BY <1>2, <1>5 DEF GateCounts
  <2> QED BY <1>2, <1>3, <1>4, <2>1, <2>2, <2>3 DEF GateCounts, Gate!Counting
<1>10. GateLock'
  <2>1. gate_mtx = {}
        BY <1>4 DEF GateLock, GatePlaces, GateTypes
  <2> QED BY <1>1, <1>2, <1>3, <2>1 DEF GateLock
<1> QED BY <1>6, <1>7, <1>8, <1>9, <1>10

\* One increment more is counted.
LEMMA CountedGrows ==
  ASSUME GateInv, NEW u \in Gate!Threads, bench \in {"mutex", "atomic"},
         gate_pc[u] \in {"counting", "storing"}, left[u] # 0,
         left' = [left EXCEPT ![u] = @ - 1],
         gate_pc'[u] \in {"counting", "storing"},
         \A v \in Gate!Threads \ {u} : gate_pc'[v] = gate_pc[v],
         gate_threads' = gate_threads
  PROVE  /\ gate_counter = Cardinality(Counted)
         /\ Cardinality(Counted') = Cardinality(Counted) + 1
<1> USE DEF GateInv
<1>1. Gate!Threads' = Gate!Threads /\ Gate!per_thread' = Gate!per_thread
      BY DEF Gate!Threads, Gate!per_thread
<1>2. gate_threads \in Nat \ {0}
      BY DEF GateTypes, Gate!Threads
<1>3. Gate!per_thread \in Nat
      BY <1>2, CountedCount
<1>4. left[u] \in 1..Gate!per_thread
      BY <1>3 DEF GateCounts, GateTypes, Gate!Counting
<1>5. /\ left' \in [Gate!Threads -> Int]
      /\ left'[u] = left[u] - 1
      /\ \A v \in Gate!Threads \ {u} : left'[v] = left[v]
      BY DEF GateTypes
<1>6. Counted' = Counted \cup {<<u, left[u]>>}
  <2>1. ASSUME NEW v \in Gate!Threads, NEW j \in 1..Gate!per_thread
        PROVE  <<v, j>> \in Counted' <=> <<v, j>> \in Counted \/ <<v, j>> = <<u, left[u]>>
    <3>1. CASE v = u
          BY <1>1, <1>3, <1>4, <1>5, <3>1 DEF Counted
    <3>2. CASE v # u
          BY <1>1, <1>5, <3>2 DEF Counted
    <3> QED BY <3>1, <3>2
  <2>2. <<u, left[u]>> \in Gate!Threads \X (1..Gate!per_thread)
        BY <1>4
  <2> QED BY <1>1, <2>1, <2>2 DEF Counted
<1>7. <<u, left[u]>> \notin Counted
      BY <1>4 DEF Counted
<1>8. Counted \in SUBSET (Gate!Threads \X (1..Gate!per_thread))
      BY DEF Counted
<1>9. Cardinality(Counted \cup {<<u, left[u]>>}) = Cardinality(Counted) + 1
      BY <1>2, <1>7, <1>8, CountedCount
<1> QED BY <1>2, <1>6, <1>9 DEF GateCounts

\* A round of a loop that counts in an atomic, or in a local variable.
LEMMA GateCountsOne ==
  ASSUME GateInv, NEW u \in Gate!Threads, Gate!CountOne(u)
  PROVE  GateInv'
<1> USE DEF GateInv
<1>1. /\ bench \in {"atomic", "baseline"} /\ gate_pc[u] = "counting" /\ left[u] > 0
      /\ gate_counter' = IF bench = "atomic" THEN gate_counter + 1 ELSE gate_counter
      /\ left' = [left EXCEPT ![u] = @ - 1]
      /\ UNCHANGED <<bench, gate_threads, gate_main, gate_done, go, next_task,
                     gate_mtx, gate_pc, gate_seen>>
      BY DEF Gate!CountOne
<1>2. Gate!Threads' = Gate!Threads /\ Gate!per_thread' = Gate!per_thread
      BY <1>1 DEF Gate!Threads, Gate!per_thread
<1>3. \A p : GateAt(p)' = GateAt(p)
      BY <1>1, <1>2 DEF GateAt
<1>4. /\ left' \in [Gate!Threads -> Nat]
      /\ left'[u] = left[u] - 1
      /\ \A v \in Gate!Threads \ {u} : left'[v] = left[v]
      BY <1>1 DEF GateTypes
<1>5. bench = "atomic" => gate_counter' = Cardinality(Counted')
  <2>1. left[u] # 0 /\ gate_pc' = gate_pc
        BY <1>1 DEF GateTypes
  <2> QED BY <1>1, <2>1, CountedGrows
<1>6. \A v \in Gate!Threads : gate_pc[v] # "storing"
      BY <1>1 DEF GatePlaces, Gate!Counting
<1>7. GateTypes'
      BY <1>1, <1>2, <1>4 DEF GateTypes
<1>8. GatePlaces' /\ GatePhases'
      BY <1>1, <1>2, <1>3 DEF GatePlaces, GatePhases
<1>9. GateCounts'
  <2>1. ASSUME NEW v \in Gate!Threads
        PROVE  /\ gate_pc[v] = "counting" => left'[v] <= Gate!per_thread
               /\ gate_pc[v] = "exited" => left'[v] = 0
    <3>1. Gate!per_thread \in Nat
      <4>1. gate_threads \in Nat \ {0}
            BY DEF GateTypes, Gate!Threads
      <4> QED BY <4>1, CountedCount
    <3> QED BY <1>1, <1>4, <3>1 DEF GateCounts, GateTypes, Gate!Counting
  <2> QED BY <1>1, <1>2, <1>5, <1>6, <2>1 DEF GateCounts, Gate!Counting
<1>10. GateLock'
      BY <1>1, <1>2, <1>6 DEF GateLock, GateTypes
<1> QED BY <1>7, <1>8, <1>9, <1>10

\* The mutex is taken, and the counter loaded.
LEMMA GateLoads ==
  ASSUME GateInv, NEW u \in Gate!Threads, Gate!LockAndLoad(u)
  PROVE  GateInv'
<1> USE DEF GateInv
<1>1. /\ bench = "mutex" /\ gate_pc[u] = "counting" /\ left[u] > 0
      /\ gate_mtx = {} /\ gate_mtx' = {u}
      /\ gate_seen' = [gate_seen EXCEPT ![u] = gate_counter]
      /\ Gate!Goto(u, "storing")
      /\ UNCHANGED <<bench, gate_threads, gate_main, gate_done, go, next_task,
                     gate_counter, left>>
      BY DEF Gate!LockAndLoad
<1>2. /\ Gate!Threads' = Gate!Threads /\ Gate!per_thread' = Gate!per_thread
      /\ DOMAIN gate_pc' = Gate!Threads
      /\ gate_pc'[u] = "storing"
      /\ \A v \in Gate!Threads \ {u} : gate_pc'[v] = gate_pc[v]
      BY <1>1, GateGoes
<1>3. GateAt("exited")' = GateAt("exited")
      BY <1>1, GateTally
<1>4. Counted' = Counted
      BY <1>1, <1>2 DEF Counted
<1>5. bench \in Gate!Gated /\ go
      BY <1>1 DEF GatePhases, GateTypes, Gate!Gated, Gate!Counting
<1>6. GateTypes'
      BY <1>1, <1>2 DEF GateTypes
<1>7. GatePlaces'
      BY <1>1, <1>2 DEF GatePlaces, Gate!Counting
<1>8. GatePhases'
      BY <1>1, <1>2, <1>3, <1>5 DEF GatePhases
<1>9. GateCounts'
  <2>1. left[u] # 0 /\ left[u] <= Gate!per_thread
        BY <1>1 DEF GateCounts, GateTypes, Gate!Counting
  <2> QED BY <1>1, <1>2, <1>3, <1>4, <2>1 DEF GateCounts, Gate!Counting
<1>10. GateLock'
  <2>1. gate_seen'[u] = gate_counter'
        BY <1>1 DEF GateTypes
  <2> QED BY <1>1, <1>2, <2>1 DEF GateLock
<1> QED BY <1>6, <1>7, <1>8, <1>9, <1>10

\* The counter is stored: nobody else has stored since it was loaded.
LEMMA GateStores ==
  ASSUME GateInv, NEW u \in Gate!Threads, Gate!StoreAndUnlock(u)
  PROVE  GateInv'
<1> USE DEF GateInv
<1>1. /\ gate_pc[u] = "storing"
      /\ gate_counter' = gate_seen[u] + 1
      /\ gate_mtx' = gate_mtx \ {u}
      /\ left' = [left EXCEPT ![u] = @ - 1]
      /\ Gate!Goto(u, "counting")
      /\ UNCHANGED <<bench, gate_threads, gate_main, gate_done, go, next_task,
                     gate_seen>>
      BY DEF Gate!StoreAndUnlock
<1>2. /\ Gate!Threads' = Gate!Threads /\ Gate!per_thread' = Gate!per_thread
      /\ DOMAIN gate_pc' = Gate!Threads
      /\ gate_pc'[u] = "counting"
      /\ \A v \in Gate!Threads \ {u} : gate_pc'[v] = gate_pc[v]
      BY <1>1, GateGoes
<1>3. GateAt("exited")' = GateAt("exited")
      BY <1>1, GateTally
<1>4. bench = "mutex"
      BY <1>1 DEF GatePlaces, GateTypes, Gate!Gated, Gate!Counting
<1>5. bench \in Gate!Gated /\ go
      BY <1>1, <1>4 DEF GatePhases, GateTypes, Gate!Gated, Gate!Counting
<1>6. left[u] # 0 /\ left[u] <= Gate!per_thread
      BY <1>1, <1>4 DEF GateCounts, Gate!Counting
<1>7. /\ left' \in [Gate!Threads -> Nat]
      /\ left'[u] = left[u] - 1
      /\ \A v \in Gate!Threads \ {u} : left'[v] = left[v]
      BY <1>1, <1>6 DEF GateTypes
<1>8. u \in gate_mtx /\ gate_mtx' = {} /\ gate_seen[u] = gate_counter
      BY <1>1 DEF GateLock
<1>9. gate_counter' = Cardinality(Counted')
      BY <1>1, <1>2, <1>4, <1>6, <1>8, CountedGrows
<1>10. GateTypes'
      BY <1>1, <1>2, <1>7, <1>8 DEF GateTypes
<1>11. GatePlaces'
      BY <1>1, <1>2, <1>4 DEF GatePlaces, Gate!Counting
<1>12. GatePhases'
      BY <1>1, <1>2, <1>3, <1>5 DEF GatePhases
<1>13. GateCounts'
  <2>1. Gate!per_thread \in Nat
    <3>1. gate_threads \in Nat \ {0}
          BY DEF GateTypes, Gate!Threads
    <3> QED BY <3>1, CountedCount
  <2>2. ASSUME NEW v \in Gate!Threads
        PROVE  /\ gate_pc'[v] \in {"counting", "storing"} =>
                    left'[v] <= Gate!per_thread
               /\ gate_pc'[v] = "storing" => left'[v] # 0
               /\ gate_pc'[v] = "exited" => left'[v] = 0
        BY <1>2, <1>4, <1>6, <1>7, <2>1 DEF GateCounts, GateTypes, Gate!Counting
  <2> QED BY <1>1, <1>2, <1>4, <1>9, <2>2 DEF GateCounts, Gate!Counting
<1>14. GateLock'
      BY <1>1, <1>2, <1>8 DEF GateLock
<1> QED BY <1>10, <1>11, <1>12, <1>13, <1>14

\* A thread has done its share, and says so.
LEMMA GateReports ==
  ASSUME GateInv, NEW u \in Gate!Threads, Gate!Report(u)
  PROVE  GateInv'
<1> USE DEF GateInv
<1>0. PICK from : from = gate_pc[u]
      OBVIOUS
<1>1. /\ gate_pc[u] = from
      /\ from = "reporting" \/ (from = "counting" /\ left[u] = 0)
      /\ gate_done' = gate_done + 1
      /\ Gate!Goto(u, "exited")
      /\ UNCHANGED <<bench, gate_threads, gate_main, go, next_task, gate_counter,
                     gate_mtx, left, gate_seen>>
      BY <1>0 DEF Gate!Report
<1>2. /\ Gate!Threads' = Gate!Threads /\ Gate!per_thread' = Gate!per_thread
      /\ DOMAIN gate_pc' = Gate!Threads
      /\ gate_pc'[u] = "exited"
      /\ \A v \in Gate!Threads \ {u} : gate_pc'[v] = gate_pc[v]
      BY <1>1, GateGoes
<1>3. /\ Cardinality(GateAt("exited")') = Cardinality(GateAt("exited")) + 1
      /\ GateAt("running")' = GateAt("running")
      BY <1>1, GateTally
<1>4. /\ bench \in Gate!Gated /\ go
      /\ from = "counting" <=> bench \in Gate!Counting
      BY <1>1 DEF GatePlaces, GatePhases, GateTypes, Gate!Gated, Gate!Counting
<1>5. bench \in Gate!Counting => Counted' = Counted
      BY <1>1, <1>2, <1>4 DEF Counted
<1>6. GateTypes'
      BY <1>1, <1>2 DEF GateTypes
<1>7. GatePlaces'
      BY <1>1, <1>2, <1>4 DEF GatePlaces, Gate!Counting, Gate!Gated
<1>8. GatePhases'
      BY <1>1, <1>2, <1>3, <1>4 DEF GatePhases
<1>9. GateCounts'
      BY <1>1, <1>2, <1>3, <1>4, <1>5 DEF GateCounts, Gate!Counting, Gate!Gated
<1>10. GateLock'
      BY <1>1, <1>2 DEF GateLock
<1> QED BY <1>6, <1>7, <1>8, <1>9, <1>10

LEMMA GateBegins == Init => GateRight
<1> SUFFICES ASSUME Init, program = "gate" PROVE GateInv
    BY DEF GateRight
<1>1. Gate!Init
      BY DEF Init
<1>2. gate_threads \in Nat
  <2>1. gate_threads \in Gate!resolveThreadCount
        BY <1>1 DEF Gate!Init
  <2> QED BY <2>1, BenchmarkAssumption DEF Gate!resolveThreadCount
<1>3. /\ bench \in Gate!Gated /\ gate_main = "creating" => gate_threads # 0
      /\ bench \notin Gate!Gated => gate_threads = TotalTasks
  <2>1. gate_threads \in Gate!resolveThreadCount
        BY <1>1 DEF Gate!Init
  <2> QED BY <1>1, <2>1 DEF Gate!Init, Gate!resolveThreadCount, Gate!Gated, Gate!Counting
<1>4. /\ \A u \in Gate!Threads : gate_pc[u] = "absent"
      /\ DOMAIN gate_pc = Gate!Threads
      BY <1>1 DEF Gate!Init
<1>5. GateAt("exited") = {} /\ GateAt("running") = {} /\ Counted = {}
      BY <1>4 DEF GateAt, Counted
<1>6. /\ Cardinality(GateAt("exited")) = 0 /\ Cardinality(GateAt("running")) = 0
      /\ Cardinality(Counted) = 0
      BY <1>5, FS_EmptySet, Zenon
<1>7. /\ next_task = 0 /\ gate_counter = 0 /\ gate_done = 0 /\ go = FALSE
      /\ gate_mtx = {} /\ left = [u \in Gate!Threads |-> 0]
      /\ gate_seen = [u \in Gate!Threads |-> 0]
      /\ bench \in Gate!Gated \cup {"per_task_thread"}
      /\ gate_main = IF bench \in Gate!Counting /\ gate_threads = 0
                     THEN "undefined" ELSE "creating"
      BY <1>1 DEF Gate!Init, Gate!Fresh
<1>8. GateTypes
      BY <1>2, <1>4, <1>7 DEF GateTypes
<1>9. GatePlaces /\ GateLock
      BY <1>4, <1>7 DEF GatePlaces, GateLock
<1>10. GatePhases
  <2>1. gate_threads = 0 => Gate!Threads = {}
        BY DEF Gate!Threads
  <2>2. gate_main = "undefined" => Gate!Threads = {}
        BY <1>7, <2>1
  <2>3. gate_main \in {"creating", "undefined"}
        BY <1>7
  <2>4. bench \in Gate!Counting => bench \in Gate!Gated
        BY DEF Gate!Gated
  <2> QED BY <1>3, <1>4, <1>6, <1>7, <2>2, <2>3, <2>4 DEF GatePhases
<1>11. GateCounts
      BY <1>4, <1>6, <1>7, BenchmarkAssumption DEF GateCounts
<1> QED BY <1>8, <1>9, <1>10, <1>11 DEF GateInv

LEMMA GateStep == GateRight /\ [Next]_vars => GateRight'
<1> SUFFICES ASSUME GateRight, [Next]_vars PROVE GateRight'
    OBVIOUS
<1>1. CASE RunGate
  <2>1. GateInv /\ Gate!Next
        BY <1>1 DEF RunGate, GateRight
  <2>2. GateInv'
        BY <2>1, GateCreates, GateMainGoes, GateAgain, GateEnters, GateClaims,
           GateRuns, GateCountsOne, GateLoads, GateStores, GateReports
        DEF Gate!Next, Gate!Main, Gate!Thread
  <2> QED BY <2>2 DEF GateRight
<1>2. CASE program' = program /\ (program # "gate" \/ UNCHANGED gateVars)
  <2>1. CASE program # "gate"
        BY <1>2, <2>1 DEF GateRight
  <2>2. CASE UNCHANGED gateVars
    <3> SUFFICES ASSUME GateInv PROVE GateInv'
        BY <1>2 DEF GateRight
    <3>1. /\ UNCHANGED <<bench, gate_threads, gate_main, gate_done, go, next_task,
                         gate_counter, gate_mtx, gate_pc, left, gate_seen>>
          BY <2>2 DEF gateVars
    <3>2. Gate!Threads' = Gate!Threads /\ Gate!per_thread' = Gate!per_thread
          BY <3>1 DEF Gate!Threads, Gate!per_thread
    <3>3. Counted' = Counted /\ \A p : GateAt(p)' = GateAt(p)
          BY <3>1, <3>2 DEF Counted, GateAt
    <3> QED BY <3>1, <3>2, <3>3 DEF GateInv, GateTypes, GatePlaces, GatePhases,
                                    GateCounts, GateLock
  <2> QED BY <1>2, <2>1, <2>2
<1>3. Next => RunGate \/ (program' = program /\ program # "gate")
      BY DEF Next, RunReduction, RunSearch, RunCover, RunThreaded, RunTbb,
             RunSteal, RunTeam, RunSplitting, RunSlotted
<1>4. UNCHANGED vars => program' = program /\ UNCHANGED gateVars
      BY DEF vars
<1> QED BY <1>1, <1>2, <1>3, <1>4

-----------------------------------------------------------------------------
\* The team and the arena, whose threads count under a lock.

\* Products.
LEMMA TimesMonotone ==
  ASSUME NEW a \in Nat, NEW b \in Nat, NEW w \in Nat, a <= b
  PROVE  a * w <= b * w /\ (a + 1) * w = a * w + w /\ a * w \in Nat
OBVIOUS

LEMMA Quotient ==
  ASSUME NEW x \in Nat, NEW w \in Nat \ {0}
  PROVE  /\ x \div w \in Nat
         /\ (x \div w) * w <= x /\ x < (x \div w) * w + w
         /\ x % w = 0 => (x \div w) * w = x
OBVIOUS

\* A range that is divided into n parts of width w: every element is in one
\* part, and in one only.
LEMMA Divided ==
  ASSUME NEW n \in Nat, NEW w \in Nat
  PROVE  /\ \A m \in 0..n - 1 : m * w \in Nat /\ (m + 1) * w = m * w + w
                                /\ (m + 1) * w <= n * w
         /\ \A l, m \in 0..n - 1 : \A x \in Nat :
              /\ l * w <= x /\ x < (l + 1) * w
              /\ m * w <= x /\ x < (m + 1) * w
              => l = m
         /\ \A x \in Nat : x < n * w =>
              \E m \in 0..n - 1 : m * w <= x /\ x < (m + 1) * w
<1>1. ASSUME NEW m \in 0..n - 1
      PROVE  m * w \in Nat /\ (m + 1) * w = m * w + w /\ (m + 1) * w <= n * w
      BY TimesMonotone
<1>2. ASSUME NEW l \in 0..n - 1, NEW m \in 0..n - 1, NEW x \in Nat,
             l * w <= x, x < (l + 1) * w, m * w <= x, x < (m + 1) * w, l < m
      PROVE  FALSE
  <2>1. (l + 1) * w <= m * w
        BY <1>2, TimesMonotone
  <2>2. l * w \in Nat /\ m * w \in Nat /\ (l + 1) * w \in Nat
        BY TimesMonotone
  <2> QED BY <1>2, <2>1, <2>2
<1>3. ASSUME NEW x \in Nat, x < n * w
      PROVE  \E m \in 0..n - 1 : m * w <= x /\ x < (m + 1) * w
  <2>1. w # 0
        BY <1>3
  <2>2. PICK m \in Nat : m * w <= x /\ x < m * w + w
        BY <2>1, Quotient
  <2>3. m < n
    <3>1. SUFFICES ASSUME n <= m PROVE FALSE
          OBVIOUS
    <3>2. n * w <= m * w /\ m * w \in Nat /\ n * w \in Nat
          BY <3>1, TimesMonotone
    <3> QED BY <1>3, <2>2, <3>2
  <2>4. m \in 0..n - 1 /\ (m + 1) * w = m * w + w
        BY <2>3, TimesMonotone
  <2> QED BY <2>2, <2>4
<1> QED BY <1>1, <1>2, <1>3


\* Of the first n numbers every fifth one is a multiple of five.
LEMMA FifthsCount ==
  ASSUME NEW n \in Nat \ {0}
  PROVE  Cardinality({x \in 0..n - 1 : x % 5 = 0}) = 1 + (n - 1) \div 5
<1> DEFINE F == {x \in 0..n - 1 : x % 5 = 0}
           q == (n - 1) \div 5
           f == [m \in 0..q |-> m * 5]
<1>1. q \in Nat
      OBVIOUS
<1>2. \A m \in 0..q : m * 5 \in F
      OBVIOUS
<1>3. f \in [0..q -> F]
      BY <1>2
<1>4. \A x \in F : \E m \in 0..q : x = m * 5
  <2>1. ASSUME NEW x \in F
        PROVE  x \div 5 \in 0..q /\ x = (x \div 5) * 5
        OBVIOUS
  <2> QED BY <2>1
<1>5. f \in Bijection(0..q, F)
  <2>1. \A a, b \in 0..q : f[a] = f[b] => a = b
        BY <1>1
  <2>2. \A x \in F : \E m \in 0..q : f[m] = x
        BY <1>4
  <2> QED BY <1>3, <2>1, <2>2, Fun_IsBij
<1>6. IsFiniteSet(0..q) /\ Cardinality(0..q) = q + 1
      BY <1>1, FS_Interval
<1> HIDE DEF f, F, q
<1>7. ExistsBijection(0..q, F)
      BY <1>5, Fun_ExistsBij
<1>8. Cardinality(F) = q + 1
      BY <1>6, <1>7, FS_Bijection
<1> QED BY <1>1, <1>8 DEF F, q

\* The operations; the slice of a thread of the team, and the batches of the
\* arena; and what a thread has left of its share.
Ops      == 0..Operations - 1
Slice(u) == {x \in Ops : u * Team!N_PER_THREAD <= x
                         /\ x < (u + 1) * Team!N_PER_THREAD}
Batch(c) == {x \in Ops : c * K <= x /\ x < (c + 1) * K}
Rest(u)  == {x \in Ops : team_i[u] <= x /\ x < upto[u]}

\* Between the barriers: before start_, and after it.
Outside == {"before start_", "in start_"}
Inside  == {"before end_", "in end_"}

\* What thread u has still to do before the owner verifies: its share, or the
\* rest of it.
Owed(u) ==
  IF team_pc[u] \in {"working", "holding"} THEN Rest(u)
  ELSE IF /\ driver = "team"
          /\ team_pc[u] \in Outside \cup {"released"}
          /\ team_pc[Team!Main] \in {"assigning"} \cup Outside \cup Inside
       THEN Slice(u) ELSE {}

Todo == {x \in Ops : \/ \E u \in Team!Threads : x \in Owed(u)
                     \/ \E c \in batches : x \in Batch(c)}

\* The operations that have changed the counter.
Made == {x \in Ops : Team!Writes(x) /\ x \notin Todo}

TeamTypes ==
  /\ lock \in {"mutex", "shared_mutex", "atomic"}
  /\ driver \in {"team", "parallel_for"}
  /\ K \in Nat \ {0} /\ Operations % K = 0 /\ (lock # "mutex" => K = 1)
  /\ DOMAIN team_pc = Team!Parties /\ stop_ \in BOOLEAN
  /\ team_i \in [Team!Threads -> Nat] /\ upto \in [Team!Threads -> 0..Operations]
  /\ DOMAIN called = Team!Threads /\ team_seen \in [Team!Threads -> Nat]
  /\ team_counter \in Nat
  /\ batches \subseteq 0..(Operations \div K) - 1
  /\ writer \subseteq Team!Threads /\ readers \subseteq Team!Threads

\* The team: while the owner is outside of run all threads are before start_;
\* while it is between the barriers they call its function.
TeamPhases ==
  driver = "team" =>
    /\ team_pc[Team!Main] \in {"resetting", "assigning", "verifying", "stopping",
                               "joining", "finished"} \cup Outside \cup Inside
    /\ team_pc[Team!Main] \in {"resetting", "assigning", "verifying", "stopping"}
                                \cup Outside =>
         \A u \in Team!Threads : team_pc[u] \in Outside
    /\ team_pc[Team!Main] \in Inside =>
         \A u \in Team!Threads :
           team_pc[u] \in {"released", "working", "holding"} \cup Inside
    /\ team_pc[Team!Main] \in {"joining", "finished"} =>
         stop_ /\ \A u \in Team!Threads : team_pc[u] \in {"released", "exited"}
    /\ team_pc[Team!Main] \in {"resetting", "assigning", "verifying", "stopping"}
                                \cup Inside => ~stop_
    /\ team_pc[Team!Main] \in Outside \cup Inside /\ ~stop_ => fn_ = team_iteration
    /\ \A u \in Team!Threads :
         team_pc[u] \in {"working", "holding", "before end_"} =>
           called[u] = team_iteration
    /\ batches = {}

\* The arena: parallel_for returns when every batch is done.
TeamArena ==
  driver = "parallel_for" =>
    /\ ~stop_
    /\ team_pc[Team!Main] \in {"resetting", "executing", "verifying", "finished"}
    /\ \A u \in Team!Threads : team_pc[u] \in {"idle", "working", "holding"}
    /\ team_pc[Team!Main] # "executing" =>
         batches = {} /\ \A u \in Team!Threads : team_pc[u] = "idle"

\* No operation is owed twice.
TeamShares ==
  /\ \A u, v \in Team!Threads : \A x \in Ops :
       x \in Owed(u) /\ x \in Owed(v) => u = v
  /\ \A u \in Team!Threads : \A c \in batches : \A x \in Ops :
       ~(x \in Owed(u) /\ x \in Batch(c))

\* Who holds the lock to write has loaded the latest counter.
TeamLock ==
  /\ \A u \in Team!Threads : team_pc[u] = "holding" =>
       /\ team_i[u] < upto[u] /\ lock # "atomic"
       /\ Team!Writes(team_i[u]) => u \in writer
       /\ ~Team!Writes(team_i[u]) => u \in readers
  /\ \A u \in writer \cup readers : team_pc[u] = "holding"
  /\ \A u \in writer : team_seen[u] = team_counter /\ Team!Writes(team_i[u])
  /\ \A u, v \in writer : u = v
  /\ writer # {} => readers = {}

\* While a run is under way the counter counts what is not owed any more.
TeamCounts ==
  /\ team_pc[Team!Main] \in {"assigning", "executing", "verifying"}
                              \cup Outside \cup Inside
  /\ ~stop_
  => team_counter = Cardinality(Made)

TeamInv == /\ TeamTypes /\ TeamPhases /\ TeamArena /\ TeamShares /\ TeamLock
           /\ TeamCounts

TeamRight == program = "team" => TeamInv

\* The threads, and the main thread.
TeamNames == /\ Team!Main = -1 /\ Team!Threads = 0..NumThreads - 1
             /\ Team!Parties = Team!Threads \cup {Team!Main}
             /\ Team!Main \notin Team!Threads
             /\ NumThreads \in Nat \ {0} /\ Operations \in Nat \ {0}

LEMMA TeamNamed == TeamNames
BY BenchmarkAssumption DEF TeamNames, Team!Main, Team!Threads, Team!Parties

\* The slices of the team divide the operations among its threads.
LEMMA SlicesDivide ==
  /\ \A u \in Team!Threads :
       /\ u * Team!N_PER_THREAD \in Nat
       /\ (u + 1) * Team!N_PER_THREAD \in 0..Operations
  /\ \A u, v \in Team!Threads : \A x \in Ops :
       x \in Slice(u) /\ x \in Slice(v) => u = v
  /\ \A x \in Ops : \E u \in Team!Threads : x \in Slice(u)
<1> DEFINE w == Team!N_PER_THREAD
<1>1. w \in Nat /\ NumThreads * w = Operations
  <2>1. /\ Operations \div NumThreads \in Nat
        /\ (Operations \div NumThreads) * NumThreads = Operations
        BY Quotient, BenchmarkAssumption
  <2> QED BY <2>1, BenchmarkAssumption DEF Team!N_PER_THREAD
<1> HIDE DEF w
<1>2. /\ \A m \in 0..NumThreads - 1 : m * w \in Nat /\ (m + 1) * w = m * w + w
                                      /\ (m + 1) * w <= NumThreads * w
      /\ \A l, m \in 0..NumThreads - 1 : \A x \in Nat :
           /\ l * w <= x /\ x < (l + 1) * w
           /\ m * w <= x /\ x < (m + 1) * w
           => l = m
      /\ \A x \in Nat : x < NumThreads * w =>
           \E m \in 0..NumThreads - 1 : m * w <= x /\ x < (m + 1) * w
      BY <1>1, Divided, BenchmarkAssumption
<1>3. \A u \in 0..NumThreads - 1 : u * w \in Nat /\ (u + 1) * w \in 0..Operations
      BY <1>1, <1>2, BenchmarkAssumption
<1>4. \A x \in Ops : x \in Nat /\ x < Operations
      BY BenchmarkAssumption DEF Ops
<1> QED BY <1>1, <1>2, <1>3, <1>4, TeamNamed DEF TeamNames, Slice, w

\* And so do the batches of the arena.
LEMMA BatchesDivide ==
  ASSUME K \in Nat \ {0}, Operations % K = 0
  PROVE  /\ \A c \in 0..(Operations \div K) - 1 :
              c * K \in Nat /\ (c + 1) * K \in 0..Operations
         /\ \A b, c \in 0..(Operations \div K) - 1 : \A x \in Ops :
              x \in Batch(b) /\ x \in Batch(c) => b = c
         /\ \A x \in Ops : \E c \in 0..(Operations \div K) - 1 : x \in Batch(c)
<1> DEFINE n == Operations \div K
<1>1. n \in Nat /\ n * K = Operations
      BY Quotient, BenchmarkAssumption
<1> HIDE DEF n
<1>2. /\ \A m \in 0..n - 1 : m * K \in Nat /\ (m + 1) * K = m * K + K
                             /\ (m + 1) * K <= n * K
      /\ \A l, m \in 0..n - 1 : \A x \in Nat :
           /\ l * K <= x /\ x < (l + 1) * K
           /\ m * K <= x /\ x < (m + 1) * K
           => l = m
      /\ \A x \in Nat : x < n * K =>
           \E m \in 0..n - 1 : m * K <= x /\ x < (m + 1) * K
      BY <1>1, Divided
<1>3. \A c \in 0..n - 1 : c * K \in Nat /\ (c + 1) * K \in 0..Operations
      BY <1>1, <1>2
<1>4. \A x \in Ops : x \in Nat /\ x < Operations
      BY BenchmarkAssumption DEF Ops
<1>5. \A b, c \in 0..n - 1 : \A x \in Ops :
        x \in Batch(b) /\ x \in Batch(c) => b = c
  <2> SUFFICES ASSUME NEW b \in 0..n - 1, NEW c \in 0..n - 1, NEW x \in Ops,
                      x \in Batch(b), x \in Batch(c)
               PROVE  b = c
      OBVIOUS
  <2>1. /\ b * K <= x /\ x < (b + 1) * K
        /\ c * K <= x /\ x < (c + 1) * K
        BY DEF Batch
  <2> QED BY <1>2, <1>4, <2>1
<1>6. \A x \in Ops : \E c \in 0..n - 1 : x \in Batch(c)
  <2> SUFFICES ASSUME NEW x \in Ops PROVE \E c \in 0..n - 1 : x \in Batch(c)
      OBVIOUS
  <2>1. x \in Nat /\ x < n * K
        BY <1>1, <1>4
  <2>2. PICK c \in 0..n - 1 : c * K <= x /\ x < (c + 1) * K
        BY <1>2, <2>1
  <2> QED BY <2>2 DEF Batch
<1> QED BY <1>3, <1>5, <1>6 DEF n

\* A party that goes to another place, and the others that stay.
LEMMA TeamGoes ==
  ASSUME TeamTypes, NEW x \in Team!Parties, NEW p,
         team_pc' = [team_pc EXCEPT ![x] = p]
  PROVE  /\ DOMAIN team_pc' = Team!Parties
         /\ team_pc'[x] = p
         /\ \A y \in Team!Parties : y # x => team_pc'[y] = team_pc[y]
BY DEF TeamTypes

\* What is owed, and what is counted, when every thread owes what it owed.
LEMMA DebtsKept ==
  ASSUME TeamShares, UNCHANGED <<lock, K, batches>>,
         \A u \in Team!Threads : Owed(u)' = Owed(u)
  PROVE  TeamShares' /\ Todo' = Todo /\ Made' = Made
<1>1. \A c : Batch(c)' = Batch(c)
      BY DEF Batch
<1>2. \A x : Team!Writes(x)' = Team!Writes(x)
      BY DEF Team!Writes
<1> HIDE DEF Owed, Batch
<1>3. TeamShares'
      BY <1>1 DEF TeamShares
<1>4. Todo' = Todo
      BY <1>1 DEF Todo
<1>5. Made' = Made
      BY <1>2, <1>4 DEF Made
<1> QED BY <1>3, <1>4, <1>5

\* The lock, when the main thread alone goes on.
LEMMA LockKept ==
  ASSUME TeamTypes, TeamLock,
         \A u \in Team!Threads : team_pc'[u] = team_pc[u],
         UNCHANGED <<lock, team_i, upto, writer, readers, team_seen>>,
         team_counter' = team_counter \/ writer = {}
  PROVE  TeamLock'
<1>1. \A x : Team!Writes(x)' = Team!Writes(x)
      BY DEF Team!Writes
<1> QED BY <1>1 DEF TeamLock, TeamTypes

\* No thread owes anything before the owner assigns a function, or after the
\* end of the run.
LEMMA NothingOwed ==
  ASSUME TeamInv, driver = "team", NEW u \in Team!Threads,
         team_pc[Team!Main] \in {"resetting", "verifying", "stopping", "joining",
                                 "finished"}
  PROVE  Owed(u) = {}
<1>1. team_pc[u] \in Outside \cup {"released", "exited"}
      BY DEF TeamInv, TeamPhases, Outside
<1> QED BY <1>1 DEF Owed, Outside, Inside

LEMMA TeamResets == TeamInv /\ Team!Reset => TeamInv'
<1> SUFFICES ASSUME TeamInv, Team!Reset PROVE TeamInv'
    OBVIOUS
<1> USE TeamNamed DEF TeamNames
<1>1. /\ team_pc[Team!Main] = "resetting" /\ team_counter' = 0
      /\ UNCHANGED <<lock, driver, K, team_iteration, stop_, fn_, called, team_i,
                     upto, writer, readers, team_seen>>
      /\ batches' = IF driver = "team" THEN {}
                    ELSE 0..(Operations \div K) - 1
      BY DEF Team!Reset
<1>2. /\ DOMAIN team_pc' = Team!Parties
      /\ team_pc'[Team!Main] = IF driver = "team" THEN "assigning" ELSE "executing"
      /\ \A u \in Team!Threads : team_pc'[u] = team_pc[u]
  <2>1. team_pc' = [team_pc EXCEPT ![Team!Main] =
                      IF driver = "team" THEN "assigning" ELSE "executing"]
        BY DEF Team!Reset, Team!Goto
  <2> QED BY <2>1, TeamGoes DEF TeamInv
<1>3. driver = "team" => \A u \in Team!Threads : team_pc[u] \in Outside
      BY <1>1 DEF TeamInv, TeamPhases
<1>4. driver # "team" => \A u \in Team!Threads : team_pc[u] = "idle"
      BY <1>1 DEF TeamInv, TeamTypes, TeamArena
<1>5. writer = {}
  <2>1. \A u \in Team!Threads : team_pc[u] # "holding"
        BY <1>3, <1>4 DEF Outside
  <2> QED BY <2>1 DEF TeamInv, TeamTypes, TeamLock
<1>6. TeamTypes'
      BY <1>1, <1>2 DEF TeamInv, TeamTypes
<1>7. TeamPhases'
      BY <1>1, <1>2, <1>3 DEF TeamInv, TeamPhases, Outside, Inside
<1>8. TeamArena'
      BY <1>1, <1>2, <1>4 DEF TeamInv, TeamArena
<1>9. TeamLock'
      BY <1>1, <1>2, <1>5, LockKept DEF TeamInv
<1>10. \A c : Batch(c)' = Batch(c)
       BY <1>1 DEF Batch
<1>11. ASSUME driver = "team"
       PROVE  TeamShares' /\ \A x \in Ops : x \in Todo'
  <2>1. \A u \in Team!Threads : Owed(u)' = Slice(u)
        BY <1>1, <1>2, <1>3, <1>11 DEF Owed, Outside, Slice
  <2>2. batches' = {}
        BY <1>1, <1>11
  <2>3. TeamShares'
        BY <2>1, <2>2, SlicesDivide DEF TeamShares
  <2>4. \A x \in Ops : x \in Todo'
    <3> TAKE x \in Ops
    <3>1. PICK u \in Team!Threads : x \in Slice(u)
          BY SlicesDivide
    <3>2. x \in Owed(u)'
          BY <2>1, <3>1
    <3> QED BY <3>2 DEF Todo
  <2> QED BY <2>3, <2>4
<1>12. ASSUME driver # "team"
       PROVE  TeamShares' /\ \A x \in Ops : x \in Todo'
  <2>1. \A u \in Team!Threads : Owed(u)' = {}
        BY <1>1, <1>2, <1>4, <1>12 DEF Owed, Outside
  <2>2. batches' = 0..(Operations \div K) - 1
        BY <1>1, <1>12
  <2>3. TeamShares'
        BY <2>1 DEF TeamShares
  <2>4. \A x \in Ops : \E c \in batches' : x \in Batch(c)
        BY <2>2, BatchesDivide DEF TeamInv, TeamTypes
  <2>5. \A x \in Ops : x \in Todo'
        BY <1>10, <2>4 DEF Todo
  <2> QED BY <2>3, <2>5
<1>13. TeamShares' /\ \A x \in Ops : x \in Todo'
       BY <1>11, <1>12
<1>14. Made' = {}
       BY <1>13 DEF Made
<1>15. TeamCounts'
  <2>1. Cardinality(Made') = 0
        BY <1>14, FS_EmptySet, Zenon
  <2> QED BY <1>1, <2>1 DEF TeamCounts
<1> QED BY <1>6, <1>7, <1>8, <1>9, <1>13, <1>15 DEF TeamInv

LEMMA TeamAssigns == TeamInv /\ Team!Assign => TeamInv'
<1> SUFFICES ASSUME TeamInv, Team!Assign PROVE TeamInv'
    OBVIOUS
<1> USE TeamNamed DEF TeamNames
<1>1. /\ team_pc[Team!Main] = "assigning" /\ fn_' = team_iteration
      /\ UNCHANGED <<lock, driver, K, team_iteration, stop_, called, team_i,
                     upto, batches, writer, readers, team_seen, team_counter>>
      BY DEF Team!Assign
<1>2. /\ DOMAIN team_pc' = Team!Parties
      /\ team_pc'[Team!Main] = "before start_"
      /\ \A u \in Team!Threads : team_pc'[u] = team_pc[u]
  <2>1. team_pc' = [team_pc EXCEPT ![Team!Main] = "before start_"]
        BY DEF Team!Assign, Team!Goto
  <2> QED BY <2>1, TeamGoes DEF TeamInv
<1>3. driver = "team"
      BY <1>1 DEF TeamInv, TeamTypes, TeamArena
<1>4. TeamTypes'
      BY <1>1, <1>2 DEF TeamInv, TeamTypes
<1>5. TeamPhases'
      BY <1>1, <1>2 DEF TeamInv, TeamPhases, Outside, Inside
<1>6. TeamArena'
      BY <1>1, <1>3 DEF TeamArena
<1>7. TeamLock'
      BY <1>1, <1>2, LockKept DEF TeamInv
<1>8. \A u \in Team!Threads : Owed(u)' = Owed(u)
      BY <1>1, <1>2 DEF Owed, Rest, Slice, Outside, Inside
<1>9. TeamShares' /\ Made' = Made
      BY <1>1, <1>8, DebtsKept DEF TeamInv
<1>10. TeamCounts'
       BY <1>1, <1>9 DEF TeamInv, TeamCounts
<1> QED BY <1>4, <1>5, <1>6, <1>7, <1>9, <1>10 DEF TeamInv

\* Between the steps of the owner that only go on.
LEMMA TeamOwnerGoes ==
  /\ TeamInv /\ Team!Executed => TeamInv'
  /\ TeamInv /\ Team!NextIteration => TeamInv'
  /\ TeamInv /\ Team!Join => TeamInv'
<1> USE TeamNamed DEF TeamNames
<1>1. ASSUME TeamInv, NEW p,
             team_pc' = [team_pc EXCEPT ![Team!Main] = p],
             UNCHANGED <<lock, driver, K, stop_, fn_, called, team_i, upto,
                         batches, writer, readers, team_seen, team_counter>>
      PROVE  /\ team_pc'[Team!Main] = p
             /\ \A u \in Team!Threads : team_pc'[u] = team_pc[u]
             /\ TeamTypes' /\ TeamLock'
  <2>1. /\ DOMAIN team_pc' = Team!Parties
        /\ team_pc'[Team!Main] = p
        /\ \A u \in Team!Threads : team_pc'[u] = team_pc[u]
        BY <1>1, TeamGoes DEF TeamInv
  <2>2. TeamTypes'
        BY <1>1, <2>1 DEF TeamInv, TeamTypes
  <2>3. TeamLock'
        BY <1>1, <2>1, LockKept DEF TeamInv
  <2> QED BY <2>1, <2>2, <2>3
<1>2. ASSUME TeamInv, Team!Executed PROVE TeamInv'
  <2>1. /\ team_pc[Team!Main] = "executing" /\ batches = {}
        /\ \A u \in Team!Threads : team_pc[u] = "idle"
        /\ team_pc' = [team_pc EXCEPT ![Team!Main] = "verifying"]
        /\ UNCHANGED <<lock, driver, K, team_iteration, stop_, fn_, called, team_i,
                       upto, batches, writer, readers, team_seen, team_counter>>
        BY <1>2 DEF Team!Executed, Team!Goto
  <2>2. /\ team_pc'[Team!Main] = "verifying"
        /\ \A u \in Team!Threads : team_pc'[u] = team_pc[u]
        /\ TeamTypes' /\ TeamLock'
        BY <1>1, <1>2, <2>1
  <2>3. driver # "team" /\ driver = "parallel_for"
        BY <1>2, <2>1 DEF TeamInv, TeamTypes, TeamPhases, Outside, Inside
  <2>4. TeamPhases' /\ TeamArena'
        BY <1>2, <2>1, <2>2, <2>3 DEF TeamInv, TeamPhases, TeamArena
  <2>5. \A u \in Team!Threads : Owed(u)' = Owed(u)
        BY <2>1, <2>2, <2>3 DEF Owed, Rest
  <2>6. TeamShares' /\ Made' = Made
        BY <1>2, <2>1, <2>5, DebtsKept DEF TeamInv
  <2>7. TeamCounts'
        BY <1>2, <2>1, <2>6 DEF TeamInv, TeamCounts
  <2> QED BY <2>2, <2>4, <2>6, <2>7 DEF TeamInv
<1>3. ASSUME TeamInv, Team!NextIteration PROVE TeamInv'
  <2>1. PICK p \in {"resetting", "stopping", "finished"} :
          /\ team_pc' = [team_pc EXCEPT ![Team!Main] = p]
          /\ p = "stopping" => driver = "team"
          /\ p = "finished" => driver # "team"
        BY <1>3 DEF Team!NextIteration, Team!Goto
  <2>2. /\ team_pc[Team!Main] = "verifying"
        /\ UNCHANGED <<lock, driver, K, stop_, fn_, called, team_i, upto, batches,
                       writer, readers, team_seen, team_counter>>
        BY <1>3 DEF Team!NextIteration
  <2>3. /\ team_pc'[Team!Main] = p
        /\ \A u \in Team!Threads : team_pc'[u] = team_pc[u]
        /\ TeamTypes' /\ TeamLock'
        BY <1>1, <1>3, <2>1, <2>2
  <2>4. TeamPhases'
    <3>1. SUFFICES ASSUME driver = "team" PROVE TeamPhases'
          BY <2>2 DEF TeamPhases
    <3>2. /\ ~stop_ /\ \A u \in Team!Threads : team_pc[u] \in Outside
          /\ batches = {}
          BY <1>3, <2>2, <3>1 DEF TeamInv, TeamPhases
    <3> QED BY <2>1, <2>2, <2>3, <3>1, <3>2 DEF TeamPhases, Outside, Inside
  <2>5. TeamArena'
        BY <1>3, <2>1, <2>2, <2>3 DEF TeamInv, TeamArena
  <2>6. \A u \in Team!Threads : Owed(u)' = Owed(u)
        BY <2>1, <2>2, <2>3 DEF Owed, Rest, Outside, Inside
  <2>7. TeamShares'
        BY <1>3, <2>2, <2>6, DebtsKept DEF TeamInv
  <2>8. TeamCounts'
        BY <2>1, <2>3 DEF TeamCounts, Outside, Inside
  <2> QED BY <2>3, <2>4, <2>5, <2>7, <2>8 DEF TeamInv
<1>4. ASSUME TeamInv, Team!Join PROVE TeamInv'
  <2>1. /\ team_pc[Team!Main] = "joining"
        /\ team_pc' = [team_pc EXCEPT ![Team!Main] = "finished"]
        /\ UNCHANGED <<lock, driver, K, team_iteration, stop_, fn_, called, team_i,
                       upto, batches, writer, readers, team_seen, team_counter>>
        BY <1>4 DEF Team!Join, Team!Goto
  <2>2. /\ team_pc'[Team!Main] = "finished"
        /\ \A u \in Team!Threads : team_pc'[u] = team_pc[u]
        /\ TeamTypes' /\ TeamLock'
        BY <1>1, <1>4, <2>1
  <2>3. driver = "team"
        BY <1>4, <2>1 DEF TeamInv, TeamTypes, TeamArena
  <2>4. TeamPhases' /\ TeamArena'
        BY <1>4, <2>1, <2>2, <2>3 DEF TeamInv, TeamPhases, TeamArena, Outside, Inside
  <2>5. \A u \in Team!Threads : Owed(u)' = Owed(u)
        BY <2>1, <2>2 DEF Owed, Rest, Outside, Inside
  <2>6. TeamShares'
        BY <1>4, <2>1, <2>5, DebtsKept DEF TeamInv
  <2>7. TeamCounts'
        BY <2>2 DEF TeamCounts, Outside, Inside
  <2> QED BY <2>2, <2>4, <2>6, <2>7 DEF TeamInv
<1> QED BY <1>2, <1>3, <1>4

\* The destructor: the next start_ is the last one.
LEMMA TeamStops == TeamInv /\ Team!Stop => TeamInv'
<1> SUFFICES ASSUME TeamInv, Team!Stop PROVE TeamInv'
    OBVIOUS
<1> USE TeamNamed DEF TeamNames
<1>1. /\ team_pc[Team!Main] = "stopping" /\ stop_' = TRUE
      /\ team_pc' = [team_pc EXCEPT ![Team!Main] = "before start_"]
      /\ UNCHANGED <<lock, driver, K, team_iteration, fn_, called, team_i, upto,
                     batches, writer, readers, team_seen, team_counter>>
      BY DEF Team!Stop, Team!Goto
<1>2. /\ DOMAIN team_pc' = Team!Parties
      /\ team_pc'[Team!Main] = "before start_"
      /\ \A u \in Team!Threads : team_pc'[u] = team_pc[u]
      BY <1>1, TeamGoes DEF TeamInv
<1>3. driver = "team"
      BY <1>1 DEF TeamInv, TeamTypes, TeamArena
<1>4. \A u \in Team!Threads : team_pc[u] \in Outside
      BY <1>1, <1>3 DEF TeamInv, TeamPhases
<1>5. TeamTypes'
      BY <1>1, <1>2 DEF TeamInv, TeamTypes
<1>6. TeamPhases' /\ TeamArena'
      BY <1>1, <1>2, <1>3, <1>4 DEF TeamInv, TeamPhases, TeamArena, Outside, Inside
<1>7. TeamLock'
      BY <1>1, <1>2, LockKept DEF TeamInv
<1>8. TeamShares'
  <2>1. \A u \in Team!Threads : Owed(u)' = Slice(u)
        BY <1>1, <1>2, <1>3, <1>4 DEF Owed, Outside, Slice
  <2>2. batches' = {}
        BY <1>1, <1>3 DEF TeamInv, TeamPhases
  <2> QED BY <2>1, <2>2, SlicesDivide DEF TeamShares
<1>9. TeamCounts'
      BY <1>1 DEF TeamCounts
<1> QED BY <1>5, <1>6, <1>7, <1>8, <1>9 DEF TeamInv

\* Past start_: all are released, the owner to wait at end_ or to join.
LEMMA TeamStarts ==
  \A y \in Team!Parties : TeamInv /\ Team!ArriveAtStart(y) => TeamInv'
<1> SUFFICES ASSUME NEW y \in Team!Parties, TeamInv, Team!ArriveAtStart(y)
             PROVE  TeamInv'
    OBVIOUS
<1> USE TeamNamed DEF TeamNames
<1>1. /\ team_pc[y] = "before start_"
      /\ UNCHANGED <<lock, driver, K, team_iteration, stop_, fn_, called, team_i,
                     upto, batches, writer, readers, team_seen, team_counter>>
      BY DEF Team!ArriveAtStart, Team!Arrive
<1>2. driver = "team"
      BY <1>1 DEF TeamInv, TeamTypes, TeamArena
<1>3. CASE team_pc' = [team_pc EXCEPT ![y] = "in start_"]
  <2>1. /\ DOMAIN team_pc' = Team!Parties
        /\ team_pc'[y] = "in start_"
        /\ \A z \in Team!Parties : z # y => team_pc'[z] = team_pc[z]
        BY <1>3, TeamGoes DEF TeamInv
  <2>2. \A z \in Team!Parties :
          /\ team_pc'[z] = team_pc[z] \/ {team_pc[z], team_pc'[z]} \subseteq Outside
          /\ team_pc'[z] = "holding" <=> team_pc[z] = "holding"
        BY <1>1, <2>1 DEF Outside
  <2>3. TeamTypes'
        BY <1>1, <2>1 DEF TeamInv, TeamTypes
  <2>4. TeamPhases' /\ TeamArena'
        BY <1>1, <1>2, <2>2 DEF TeamInv, TeamPhases, TeamArena, Outside, Inside
  <2>5. TeamLock'
    <3>1. \A x : Team!Writes(x)' = Team!Writes(x)
          BY <1>1 DEF Team!Writes
    <3> QED BY <1>1, <2>2, <3>1 DEF TeamInv, TeamLock, TeamTypes
  <2>6. \A u \in Team!Threads : Owed(u)' = Owed(u)
        BY <1>1, <2>2 DEF Owed, Rest, Slice, Outside, Inside
  <2>7. TeamShares' /\ Made' = Made
        BY <1>1, <2>6, DebtsKept DEF TeamInv
  <2>8. TeamCounts'
        BY <1>1, <2>2, <2>7 DEF TeamInv, TeamCounts, Outside, Inside
  <2> QED BY <2>3, <2>4, <2>5, <2>7, <2>8 DEF TeamInv
<1>4. CASE /\ \A z \in Team!Parties : team_pc[z] \in Outside
           /\ team_pc' = [z \in Team!Parties |->
                            IF z # Team!Main THEN "released"
                            ELSE IF stop_ THEN "joining" ELSE "before end_"]
  <2>1. /\ DOMAIN team_pc' = Team!Parties
        /\ team_pc'[Team!Main] = IF stop_ THEN "joining" ELSE "before end_"
        /\ \A u \in Team!Threads : team_pc'[u] = "released"
        BY <1>4
  <2>2. TeamTypes'
        BY <1>1, <2>1 DEF TeamInv, TeamTypes
  <2>3. TeamPhases' /\ TeamArena'
        BY <1>1, <1>2, <1>4, <2>1 DEF TeamInv, TeamPhases, TeamArena, Outside, Inside
  <2>4. TeamLock'
    <3>1. writer = {} /\ readers = {}
          BY <1>4 DEF TeamInv, TeamTypes, TeamLock, Outside
    <3> QED BY <1>1, <2>1, <3>1 DEF TeamLock
  <2>5. CASE stop_
    <3>1. \A u \in Team!Threads : Owed(u)' = {}
          BY <2>1, <2>5 DEF Owed, Outside, Inside
    <3>2. TeamShares'
          BY <3>1 DEF TeamShares
    <3>3. TeamCounts'
          BY <1>1, <2>5 DEF TeamCounts
    <3> QED BY <2>2, <2>3, <2>4, <3>2, <3>3 DEF TeamInv
  <2>6. CASE ~stop_
    <3>1. \A u \in Team!Threads : Owed(u)' = Owed(u)
          BY <1>1, <1>2, <1>4, <2>1, <2>6 DEF Owed, Slice, Outside, Inside
    <3>2. TeamShares' /\ Made' = Made
          BY <1>1, <3>1, DebtsKept DEF TeamInv
    <3>3. TeamCounts'
          BY <1>1, <1>4, <2>6, <3>2 DEF TeamInv, TeamCounts, Outside
    <3> QED BY <2>2, <2>3, <2>4, <3>2, <3>3 DEF TeamInv
  <2> QED BY <2>5, <2>6
<1> QED
  <2>1. team_pc' = [team_pc EXCEPT ![y] = "in start_"]
        \/ /\ {y} \cup {z \in Team!Parties : team_pc[z] = "in start_"} = Team!Parties
           /\ team_pc' = [z \in Team!Parties |->
                            IF z # Team!Main THEN "released"
                            ELSE IF stop_ THEN "joining" ELSE "before end_"]
        BY DEF Team!ArriveAtStart, Team!Arrive
  <2> QED BY <1>1, <1>3, <1>4, <2>1 DEF Outside

\* Past end_: the owner verifies, the threads wait for the next run.
LEMMA TeamEnds ==
  \A y \in Team!Parties : TeamInv /\ Team!ArriveAtEnd(y) => TeamInv'
<1> SUFFICES ASSUME NEW y \in Team!Parties, TeamInv, Team!ArriveAtEnd(y)
             PROVE  TeamInv'
    OBVIOUS
<1> USE TeamNamed DEF TeamNames
<1>1. /\ team_pc[y] = "before end_"
      /\ UNCHANGED <<lock, driver, K, team_iteration, stop_, fn_, called, team_i,
                     upto, batches, writer, readers, team_seen, team_counter>>
      BY DEF Team!ArriveAtEnd, Team!Arrive
<1>2. driver = "team"
      BY <1>1 DEF TeamInv, TeamTypes, TeamArena
<1>3. CASE team_pc' = [team_pc EXCEPT ![y] = "in end_"]
  <2>1. /\ DOMAIN team_pc' = Team!Parties
        /\ team_pc'[y] = "in end_"
        /\ \A z \in Team!Parties : z # y => team_pc'[z] = team_pc[z]
        BY <1>3, TeamGoes DEF TeamInv
  <2>2. \A z \in Team!Parties :
          \/ team_pc'[z] = team_pc[z]
          \/ team_pc[z] = "before end_" /\ team_pc'[z] = "in end_"
        BY <1>1, <2>1
  <2>3. TeamTypes'
        BY <1>1, <2>1 DEF TeamInv, TeamTypes
  <2>4. TeamPhases' /\ TeamArena'
        BY <1>1, <1>2, <2>2 DEF TeamInv, TeamPhases, TeamArena, Outside, Inside
  <2>5. TeamLock'
    <3>1. \A x : Team!Writes(x)' = Team!Writes(x)
          BY <1>1 DEF Team!Writes
    <3> QED BY <1>1, <2>2, <3>1 DEF TeamInv, TeamLock, TeamTypes
  <2>6. \A u \in Team!Threads : Owed(u)' = Owed(u)
        BY <1>1, <2>2 DEF Owed, Rest, Slice, Outside, Inside
  <2>7. TeamShares' /\ Made' = Made
        BY <1>1, <2>6, DebtsKept DEF TeamInv
  <2>8. TeamCounts'
        BY <1>1, <2>2, <2>7 DEF TeamInv, TeamCounts, Outside, Inside
  <2> QED BY <2>3, <2>4, <2>5, <2>7, <2>8 DEF TeamInv
<1>4. CASE /\ \A z \in Team!Parties : team_pc[z] \in Inside
           /\ team_pc' = [z \in Team!Parties |->
                            IF z = Team!Main THEN "verifying" ELSE "before start_"]
  <2>1. /\ DOMAIN team_pc' = Team!Parties
        /\ team_pc'[Team!Main] = "verifying"
        /\ \A u \in Team!Threads : team_pc'[u] = "before start_"
        BY <1>4
  <2>2. TeamTypes'
        BY <1>1, <2>1 DEF TeamInv, TeamTypes
  <2>3. TeamPhases' /\ TeamArena'
        BY <1>1, <1>2, <1>4, <2>1 DEF TeamInv, TeamPhases, TeamArena, Outside, Inside
  <2>4. TeamLock'
    <3>1. writer = {} /\ readers = {}
          BY <1>4 DEF TeamInv, TeamTypes, TeamLock, Inside
    <3> QED BY <1>1, <2>1, <3>1 DEF TeamLock
  <2>5. \A u \in Team!Threads : Owed(u)' = Owed(u)
        BY <1>1, <1>4, <2>1 DEF Owed, Outside, Inside
  <2>6. TeamShares' /\ Made' = Made
        BY <1>1, <2>5, DebtsKept DEF TeamInv
  <2>7. TeamCounts'
        BY <1>1, <1>4, <2>6 DEF TeamInv, TeamCounts, Inside
  <2> QED BY <2>2, <2>3, <2>4, <2>6, <2>7 DEF TeamInv
<1> QED
  <2>1. team_pc' = [team_pc EXCEPT ![y] = "in end_"]
        \/ /\ {y} \cup {z \in Team!Parties : team_pc[z] = "in end_"} = Team!Parties
           /\ team_pc' = [z \in Team!Parties |->
                            IF z = Team!Main THEN "verifying" ELSE "before start_"]
        BY DEF Team!ArriveAtEnd, Team!Arrive
  <2> QED BY <1>1, <1>3, <1>4, <2>1 DEF Inside

\* A thread that was released calls the function of the run, or exits.
LEMMA TeamCalls == \A u \in Team!Threads : TeamInv /\ Team!CallFn(u) => TeamInv'
<1> SUFFICES ASSUME NEW u \in Team!Threads, TeamInv, Team!CallFn(u)
             PROVE  TeamInv'
    OBVIOUS
<1> USE TeamNamed DEF TeamNames
<1>1. /\ team_pc[u] = "released"
      /\ UNCHANGED <<lock, driver, K, team_iteration, stop_, fn_, batches, writer,
                     readers, team_seen, team_counter>>
      BY DEF Team!CallFn
<1>2. driver = "team"
      BY <1>1 DEF TeamInv, TeamTypes, TeamArena
<1>3. /\ u # Team!Main /\ u \notin writer \cup readers
      /\ stop_ => team_pc[Team!Main] \in {"joining", "finished"}
      /\ ~stop_ => team_pc[Team!Main] \in Inside /\ fn_ = team_iteration
  <2>1. u \notin writer \cup readers
        BY <1>1 DEF TeamInv, TeamTypes, TeamLock
  <2> QED BY <1>1, <1>2, <2>1 DEF TeamInv, TeamPhases, Outside, Inside
<1>4. CASE stop_
  <2>1. /\ team_pc' = [team_pc EXCEPT ![u] = "exited"]
        /\ UNCHANGED <<called, team_i, upto>>
        BY <1>4 DEF Team!CallFn, Team!Goto
  <2>2. /\ DOMAIN team_pc' = Team!Parties
        /\ team_pc'[u] = "exited"
        /\ \A z \in Team!Parties : z # u => team_pc'[z] = team_pc[z]
        BY <2>1, TeamGoes DEF TeamInv
  <2>3. TeamTypes'
        BY <1>1, <2>1, <2>2 DEF TeamInv, TeamTypes
  <2>4. TeamPhases' /\ TeamArena'
        BY <1>1, <1>2, <1>3, <1>4, <2>1, <2>2
        DEF TeamInv, TeamPhases, TeamArena, Outside, Inside
  <2>5. TeamLock'
    <3>1. \A x : Team!Writes(x)' = Team!Writes(x)
          BY <1>1 DEF Team!Writes
    <3> QED BY <1>1, <1>3, <2>1, <2>2, <3>1 DEF TeamInv, TeamLock, TeamTypes
  <2>6. \A v \in Team!Threads : Owed(v)' = Owed(v)
        BY <1>1, <1>3, <1>4, <2>1, <2>2 DEF Owed, Rest, Slice, Outside, Inside
  <2>7. TeamShares'
        BY <1>1, <2>6, DebtsKept DEF TeamInv
  <2>8. TeamCounts'
        BY <1>1, <1>4 DEF TeamCounts
  <2> QED BY <2>3, <2>4, <2>5, <2>7, <2>8 DEF TeamInv
<1>5. CASE ~stop_
  <2>1. /\ team_pc' = [team_pc EXCEPT ![u] = "working"]
        /\ called' = [called EXCEPT ![u] = fn_]
        /\ team_i' = [team_i EXCEPT ![u] = u * Team!N_PER_THREAD]
        /\ upto' = [upto EXCEPT ![u] = (u + 1) * Team!N_PER_THREAD]
        BY <1>5 DEF Team!CallFn, Team!Goto
  <2>2. /\ DOMAIN team_pc' = Team!Parties
        /\ team_pc'[u] = "working"
        /\ \A z \in Team!Parties : z # u => team_pc'[z] = team_pc[z]
        BY <2>1, TeamGoes DEF TeamInv
  <2>3. /\ u * Team!N_PER_THREAD \in Nat
        /\ (u + 1) * Team!N_PER_THREAD \in 0..Operations
        BY SlicesDivide
  <2> HIDE DEF Team!N_PER_THREAD
  <2>4. /\ team_i' \in [Team!Threads -> Nat] /\ upto' \in [Team!Threads -> 0..Operations]
        /\ team_i'[u] = u * Team!N_PER_THREAD
        /\ upto'[u] = (u + 1) * Team!N_PER_THREAD
        /\ \A v \in Team!Threads : v # u => team_i'[v] = team_i[v] /\ upto'[v] = upto[v]
        BY <2>1, <2>3 DEF TeamInv, TeamTypes
  <2>5. /\ DOMAIN called' = Team!Threads /\ called'[u] = team_iteration
        /\ \A v \in Team!Threads : v # u => called'[v] = called[v]
        BY <1>3, <1>5, <2>1 DEF TeamInv, TeamTypes
  <2>6. TeamTypes'
        BY <1>1, <2>2, <2>4, <2>5 DEF TeamInv, TeamTypes
  <2>7. TeamPhases' /\ TeamArena'
        BY <1>1, <1>2, <1>3, <1>5, <2>2, <2>5
        DEF TeamInv, TeamPhases, TeamArena, Outside, Inside
  <2>8. TeamLock'
    <3>1. \A x : Team!Writes(x)' = Team!Writes(x)
          BY <1>1 DEF Team!Writes
    <3>2. \A v \in Team!Threads : v # u => /\ team_pc'[v] = team_pc[v]
                                           /\ team_i'[v] = team_i[v]
                                           /\ upto'[v] = upto[v]
          BY <2>2, <2>4
    <3>3. /\ writer \subseteq Team!Threads /\ readers \subseteq Team!Threads
          /\ TeamLock
          BY DEF TeamInv, TeamTypes
    <3>4. \A v \in writer \cup readers : v \in Team!Threads /\ v # u
          BY <1>3, <3>3
    <3> QED BY <1>1, <2>2, <3>1, <3>2, <3>3, <3>4 DEF TeamLock
  <2>9. Owed(u)' = Owed(u)
    <3>1. Owed(u)' = Slice(u)
          BY <2>2, <2>4 DEF Owed, Rest, Slice
    <3>2. Owed(u) = Slice(u)
          BY <1>1, <1>2, <1>3, <1>5 DEF Owed
    <3> QED BY <3>1, <3>2
  <2>10. \A v \in Team!Threads : v # u => Owed(v)' = Owed(v)
         BY <1>1, <1>3, <2>2, <2>4 DEF Owed, Rest, Slice
  <2>11. TeamShares' /\ Made' = Made
         BY <1>1, <2>9, <2>10, DebtsKept DEF TeamInv
  <2>12. TeamCounts'
         BY <1>1, <1>3, <2>2, <2>11 DEF TeamInv, TeamCounts
  <2> QED BY <2>6, <2>7, <2>8, <2>11, <2>12 DEF TeamInv
<1> QED BY <1>4, <1>5

\* The arena starts the body for a batch on a thread.
LEMMA TeamBodies ==
  \A u \in Team!Threads : \A c \in batches :
    TeamInv /\ Team!CallBody(u, c) => TeamInv'
<1> SUFFICES ASSUME NEW u \in Team!Threads, NEW c \in batches, TeamInv,
                    Team!CallBody(u, c)
             PROVE  TeamInv'
    OBVIOUS
<1> USE TeamNamed DEF TeamNames
<1>1. /\ team_pc[u] = "idle" /\ batches' = batches \ {c}
      /\ team_pc' = [team_pc EXCEPT ![u] = "working"]
      /\ team_i' = [team_i EXCEPT ![u] = c * K]
      /\ upto' = [upto EXCEPT ![u] = (c + 1) * K]
      /\ UNCHANGED <<lock, driver, K, team_iteration, stop_, fn_, called, writer,
                     readers, team_seen, team_counter>>
      BY DEF Team!CallBody, Team!Goto
<1>2. /\ driver # "team" /\ team_pc[Team!Main] = "executing"
      /\ u # Team!Main /\ u \notin writer \cup readers
      /\ K \in Nat \ {0} /\ Operations % K = 0
      /\ batches \subseteq 0..(Operations \div K) - 1
  <2>1. driver # "team"
    <3>1. SUFFICES ASSUME driver = "team" PROVE FALSE
          OBVIOUS
    <3> QED BY <3>1 DEF TeamInv, TeamPhases
  <2>2. team_pc[Team!Main] = "executing"
        BY <2>1 DEF TeamInv, TeamTypes, TeamArena
  <2>3. u \notin writer \cup readers
        BY <1>1 DEF TeamInv, TeamTypes, TeamLock
  <2> QED BY <2>1, <2>2, <2>3 DEF TeamInv, TeamTypes
<1>3. /\ DOMAIN team_pc' = Team!Parties
      /\ team_pc'[u] = "working"
      /\ \A z \in Team!Parties : z # u => team_pc'[z] = team_pc[z]
      BY <1>1, TeamGoes DEF TeamInv
<1>4. c * K \in Nat /\ (c + 1) * K \in 0..Operations
      BY <1>2, BatchesDivide
<1>5. /\ team_i' \in [Team!Threads -> Nat] /\ upto' \in [Team!Threads -> 0..Operations]
      /\ team_i'[u] = c * K /\ upto'[u] = (c + 1) * K
      /\ \A v \in Team!Threads : v # u => team_i'[v] = team_i[v] /\ upto'[v] = upto[v]
      BY <1>1, <1>4 DEF TeamInv, TeamTypes
<1>6. TeamTypes'
      BY <1>1, <1>3, <1>5 DEF TeamInv, TeamTypes
<1>7. TeamPhases' /\ TeamArena'
      BY <1>1, <1>2, <1>3 DEF TeamInv, TeamPhases, TeamArena
<1>8. TeamLock'
  <2>1. \A x : Team!Writes(x)' = Team!Writes(x)
        BY <1>1 DEF Team!Writes
  <2> QED BY <1>1, <1>2, <1>3, <1>5, <2>1 DEF TeamInv, TeamLock, TeamTypes
<1>9. /\ Owed(u) = {} /\ Owed(u)' = Batch(c)
      /\ \A v \in Team!Threads : v # u => Owed(v)' = Owed(v)
  <2>1. Owed(u) = {}
        BY <1>1, <1>2 DEF Owed
  <2>2. Owed(u)' = Batch(c)
        BY <1>3, <1>5 DEF Owed, Rest, Batch
  <2>3. \A v \in Team!Threads : v # u => Owed(v)' = Owed(v)
        BY <1>1, <1>2, <1>3, <1>5 DEF Owed, Rest, Slice
  <2> QED BY <2>1, <2>2, <2>3
<1>10. /\ \A d : Batch(d)' = Batch(d)
       /\ \A x : Team!Writes(x)' = Team!Writes(x)
       BY <1>1 DEF Batch, Team!Writes
<1>11. \A d \in batches : \A x \in Ops : x \in Batch(c) /\ x \in Batch(d) => c = d
       BY <1>2, BatchesDivide
<1>12. TeamShares'
  <2>1. TeamShares
        BY DEF TeamInv
  <2>2. ASSUME NEW v \in Team!Threads, NEW w \in Team!Threads, NEW x \in Ops,
               x \in Owed(v)', x \in Owed(w)'
        PROVE  v = w
        BY <1>9, <2>1, <2>2 DEF TeamShares
  <2>3. ASSUME NEW v \in Team!Threads, NEW d \in batches', NEW x \in Ops,
               x \in Owed(v)', x \in Batch(d)
        PROVE  FALSE
        BY <1>1, <1>9, <1>11, <2>1, <2>3 DEF TeamShares
  <2> QED BY <1>10, <2>2, <2>3 DEF TeamShares
<1>13. Todo' = Todo
  <2>1. \A x \in Ops :
          (\/ \E v \in Team!Threads : x \in Owed(v)'
           \/ \E d \in batches' : x \in Batch(d))
          <=> (\/ \E v \in Team!Threads : x \in Owed(v)
               \/ \E d \in batches : x \in Batch(d))
        BY <1>1, <1>9
  <2> QED BY <1>10, <2>1 DEF Todo
<1>14. Made' = Made
       BY <1>10, <1>13 DEF Made
<1>15. TeamCounts'
       BY <1>1, <1>2, <1>3, <1>14 DEF TeamInv, TeamCounts
<1> QED BY <1>6, <1>7, <1>8, <1>12, <1>15 DEF TeamInv

\* An interval that is added to a set.
LEMMA CountedOn ==
  ASSUME NEW S, IsFiniteSet(S), NEW a \in Nat, NEW b \in Nat, a <= b,
         S \cap (a..b - 1) = {}
  PROVE  Cardinality(S \cup (a..b - 1)) = Cardinality(S) + (b - a)
<1> DEFINE D == a..b - 1
<1>1. IsFiniteSet(D) /\ Cardinality(D) = IF a > b - 1 THEN 0 ELSE (b - 1) - a + 1
  <2>1. b - 1 \in Int
        OBVIOUS
  <2> QED BY <2>1, FS_Interval
<1> HIDE DEF D
<1>2. Cardinality(D) = b - a
      BY <1>1
<1>3. Cardinality(S) \in Nat
      BY FS_CardinalityType
<1>4. S \cap D = {}
      BY DEF D
<1>5. Cardinality(S \cap D) = 0
      BY <1>4, FS_EmptySet, Zenon
<1>6. Cardinality(S \cup D) = Cardinality(S) + Cardinality(D) - Cardinality(S \cap D)
      BY <1>1, FS_Union
<1> QED BY <1>2, <1>3, <1>5, <1>6 DEF D

LEMMA MadeFinite == IsFiniteSet(Made)
<1>1. IsFiniteSet(Ops)
      BY TeamNamed, FS_Interval DEF TeamNames, Ops
<1>2. Made \subseteq Ops
      BY DEF Made
<1> QED BY <1>1, <1>2, FS_Subset

\* A thread that works on: the phases are what they were.
LEMMA TeamWorks ==
  ASSUME TeamInv, NEW u \in Team!Threads, NEW p \in {"working", "holding"},
         team_pc[u] \in {"working", "holding"},
         team_pc'[u] = p,
         \A z \in Team!Parties : z # u => team_pc'[z] = team_pc[z],
         UNCHANGED <<lock, driver, K, team_iteration, stop_, fn_, called, upto,
                     batches>>
  PROVE  /\ TeamPhases' /\ TeamArena' /\ u # Team!Main
         /\ team_pc[Team!Main] \in {"assigning", "executing", "verifying"}
                                     \cup Outside \cup Inside
         /\ ~stop_
<1> USE TeamNamed DEF TeamNames
<1>1. u # Team!Main
      OBVIOUS
<1>2. driver = "team" => team_pc[Team!Main] \in Inside /\ ~stop_
      BY DEF TeamInv, TeamPhases, Outside, Inside
<1>3. driver # "team" => team_pc[Team!Main] = "executing" /\ ~stop_
      BY DEF TeamInv, TeamTypes, TeamArena
<1>4. TeamPhases'
      BY <1>1, <1>2 DEF TeamInv, TeamPhases, Outside, Inside
<1>5. TeamArena'
      BY <1>1, <1>3 DEF TeamInv, TeamTypes, TeamArena
<1> QED BY <1>1, <1>2, <1>3, <1>4, <1>5

\* A thread that has done the operations from team_i[u] to next - 1.
LEMMA ShareShrinks ==
  ASSUME TeamInv, NEW u \in Team!Threads, NEW p \in {"working", "holding"},
         NEW next \in Nat, team_i[u] <= next, next <= upto[u],
         team_pc[u] \in {"working", "holding"},
         team_pc'[u] = p,
         \A z \in Team!Parties : z # u => team_pc'[z] = team_pc[z],
         team_i' = [team_i EXCEPT ![u] = next],
         UNCHANGED <<lock, driver, K, upto, batches>>
  PROVE  /\ TeamShares'
         /\ Todo' = Todo \ (team_i[u]..next - 1)
         /\ team_i[u]..next - 1 \subseteq Todo
<1> USE TeamNamed DEF TeamNames
<1> DEFINE D == team_i[u]..next - 1
<1>1. u # Team!Main
      OBVIOUS
<1>2. /\ team_i[u] \in Nat /\ upto[u] \in 0..Operations
      /\ team_i'[u] = next
      /\ \A v \in Team!Threads : v # u => team_i'[v] = team_i[v]
      BY DEF TeamInv, TeamTypes
<1>3. D \subseteq Ops /\ D \subseteq Owed(u)
      BY <1>2 DEF Owed, Rest, Ops
<1>4. \A x \in Ops : x \in Owed(u)' <=> x \in Owed(u) /\ x \notin D
  <2>1. Owed(u) = {x \in Ops : team_i[u] <= x /\ x < upto[u]}
        BY DEF Owed, Rest
  <2>2. Owed(u)' = {x \in Ops : next <= x /\ x < upto[u]}
        BY <1>1, <1>2 DEF Owed, Rest
  <2>3. \A x \in Ops : x \in Nat
        BY DEF Ops
  <2> QED BY <1>2, <2>1, <2>2, <2>3
<1>5. \A v \in Team!Threads : v # u => Owed(v)' = Owed(v)
      BY <1>1, <1>2 DEF Owed, Rest, Slice
<1>6. \A c : Batch(c)' = Batch(c)
      BY DEF Batch
<1>7. TeamShares
      BY DEF TeamInv
<1> HIDE DEF D
<1>8. TeamShares'
  <2>1. ASSUME NEW v \in Team!Threads, NEW x \in Ops, x \in Owed(v)'
        PROVE  x \in Owed(v)
        BY <1>4, <1>5, <2>1
  <2> QED BY <1>6, <1>7, <2>1 DEF TeamShares
<1>9. D \subseteq Todo
      BY <1>3 DEF Todo
<1>10. ASSUME NEW x \in Ops
       PROVE  x \in Todo' <=> x \in Todo /\ x \notin D
  <2>1. x \in Todo <=> \/ \E v \in Team!Threads : x \in Owed(v)
                       \/ \E c \in batches : x \in Batch(c)
        BY DEF Todo
  <2>2. x \in Todo' <=> \/ \E v \in Team!Threads : x \in Owed(v)'
                        \/ \E c \in batches : x \in Batch(c)
        BY <1>6 DEF Todo
  <2>3. x \in D => /\ \A v \in Team!Threads : v # u => x \notin Owed(v)
                   /\ \A c \in batches : x \notin Batch(c)
        BY <1>3, <1>7 DEF TeamShares
  <2> QED BY <1>4, <1>5, <2>1, <2>2, <2>3
<1>11. Todo \subseteq Ops /\ Todo' \subseteq Ops
       BY DEF Todo
<1>12. Todo' = Todo \ D
       BY <1>10, <1>11
<1> QED BY <1>8, <1>9, <1>12 DEF D

\* The counter goes on by as many as were done, if they write.
LEMMA CountsOn ==
  ASSUME TeamInv, NEW a \in Nat, NEW b \in Nat, a <= b,
         a..b - 1 \subseteq Todo, Todo' = Todo \ (a..b - 1), lock' = lock
  PROVE  /\ (\A x \in a..b - 1 : Team!Writes(x)) =>
              Cardinality(Made') = Cardinality(Made) + (b - a)
         /\ (\A x \in a..b - 1 : ~Team!Writes(x)) => Made' = Made
<1> DEFINE D == a..b - 1
<1>1. \A x : Team!Writes(x)' = Team!Writes(x)
      BY DEF Team!Writes
<1>2. Made' = {x \in Ops : Team!Writes(x) /\ x \notin Todo'}
      BY <1>1 DEF Made
<1>3. Todo \subseteq Ops
      BY DEF Todo
<1>4. ASSUME \A x \in D : Team!Writes(x)
      PROVE  Cardinality(Made') = Cardinality(Made) + (b - a)
  <2> HIDE DEF D
  <2>1. Made' = Made \cup D /\ Made \cap D = {}
        BY <1>2, <1>3, <1>4 DEF Made, D
  <2> QED BY <2>1, MadeFinite, CountedOn DEF D
<1>5. ASSUME \A x \in D : ~Team!Writes(x)
      PROVE  Made' = Made
      BY <1>2, <1>3, <1>5 DEF Made
<1> QED BY <1>4, <1>5

LEMMA TeamAcquires == \A u \in Team!Threads : TeamInv /\ Team!Acquire(u) => TeamInv'
<1> SUFFICES ASSUME NEW u \in Team!Threads, TeamInv, Team!Acquire(u)
             PROVE  TeamInv'
    OBVIOUS
<1> USE TeamNamed DEF TeamNames
<1>1. /\ team_pc[u] = "working" /\ team_i[u] < upto[u] /\ lock # "atomic"
      /\ writer = {}
      /\ Team!Writes(team_i[u]) => readers = {} /\ writer' = {u} /\ readers' = readers
      /\ ~Team!Writes(team_i[u]) => readers' = readers \cup {u} /\ writer' = writer
      /\ team_seen' = [team_seen EXCEPT ![u] = team_counter]
      /\ team_pc' = [team_pc EXCEPT ![u] = "holding"]
      /\ UNCHANGED <<lock, driver, K, team_iteration, stop_, fn_, called, team_i,
                     upto, batches, team_counter>>
      BY DEF Team!Acquire, Team!Goto
<1>2. /\ TeamPhases' /\ TeamArena'
      /\ DOMAIN team_pc' = Team!Parties
      /\ u # Team!Main /\ team_pc'[u] = "holding"
      /\ \A z \in Team!Parties : z # u => team_pc'[z] = team_pc[z]
  <2>1. /\ DOMAIN team_pc' = Team!Parties /\ team_pc'[u] = "holding"
        /\ \A z \in Team!Parties : z # u => team_pc'[z] = team_pc[z]
        BY <1>1, TeamGoes DEF TeamInv
  <2> QED BY <1>1, <2>1, TeamWorks
<1>3. /\ TeamTypes /\ TeamLock /\ team_counter \in Nat
      /\ team_seen \in [Team!Threads -> Nat]
      BY DEF TeamInv, TeamTypes
<1>4. /\ team_seen' \in [Team!Threads -> Nat] /\ team_seen'[u] = team_counter
      /\ \A v \in Team!Threads : v # u => team_seen'[v] = team_seen[v]
      BY <1>1, <1>3
<1>5. writer' \subseteq Team!Threads /\ readers' \subseteq Team!Threads
      BY <1>1, <1>3 DEF TeamTypes
<1>6. TeamTypes'
      BY <1>1, <1>2, <1>3, <1>4, <1>5 DEF TeamTypes
<1>7. \A x : Team!Writes(x)' = Team!Writes(x)
      BY <1>1 DEF Team!Writes
<1>8. TeamLock'
  <2>1. CASE Team!Writes(team_i[u])
    <3>1. \A v \in Team!Threads : team_pc[v] # "holding"
          BY <1>1, <1>3, <2>1 DEF TeamLock
    <3> QED BY <1>1, <1>2, <1>4, <1>7, <2>1, <3>1 DEF TeamLock
  <2>2. CASE ~Team!Writes(team_i[u])
    <3>1. /\ writer' = {} /\ readers' = readers \cup {u}
          BY <1>1, <2>2
    <3>2. \A v \in readers : v \in Team!Threads /\ team_pc[v] = "holding"
          BY <1>3 DEF TeamLock, TeamTypes
    <3>3. \A v \in readers' : team_pc'[v] = "holding"
          BY <1>2, <3>1, <3>2
    <3> QED BY <1>1, <1>2, <1>3, <1>7, <2>2, <3>1, <3>3 DEF TeamLock
  <2> QED BY <2>1, <2>2
<1>9. \A v \in Team!Threads : Owed(v)' = Owed(v)
      BY <1>1, <1>2 DEF Owed, Rest, Slice
<1>10. TeamShares' /\ Made' = Made
       BY <1>1, <1>9, DebtsKept DEF TeamInv
<1>11. TeamCounts'
       BY <1>1, <1>2, <1>10 DEF TeamInv, TeamCounts
<1> QED BY <1>2, <1>6, <1>8, <1>10, <1>11 DEF TeamInv

\* What was done under the lock is counted when the lock is released.
LEMMA TeamReleases == \A u \in Team!Threads : TeamInv /\ Team!Release(u) => TeamInv'
<1> SUFFICES ASSUME NEW u \in Team!Threads, TeamInv, Team!Release(u)
             PROVE  TeamInv'
    OBVIOUS
<1> USE TeamNamed DEF TeamNames
<1> DEFINE next == IF team_i[u] + K < upto[u] THEN team_i[u] + K ELSE upto[u]
<1>1. /\ team_pc[u] = "holding"
      /\ team_counter' = IF u \in writer THEN team_seen[u] + (next - team_i[u])
                         ELSE team_counter
      /\ team_i' = [team_i EXCEPT ![u] = next]
      /\ writer' = writer \ {u} /\ readers' = readers \ {u}
      /\ team_seen' = [team_seen EXCEPT ![u] = 0]
      /\ team_pc' = [team_pc EXCEPT ![u] = "working"]
      /\ UNCHANGED <<lock, driver, K, team_iteration, stop_, fn_, called, upto,
                     batches>>
      BY DEF Team!Release, Team!Goto
<1>2. /\ TeamPhases' /\ TeamArena'
      /\ DOMAIN team_pc' = Team!Parties
      /\ u # Team!Main /\ team_pc'[u] = "working"
      /\ \A z \in Team!Parties : z # u => team_pc'[z] = team_pc[z]
      /\ team_pc[Team!Main] \in {"assigning", "executing", "verifying"}
                                  \cup Outside \cup Inside
      /\ ~stop_
  <2>1. /\ DOMAIN team_pc' = Team!Parties /\ team_pc'[u] = "working"
        /\ \A z \in Team!Parties : z # u => team_pc'[z] = team_pc[z]
        BY <1>1, TeamGoes DEF TeamInv
  <2> QED BY <1>1, <2>1, TeamWorks
<1>3. /\ TeamTypes /\ TeamLock /\ team_counter \in Nat /\ K \in Nat \ {0}
      /\ team_seen \in [Team!Threads -> Nat] /\ team_i \in [Team!Threads -> Nat]
      /\ upto[u] \in 0..Operations /\ (lock # "mutex" => K = 1)
      /\ team_i[u] \in Nat /\ team_i[u] < upto[u]
      /\ Team!Writes(team_i[u]) => u \in writer
      /\ u \in writer => team_seen[u] = team_counter /\ Team!Writes(team_i[u])
      BY <1>1 DEF TeamInv, TeamTypes, TeamLock
<1>4. /\ next \in Nat /\ team_i[u] <= next /\ next <= upto[u]
      /\ lock # "mutex" => next = team_i[u] + 1
      BY <1>3
<1> HIDE DEF next
<1>5. /\ team_seen' \in [Team!Threads -> Nat] /\ team_i' \in [Team!Threads -> Nat]
      /\ \A v \in Team!Threads : v # u => team_seen'[v] = team_seen[v]
                                          /\ team_i'[v] = team_i[v]
      BY <1>1, <1>3, <1>4
<1>6. team_counter' = IF u \in writer THEN team_counter + (next - team_i[u])
                      ELSE team_counter
      BY <1>1, <1>3
<1>7. TeamTypes'
  <2>1. team_counter' \in Nat
        BY <1>3, <1>4, <1>6
  <2> QED BY <1>1, <1>2, <1>3, <1>5, <2>1 DEF TeamTypes
<1>8. \A x : Team!Writes(x)' = Team!Writes(x)
      BY <1>1 DEF Team!Writes
<1>9. TeamLock'
  <2>1. \A v \in writer' : team_counter' = team_counter /\ v # u /\ v \in writer
        BY <1>1, <1>3, <1>6 DEF TeamLock
  <2>2. \A v \in readers' : v # u /\ v \in readers
        BY <1>1
  <2>3. \A v \in writer \cup readers : v \in Team!Threads
        BY <1>3 DEF TeamTypes
  <2>4. \A v \in Team!Threads : v # u => /\ team_pc'[v] = team_pc[v]
                                         /\ team_i'[v] = team_i[v]
                                         /\ team_seen'[v] = team_seen[v]
                                         /\ v \in writer => v \in writer'
                                         /\ v \in readers => v \in readers'
        BY <1>1, <1>2, <1>5
  <2>5. writer' # {} => readers' = {}
        BY <1>1, <1>3 DEF TeamLock
  <2> QED BY <1>1, <1>2, <1>3, <1>8, <2>1, <2>2, <2>3, <2>4, <2>5 DEF TeamLock
<1>10. /\ TeamShares'
       /\ Todo' = Todo \ (team_i[u]..next - 1)
       /\ team_i[u]..next - 1 \subseteq Todo
       BY <1>1, <1>2, <1>4, ShareShrinks
<1>11. TeamCounts'
  <2>1. team_counter = Cardinality(Made)
        BY <1>2 DEF TeamInv, TeamCounts
  <2>2. /\ (\A x \in team_i[u]..next - 1 : Team!Writes(x)) =>
             Cardinality(Made') = Cardinality(Made) + (next - team_i[u])
        /\ (\A x \in team_i[u]..next - 1 : ~Team!Writes(x)) => Made' = Made
        BY <1>1, <1>3, <1>4, <1>10, CountsOn
  <2>3. CASE u \in writer
    <3>1. \A x \in team_i[u]..next - 1 : Team!Writes(x)
      <4>1. CASE lock = "mutex"
            BY <4>1 DEF Team!Writes
      <4>2. CASE lock # "mutex"
        <5>1. \A x \in team_i[u]..next - 1 : x = team_i[u]
              BY <1>3, <1>4, <4>2
        <5> QED BY <1>3, <2>3, <5>1
      <4> QED BY <4>1, <4>2
    <3> QED BY <1>6, <2>1, <2>2, <2>3, <3>1 DEF TeamCounts
  <2>4. CASE u \notin writer
    <3>1. ~Team!Writes(team_i[u])
          BY <1>3, <2>4
    <3>2. lock # "mutex"
          BY <3>1 DEF Team!Writes
    <3>3. \A x \in team_i[u]..next - 1 : x = team_i[u]
          BY <1>3, <1>4, <3>2
    <3> QED BY <1>6, <2>1, <2>2, <2>4, <3>1, <3>3 DEF TeamCounts
  <2> QED BY <2>3, <2>4
<1> QED BY <1>2, <1>7, <1>9, <1>10, <1>11 DEF TeamInv

LEMMA TeamFetches == \A u \in Team!Threads : TeamInv /\ Team!FetchAdd(u) => TeamInv'
<1> SUFFICES ASSUME NEW u \in Team!Threads, TeamInv, Team!FetchAdd(u)
             PROVE  TeamInv'
    OBVIOUS
<1> USE TeamNamed DEF TeamNames
<1> DEFINE next == team_i[u] + 1
<1>1. /\ team_pc[u] = "working" /\ team_i[u] < upto[u] /\ lock = "atomic"
      /\ team_counter' = team_counter + 1
      /\ team_i' = [team_i EXCEPT ![u] = next]
      /\ UNCHANGED <<lock, driver, K, team_iteration, team_pc, stop_, fn_, called,
                     upto, batches, writer, readers, team_seen>>
      BY DEF Team!FetchAdd
<1>2. /\ TeamTypes /\ TeamLock /\ team_counter \in Nat
      /\ team_i \in [Team!Threads -> Nat] /\ team_i[u] \in Nat
      /\ upto[u] \in 0..Operations /\ DOMAIN team_pc = Team!Parties
      BY DEF TeamInv, TeamTypes
<1>3. /\ next \in Nat /\ team_i[u] <= next /\ next <= upto[u]
      /\ next - team_i[u] = 1
      /\ \A x : x \in team_i[u]..next - 1 => x = team_i[u]
      BY <1>1, <1>2
<1> HIDE DEF next
<1>4. /\ TeamPhases' /\ TeamArena'
      /\ team_pc[Team!Main] \in {"assigning", "executing", "verifying"}
                                  \cup Outside \cup Inside
      /\ ~stop_
      BY <1>1, TeamWorks
<1>5. TeamTypes'
  <2>1. team_i' \in [Team!Threads -> Nat]
        BY <1>1, <1>2, <1>3
  <2>2. team_counter' \in Nat
        BY <1>1, <1>2
  <2>3. UNCHANGED <<lock, driver, K, team_pc, stop_, called, upto, batches, writer,
                    readers, team_seen>>
        BY <1>1
  <2> QED BY <1>2, <2>1, <2>2, <2>3 DEF TeamTypes
<1>6. writer = {} /\ readers = {} /\ \A v \in Team!Threads : team_pc[v] # "holding"
      BY <1>1, <1>2 DEF TeamLock, TeamTypes
<1>7. TeamLock'
      BY <1>1, <1>6 DEF TeamLock
<1>8. /\ TeamShares'
      /\ Todo' = Todo \ (team_i[u]..next - 1)
      /\ team_i[u]..next - 1 \subseteq Todo
      BY <1>1, <1>3, ShareShrinks
<1>9. TeamCounts'
  <2>1. team_counter = Cardinality(Made)
        BY <1>4 DEF TeamInv, TeamCounts
  <2>2. \A x \in team_i[u]..next - 1 : Team!Writes(x)
        BY <1>1 DEF Team!Writes
  <2>3. Cardinality(Made') = Cardinality(Made) + (next - team_i[u])
        BY <1>1, <1>2, <1>3, <1>8, <2>2, CountsOn
  <2>4. Cardinality(Made') = Cardinality(Made) + 1
        BY <1>3, <2>3
  <2> QED BY <1>1, <2>1, <2>4 DEF TeamCounts
<1> QED BY <1>4, <1>5, <1>7, <1>8, <1>9 DEF TeamInv

LEMMA TeamReturns == \A u \in Team!Threads : TeamInv /\ Team!Return(u) => TeamInv'
<1> SUFFICES ASSUME NEW u \in Team!Threads, TeamInv, Team!Return(u)
             PROVE  TeamInv'
    OBVIOUS
<1> USE TeamNamed DEF TeamNames
<1>1. /\ team_pc[u] = "working" /\ team_i[u] >= upto[u]
      /\ team_pc' = [team_pc EXCEPT ![u] =
                       IF driver = "team" THEN "before end_" ELSE "idle"]
      /\ team_i' = [team_i EXCEPT ![u] = 0] /\ upto' = [upto EXCEPT ![u] = 0]
      /\ UNCHANGED <<lock, driver, K, team_iteration, stop_, fn_, called, batches,
                     writer, readers, team_seen, team_counter>>
      BY DEF Team!Return, Team!Goto
<1>2. /\ DOMAIN team_pc' = Team!Parties
      /\ team_pc'[u] = IF driver = "team" THEN "before end_" ELSE "idle"
      /\ \A z \in Team!Parties : z # u => team_pc'[z] = team_pc[z]
      /\ u # Team!Main
      BY <1>1, TeamGoes DEF TeamInv
<1>3. /\ team_i' \in [Team!Threads -> Nat] /\ upto' \in [Team!Threads -> 0..Operations]
      /\ \A v \in Team!Threads : v # u => team_i'[v] = team_i[v] /\ upto'[v] = upto[v]
      /\ team_i[u] \in Nat /\ upto[u] \in Nat
  <2>1. /\ team_i \in [Team!Threads -> Nat]
        /\ upto \in [Team!Threads -> 0..Operations]
        BY DEF TeamInv, TeamTypes
  <2>2. 0 \in 0..Operations /\ 0 \in Nat
        OBVIOUS
  <2>3. /\ team_i' \in [Team!Threads -> Nat]
        /\ \A v \in Team!Threads : v # u => team_i'[v] = team_i[v]
        BY <1>1, <2>1, <2>2
  <2>4. /\ upto' \in [Team!Threads -> 0..Operations]
        /\ \A v \in Team!Threads : v # u => upto'[v] = upto[v]
        BY <1>1, <2>1, <2>2
  <2>5. team_i[u] \in Nat /\ upto[u] \in Nat
        BY <2>1
  <2> QED BY <2>3, <2>4, <2>5
<1>4. TeamTypes'
      BY <1>1, <1>2, <1>3 DEF TeamInv, TeamTypes
<1>5. TeamPhases'
      BY <1>1, <1>2 DEF TeamInv, TeamPhases, Outside, Inside
<1>6. TeamArena'
      BY <1>1, <1>2 DEF TeamInv, TeamArena
<1>7. TeamLock'
  <2>1. \A x : Team!Writes(x)' = Team!Writes(x)
        BY <1>1 DEF Team!Writes
  <2>2. /\ writer \subseteq Team!Threads /\ readers \subseteq Team!Threads
        /\ TeamLock
        BY DEF TeamInv, TeamTypes
  <2>3. \A v \in writer \cup readers : v \in Team!Threads /\ v # u
        BY <1>1, <2>2 DEF TeamLock
  <2>4. team_pc'[u] # "holding"
        BY <1>2
  <2> QED BY <1>1, <1>2, <1>3, <2>1, <2>2, <2>3, <2>4 DEF TeamLock
<1>8. \A v \in Team!Threads : Owed(v)' = Owed(v)
  <2>1. Owed(u) = {}
    <3>1. Owed(u) = {x \in Ops : team_i[u] <= x /\ x < upto[u]}
          BY <1>1 DEF Owed, Rest
    <3>2. team_i[u] >= upto[u] /\ team_i[u] \in Nat /\ upto[u] \in Nat
          BY <1>1, <1>3
    <3>3. \A x \in Ops : x \in Nat
          BY DEF Ops
    <3>4. \A x \in Ops : ~(team_i[u] <= x /\ x < upto[u])
          BY <3>2, <3>3
    <3> QED BY <3>1, <3>4
  <2>2. Owed(u)' = {}
        BY <1>2 DEF Owed, Outside
  <2>3. \A v \in Team!Threads : v # u => Owed(v)' = Owed(v)
    <3>1. /\ \A v \in Team!Threads : v # u => /\ team_pc'[v] = team_pc[v]
                                              /\ team_i'[v] = team_i[v]
                                              /\ upto'[v] = upto[v]
          /\ team_pc'[Team!Main] = team_pc[Team!Main] /\ driver' = driver
          BY <1>1, <1>2, <1>3
    <3> QED BY <3>1 DEF Owed, Rest, Slice
  <2> QED BY <2>1, <2>2, <2>3
<1>9. TeamShares' /\ Made' = Made
      BY <1>1, <1>8, DebtsKept DEF TeamInv
<1>10. TeamCounts'
       BY <1>1, <1>2, <1>9 DEF TeamInv, TeamCounts
<1> QED BY <1>4, <1>5, <1>6, <1>7, <1>9, <1>10 DEF TeamInv

\* When the owner verifies, nothing is owed: every write has been made.
LEMMA TeamMeans == TeamInv => Team!VerifyExact /\ Team!TeamRaceFree
<1> SUFFICES ASSUME TeamInv PROVE Team!VerifyExact /\ Team!TeamRaceFree
    OBVIOUS
<1> USE TeamNamed DEF TeamNames
<1>1. ASSUME team_pc[Team!Main] = "verifying"
      PROVE  team_counter = IF lock = "shared_mutex" THEN Team!WRITE_COUNT
                            ELSE Operations
  <2>1. \A u \in Team!Threads : Owed(u) = {}
    <3>1. CASE driver = "team"
          BY <1>1, <3>1, NothingOwed
    <3>2. CASE driver # "team"
      <4>1. \A u \in Team!Threads : team_pc[u] = "idle"
            BY <1>1, <3>2 DEF TeamInv, TeamTypes, TeamArena
      <4> QED BY <3>2, <4>1 DEF Owed
    <3> QED BY <3>1, <3>2
  <2>2. batches = {} /\ ~stop_
        BY <1>1 DEF TeamInv, TeamTypes, TeamPhases, TeamArena
  <2>3. Made = {x \in Ops : Team!Writes(x)}
        BY <2>1, <2>2 DEF Made, Todo
  <2>4. team_counter = Cardinality(Made)
        BY <1>1, <2>2 DEF TeamInv, TeamCounts
  <2>5. CASE lock = "shared_mutex"
    <3>1. Made = {x \in 0..Operations - 1 : x % 5 = 0}
          BY <2>3, <2>5 DEF Team!Writes, Ops
    <3>2. Cardinality(Made) = 1 + (Operations - 1) \div 5
          BY <3>1, FifthsCount
    <3> QED BY <2>4, <2>5, <3>2 DEF Team!WRITE_COUNT
  <2>6. CASE lock # "shared_mutex"
    <3>1. Made = 0..Operations - 1
          BY <2>3, <2>6 DEF Team!Writes, Ops
    <3>2. Operations - 1 \in Int /\ ~(0 > Operations - 1)
          OBVIOUS
    <3>3. Cardinality(0..Operations - 1) = Operations - 1 - 0 + 1
          BY <3>2, FS_Interval
    <3>4. Cardinality(Made) = Operations
          BY <3>1, <3>3
    <3> QED BY <2>4, <2>6, <3>4
  <2> QED BY <2>5, <2>6
<1>2. Team!VerifyExact
      BY <1>1 DEF Team!VerifyExact
<1>3. Team!TeamRaceFree
      BY DEF Team!TeamRaceFree, TeamInv, TeamPhases, Outside
<1> QED BY <1>2, <1>3

LEMMA TeamBegins == Init => TeamRight
<1> SUFFICES ASSUME Init, program = "team" PROVE TeamInv
    BY DEF TeamRight
<1> USE TeamNamed DEF TeamNames
<1>1. Team!Init
      BY DEF Init
<1>2. /\ lock \in {"mutex", "shared_mutex", "atomic"}
      /\ driver \in {"team", "parallel_for"}
      /\ K \in IF lock = "mutex" THEN BatchSizes ELSE {1}
      /\ stop_ = FALSE /\ fn_ = 0 /\ batches = {} /\ writer = {} /\ readers = {}
      /\ called = [u \in Team!Threads |-> 0] /\ team_i = [u \in Team!Threads |-> 0]
      /\ upto = [u \in Team!Threads |-> 0] /\ team_seen = [u \in Team!Threads |-> 0]
      /\ team_counter = 0
      BY <1>1 DEF Team!Init
<1>3. /\ DOMAIN team_pc = Team!Parties /\ team_pc[Team!Main] = "resetting"
      /\ \A u \in Team!Threads : team_pc[u] = IF driver = "team" THEN "before start_"
                                              ELSE "idle"
      BY <1>1 DEF Team!Init
<1>4. K \in Nat \ {0} /\ Operations % K = 0 /\ (lock # "mutex" => K = 1)
  <2>1. CASE lock = "mutex"
        BY <1>2, <2>1, BenchmarkAssumption
  <2>2. CASE lock # "mutex"
        BY <1>2, <2>2
  <2> QED BY <2>1, <2>2
<1>5. TeamTypes
  <2>1. 0 \in Nat /\ 0 \in 0..Operations
        OBVIOUS
  <2>2. /\ team_i \in [Team!Threads -> Nat] /\ team_seen \in [Team!Threads -> Nat]
        /\ upto \in [Team!Threads -> 0..Operations]
        /\ DOMAIN called = Team!Threads
        BY <1>2, <2>1
  <2> QED BY <1>2, <1>3, <1>4, <2>1, <2>2 DEF TeamTypes
<1>6. TeamPhases /\ TeamArena
      BY <1>2, <1>3 DEF TeamPhases, TeamArena, Outside, Inside
<1>7. TeamLock
      BY <1>2, <1>3 DEF TeamLock
<1>8. TeamShares
  <2>1. \A u \in Team!Threads : Owed(u) = {}
        BY <1>2, <1>3 DEF Owed, Outside, Inside
  <2> QED BY <1>2, <2>1 DEF TeamShares
<1>9. TeamCounts
      BY <1>3 DEF TeamCounts, Outside, Inside
<1> QED BY <1>5, <1>6, <1>7, <1>8, <1>9 DEF TeamInv

LEMMA TeamStep == TeamRight /\ [Next]_vars => TeamRight'
<1> SUFFICES ASSUME TeamRight, [Next]_vars PROVE TeamRight'
    OBVIOUS
<1>1. CASE RunTeam
  <2>1. TeamInv /\ Team!Next
        BY <1>1 DEF RunTeam, TeamRight
  <2>2. Team!Main \in Team!Parties /\ Team!Threads \subseteq Team!Parties
        BY TeamNamed DEF TeamNames
  <2>3. CASE Team!Owner
        BY <2>1, <2>2, <2>3, TeamResets, TeamAssigns, TeamOwnerGoes, TeamStops,
           TeamStarts, TeamEnds
        DEF Team!Owner, TeamRight
  <2>4. ASSUME NEW u \in Team!Threads, Team!Thread(u)
        PROVE  TeamInv'
        BY <2>1, <2>2, <2>4, TeamStarts, TeamEnds, TeamCalls, TeamBodies,
           TeamAcquires, TeamReleases, TeamFetches, TeamReturns
        DEF Team!Thread
  <2> QED BY <2>1, <2>3, <2>4 DEF Team!Next, TeamRight
<1>2. CASE program' = program /\ (program # "team" \/ UNCHANGED teamVars)
  <2>1. CASE program # "team"
        BY <1>2, <2>1 DEF TeamRight
  <2>2. CASE UNCHANGED teamVars
    <3> SUFFICES ASSUME TeamInv PROVE TeamInv'
        BY <1>2 DEF TeamRight
    <3>1. UNCHANGED <<lock, driver, K, team_iteration, team_pc, stop_, fn_, called,
                      team_i, upto, batches, writer, readers, team_seen,
                      team_counter>>
          BY <2>2 DEF teamVars
    <3>2. \A u \in Team!Threads : Owed(u)' = Owed(u)
          BY <3>1 DEF Owed, Rest, Slice
    <3>3. TeamShares' /\ Made' = Made
          BY <3>1, <3>2, DebtsKept DEF TeamInv
    <3>4. \A x : Team!Writes(x)' = Team!Writes(x)
          BY <3>1 DEF Team!Writes
    <3>5. TeamTypes' /\ TeamLock'
          BY <3>1, <3>4 DEF TeamInv, TeamTypes, TeamLock
    <3>6. TeamPhases' /\ TeamArena' /\ TeamCounts'
          BY <3>1, <3>3 DEF TeamInv, TeamPhases, TeamArena, TeamCounts
    <3> QED BY <3>3, <3>5, <3>6 DEF TeamInv
  <2> QED BY <1>2, <2>1, <2>2
<1>3. Next => RunTeam \/ (program' = program /\ program # "team")
      BY DEF Next, RunReduction, RunSearch, RunCover, RunThreaded, RunTbb,
             RunSteal, RunGate, RunSplitting, RunSlotted
<1>4. UNCHANGED vars => program' = program /\ UNCHANGED teamVars
      BY DEF vars
<1> QED BY <1>1, <1>2, <1>3, <1>4

\* Behind a gate or between two barriers, under a mutex, a read-write lock or
\* an atomic, every task and every increment is counted once, within the time
\* that is measured; only the remainder kTotalWork % num_threads is not, and
\* only because of it do the assertions of case5_lockCost.cpp:173 and 184 fail.
\* And nobody writes the team's function or its stop flag while a thread may
\* read them (case4_tooManyThreads.cpp:62-92, case5_lockCost.cpp:117-145,
\* case2_mutex.cpp, bench_common.h:149-174).
THEOREM CountsCorrect == Spec => []CountsExact
<1>1. GateRight /\ TeamRight => CountsExact
      BY GateMeans, TeamMeans DEF GateRight, TeamRight, CountsExact
<1> QED BY <1>1, GateBegins, GateStep, TeamBegins, TeamStep, PTL DEF Spec

=============================================================================
