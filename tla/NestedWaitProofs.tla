-------------------------- MODULE NestedWaitProofs --------------------------
(***************************************************************************)
(* The safe zone of case2_parallelismErosion.cpp, for every number of      *)
(* workers, parents and children: fewer parents than workers leave a       *)
(* worker free at every moment.                                            *)
(***************************************************************************)
EXTENDS NestedWait, FiniteSetTheorems, SequenceTheorems, TLAPS

\* The actions of Next, as one step each; none changes the arguments.
StepOf ==
  \/ SubmitParent
  \/ \E k \in Pools, w \in Workers : Start(k, w)
  \/ \E w \in Workers : SubmitChild(w)
  \/ \E w \in Workers : ParentReturns(w)
  \/ \E k \in Pools, w \in Workers : ChildReturns(k, w)
  \/ ParentsDone \/ Complete \/ WatchdogLeaves \/ WatchdogAborts
  \/ UNCHANGED vars

LEMMA StepCases ==
  ASSUME Next
  PROVE  /\ UNCHANGED args
         /\ StepOf
BY DEF Next, Main, Worker, Watchdog, Terminated, StepOf, vars

LEMMA ArgsType ==
  ASSUME NEW a \in Programs
  PROVE  a.parents \in 0..Parents
BY NestedAssumption DEF Programs

LEMMA TypeInit == Init => TypeOK
BY NestedAssumption, ArgsType, EmptySeq DEF Init, TypeOK, Pools

\* A parent on a worker of gPool is a parent of main's loop.
LEMMA ParentType ==
  ASSUME TypeOK, NEW w \in Workers, IsParent(run[Shared][w])
  PROVE  /\ run[Shared][w][1] \in 1..Parents
         /\ run[Shared][w] = <<run[Shared][w][1], 0>>
BY NestedAssumption DEF TypeOK, IsParent, Tasks, Idle, Pools, Shared

\* No step leaves the types.
LEMMA TypeStep == TypeOK /\ [Next]_vars => TypeOK'
<1> SUFFICES ASSUME TypeOK, [Next]_vars PROVE TypeOK'
    OBVIOUS
<1>a. args' = args /\ args.parents \in 0..Parents
      BY StepCases, ArgsType DEF vars, TypeOK
<1> USE NestedAssumption, <1>a
<1> USE DEF TypeOK
<1>0. Shared \in Pools /\ \A p \in 1..Parents : PoolOf(p) \in Pools
      BY DEF Shared, Pools, PoolOf
<1>1. ASSUME SubmitParent
      PROVE  TypeOK'
  <2>1. <<submitted + 1, 0>> \in Tasks /\ submitted' \in 0..Parents
        BY <1>1 DEF SubmitParent, Tasks
  <2>2. queue' \in [Pools -> Seq(Tasks)]
        BY <1>0, <1>1, <2>1, AppendProperties DEF SubmitParent
  <2> QED BY <1>1, <2>1, <2>2 DEF SubmitParent
<1>2. ASSUME NEW k \in Pools, NEW w \in Workers, Start(k, w)
      PROVE  TypeOK'
  <2>1. Head(queue[k]) \in Tasks /\ Tail(queue[k]) \in Seq(Tasks)
        BY <1>2, HeadTailProperties DEF Start
  <2>2. queue' \in [Pools -> Seq(Tasks)]
        BY <1>2, <2>1 DEF Start
  <2>3. run' \in [Pools -> [Workers -> Tasks \cup {Idle}]]
        BY <1>2, <2>1 DEF Start
  <2> QED BY <1>2, <2>2, <2>3 DEF Start
<1>3. ASSUME NEW w \in Workers, SubmitChild(w)
      PROVE  TypeOK'
  <2> DEFINE p == run[Shared][w][1]
  <2>1. p \in 1..Parents /\ born[p] \in 0..Children /\ born[p] < Children
        BY <1>3, ParentType DEF SubmitChild
  <2> HIDE DEF p, TypeOK
  <2>2. <<p, born[p] + 1>> \in Tasks /\ born[p] + 1 \in 0..Children
        BY <2>1 DEF Tasks
  <2>3. /\ queue' = [queue EXCEPT ![PoolOf(p)] = Append(@, <<p, born[p] + 1>>)]
        /\ born' = [born EXCEPT ![p] = @ + 1]
        BY <1>3 DEF SubmitChild, p
  <2> USE DEF TypeOK
  <2>4. queue' \in [Pools -> Seq(Tasks)]
        BY <1>0, <2>1, <2>2, <2>3, AppendProperties
  <2>5. born' \in [1..Parents -> 0..Children]
        BY <2>1, <2>2, <2>3
  <2> QED BY <1>3, <2>4, <2>5 DEF SubmitChild
<1>4. ASSUME NEW w \in Workers, ParentReturns(w)
      PROVE  TypeOK'
  <2>1. <<run[Shared][w][1], 0>> \in Tasks
        BY <1>4, ParentType DEF ParentReturns, Tasks
  <2> QED BY <1>0, <1>4, <2>1 DEF ParentReturns
<1>5. ASSUME NEW k \in Pools, NEW w \in Workers, ChildReturns(k, w)
      PROVE  TypeOK'
      BY <1>5 DEF ChildReturns
<1>6. ASSUME ParentsDone \/ Complete \/ WatchdogLeaves \/ WatchdogAborts
      PROVE  TypeOK'
      BY <1>6 DEF ParentsDone, Complete, WatchdogLeaves, WatchdogAborts
<1>7. CASE UNCHANGED vars
      BY <1>7 DEF vars
<1> QED BY <1>1, <1>2, <1>3, <1>4, <1>5, <1>6, <1>7, StepCases DEF StepOf

\* The program's state is well typed.
THEOREM TypeCorrect == Spec => []TypeOK
BY TypeInit, TypeStep, PTL DEF Spec

-----------------------------------------------------------------------------

\* OnePlace for any value of gPool's queue and workers and of main's counter.
Placed(r, q, n) ==
  \A p \in 1..Parents :
    /\ \A v, w \in Workers : r[v] = <<p, 0>> /\ r[w] = <<p, 0>> => v = w
    /\ \A i, j \in 1..Len(q) : q[i] = <<p, 0>> /\ q[j] = <<p, 0>> => i = j
    /\ \A i \in 1..Len(q), w \in Workers : q[i] = <<p, 0>> => r[w] # <<p, 0>>
    /\ p > n =>
         /\ \A w \in Workers : r[w] # <<p, 0>>
         /\ \A i \in 1..Len(q) : q[i] # <<p, 0>>

\* Appending a parent that was nowhere.
LEMMA PlacedParent ==
  ASSUME NEW r, NEW q \in Seq(Tasks), NEW n \in 0..Parents, n < Parents,
         Placed(r, q, n)
  PROVE  Placed(r, Append(q, <<n + 1, 0>>), n + 1)
<1> DEFINE t == <<n + 1, 0>>
           s == Append(q, t)
<1>1. t \in Tasks /\ n \in Nat /\ Len(q) \in Nat
      BY NestedAssumption, LenProperties DEF Tasks
<1>2. /\ Len(s) = Len(q) + 1
      /\ \A i \in 1..Len(q) : s[i] = q[i]
      /\ s[Len(q) + 1] = t
      BY <1>1, AppendProperties
<1>3. \A i \in 1..Len(s) : i \in 1..Len(q) \/ i = Len(q) + 1
      BY <1>1, <1>2
<1> HIDE DEF t, s
<1>4. ASSUME NEW p \in 1..Parents
      PROVE  /\ \A v, w \in Workers : r[v] = <<p, 0>> /\ r[w] = <<p, 0>> => v = w
             /\ \A i, j \in 1..Len(s) : s[i] = <<p, 0>> /\ s[j] = <<p, 0>> => i = j
             /\ \A i \in 1..Len(s), w \in Workers :
                  s[i] = <<p, 0>> => r[w] # <<p, 0>>
             /\ p > n + 1 =>
                  /\ \A w \in Workers : r[w] # <<p, 0>>
                  /\ \A i \in 1..Len(s) : s[i] # <<p, 0>>
  <2>1. CASE p = n + 1
    <3>1. /\ \A w \in Workers : r[w] # <<p, 0>>
          /\ \A i \in 1..Len(q) : q[i] # <<p, 0>>
          BY <1>1, <2>1 DEF Placed
    <3>2. \A i \in 1..Len(s) : s[i] = <<p, 0>> => i = Len(q) + 1
          BY <1>2, <1>3, <3>1
    <3>3. ~(p > n + 1)
          BY <1>1, <2>1
    <3> QED BY <3>1, <3>2, <3>3
  <2>2. CASE p # n + 1
    <3>1. t # <<p, 0>>
          BY <2>2 DEF t
    <3>2. \A i \in 1..Len(s) :
            s[i] = <<p, 0>> => i \in 1..Len(q) /\ q[i] = <<p, 0>>
          BY <1>2, <1>3, <3>1
    <3>3. p > n + 1 => p > n
          BY <1>1
    <3> QED BY <3>2, <3>3 DEF Placed
  <2> QED BY <2>1, <2>2
<1> QED BY <1>4 DEF Placed, s, t

\* Appending a child changes nothing for the parents.
LEMMA PlacedChild ==
  ASSUME NEW r, NEW q \in Seq(Tasks), NEW n, NEW t \in Tasks,
         \A p \in 1..Parents : t # <<p, 0>>,
         Placed(r, q, n)
  PROVE  Placed(r, Append(q, t), n)
<1> DEFINE s == Append(q, t)
<1>1. Len(q) \in Nat
      BY LenProperties
<1>2. /\ Len(s) = Len(q) + 1
      /\ \A i \in 1..Len(q) : s[i] = q[i]
      /\ s[Len(q) + 1] = t
      BY AppendProperties
<1>3. \A i \in 1..Len(s) : i \in 1..Len(q) \/ i = Len(q) + 1
      BY <1>1, <1>2
<1> HIDE DEF s
<1>4. \A i \in 1..Len(s), p \in 1..Parents :
        s[i] = <<p, 0>> => i \in 1..Len(q) /\ q[i] = <<p, 0>>
      BY <1>2, <1>3
<1>5. Placed(r, s, n)
      BY <1>4 DEF Placed
<1> QED BY <1>5 DEF s

\* Popping the front onto one worker.
LEMMA PlacedStart ==
  ASSUME NEW r, NEW q \in Seq(Tasks), q # <<>>, NEW n, NEW w \in Workers,
         NEW x, \A v \in Workers : x[v] = IF v = w THEN Head(q) ELSE r[v],
         Placed(r, q, n)
  PROVE  Placed(x, Tail(q), n)
<1> DEFINE s == Tail(q)
<1>1. /\ Len(q) \in Nat /\ Len(q) >= 1 /\ Head(q) = q[1]
      /\ Len(s) = Len(q) - 1
      /\ \A i \in 1..Len(s) : s[i] = q[i + 1]
      BY LenProperties, EmptySeq, HeadTailProperties
<1>2. 1 \in 1..Len(q) /\ \A i \in 1..Len(s) : i + 1 \in 1..Len(q) /\ i + 1 # 1
      BY <1>1
<1>3. \A i, j \in 1..Len(s) : i + 1 = j + 1 => i = j
      BY <1>1
<1> HIDE DEF s
<1>4. ASSUME NEW p \in 1..Parents
      PROVE  /\ \A u, v \in Workers : x[u] = <<p, 0>> /\ x[v] = <<p, 0>> => u = v
             /\ \A i, j \in 1..Len(s) : s[i] = <<p, 0>> /\ s[j] = <<p, 0>> => i = j
             /\ \A i \in 1..Len(s), v \in Workers :
                  s[i] = <<p, 0>> => x[v] # <<p, 0>>
             /\ p > n =>
                  /\ \A v \in Workers : x[v] # <<p, 0>>
                  /\ \A i \in 1..Len(s) : s[i] # <<p, 0>>
  <2>1. \A u, v \in Workers : x[u] = <<p, 0>> /\ x[v] = <<p, 0>> => u = v
        BY <1>1, <1>2 DEF Placed
  <2>2. \A i, j \in 1..Len(s) : s[i] = <<p, 0>> /\ s[j] = <<p, 0>> => i = j
    <3> SUFFICES ASSUME NEW i \in 1..Len(s), NEW j \in 1..Len(s),
                        s[i] = <<p, 0>>, s[j] = <<p, 0>>
                 PROVE  i = j
        OBVIOUS
    <3>1. q[i + 1] = <<p, 0>> /\ q[j + 1] = <<p, 0>>
          BY <1>1
    <3>2. i + 1 \in 1..Len(q) /\ j + 1 \in 1..Len(q)
          BY <1>2
    <3>3. i + 1 = j + 1
          BY <3>1, <3>2 DEF Placed
    <3> QED BY <3>3, <1>3
  <2>3. \A i \in 1..Len(s), v \in Workers : s[i] = <<p, 0>> => x[v] # <<p, 0>>
    <3> SUFFICES ASSUME NEW i \in 1..Len(s), NEW v \in Workers,
                        s[i] = <<p, 0>>, x[v] = <<p, 0>>
                 PROVE  FALSE
        OBVIOUS
    <3>1. q[i + 1] = <<p, 0>> /\ i + 1 \in 1..Len(q) /\ i + 1 # 1
          BY <1>1, <1>2
    <3>2. CASE v = w
      <4>1. q[1] = <<p, 0>>
            BY <1>1, <3>2
      <4> QED BY <1>2, <3>1, <4>1 DEF Placed
    <3>3. CASE v # w
      <4>1. r[v] = <<p, 0>>
            BY <3>3
      <4> QED BY <3>1, <4>1 DEF Placed
    <3> QED BY <3>2, <3>3
  <2>4. p > n =>
          /\ \A v \in Workers : x[v] # <<p, 0>>
          /\ \A i \in 1..Len(s) : s[i] # <<p, 0>>
    <3> SUFFICES ASSUME p > n
                 PROVE  /\ \A v \in Workers : x[v] # <<p, 0>>
                        /\ \A i \in 1..Len(s) : s[i] # <<p, 0>>
        OBVIOUS
    <3>1. /\ \A v \in Workers : r[v] # <<p, 0>>
          /\ \A i \in 1..Len(q) : q[i] # <<p, 0>>
          BY DEF Placed
    <3> QED BY <1>1, <1>2, <3>1
  <2> QED BY <2>1, <2>2, <2>3, <2>4
<1> QED BY <1>4 DEF Placed, s

LEMMA OnePlaceIsPlaced ==
  OnePlace <=> Placed(run[Shared], queue[Shared], submitted)
BY DEF OnePlace, Placed

LEMMA OnePlaceInit == Init => OnePlace
BY NestedAssumption, EmptySeq DEF Init, OnePlace, Idle, Pools, Shared

\* No step brings a parent to a second place.
LEMMA OnePlaceStep == TypeOK /\ OnePlace /\ [Next]_vars => OnePlace'
<1> SUFFICES ASSUME TypeOK, OnePlace, [Next]_vars PROVE OnePlace'
    OBVIOUS
<1> USE NestedAssumption
<1> DEFINE q == queue[Shared]
           r == run[Shared]
<1>0. Shared \in Pools /\ q \in Seq(Tasks) /\ Placed(r, q, submitted)
  <2>1. Shared \in Pools
        BY DEF Shared, Pools
  <2> QED BY <2>1, OnePlaceIsPlaced DEF TypeOK
<1>1. SUFFICES Placed(r', q', submitted')
      BY DEF OnePlace, Placed
<1>2. ASSUME SubmitParent
      PROVE  Placed(r', q', submitted')
  <2>1. /\ q' = Append(q, <<submitted + 1, 0>>) /\ r' = r
        /\ submitted' = submitted + 1
        BY <1>0, <1>2 DEF SubmitParent, TypeOK
  <2>2. submitted \in 0..Parents /\ submitted < Parents
    <3>1. submitted \in 0..args.parents /\ args.parents \in 0..Parents
          BY ArgsType DEF TypeOK
    <3> QED BY <1>2, <3>1 DEF SubmitParent
  <2> QED BY <1>0, <2>1, <2>2, PlacedParent
<1>3. ASSUME NEW k \in Pools, NEW w \in Workers, Start(k, w)
      PROVE  Placed(r', q', submitted')
  <2>1. CASE k # Shared
    <3>1. q' = q /\ r' = r /\ submitted' = submitted
          BY <1>0, <1>3, <2>1 DEF Start, TypeOK
    <3> QED BY <1>0, <3>1
  <2>2. CASE k = Shared
    <3>1. q # <<>> /\ q' = Tail(q) /\ submitted' = submitted
          BY <1>0, <1>3, <2>2 DEF Start, TypeOK
    <3>2. \A v \in Workers : r'[v] = IF v = w THEN Head(q) ELSE r[v]
          BY <1>0, <1>3, <2>2 DEF Start, TypeOK
    <3> QED BY <1>0, <3>1, <3>2, PlacedStart
  <2> QED BY <2>1, <2>2
<1>4. ASSUME NEW w \in Workers, SubmitChild(w)
      PROVE  Placed(r', q', submitted')
  <2> DEFINE p == run[Shared][w][1]
             t == <<p, born[p] + 1>>
  <2>1. p \in 1..Parents /\ born[p] \in Nat /\ born[p] < Children
        BY <1>4, ParentType DEF SubmitChild, TypeOK
  <2>2. t \in Tasks /\ \A u \in 1..Parents : t # <<u, 0>>
        BY <2>1 DEF Tasks
  <2>3. r' = r /\ submitted' = submitted
        BY <1>4 DEF SubmitChild
  <2>4. q' = q \/ q' = Append(q, t)
        BY <1>0, <1>4 DEF SubmitChild, TypeOK
  <2> QED BY <1>0, <2>2, <2>3, <2>4, PlacedChild
<1>5. ASSUME NEW w \in Workers,
             ParentReturns(w) \/ \E k \in Pools : ChildReturns(k, w)
      PROVE  Placed(r', q', submitted')
  <2>1. q' = q /\ submitted' = submitted
        BY <1>5 DEF ParentReturns, ChildReturns
  <2>2. \A v \in Workers : r'[v] = r[v] \/ r'[v] = Idle
    <3>1. CASE ParentReturns(w)
          BY <1>0, <3>1 DEF ParentReturns, TypeOK
    <3>2. ASSUME NEW k \in Pools, ChildReturns(k, w)
          PROVE  \A v \in Workers : r'[v] = r[v] \/ r'[v] = Idle
          BY <1>0, <3>2 DEF ChildReturns, TypeOK
    <3> QED BY <1>5, <3>1, <3>2
  <2>3. \A p \in 1..Parents : <<p, 0>> # Idle
        BY DEF Idle
  <2> QED BY <1>0, <2>1, <2>2, <2>3 DEF Placed
<1>6. ASSUME \/ ParentsDone \/ Complete \/ WatchdogLeaves \/ WatchdogAborts
             \/ UNCHANGED vars
      PROVE  Placed(r', q', submitted')
  <2>1. UNCHANGED <<queue, run, submitted>>
        BY <1>6 DEF ParentsDone, Complete, WatchdogLeaves, WatchdogAborts, vars
  <2> QED BY <1>0, <2>1
<1> QED BY <1>2, <1>3, <1>4, <1>5, <1>6, StepCases DEF StepOf

\* A parent is in one place at most.
THEOREM OnePlaceCorrect == Spec => []OnePlace
<1>1. Init => TypeOK /\ OnePlace
      BY TypeInit, OnePlaceInit
<1>2. TypeOK /\ OnePlace /\ [Next]_vars => TypeOK' /\ OnePlace'
      BY TypeStep, OnePlaceStep
<1> QED BY <1>1, <1>2, PTL DEF Spec

LEMMA IntervalCard ==
  ASSUME NEW n \in Nat
  PROVE  IsFiniteSet(1..n) /\ Cardinality(1..n) = n
BY FS_Interval

\* If every worker held a parent, the function from workers to parents would
\* be injective, which the pigeonhole principle forbids in the safe zone.
LEMMA FreeWorkerHolds == TypeOK /\ OnePlace => FreeWorker
<1> SUFFICES ASSUME TypeOK, OnePlace, SafeZone,
                    \A w \in Workers : IsParent(run[Shared][w])
             PROVE  FALSE
    BY DEF FreeWorker
<1> DEFINE f == [w \in Workers |-> run[Shared][w][1]]
           P == 1..args.parents
<1>0. /\ args.parents \in 0..Parents /\ args.parents \in Nat
      /\ submitted \in Nat /\ submitted <= args.parents
      BY ArgsType, NestedAssumption DEF TypeOK
<1>1. f \in [Workers -> P]
  <2> SUFFICES ASSUME NEW w \in Workers PROVE run[Shared][w][1] \in P
      OBVIOUS
  <2>1. /\ run[Shared][w][1] \in 1..Parents
        /\ run[Shared][w] = <<run[Shared][w][1], 0>>
        BY ParentType
  <2>2. ~(run[Shared][w][1] > submitted)
        BY <2>1 DEF OnePlace
  <2> QED BY <1>0, <2>1, <2>2, NestedAssumption
<1>2. IsFiniteSet(P) /\ Cardinality(P) = args.parents
      BY <1>0, IntervalCard
<1>3. PICK v, w \in Workers : v # w /\ f[v] = f[w]
  <2>1. Cardinality(P) < Cardinality(Workers)
        BY <1>2 DEF SafeZone
  <2> HIDE DEF f, P
  <2> QED BY <2>1, <1>1, <1>2, NestedAssumption, FS_PigeonHole
<1>4. run[Shared][v] = <<f[v], 0>> /\ run[Shared][w] = <<f[v], 0>>
      BY <1>3, ParentType
<1>5. f[v] \in 1..Parents
      BY ParentType
<1> QED BY <1>3, <1>4, <1>5 DEF OnePlace

\* Fewer parents than workers never take the whole pool.
THEOREM SafeZoneCorrect == Spec => []FreeWorker
BY OnePlaceCorrect, TypeCorrect, FreeWorkerHolds, PTL
=============================================================================
