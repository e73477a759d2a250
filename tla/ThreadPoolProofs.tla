-------------------------- MODULE ThreadPoolProofs --------------------------
(***************************************************************************)
(* Theorems about ThreadPool, for every finite number of workers and every *)
(* set of callables.                                                       *)
(***************************************************************************)
EXTENDS ThreadPool, FiniteSetTheorems, SequenceTheorems, TLAPS

\* The actions of Next, as one step each.
LEMMA StepCases ==
  ASSUME Next
  PROVE  \/ \E c \in Callers, S \in SUBSET Tasks : Submit(c, S)
         \/ \E c \in Callers : \E t \in batch[c] : Enqueue(c, t)
         \/ \E c \in Callers : \E t \in batch[c] : Refuse(c, t)
         \/ \E c \in Callers : NotifyOne(c)
         \/ \E w \in Workers : Take(w)
         \/ \E w \in Workers : Park(w)
         \/ \E w \in Workers : Exit(w)
         \/ \E w \in Workers : SpuriousWakeup(w)
         \/ \E w \in Workers : Finish(w)
         \/ SetStop
         \/ NotifyAll
         \/ Join
         \/ UNCHANGED vars
BY DEF Next, Call, WorkerStep, Destructor, Terminated

-----------------------------------------------------------------------------

\* The types hold initially.
LEMMA TypeInit == Init => TypeOK
BY PoolAssumption, EmptySeq DEF Init, TypeOK, Callers, WorkerPlaces, OwnerPlaces, InTask, Statuses

\* No step leaves the types.
LEMMA TypeStep == TypeOK /\ [Next]_vars => TypeOK'
<1> SUFFICES ASSUME TypeOK, [Next]_vars PROVE TypeOK'
    OBVIOUS
<1> USE PoolAssumption
<1> USE DEF TypeOK, Callers, WorkerPlaces, OwnerPlaces, InTask, Statuses, Home, Goto
<1>1. ASSUME NEW c \in Callers, NEW S \in SUBSET Tasks, Submit(c, S)
      PROVE  TypeOK'
      BY <1>1 DEF Submit
<1>2. ASSUME NEW c \in Callers, NEW t \in batch[c], Enqueue(c, t)
      PROVE  TypeOK'
  <2>1. tasks' \in Seq(Tasks)
        BY <1>2 DEF Enqueue
  <2> QED BY <1>2, <2>1 DEF Enqueue
<1>3. ASSUME NEW c \in Callers, NEW t \in batch[c], Refuse(c, t)
      PROVE  TypeOK'
      BY <1>3 DEF Refuse
<1>4. ASSUME NEW c \in Callers, NotifyOne(c)
      PROVE  TypeOK'
      BY <1>4 DEF NotifyOne, Wake, Parked
<1>5. ASSUME NEW w \in Workers, Take(w)
      PROVE  TypeOK'
  <2>1. Head(tasks) \in Tasks /\ tasks' \in Seq(Tasks)
        BY <1>5, HeadTailProperties DEF Take
  <2> QED BY <1>5, <2>1 DEF Take
<1>6. ASSUME NEW w \in Workers, Park(w) \/ Exit(w) \/ SpuriousWakeup(w)
      PROVE  TypeOK'
      BY <1>6 DEF Park, Exit, SpuriousWakeup
<1>7. ASSUME NEW w \in Workers, Finish(w)
      PROVE  TypeOK'
      BY <1>7 DEF Finish
<1>8. ASSUME SetStop \/ NotifyAll \/ Join
      PROVE  TypeOK'
      BY <1>8 DEF SetStop, NotifyAll, Join, Wake, Parked
<1>9. CASE UNCHANGED vars
      BY <1>9 DEF vars
<1> QED BY <1>1, <1>2, <1>3, <1>4, <1>5, <1>6, <1>7, <1>8, <1>9, StepCases

\* The pool's state is well typed, and a worker holds a callable exactly
\* while it is between two visits of the queue.
THEOREM TypeCorrect == Spec => []TypeOK
BY TypeInit, TypeStep, PTL DEF Spec

-----------------------------------------------------------------------------

\* The front of the queue, and what popping it leaves.
LEMMA PopFront ==
  ASSUME TypeOK, tasks # <<>>
  PROVE  /\ Len(tasks) \in Nat /\ Len(tasks) >= 1
         /\ Head(tasks) = tasks[1] /\ Head(tasks) \in Tasks
         /\ Tail(tasks) \in Seq(Tasks)
         /\ Len(Tail(tasks)) = Len(tasks) - 1
         /\ \A i \in 1..Len(tasks) - 1 : Tail(tasks)[i] = tasks[i + 1]
<1>1. tasks \in Seq(Tasks)
      BY DEF TypeOK
<1> QED BY <1>1, HeadTailProperties, LenProperties, EmptySeq

\* Nobody is in two places before the pool starts.
LEMMA BookkeepingInit == Init => Bookkeeping /\ Shutdown
BY EmptySeq, PoolAssumption DEF Init, Bookkeeping, Shutdown, Callers

\* No step puts a callable in a second place or drops it.
LEMMA BookkeepingStep ==
  TypeOK /\ Bookkeeping /\ [Next]_vars => Bookkeeping'
<1> SUFFICES ASSUME TypeOK, Bookkeeping, [Next]_vars PROVE Bookkeeping'
    OBVIOUS
<1>0. tasks \in Seq(Tasks) /\ Len(tasks) \in Nat
      BY LenProperties DEF TypeOK
<1>1. ASSUME NEW c \in Callers, NEW S \in SUBSET Tasks, Submit(c, S)
      PROVE  Bookkeeping'
  <2>1. \A t \in S : status[t] = "new" /\ status'[t] = "handed"
        BY <1>1 DEF Submit, TypeOK
  <2>2. \A t \in Tasks : status[t] # "new" => status'[t] = status[t]
        BY <1>1 DEF Submit, TypeOK
  <2>3. \A t \in Tasks : status'[t] # "handed" => status'[t] = status[t]
        BY <1>1 DEF Submit, TypeOK
  <2>4. \A d \in Callers : batch'[d] = IF d = c THEN S ELSE batch[d]
        BY <1>1 DEF Submit, TypeOK
  <2>5. tasks' = tasks /\ cur' = cur
        BY <1>1 DEF Submit
  <2>6. \A i \in 1..Len(tasks) : tasks[i] \in Tasks
        BY ElementOfSeq, <1>0
  <2> QED BY <2>1, <2>2, <2>3, <2>4, <2>5, <2>6, <1>0 DEF Bookkeeping, TypeOK
<1>2. ASSUME NEW c \in Callers, NEW t \in batch[c], Enqueue(c, t)
      PROVE  Bookkeeping'
  <2>1. t \in Tasks /\ status[t] = "handed"
        BY <1>2 DEF Bookkeeping, TypeOK
  <2>2. /\ Len(tasks') = Len(tasks) + 1
        /\ \A i \in 1..Len(tasks) : tasks'[i] = tasks[i] /\ tasks[i] \in Tasks
        /\ tasks'[Len(tasks) + 1] = t
        BY <1>2, <2>1, <1>0, AppendProperties, ElementOfSeq DEF Enqueue
  <2>3. \A u \in Tasks : status'[u] = IF u = t THEN "queued" ELSE status[u]
        BY <1>2 DEF Enqueue, TypeOK
  <2>4. \A d \in Callers :
          batch'[d] = IF d = c THEN batch[c] \ {t} ELSE batch[d]
        BY <1>2 DEF Enqueue, TypeOK
  <2>5. cur' = cur
        BY <1>2 DEF Enqueue
  <2>6. \A i \in 1..Len(tasks) : status[tasks[i]] = "queued" /\ tasks[i] # t
        BY <2>1 DEF Bookkeeping
  <2>7. \A i \in 1..Len(tasks') : i \in 1..Len(tasks) \/ i = Len(tasks) + 1
        BY <2>2, <1>0
  <2>8. \A i, j \in 1..Len(tasks') : tasks'[i] = tasks'[j] => i = j
        BY <2>2, <2>6, <2>7 DEF Bookkeeping
  <2>9. \A i \in 1..Len(tasks') : status'[tasks'[i]] = "queued"
        BY <2>1, <2>2, <2>3, <2>6, <2>7
  <2>10. \A u \in Tasks :
           status'[u] = "queued" => \E i \in 1..Len(tasks') : tasks'[i] = u
    <3>1. Len(tasks) + 1 \in 1..Len(tasks')
          BY <2>2, <1>0
    <3>2. \A i \in 1..Len(tasks) : i \in 1..Len(tasks')
          BY <2>2, <1>0
    <3> QED BY <3>1, <3>2, <2>2, <2>3 DEF Bookkeeping
  <2>11. \A d \in Callers : \A u \in batch'[d] : status'[u] = "handed"
         BY <2>3, <2>4 DEF Bookkeeping, TypeOK
  <2>12. \A d, e \in Callers : d # e => batch'[d] \cap batch'[e] = {}
         BY <2>4 DEF Bookkeeping
  <2>13. \A w \in Workers : cur[w] # NoTask => status'[cur[w]] = "running"
         BY <2>1, <2>3 DEF Bookkeeping, TypeOK
  <2>14. \A u \in Tasks :
           status'[u] = "running" => \E w \in Workers : cur[w] = u
         BY <2>3 DEF Bookkeeping
  <2> QED BY <2>5, <2>8, <2>9, <2>10, <2>11, <2>12, <2>13, <2>14
          DEF Bookkeeping
<1>3. ASSUME NEW c \in Callers, NEW t \in batch[c], Refuse(c, t)
      PROVE  Bookkeeping'
  <2>1. /\ tasks' = tasks /\ cur' = cur
        /\ batch' = [batch EXCEPT ![c] = {}]
        BY <1>3 DEF Refuse
  <2>2. \A u \in Tasks : u \notin batch[c] => status'[u] = status[u]
        BY <1>3 DEF Refuse
  <2>3. \A u \in Tasks : u \in batch[c] =>
          status[u] = "handed" /\ status'[u] \in {"new", "refused"}
        BY <1>3 DEF Refuse, Bookkeeping
  <2>4. \A i \in 1..Len(tasks) : tasks[i] \in Tasks
        BY ElementOfSeq, <1>0
  <2> QED BY <2>1, <2>2, <2>3, <2>4 DEF Bookkeeping, TypeOK
<1>4. ASSUME NEW w \in Workers, Take(w)
      PROVE  Bookkeeping'
  <2> DEFINE t == Head(tasks)
  <2>0. tasks # <<>>
        BY <1>4 DEF Take
  <2>1. /\ t = tasks[1] /\ t \in Tasks /\ Len(tasks) >= 1
        /\ Len(tasks') = Len(tasks) - 1
        /\ \A i \in 1..Len(tasks) - 1 : tasks'[i] = tasks[i + 1]
        BY <1>4, <2>0, PopFront DEF Take
  <2>2. status[t] = "queued"
        BY <2>1, <1>0 DEF Bookkeeping
  <2>3. \A u \in Tasks : status'[u] = IF u = t THEN "running" ELSE status[u]
        BY <1>4, <2>1 DEF Take, TypeOK
  <2>4. \A v \in Workers : cur'[v] = IF v = w THEN t ELSE cur[v]
        BY <1>4 DEF Take, TypeOK
  <2>5. cur[w] = NoTask /\ batch' = batch
        BY <1>4 DEF Take, TypeOK, InTask
  <2>6. \A i \in 1..Len(tasks') :
          /\ i \in 1..Len(tasks) - 1 /\ i + 1 \in 1..Len(tasks)
          /\ i + 1 # 1
          /\ tasks[i + 1] \in Tasks
        BY <2>1, <1>0, ElementOfSeq
  <2>7. \A i \in 1..Len(tasks') :
          tasks'[i] \in Tasks /\ tasks'[i] # t /\ status[tasks'[i]] = "queued"
    <3>1. 1 \in 1..Len(tasks)
          BY <2>1, <1>0
    <3> QED BY <2>1, <2>6, <3>1 DEF Bookkeeping
  <2>8. \A i, j \in 1..Len(tasks') : tasks'[i] = tasks'[j] => i = j
        BY <2>1, <2>6 DEF Bookkeeping
  <2>9. \A u \in Tasks :
          status'[u] = "queued" => \E i \in 1..Len(tasks') : tasks'[i] = u
    <3> SUFFICES ASSUME NEW u \in Tasks, status'[u] = "queued"
                 PROVE  \E i \in 1..Len(tasks') : tasks'[i] = u
        OBVIOUS
    <3>1. u # t /\ status[u] = "queued"
          BY <2>3
    <3>2. PICK j \in 1..Len(tasks) : tasks[j] = u
          BY <3>1 DEF Bookkeeping
    <3>3. j # 1
          BY <3>1, <3>2, <2>1
    <3>4. j - 1 \in 1..Len(tasks') /\ j - 1 \in 1..Len(tasks) - 1
          BY <3>3, <2>1, <1>0
    <3>5. tasks'[j - 1] = tasks[j]
          BY <3>4, <2>1, <1>0
    <3> QED BY <3>2, <3>4, <3>5
  <2>10. \A c \in Callers : \A u \in batch'[c] : status'[u] = "handed"
         BY <2>2, <2>3, <2>5 DEF Bookkeeping, TypeOK
  <2>11. \A v \in Workers : cur'[v] # NoTask => status'[cur'[v]] = "running"
         BY <2>1, <2>3, <2>4 DEF Bookkeeping, TypeOK
  <2>12. \A v, x \in Workers : cur'[v] = cur'[x] /\ cur'[v] # NoTask => v = x
         BY <2>2, <2>4 DEF Bookkeeping
  <2>13. \A u \in Tasks :
           status'[u] = "running" => \E v \in Workers : cur'[v] = u
    <3>1. \A u \in Tasks : status[u] = "running" => \E v \in Workers : v # w /\ cur[v] = u
          BY <2>5, PoolAssumption DEF Bookkeeping
    <3> QED BY <3>1, <2>3, <2>4
  <2>14. \A c, d \in Callers : c # d => batch'[c] \cap batch'[d] = {}
         BY <2>5 DEF Bookkeeping
  <2>15. \A i \in 1..Len(tasks') : status'[tasks'[i]] = "queued"
         BY <2>3, <2>7
  <2> QED BY <2>8, <2>9, <2>10, <2>11, <2>12, <2>13, <2>14, <2>15
          DEF Bookkeeping
<1>5. ASSUME NEW w \in Workers, Finish(w)
      PROVE  Bookkeeping'
  <2>1. cur[w] \in Tasks /\ status[cur[w]] = "running"
        BY <1>5 DEF Finish, TypeOK, InTask, Bookkeeping
  <2>2. \A u \in Tasks : status'[u] = IF u = cur[w] THEN "ready" ELSE status[u]
        BY <1>5 DEF Finish, TypeOK
  <2>3. \A v \in Workers : cur'[v] = IF v = w THEN NoTask ELSE cur[v]
        BY <1>5 DEF Finish, TypeOK
  <2>4. tasks' = tasks /\ batch' = batch
        BY <1>5 DEF Finish
  <2>5. \A i \in 1..Len(tasks) : tasks[i] \in Tasks
        BY ElementOfSeq, <1>0
  <2>6. \A v \in Workers : cur'[v] # NoTask => status'[cur'[v]] = "running"
    <3> SUFFICES ASSUME NEW v \in Workers, cur'[v] # NoTask
                 PROVE  status'[cur'[v]] = "running"
        OBVIOUS
    <3>1. v # w /\ cur'[v] = cur[v] /\ cur[v] \in Tasks
          BY <2>3 DEF TypeOK
    <3>2. cur[v] # cur[w] /\ status[cur[v]] = "running"
          BY <2>1, <3>1, PoolAssumption DEF Bookkeeping
    <3> QED BY <3>1, <3>2, <2>2
  <2>7. \A v, x \in Workers : cur'[v] = cur'[x] /\ cur'[v] # NoTask => v = x
        BY <2>3 DEF Bookkeeping
  <2>8. \A u \in Tasks :
          status'[u] = "running" => \E v \in Workers : cur'[v] = u
        BY <2>2, <2>3 DEF Bookkeeping
  <2>9. \A c \in Callers : \A u \in batch'[c] : status'[u] = "handed"
        BY <2>1, <2>2, <2>4 DEF Bookkeeping, TypeOK
  <2>10. /\ \A i \in 1..Len(tasks') : status'[tasks'[i]] = "queued"
         /\ \A u \in Tasks :
              status'[u] = "queued" => \E i \in 1..Len(tasks') : tasks'[i] = u
        BY <2>1, <2>2, <2>4, <2>5 DEF Bookkeeping
  <2> QED BY <2>4, <2>6, <2>7, <2>8, <2>9, <2>10 DEF Bookkeeping
<1>6. ASSUME \/ \E c \in Callers : NotifyOne(c)
             \/ \E w \in Workers : Park(w) \/ Exit(w) \/ SpuriousWakeup(w)
             \/ SetStop \/ NotifyAll \/ Join
             \/ UNCHANGED vars
      PROVE  Bookkeeping'
  <2>1. UNCHANGED <<tasks, cur, batch, status>>
        BY <1>6 DEF NotifyOne, Park, Exit, SpuriousWakeup, SetStop, NotifyAll,
                    Join, vars
  <2> QED BY <2>1 DEF Bookkeeping
<1> QED BY <1>1, <1>2, <1>3, <1>4, <1>5, <1>6, StepCases

\* No step lets a worker leave early or the destructor return early.
LEMMA ShutdownStep ==
  TypeOK /\ Shutdown /\ [Next]_vars => Shutdown'
<1> SUFFICES ASSUME TypeOK, Shutdown, [Next]_vars PROVE Shutdown'
    OBVIOUS
<1> USE PoolAssumption
<1> USE DEF TypeOK, Shutdown, Callers, WorkerPlaces, OwnerPlaces, InTask, Goto, Home
<1>1. ASSUME NEW c \in Callers, NEW S \in SUBSET Tasks, Submit(c, S)
      PROVE  Shutdown'
      BY <1>1 DEF Submit
<1>2. ASSUME NEW c \in Callers, NEW t \in batch[c], Enqueue(c, t)
      PROVE  Shutdown'
      BY <1>2 DEF Enqueue
<1>3. ASSUME NEW c \in Callers, NEW t \in batch[c], Refuse(c, t)
      PROVE  Shutdown'
      BY <1>3 DEF Refuse
<1>4. ASSUME NEW c \in Callers, NotifyOne(c)
      PROVE  Shutdown'
      BY <1>4 DEF NotifyOne, Wake, Parked
<1>5. ASSUME NEW w \in Workers,
             Take(w) \/ Park(w) \/ Exit(w) \/ SpuriousWakeup(w) \/ Finish(w)
      PROVE  Shutdown'
  <2>1. CASE Take(w)
        BY <2>1 DEF Take
  <2>2. CASE Park(w) \/ Exit(w) \/ SpuriousWakeup(w) \/ Finish(w)
        BY <2>2 DEF Park, Exit, SpuriousWakeup, Finish
  <2> QED BY <1>5, <2>1, <2>2
<1>6. ASSUME SetStop \/ NotifyAll \/ Join
      PROVE  Shutdown'
      BY <1>6 DEF SetStop, NotifyAll, Join, Wake, Parked
<1>7. CASE UNCHANGED vars
      BY <1>7 DEF vars
<1> QED BY <1>1, <1>2, <1>3, <1>4, <1>5, <1>6, <1>7, StepCases

\* Every callable is in one place and in one only.
THEOREM BookkeepingCorrect == Spec => []Bookkeeping
<1>1. Init => TypeOK /\ Bookkeeping
      BY TypeInit, BookkeepingInit
<1>2. TypeOK /\ Bookkeeping /\ [Next]_vars => TypeOK' /\ Bookkeeping'
      BY TypeStep, BookkeepingStep
<1> QED BY <1>1, <1>2, PTL DEF Spec

\* A worker leaves only a stopped and drained pool, and the destructor
\* returns only when every worker has left.
THEOREM ShutdownCorrect == Spec => []Shutdown
<1>1. Init => TypeOK /\ Shutdown
      BY TypeInit, BookkeepingInit
<1>2. TypeOK /\ Shutdown /\ [Next]_vars => TypeOK' /\ Shutdown'
      BY TypeStep, ShutdownStep
<1> QED BY <1>1, <1>2, PTL DEF Spec

-----------------------------------------------------------------------------

\* The threads at a given place are finitely many, before and after a step.
LEMMA FinitePlaces ==
  ASSUME NEW f, NEW p
  PROVE  /\ IsFiniteSet({w \in Workers : f[w] = p})
         /\ Cardinality({w \in Workers : f[w] = p}) \in Nat
         /\ IsFiniteSet({c \in Callers : f[c] = p})
         /\ Cardinality({c \in Callers : f[c] = p}) \in Nat
<1>1. IsFiniteSet(Workers) /\ IsFiniteSet(Callers)
      BY PoolAssumption, FS_AddElement DEF Callers
<1>2. /\ {w \in Workers : f[w] = p} \in SUBSET Workers
      /\ {c \in Callers : f[c] = p} \in SUBSET Callers
      OBVIOUS
<1> QED BY <1>1, <1>2, FS_Subset, FS_CardinalityType

\* Initially nobody sleeps.
LEMMA StrandedInit == Init => NoStrandedTask
BY PoolAssumption DEF Init, NoStrandedTask, Parked, Callers

\* No step leaves a sleeping worker and a callable that nobody comes for.
LEMMA StrandedStep ==
  TypeOK /\ NoStrandedTask /\ [Next]_vars => NoStrandedTask'
<1> SUFFICES ASSUME TypeOK, NoStrandedTask, [Next]_vars
             PROVE  NoStrandedTask'
    OBVIOUS
<1> USE PoolAssumption
<1>0. /\ IsFiniteSet(Locking) /\ Cardinality(Locking) \in Nat
      /\ IsFiniteSet(Notifying) /\ Cardinality(Notifying) \in Nat
      /\ Cardinality(Locking') \in Nat /\ Cardinality(Notifying') \in Nat
      /\ tasks \in Seq(Tasks) /\ Len(tasks) \in Nat
  <2>1. IsFiniteSet(Locking) /\ Cardinality(Locking) \in Nat
        BY ONLY FinitePlaces, Zenon DEF Locking
  <2>2. IsFiniteSet(Notifying) /\ Cardinality(Notifying) \in Nat
        BY ONLY FinitePlaces, Zenon DEF Notifying
  <2>3. Cardinality(Locking') \in Nat
        BY ONLY FinitePlaces, Zenon DEF Locking
  <2>4. Cardinality(Notifying') \in Nat
        BY ONLY FinitePlaces, Zenon DEF Notifying
  <2>5. tasks \in Seq(Tasks) /\ Len(tasks) \in Nat
        BY LenProperties DEF TypeOK
  <2> QED BY <2>1, <2>2, <2>3, <2>4, <2>5
<1>1. ASSUME UNCHANGED <<tasks, Locking, Notifying, Parked>>
      PROVE  NoStrandedTask'
      BY <1>1 DEF NoStrandedTask
<1>2. ASSUME NEW c \in Callers, NEW S \in SUBSET Tasks, Submit(c, S)
      PROVE  NoStrandedTask'
      BY <1>2, <1>1 DEF Submit, Locking, Notifying, Parked, TypeOK, Goto, Home,
                        Callers
<1>3. ASSUME NEW c \in Callers, NEW t \in batch[c], Enqueue(c, t)
      PROVE  NoStrandedTask'
  <2>1. /\ Locking' = Locking /\ Parked' = Parked
        /\ Notifying' = Notifying \cup {c} /\ c \notin Notifying
        BY <1>3 DEF Enqueue, Locking, Notifying, Parked, TypeOK, Goto, Callers
  <2>2. Cardinality(Notifying') = Cardinality(Notifying) + 1
        BY <2>1, <1>0, FS_AddElement
  <2>3. Len(tasks') = Len(tasks) + 1
        BY <1>3, <1>0, AppendProperties DEF Enqueue, TypeOK
  <2> QED BY <2>1, <2>2, <2>3, <1>0 DEF NoStrandedTask
<1>4. ASSUME NEW c \in Callers, NEW t \in batch[c], Refuse(c, t)
      PROVE  NoStrandedTask'
      BY <1>4, <1>1 DEF Refuse, Locking, Notifying, Parked, TypeOK, Goto, Home,
                        Callers
<1>5. ASSUME NEW c \in Callers, NotifyOne(c)
      PROVE  NoStrandedTask'
  <2>1. PICK S \in SUBSET Parked :
          /\ Cardinality(S) = (IF Parked = {} THEN 0 ELSE 1)
          /\ pc' = [Wake(S) EXCEPT ![c] = IF batch[c] = {} THEN Home(c)
                                          ELSE "submitting"]
        BY <1>5 DEF NotifyOne
  <2>2. pc[c] = "notifying" /\ c \notin Parked /\ tasks' = tasks
        BY <1>5 DEF NotifyOne, Parked
  <2>3. CASE Parked = {}
        BY <2>1, <2>2, <2>3 DEF NoStrandedTask, Parked, Wake, Home, Callers
  <2>4. CASE Parked # {}
    <3>1. IsFiniteSet(S)
      <4>1. Parked \in SUBSET Workers
            BY DEF Parked
      <4> QED BY <4>1, <2>1, FS_Subset
    <3>2. PICK w : S = {w}
          BY <3>1, <2>1, <2>4, FS_Singleton
    <3>3. w \in Workers /\ pc[w] = "parked" /\ w # c
          BY <3>2, <2>1, <2>2 DEF Parked
    <3>4. /\ Locking' = Locking \cup {w} /\ w \notin Locking
          /\ Notifying' = Notifying \ {c} /\ c \in Notifying
          BY <2>1, <2>2, <3>2, <3>3
             DEF Locking, Notifying, Wake, Home, Callers
    <3>5. /\ Cardinality(Locking') = Cardinality(Locking) + 1
          /\ Cardinality(Notifying') = Cardinality(Notifying) - 1
          BY <3>4, <1>0, FS_AddElement, FS_RemoveElement
    <3> QED BY <2>2, <2>4, <3>5, <1>0 DEF NoStrandedTask
  <2> QED BY <2>3, <2>4
<1>6. ASSUME NEW w \in Workers, Take(w)
      PROVE  NoStrandedTask'
  <2>1. /\ Locking' = Locking \ {w} /\ w \in Locking
        /\ Notifying' = Notifying /\ Parked' = Parked
        BY <1>6 DEF Take, Locking, Notifying, Parked, TypeOK, Goto, Callers
  <2>2. Cardinality(Locking') = Cardinality(Locking) - 1
        BY <2>1, <1>0, FS_RemoveElement
  <2>3. Len(tasks') = Len(tasks) - 1
        BY <1>6, PopFront DEF Take
  <2> QED BY <2>1, <2>2, <2>3, <1>0 DEF NoStrandedTask
<1>7. ASSUME NEW w \in Workers, Park(w) \/ Exit(w)
      PROVE  NoStrandedTask'
  <2>1. Len(tasks') = 0
        BY <1>7, EmptySeq DEF Park, Exit
  <2> QED BY <2>1, <1>0 DEF NoStrandedTask
<1>8. ASSUME NEW w \in Workers, SpuriousWakeup(w) \/ Finish(w)
      PROVE  NoStrandedTask'
  <2>1. /\ Locking' = Locking \cup {w} /\ w \notin Locking
        /\ Notifying' = Notifying /\ Parked' \in SUBSET Parked
        /\ tasks' = tasks
        BY <1>8 DEF SpuriousWakeup, Finish, Locking, Notifying, Parked, TypeOK,
                    Goto, Callers
  <2>2. Cardinality(Locking') = Cardinality(Locking) + 1
        BY <2>1, <1>0, FS_AddElement
  <2> QED BY <2>1, <2>2, <1>0 DEF NoStrandedTask
<1>9. ASSUME SetStop \/ Join
      PROVE  NoStrandedTask'
      BY <1>9, <1>1 DEF SetStop, Join, Locking, Notifying, Parked, TypeOK, Goto,
                        Callers
<1>10. ASSUME NotifyAll
       PROVE  NoStrandedTask'
  <2>1. Parked' = {}
        BY <1>10 DEF NotifyAll, Wake, Parked, Callers
  <2> QED BY <2>1 DEF NoStrandedTask
<1>11. CASE UNCHANGED vars
       BY <1>11, <1>1 DEF vars, Locking, Notifying, Parked
<1> QED BY <1>2, <1>3, <1>4, <1>5, <1>6, <1>7, <1>8, <1>9, <1>10, <1>11,
           StepCases

\* No wakeup is lost, with any number of workers and submitters: a sleeping
\* worker means that somebody comes for every queued callable.
THEOREM NoWakeupLost == Spec => []NoStrandedTask
<1>1. Init => TypeOK /\ NoStrandedTask
      BY TypeInit, StrandedInit
<1>2. TypeOK /\ NoStrandedTask /\ [Next]_vars => TypeOK' /\ NoStrandedTask'
      BY TypeStep, StrandedStep
<1> QED BY <1>1, <1>2, PTL DEF Spec

-----------------------------------------------------------------------------

\* The pool starts as a fresh executor.
LEMMA PromiseInit == Init => Promise!Init
BY PoolAssumption
   DEF Init, Promise!Init, AbstractLife, AbstractPhase, Callers

\* Each step of the pool is a step of the executor, or changes nothing that
\* a user of the pool can see.
LEMMA PromiseStep ==
  TypeOK /\ Bookkeeping /\ Shutdown /\ [Next]_vars
    => [Promise!Next]_(Promise!vars)
<1> SUFFICES ASSUME TypeOK, Bookkeeping, Shutdown, [Next]_vars
             PROVE  Promise!Next \/ UNCHANGED <<AbstractLife, AbstractPhase>>
    BY DEF Promise!vars
<1> USE PoolAssumption
<1> USE DEF AbstractLife, AbstractPhase
<1>0. /\ (pc[Owner] = "destroyed") => stop
      /\ tasks \in Seq(Tasks) /\ Len(tasks) \in Nat
      /\ Owner \in Callers
      BY LenProperties DEF Shutdown, TypeOK, Callers
<1>1. ASSUME NEW c \in Callers, NEW S \in SUBSET Tasks, Submit(c, S)
      PROVE  UNCHANGED <<AbstractLife, AbstractPhase>>
  <2>1. AbstractLife' = AbstractLife
        BY <1>1 DEF Submit, TypeOK
  <2>2. stop' = stop /\ ((pc'[Owner] = "destroyed") <=> (pc[Owner] = "destroyed"))
        BY <1>1, <1>0 DEF Submit, Goto, Home, TypeOK
  <2> QED BY <2>1, <2>2
<1>2. ASSUME NEW c \in Callers, NEW t \in batch[c], Enqueue(c, t)
      PROVE  Promise!Next
  <2>1. t \in Tasks /\ status[t] = "handed"
        BY <1>2 DEF Bookkeeping, TypeOK
  <2>2. AbstractPhase = "open" /\ AbstractPhase' = AbstractPhase
        BY <1>2, <1>0 DEF Enqueue, Goto, TypeOK
  <2>3. AbstractLife[t] = "new" /\ AbstractLife' = [AbstractLife EXCEPT ![t] = "queued"]
        BY <1>2, <2>1 DEF Enqueue, TypeOK
  <2> QED BY <2>1, <2>2, <2>3 DEF Promise!Next, Promise!Accept, Promise!Move
<1>3. ASSUME NEW c \in Callers, NEW t \in batch[c], Refuse(c, t)
      PROVE  Promise!Next
  <2>1. t \in Tasks /\ \A u \in batch[c] : status[u] = "handed"
        BY <1>3 DEF Bookkeeping, TypeOK
  <2>2. stop /\ stop' = stop /\ pc[c] = "submitting"
        BY <1>3 DEF Refuse
  <2>3. pc[Owner] # "destroyed"
    <3>1. CASE c = Owner
          BY <3>1, <2>2
    <3>2. CASE c # Owner
          BY <3>2, <2>2 DEF Shutdown, Callers
    <3> QED BY <3>1, <3>2
  <2>4. AbstractPhase = "closing" /\ AbstractPhase' = AbstractPhase
        BY <1>3, <2>2, <2>3, <1>0 DEF Refuse, Goto, Home, TypeOK
  <2>5. /\ AbstractLife[t] = "new"
        /\ AbstractLife' = [AbstractLife EXCEPT ![t] = "refused"]
        BY <1>3, <2>1 DEF Refuse, TypeOK
  <2> QED BY <2>1, <2>4, <2>5 DEF Promise!Next, Promise!Refuse, Promise!Move
<1>4. ASSUME NEW w \in Workers, pc[w] # "exited"
      PROVE  AbstractPhase # "closed" /\ pc[Owner] # "destroyed"
      BY <1>4 DEF Shutdown
<1>5. ASSUME NEW w \in Workers, Take(w)
      PROVE  Promise!Next
  <2>1. tasks # <<>> /\ pc[w] # "exited"
        BY <1>5 DEF Take
  <2>2. Head(tasks) \in Tasks /\ status[Head(tasks)] = "queued"
        BY <2>1, <1>0, PopFront DEF Bookkeeping
  <2>3. AbstractPhase # "closed" /\ AbstractPhase' = AbstractPhase
        BY <1>5, <1>4, <2>1 DEF Take, Goto, TypeOK
  <2>4. /\ AbstractLife[Head(tasks)] = "queued"
        /\ AbstractLife' = [AbstractLife EXCEPT ![Head(tasks)] = "running"]
        BY <1>5, <2>2 DEF Take, TypeOK
  <2> QED BY <2>2, <2>3, <2>4 DEF Promise!Next, Promise!Start, Promise!Move
<1>6. ASSUME NEW w \in Workers, Finish(w)
      PROVE  Promise!Next
  <2>1. pc[w] # "exited"
        BY <1>6 DEF Finish
  <2>2. cur[w] \in Tasks /\ status[cur[w]] = "running"
        BY <1>6 DEF Finish, TypeOK, InTask, Bookkeeping
  <2>3. AbstractPhase # "closed" /\ AbstractPhase' = AbstractPhase
        BY <1>6, <1>4, <2>1 DEF Finish, Goto, TypeOK
  <2>4. /\ AbstractLife[cur[w]] = "running"
        /\ AbstractLife' = [AbstractLife EXCEPT ![cur[w]] = "ready"]
        BY <1>6, <2>2 DEF Finish, TypeOK
  <2> QED BY <2>2, <2>3, <2>4 DEF Promise!Next, Promise!Finish, Promise!Move
<1>7. ASSUME SetStop
      PROVE  Promise!Next
  <2>1. AbstractLife' = AbstractLife
        BY <1>7 DEF SetStop
  <2>2. AbstractPhase = "open" /\ AbstractPhase' = "closing"
        BY <1>7, <1>0 DEF SetStop, Goto, TypeOK, Shutdown
  <2> QED BY <2>1, <2>2 DEF Promise!Next, Promise!BeginClose
<1>8. ASSUME Join
      PROVE  Promise!Next
  <2>1. AbstractLife' = AbstractLife /\ AbstractPhase' = "closed"
        BY <1>8, <1>0 DEF Join, Goto, TypeOK
  <2>2. AbstractPhase = "closing"
        BY <1>8 DEF Join, Shutdown
  <2>3. tasks = <<>> /\ \A w \in Workers : cur[w] = NoTask
        BY <1>8 DEF Join, Shutdown, TypeOK, InTask
  <2>4. \A t \in Tasks : status[t] # "queued" /\ status[t] # "running"
        BY <2>3, EmptySeq DEF Bookkeeping
  <2>5. \A t \in Tasks : AbstractLife[t] \notin {"queued", "running"}
        BY <2>4
  <2> QED BY <2>1, <2>2, <2>5 DEF Promise!Next, Promise!Close
<1>9. ASSUME \/ \E c \in Callers : NotifyOne(c)
             \/ \E w \in Workers : Park(w) \/ Exit(w) \/ SpuriousWakeup(w)
             \/ NotifyAll
             \/ UNCHANGED vars
      PROVE  UNCHANGED <<AbstractLife, AbstractPhase>>
  <2>1. UNCHANGED <<status, stop>>
        BY <1>9 DEF NotifyOne, Park, Exit, SpuriousWakeup, NotifyAll, vars
  <2>2. (pc'[Owner] = "destroyed") <=> (pc[Owner] = "destroyed")
    <3>1. ASSUME NEW c \in Callers, NotifyOne(c)
          PROVE  (pc'[Owner] = "destroyed") <=> (pc[Owner] = "destroyed")
          BY <3>1, <1>0 DEF NotifyOne, Wake, Parked, Home, TypeOK
    <3>2. ASSUME NEW w \in Workers, Park(w) \/ Exit(w) \/ SpuriousWakeup(w)
          PROVE  pc'[Owner] = pc[Owner]
          BY <3>2, <1>0 DEF Park, Exit, SpuriousWakeup, Goto, TypeOK
    <3>3. ASSUME NotifyAll
          PROVE  (pc'[Owner] = "destroyed") <=> (pc[Owner] = "destroyed")
          BY <3>3, <1>0 DEF NotifyAll, Wake, Parked, TypeOK
    <3> QED BY <1>9, <3>1, <3>2, <3>3 DEF vars
  <2> QED BY <2>1, <2>2
<1> QED BY <1>1, <1>2, <1>3, <1>5, <1>6, <1>7, <1>8, <1>9, StepCases

\* The pool implements the executor: nothing runs twice, nothing accepted is
\* left behind, nothing is refused before destruction begins.
THEOREM ImplementsExecutor == Spec => KeepsPromise
<1> DEFINE IInv == TypeOK /\ Bookkeeping /\ Shutdown
<1>1. Init => IInv
      BY TypeInit, BookkeepingInit
<1>2. IInv /\ [Next]_vars => IInv'
      BY TypeStep, BookkeepingStep, ShutdownStep
<1>3. IInv /\ [Next]_vars => [Promise!Next]_(Promise!vars)
      BY PromiseStep
<1> QED BY <1>1, <1>2, <1>3, PromiseInit, PTL DEF Spec, KeepsPromise, Promise!Spec
=============================================================================
