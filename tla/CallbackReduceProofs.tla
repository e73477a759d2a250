------------------------ MODULE CallbackReduceProofs ------------------------
(***************************************************************************)
(* case3_callback_style for every number of workers and items: the serial  *)
(* thread is never left asleep, nobody uses the locals of an iteration     *)
(* that has ended, and the iteration computes the abstract map and reduce. *)
(***************************************************************************)
EXTENDS CallbackReduce, SequenceTheorems, FiniteSetTheorems, TLAPS

\* The actions of Next, as one step each.
LEMMA StepCases ==
  ASSUME Next
  PROVE  \/ Submit \/ GetAll \/ Join
         \/ \E w \in Workers : Take(w)
         \/ \E w \in Workers : Publish(w)
         \/ \E w \in Workers : Notify(w)
         \/ Pop \/ Reduce \/ Break \/ Idle \/ SpuriousWakeup
         \/ UNCHANGED vars
BY DEF Next, Main, Worker, Serial, Terminated

-----------------------------------------------------------------------------

LEMMA TypeInit == Init => TypeOK
BY CallbackAssumption, EmptySeq DEF Init, TypeOK, Items

\* A worker that is not idle has an item.
LEMMA TypeStep == TypeOK /\ Handout /\ [Next]_vars => TypeOK'
<1> SUFFICES ASSUME TypeOK, Handout, [Next]_vars PROVE TypeOK'
    OBVIOUS
<1> USE CallbackAssumption
<1> USE DEF TypeOK, Items
<1>0. \A w \in Workers : at[w] # "idle" => doing[w] \in Items
      BY DEF Handout
<1>1. CASE Submit
      BY <1>1 DEF Submit
<1>2. CASE GetAll \/ Join
      BY <1>2 DEF GetAll, Join
<1>3. ASSUME NEW w \in Workers, Take(w)
      PROVE  TypeOK'
  <2>1. doing' \in [Workers -> 0..N]
        BY <1>3 DEF Take
  <2> QED BY <1>3, <2>1 DEF Take
<1>4. ASSUME NEW w \in Workers, Publish(w)
      PROVE  TypeOK'
  <2>1. ready_results' \in Seq(Items)
        BY <1>0, <1>4, AppendProperties DEF Publish
  <2>2. computed' \in [Items -> Nat]
        BY <1>0, <1>4 DEF Publish
  <2>3. at' \in [Workers -> {"idle", "mapping", "notifying"}]
        BY <1>4 DEF Publish
  <2>4. completed_tasks' \in Nat
        BY <1>4 DEF Publish
  <2>5. UNCHANGED <<submitted, main, doing, done, serial, current, total_sum>>
        BY <1>4 DEF Publish
  <2>6. /\ submitted' \in 0..N /\ doing' \in [Workers -> 0..N]
        /\ main' \in {"submitting", "getting", "joining", "finished"}
        /\ done' \in SUBSET (1..N) /\ total_sum' \in [1..N -> Nat]
        BY <2>5
  <2>7. /\ serial' \in {"locking", "relocking", "reducing", "parked", "exited"}
        /\ current' \in 0..N /\ ((current' # 0) <=> (serial' = "reducing"))
        BY <2>5
  <2> QED BY <2>1, <2>2, <2>3, <2>4, <2>6, <2>7, Zenon
<1>5. ASSUME NEW w \in Workers, Notify(w)
      PROVE  TypeOK'
  <2>1. done' \in SUBSET (1..N)
        BY <1>0, <1>5 DEF Notify
  <2>2. /\ serial' \in {"locking", "relocking", "reducing", "parked", "exited"}
        /\ (serial' = "reducing") <=> (serial = "reducing")
        BY <1>5 DEF Notify
  <2>3. /\ doing' \in [Workers -> 0..N]
        /\ at' \in [Workers -> {"idle", "mapping", "notifying"}]
        BY <1>5 DEF Notify
  <2>4. UNCHANGED <<submitted, main, ready_results, completed_tasks, current,
                    computed, total_sum>>
        BY <1>5 DEF Notify
  <2> QED BY <2>1, <2>2, <2>3, <2>4
<1>6. CASE Pop
  <2>1. Head(ready_results) \in Items /\ Tail(ready_results) \in Seq(Items)
        BY <1>6, HeadTailProperties DEF Pop
  <2>2. current' # 0 /\ serial' = "reducing"
        BY <1>6, <2>1 DEF Pop
  <2>3. /\ UNCHANGED <<submitted, main, doing, at, done, completed_tasks,
                       computed, total_sum>>
        /\ current' = Head(ready_results)
        /\ ready_results' = Tail(ready_results)
        BY <1>6 DEF Pop
  <2>4. /\ submitted' \in 0..N /\ doing' \in [Workers -> 0..N]
        /\ main' \in {"submitting", "getting", "joining", "finished"}
        /\ at' \in [Workers -> {"idle", "mapping", "notifying"}]
        BY <2>3
  <2>5. /\ done' \in SUBSET (1..N) /\ completed_tasks' \in Nat
        /\ computed' \in [1..N -> Nat] /\ total_sum' \in [1..N -> Nat]
        BY <2>3
  <2>6. /\ ready_results' \in Seq(1..N) /\ current' \in 0..N
        /\ serial' \in {"locking", "relocking", "reducing", "parked", "exited"}
        /\ ((current' # 0) <=> (serial' = "reducing"))
        BY <2>1, <2>2, <2>3
  <2> QED BY <2>4, <2>5, <2>6, Zenon
<1>7. CASE Reduce
  <2>1. current \in 1..N
        BY <1>7 DEF Reduce
  <2>2. total_sum' \in [Items -> Nat]
        BY <1>7, <2>1 DEF Reduce
  <2>3. /\ UNCHANGED <<submitted, main, doing, at, done, ready_results,
                       completed_tasks, computed>>
        /\ current' = 0 /\ serial' = "relocking"
        BY <1>7 DEF Reduce
  <2> QED BY <2>2, <2>3
<1>8. CASE Break \/ Idle \/ SpuriousWakeup
      BY <1>8 DEF Break, Idle, SpuriousWakeup
<1>9. CASE UNCHANGED vars
      BY <1>9 DEF vars
<1> QED BY <1>1, <1>2, <1>3, <1>4, <1>5, <1>6, <1>7, <1>8, <1>9, StepCases

-----------------------------------------------------------------------------

LEMMA HandoutInit == Init => Handout
BY CallbackAssumption DEF Init, Handout

\* No step gives an item to two workers or to one after its end.
LEMMA HandoutStep == TypeOK /\ Handout /\ [Next]_vars => Handout'
<1> SUFFICES ASSUME TypeOK, Handout, [Next]_vars PROVE Handout'
    OBVIOUS
<1> USE CallbackAssumption
<1> USE DEF TypeOK, Handout
<1>1. CASE Submit
      BY <1>1 DEF Submit
<1>2. CASE GetAll \/ Join
      BY <1>2 DEF GetAll, Join
<1>3. ASSUME NEW w \in Workers, Take(w)
      PROVE  Handout'
  <2>1. PICK i \in 1..submitted :
          /\ i \notin Taken
          /\ doing' = [doing EXCEPT ![w] = i]
        BY <1>3 DEF Take
  <2>2. i # 0 /\ i \notin done /\ \A v \in Workers : doing[v] # i
        BY <2>1 DEF Taken
  <2> QED BY <1>3, <2>1, <2>2 DEF Take
<1>4. ASSUME NEW w \in Workers, Publish(w)
      PROVE  Handout'
      BY <1>4 DEF Publish
<1>5. ASSUME NEW w \in Workers, Notify(w)
      PROVE  Handout'
  <2>1. doing[w] \in Items /\ doing[w] # 0 /\ 0 \notin done
        BY <1>5 DEF Notify, Items
  <2>2. \A v \in Workers : v # w => doing[v] # doing[w]
        BY <2>1
  <2>3. \A v \in Workers : doing'[v] = IF v = w THEN 0 ELSE doing[v]
        BY <1>5 DEF Notify
  <2>4. main' = main /\ (main \in {"joining", "finished"} => done = Items)
        BY <1>5 DEF Notify
  <2>5. main \notin {"joining", "finished"}
        BY <2>1, <2>4
  <2>6. \A v \in Workers : (at'[v] = "idle") <=> (doing'[v] = 0)
        BY <1>5 DEF Notify
  <2>7. \A v \in Workers : doing'[v] \notin done'
        BY <1>5, <2>1, <2>2, <2>3 DEF Notify
  <2>8. \A u, v \in Workers : doing'[u] = doing'[v] /\ doing'[u] # 0 => u = v
        BY <2>3
  <2> QED BY <2>4, <2>5, <2>6, <2>7, <2>8
<1>6. CASE Pop \/ Reduce \/ Break \/ Idle \/ SpuriousWakeup
      BY <1>6 DEF Pop, Reduce, Break, Idle, SpuriousWakeup
<1>7. CASE UNCHANGED vars
      BY <1>7 DEF vars
<1> QED BY <1>1, <1>2, <1>3, <1>4, <1>5, <1>6, <1>7, StepCases

\* The state of the iteration is well typed.
THEOREM TypeCorrect == Spec => []TypeOK
<1>1. Init => TypeOK /\ Handout
      BY TypeInit, HandoutInit
<1>2. TypeOK /\ Handout /\ [Next]_vars => TypeOK' /\ Handout'
      BY TypeStep, HandoutStep
<1> QED BY <1>1, <1>2, PTL DEF Spec

\* Every item is in the hands of one worker at most, and main joins only when
\* every future is ready.
THEOREM HandoutCorrect == Spec => []Handout
<1>1. Init => TypeOK /\ Handout
      BY TypeInit, HandoutInit
<1>2. TypeOK /\ Handout /\ [Next]_vars => TypeOK' /\ Handout'
      BY TypeStep, HandoutStep
<1> QED BY <1>1, <1>2, PTL DEF Spec

-----------------------------------------------------------------------------

\* The serial thread parks only when it has nothing to do; whoever gives it
\* something to do notifies it afterwards.
LEMMA WakeupStep == TypeOK /\ NoLostWakeup /\ [Next]_vars => NoLostWakeup'
<1> SUFFICES ASSUME TypeOK, NoLostWakeup, [Next]_vars PROVE NoLostWakeup'
    OBVIOUS
<1> USE DEF NoLostWakeup, TypeOK
<1>1. CASE Submit \/ GetAll \/ Join
      BY <1>1 DEF Submit, GetAll, Join
<1>2. ASSUME NEW w \in Workers, Take(w)
      PROVE  NoLostWakeup'
      BY <1>2 DEF Take
<1>3. ASSUME NEW w \in Workers, Publish(w)
      PROVE  NoLostWakeup'
  <2>1. at'[w] = "notifying"
        BY <1>3 DEF Publish
  <2> QED BY <2>1
<1>4. ASSUME NEW w \in Workers, Notify(w)
      PROVE  NoLostWakeup'
  <2>1. serial' # "parked"
        BY <1>4 DEF Notify
  <2> QED BY <2>1
<1>5. CASE Pop \/ Reduce \/ Break \/ SpuriousWakeup
  <2>1. serial' # "parked"
        BY <1>5 DEF Pop, Reduce, Break, SpuriousWakeup
  <2> QED BY <2>1
<1>6. CASE Idle
      BY <1>6 DEF Idle
<1>7. CASE UNCHANGED vars
      BY <1>7 DEF vars
<1> QED BY <1>1, <1>2, <1>3, <1>4, <1>5, <1>6, <1>7, StepCases

\* The lost wakeup that the report describes cannot happen any more.
THEOREM WakeupCorrect == Spec => []NoLostWakeup
<1>1. Init => TypeOK /\ Handout /\ NoLostWakeup
      BY TypeInit, HandoutInit DEF Init, NoLostWakeup
<1>2. TypeOK /\ Handout /\ NoLostWakeup /\ [Next]_vars
        => TypeOK' /\ Handout' /\ NoLostWakeup'
      BY TypeStep, HandoutStep, WakeupStep
<1> QED BY <1>1, <1>2, PTL DEF Spec

\* Nobody uses the locals of an iteration that has ended.
LEMMA OutlivesHolds == TypeOK /\ Handout => NobodyOutlives
<1> SUFFICES ASSUME TypeOK, Handout, main = "finished"
             PROVE  serial = "exited" /\ \A w \in Workers : at[w] = "idle"
    BY DEF NobodyOutlives
<1>1. serial = "exited" /\ done = Items
      BY DEF Handout
<1>2. \A w \in Workers : doing[w] \in 0..N /\ doing[w] \notin Items
      BY <1>1 DEF TypeOK, Handout
<1>3. \A w \in Workers : doing[w] = 0
  <2> SUFFICES ASSUME NEW w \in Workers PROVE doing[w] = 0
      OBVIOUS
  <2>1. doing[w] \in 0..N /\ doing[w] \notin 1..N
        BY <1>2 DEF Items
  <2> QED BY <2>1, CallbackAssumption
<1> QED BY <1>1, <1>3 DEF Handout

\* Queue, mutex and condition variable outlive their users.
THEOREM OutlivesCorrect == Spec => []NobodyOutlives
BY TypeCorrect, HandoutCorrect, OutlivesHolds, PTL

-----------------------------------------------------------------------------

\* The items whose result is in the sum, the results in the queue, and the
\* items whose result exists: those, and the one that is being reduced.
reduced == {i \in Items : total_sum[i] # 0}
Ready == {ready_results[k] : k \in 1..Len(ready_results)}
Mapped == reduced \cup Ready \cup ({current} \ {0})

\* No item is computed or added more than once.
Once == \A i \in Items : computed[i] <= 1 /\ total_sum[i] <= 1

\* Which results exist, where each of them is, and how many were counted.
Ledger ==
  /\ \A i \in Items : i \in Mapped <=> computed[i] # 0
  /\ \A i \in Items :
       i \in Mapped <=> \/ i \in done
                        \/ \E w \in Workers : doing[w] = i
                                              /\ at[w] = "notifying"
  /\ \A j, k \in 1..Len(ready_results) :
       ready_results[j] = ready_results[k] => j = k
  /\ Ready \cap reduced = {}
  /\ current \notin Ready /\ current \notin reduced
  /\ completed_tasks = Cardinality(Mapped)
  /\ serial = "exited" => reduced = Items

LEMMA MappedParts ==
  ASSUME TypeOK
  PROVE  /\ Mapped \subseteq Items /\ Ready \subseteq Items
         /\ reduced \subseteq Items
         /\ IsFiniteSet(Mapped) /\ Cardinality(Mapped) \in Nat
<1>1. \A k \in 1..Len(ready_results) : ready_results[k] \in Items
      BY ElementOfSeq DEF TypeOK
<1>2. Ready \subseteq Items
      BY <1>1 DEF Ready
<1>3. reduced \subseteq Items
      BY DEF reduced
<1>4. Mapped \subseteq Items
      BY <1>2, <1>3, CallbackAssumption DEF Mapped, TypeOK, Items
<1>5. IsFiniteSet(Items)
      BY FS_Interval, CallbackAssumption DEF Items
<1> QED BY <1>2, <1>3, <1>4, <1>5, FS_Subset, FS_CardinalityType

LEMMA LedgerInit == Init => Ledger
<1> SUFFICES ASSUME Init PROVE Ledger
    OBVIOUS
<1>1. Ready = {} /\ reduced = {} /\ current = 0
      BY CallbackAssumption DEF Init, Ready, reduced
<1>2. Mapped = {} /\ \A i \in Items : computed[i] = 0
      BY <1>1 DEF Init, Mapped
<1> QED BY <1>1, <1>2, FS_EmptySet DEF Init, Ledger

LEMMA OnceInit == Init => Once
BY DEF Init, Once

\* What a publication and a reduction add, as sets.
LEMMA SumAdds ==
  ASSUME NEW f \in [Items -> Nat], NEW g, NEW i \in Items,
         g = [f EXCEPT ![i] = @ + 1]
  PROVE  {j \in Items : g[j] # 0} = {j \in Items : f[j] # 0} \cup {i}
<1>1. g[i] # 0 /\ \A j \in Items : j # i => g[j] = f[j]
      OBVIOUS
<1> QED BY <1>1

\* A publication is one more result, of an item that had none.
LEMMA PublishMaps ==
  ASSUME TypeOK, Handout, Ledger, NEW w \in Workers, Publish(w)
  PROVE  /\ doing[w] \in Items /\ doing[w] \notin Mapped
         /\ Ready' = Ready \cup {doing[w]}
         /\ Mapped' = Mapped \cup {doing[w]}
<1>1. doing[w] \in Items /\ doing[w] \notin done
      BY CallbackAssumption DEF Publish, Handout, TypeOK, Items
<1>2. \A v \in Workers : doing[v] = doing[w] => v = w
      BY <1>1, CallbackAssumption DEF Handout, Items
<1>3. doing[w] \notin Mapped
      BY <1>1, <1>2 DEF Ledger, Publish
<1>4. /\ Len(ready_results') = Len(ready_results) + 1
      /\ \A k \in 1..Len(ready_results) : ready_results'[k] = ready_results[k]
      /\ ready_results'[Len(ready_results) + 1] = doing[w]
      BY <1>1, AppendProperties DEF Publish, TypeOK
<1>5. Len(ready_results) \in Nat
      BY LenProperties DEF TypeOK
<1>6. Ready' = Ready \cup {doing[w]}
  <2>1. 1..Len(ready_results') = (1..Len(ready_results))
                                   \cup {Len(ready_results) + 1}
        BY <1>4, <1>5
  <2> QED BY <1>4, <2>1 DEF Ready
<1>7. Mapped' = Mapped \cup {doing[w]}
  <2>1. total_sum' = total_sum /\ current' = current
        BY DEF Publish
  <2> QED BY <1>6, <2>1 DEF Mapped, reduced
<1> QED BY <1>1, <1>3, <1>6, <1>7

\* Taking a result from the queue leaves the results as they are.
LEMMA PopKeeps ==
  ASSUME TypeOK, Ledger, Pop
  PROVE  /\ Mapped' = Mapped /\ reduced' = reduced
         /\ current' \notin Ready' /\ current' \notin reduced'
         /\ Ready' \subseteq Ready
         /\ \A j, k \in 1..Len(ready_results') :
              ready_results'[j] = ready_results'[k] => j = k
<1>1. /\ ready_results # <<>>
      /\ current' = ready_results[1]
      /\ ready_results' = Tail(ready_results)
      /\ serial # "reducing" /\ reduced' = reduced
      BY DEF Pop, reduced
<1>2. current = 0
      BY <1>1 DEF TypeOK
<1>3. PICK n \in Nat : n = Len(ready_results)
      BY LenProperties DEF TypeOK
<1>4. /\ n > 0
      /\ Len(ready_results') = n - 1
      /\ \A k \in 1..n - 1 : ready_results'[k] = ready_results[k + 1]
  <2>1. n # 0
        BY <1>1, <1>3, EmptySeq DEF TypeOK
  <2>2. Len(Tail(ready_results)) = n - 1
        BY <1>1, <1>3, HeadTailProperties DEF TypeOK
  <2>3. \A k \in 1..n - 1 : Tail(ready_results)[k] = ready_results[k + 1]
        BY <1>1, <1>3, <2>2, HeadTailProperties DEF TypeOK
  <2> QED BY <1>1, <1>3, <2>1, <2>2, <2>3
<1>5. \A j, k \in 1..n : ready_results[j] = ready_results[k] => j = k
      BY <1>3 DEF Ledger
<1>6. Ready = {ready_results[k] : k \in 1..n}
      BY <1>3 DEF Ready
<1>7. Ready' = {ready_results[k + 1] : k \in 1..n - 1}
      BY <1>4 DEF Ready
<1>8. Ready' \subseteq Ready /\ current' \in Ready /\ current' \notin Ready'
  <2>1. \A k \in 1..n - 1 : k + 1 \in 1..n /\ k + 1 # 1
        BY <1>3
  <2>2. 1 \in 1..n
        BY <1>3, <1>4
  <2>3. \A k \in 1..n - 1 : ready_results[k + 1] # current'
        BY <1>1, <1>5, <2>1, <2>2
  <2> QED BY <1>1, <1>6, <1>7, <2>1, <2>2, <2>3
<1>9. Ready = Ready' \cup {current'}
  <2>1. ASSUME NEW k \in 1..n
        PROVE  ready_results[k] \in Ready' \cup {current'}
    <3>1. CASE k = 1
          BY <1>1, <3>1
    <3>2. CASE k # 1
      <4>1. k - 1 \in 1..n - 1 /\ (k - 1) + 1 = k
            BY <1>3, <3>2
      <4> QED BY <1>7, <4>1
    <3> QED BY <3>1, <3>2
  <2> QED BY <1>6, <1>8, <2>1
<1>10. Mapped' = Mapped
  <2>1. current' # 0
        BY <1>8, MappedParts DEF Items
  <2> QED BY <1>1, <1>2, <1>9, <2>1 DEF Mapped
<1>11. \A j, k \in 1..n - 1 : ready_results'[j] = ready_results'[k] => j = k
  <2>1. \A k \in 1..n - 1 : k + 1 \in 1..n /\ k \in Int
        BY <1>3
  <2>2. \A j, k \in 1..n - 1 : ready_results'[j] = ready_results'[k]
                                 => j + 1 = k + 1
        BY <1>4, <1>5, <2>1
  <2> QED BY <2>1, <2>2
<1>12. current' \notin reduced'
       BY <1>1, <1>8 DEF Ledger
<1> QED BY <1>1, <1>4, <1>8, <1>10, <1>11, <1>12

\* A reduction moves the result that the serial thread holds into the sum.
LEMMA ReduceKeeps ==
  ASSUME TypeOK, Ledger, Reduce
  PROVE  /\ current \in Mapped \ reduced
         /\ current \in Items
         /\ Mapped' = Mapped
         /\ Ready' = Ready
         /\ reduced' = reduced \cup {current}
<1>1. /\ current \in Items
      /\ total_sum' = [total_sum EXCEPT ![current] = @ + 1]
      /\ current' = 0 /\ ready_results' = ready_results
      BY CallbackAssumption DEF Reduce, TypeOK, Items
<1>2. reduced' = reduced \cup {current}
  <2>1. total_sum \in [Items -> Nat]
        BY DEF TypeOK
  <2> QED BY <1>1, <2>1, SumAdds DEF reduced
<1>3. current # 0
      BY <1>1 DEF Items
<1>4. Ready' = Ready
      BY <1>1 DEF Ready
<1> QED BY <1>1, <1>2, <1>3, <1>4 DEF Ledger, Mapped

LEMMA LedgerStep ==
  TypeOK /\ Handout /\ Ledger /\ [Next]_vars => Ledger'
<1> SUFFICES ASSUME TypeOK, Handout, Ledger, [Next]_vars PROVE Ledger'
    OBVIOUS
<1>0. ASSUME UNCHANGED <<ready_results, completed_tasks, current,
                         computed, total_sum>>
      PROVE  /\ Mapped' = Mapped /\ Ready' = Ready /\ reduced' = reduced
             /\ computed' = computed
             /\ Cardinality(Mapped)' = Cardinality(Mapped)
  <2>1. Mapped' = Mapped /\ Ready' = Ready /\ reduced' = reduced
        BY <1>0 DEF Mapped, Ready, reduced
  <2> QED BY <1>0, <2>1
<1>1. CASE Submit \/ GetAll \/ Join \/ Idle \/ SpuriousWakeup \/ UNCHANGED vars
  <2>1. /\ UNCHANGED <<ready_results, completed_tasks, current,
                        computed, total_sum>>
        /\ UNCHANGED <<doing, at, done>>
        /\ serial' = "exited" => serial = "exited"
        BY <1>1 DEF Submit, GetAll, Join, Idle, SpuriousWakeup, vars
  <2> QED BY <1>0, <2>1 DEF Ledger
<1>2. ASSUME NEW w \in Workers, Take(w)
      PROVE  Ledger'
  <2>1. PICK i \in 1..submitted : i \notin Taken
                                  /\ doing' = [doing EXCEPT ![w] = i]
        BY <1>2 DEF Take
  <2>2. /\ UNCHANGED <<ready_results, completed_tasks, current,
                        computed, total_sum>>
        /\ UNCHANGED <<done, serial>>
        /\ at[w] = "idle" /\ at' = [at EXCEPT ![w] = "mapping"]
        BY <1>2 DEF Take
  <2>3. \A i_1 \in Items : (\E v \in Workers : doing'[v] = i_1
                                             /\ at'[v] = "notifying")
                       <=> (\E v \in Workers : doing[v] = i_1
                                             /\ at[v] = "notifying")
        BY <2>1, <2>2 DEF TypeOK
  <2> QED BY <1>0, <2>2, <2>3 DEF Ledger
<1>3. ASSUME NEW w \in Workers, Publish(w)
      PROVE  Ledger'
  <2>1. /\ doing[w] \in Items /\ doing[w] \notin Mapped
        /\ Ready' = Ready \cup {doing[w]}
        /\ Mapped' = Mapped \cup {doing[w]}
        BY <1>3, PublishMaps
  <2>2. /\ UNCHANGED <<doing, done, serial, current, total_sum, reduced>>
        /\ computed' = [computed EXCEPT ![doing[w]] = @ + 1]
        /\ at[w] = "mapping" /\ at' = [at EXCEPT ![w] = "notifying"]
        /\ completed_tasks' = completed_tasks + 1
        /\ ready_results' = Append(ready_results, doing[w])
        BY <1>3 DEF Publish, reduced
  <2>3. \A v \in Workers : doing[v] = doing[w] => v = w
        BY <2>1 DEF Handout, Items
  <2>4. (\A i \in Items :
          i \in Mapped <=> \/ i \in done
                           \/ \E v \in Workers : doing[v] = i
                                                 /\ at[v] = "notifying")'
    <3>1. \A v \in Workers : at'[v] = "notifying"
                               <=> (at[v] = "notifying" \/ v = w)
          BY <2>2 DEF TypeOK
    <3> QED BY <2>1, <2>2, <2>3, <3>1 DEF Ledger
  <2>5. (\A j, k \in 1..Len(ready_results) :
          ready_results[j] = ready_results[k] => j = k)'
    <3>1. PICK n \in Nat : n = Len(ready_results)
          BY LenProperties DEF TypeOK
    <3>2. /\ Len(ready_results') = n + 1
          /\ \A k \in 1..n : ready_results'[k] = ready_results[k]
          /\ ready_results'[n + 1] = doing[w]
          BY <2>1, <2>2, <3>1, AppendProperties DEF TypeOK
    <3>3. \A k \in 1..n : ready_results[k] # doing[w]
          BY <2>1, <3>1 DEF Mapped, Ready
    <3>4. \A j, k \in 1..n : ready_results[j] = ready_results[k] => j = k
          BY <3>1 DEF Ledger
    <3> QED BY <3>1, <3>2, <3>3, <3>4
  <2>6. Cardinality(Mapped') = Cardinality(Mapped) + 1
        BY <2>1, MappedParts, FS_AddElement
  <2>7. completed_tasks' = Cardinality(Mapped)'
        BY <2>2, <2>6 DEF Ledger
  <2>8. doing[w] \notin reduced /\ current # doing[w]
        BY <2>1 DEF Mapped, Items
  <2>9. (Ready \cap reduced = {} /\ current \notin Ready
           /\ current \notin reduced)'
        BY <2>1, <2>2, <2>8 DEF Ledger
  <2>10. (serial = "exited" => reduced = Items)'
        BY <2>2 DEF Ledger
  <2>11. \A i \in Items : i \in Mapped' <=> computed'[i] # 0
    <3>1. {i \in Items : computed'[i] # 0}
            = {i \in Items : computed[i] # 0} \cup {doing[w]}
          BY <2>1, <2>2, SumAdds DEF TypeOK
    <3>2. \A i \in Items : computed'[i] # 0
                             <=> (computed[i] # 0 \/ i = doing[w])
          BY <3>1
    <3> QED BY <2>1, <3>2 DEF Ledger
  <2> QED BY <2>4, <2>5, <2>7, <2>9, <2>10, <2>11 DEF Ledger
<1>4. ASSUME NEW w \in Workers, Notify(w)
      PROVE  Ledger'
  <2>1. /\ UNCHANGED <<ready_results, completed_tasks, current,
                        computed, total_sum>>
        /\ done' = done \cup {doing[w]}
        /\ at[w] = "notifying"
        /\ doing' = [doing EXCEPT ![w] = 0]
        /\ at' = [at EXCEPT ![w] = "idle"]
        /\ serial' = "exited" => serial = "exited"
        BY <1>4 DEF Notify
  <2>2. \A v \in Workers : v # w => doing'[v] = doing[v] /\ at'[v] = at[v]
        BY <2>1 DEF TypeOK
  <2>3. at'[w] = "idle"
        BY <2>1 DEF TypeOK
  <2>4. \A i \in Items : (\E v \in Workers : doing'[v] = i
                                             /\ at'[v] = "notifying")
                         \/ i = doing[w]
                    <=> (\E v \in Workers : doing[v] = i
                                             /\ at[v] = "notifying")
        BY <2>1, <2>2, <2>3
  <2> QED BY <1>0, <2>1, <2>4 DEF Ledger
<1>5. CASE Pop
  <2>1. /\ UNCHANGED <<doing, at, done, completed_tasks, computed>>
        /\ serial' = "reducing"
        BY <1>5 DEF Pop
  <2> QED BY <1>5, <2>1, PopKeeps DEF Ledger
<1>6. CASE Reduce
  <2>1. /\ UNCHANGED <<doing, at, done, completed_tasks, ready_results, computed>>
        /\ serial' = "relocking" /\ current' = 0
        BY <1>6 DEF Reduce
  <2>2. Mapped' = Mapped /\ Ready' = Ready /\ 0 \notin Items
        /\ current \in Items /\ reduced' = reduced \cup {current}
        BY <1>6, ReduceKeeps DEF Items
  <2>3. 0 \notin Ready' /\ 0 \notin reduced'
        BY <2>1, <2>2, MappedParts DEF TypeOK
  <2> QED BY <2>1, <2>2, <2>3 DEF Ledger
<1>7. CASE Break
  <2>1. /\ UNCHANGED <<ready_results, completed_tasks, current,
                        computed, total_sum>>
        /\ UNCHANGED <<doing, at, done>>
        /\ ready_results = <<>> /\ completed_tasks = N /\ serial # "reducing"
        BY <1>7 DEF Break
  <2>2. Ready = {} /\ current = 0
        BY <2>1 DEF Ready, TypeOK
  <2>3. Mapped = reduced
        BY <2>2 DEF Mapped
  <2>4. Cardinality(Items) = N /\ IsFiniteSet(Items)
        BY FS_Interval, CallbackAssumption DEF Items
  <2>5. reduced = Items
    <3>1. Cardinality(Mapped) = N /\ Mapped \subseteq Items
          BY <2>1, MappedParts DEF Ledger
    <3> QED BY <2>3, <2>4, <3>1, FS_Subset
  <2> QED BY <1>0, <2>1, <2>5 DEF Ledger
<1> QED BY <1>1, <1>2, <1>3, <1>4, <1>5, <1>6, <1>7, StepCases

\* An item is published when it has no result yet, and added to the sum when
\* it is not in it.
LEMMA OnceStep ==
  TypeOK /\ Handout /\ Ledger /\ Once /\ [Next]_vars => Once'
<1> SUFFICES ASSUME TypeOK, Handout, Ledger, Once, [Next]_vars PROVE Once'
    OBVIOUS
<1>1. CASE UNCHANGED <<computed, total_sum>>
      BY <1>1 DEF Once
<1>2. ASSUME NEW w \in Workers, Publish(w)
      PROVE  Once'
  <2>1. doing[w] \in Items /\ computed[doing[w]] = 0
        BY <1>2, PublishMaps DEF Ledger
  <2>2. /\ computed' = [computed EXCEPT ![doing[w]] = @ + 1]
        /\ total_sum' = total_sum
        BY <1>2 DEF Publish
  <2> QED BY <2>1, <2>2 DEF Once, TypeOK
<1>3. CASE Reduce
  <2>1. current \in Items /\ total_sum[current] = 0
        BY <1>3, ReduceKeeps DEF reduced
  <2>2. /\ total_sum' = [total_sum EXCEPT ![current] = @ + 1]
        /\ computed' = computed
        BY <1>3 DEF Reduce
  <2> QED BY <2>1, <2>2 DEF Once, TypeOK
<1>4. CASE Submit \/ GetAll \/ Join \/ Pop \/ Break \/ Idle \/ SpuriousWakeup
           \/ UNCHANGED vars
  <2>1. UNCHANGED <<computed, total_sum>>
        BY <1>4 DEF Submit, GetAll, Join, Pop, Break, Idle, SpuriousWakeup, vars
  <2> QED BY <1>1, <2>1
<1>5. ASSUME NEW w \in Workers, Take(w) \/ Notify(w)
      PROVE  Once'
  <2>1. UNCHANGED <<computed, total_sum>>
        BY <1>5 DEF Take, Notify
  <2> QED BY <1>1, <2>1
<1> QED BY <1>2, <1>3, <1>4, <1>5, StepCases

\* Every item is computed once, its result is added to the sum once, after it
\* was computed, and the iteration ends with every result in the sum.
THEOREM SumCorrect == Spec => ComputesSum
<1>1. Init => Sum!Init
      BY DEF Init, Sum!Init
<1>2. TypeOK /\ Handout /\ Ledger /\ Once /\ [Next]_vars
        => [Sum!Next]_(Sum!vars)
  <2> SUFFICES ASSUME TypeOK, Handout, Ledger, Once, [Next]_vars
               PROVE  [Sum!Next]_(Sum!vars)
      OBVIOUS
  <2>1. CASE Submit \/ GetAll \/ Pop \/ Break \/ Idle \/ SpuriousWakeup
             \/ UNCHANGED vars
    <3>1. /\ UNCHANGED <<computed, total_sum>>
          /\ (main = "finished")' = (main = "finished")
          BY <2>1 DEF Submit, GetAll, Pop, Break, Idle, SpuriousWakeup, vars
    <3> QED BY <3>1 DEF Sum!vars
  <2>2. CASE Join
    <3>1. /\ UNCHANGED <<computed, total_sum>>
          /\ main = "joining" /\ main' = "finished" /\ serial = "exited"
          BY <2>2 DEF Join
    <3>2. \A i \in Items : total_sum[i] \in Nat /\ total_sum[i] # 0
          BY <3>1 DEF Ledger, reduced, TypeOK
    <3>3. \A i \in Items : total_sum[i] = 1
          BY <3>2 DEF Once
    <3>4. Sum!Finish
          BY <3>1, <3>3 DEF Sum!Finish
    <3> QED BY <3>4 DEF Sum!Next
  <2>3. ASSUME NEW w \in Workers, Take(w) \/ Notify(w)
        PROVE  [Sum!Next]_(Sum!vars)
    <3>1. UNCHANGED <<computed, total_sum, main>>
          BY <2>3 DEF Take, Notify
    <3> QED BY <3>1 DEF Sum!vars
  <2>4. ASSUME NEW w \in Workers, Publish(w)
        PROVE  [Sum!Next]_(Sum!vars)
    <3>1. /\ computed' = [computed EXCEPT ![doing[w]] = @ + 1]
          /\ UNCHANGED <<total_sum, main>>
          BY <2>4 DEF Publish
    <3>2. doing[w] \in Items /\ computed[doing[w]] = 0
          BY <2>4, PublishMaps DEF Ledger
    <3>3. Sum!Map(doing[w])
          BY <3>1, <3>2 DEF Sum!Map
    <3> QED BY <3>2, <3>3 DEF Sum!Next
  <2>5. CASE Reduce
    <3>1. /\ total_sum' = [total_sum EXCEPT ![current] = @ + 1]
          /\ UNCHANGED <<computed, main>>
          BY <2>5 DEF Reduce
    <3>2. current \in Items /\ total_sum[current] = 0 /\ computed[current] # 0
          BY <2>5, ReduceKeeps DEF Ledger, reduced
    <3>3. computed[current] = 1
          BY <3>2 DEF Once, TypeOK
    <3>4. Sum!Reduce(current)
          BY <3>1, <3>2, <3>3 DEF Sum!Reduce
    <3> QED BY <3>2, <3>4 DEF Sum!Next
  <2> QED BY <2>1, <2>2, <2>3, <2>4, <2>5, StepCases
<1>3. Init => TypeOK /\ Handout /\ Ledger /\ Once
      BY TypeInit, HandoutInit, LedgerInit, OnceInit
<1>4. TypeOK /\ Handout /\ Ledger /\ Once /\ [Next]_vars
        => TypeOK' /\ Handout' /\ Ledger' /\ Once'
      BY TypeStep, HandoutStep, LedgerStep, OnceStep
<1> QED BY <1>1, <1>2, <1>3, <1>4, PTL DEF Spec, ComputesSum, Sum!Spec
=============================================================================
