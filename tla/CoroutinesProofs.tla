--------------------------- MODULE CoroutinesProofs ---------------------------
(***************************************************************************)
(* The schedulers of coroutines for every number of tasks and lines.  The  *)
(* invariant counts: where a task stands in the queues, how often a round  *)
(* has come to it, and what it has printed.                                *)
(***************************************************************************)
EXTENDS Coroutines, FiniteSetTheorems, SequenceTheorems,
        WellFoundedInduction, TLAPS

-----------------------------------------------------------------------------
\* Sequences, and how often something is in them.

\* Scheduler is an instance, which has its own copy of the operator; the
\* library's theorems are about the other one.
LEMMA SchedulerCardinality == \A S : Scheduler!Cardinality(S) = Cardinality(S)
BY DEF Scheduler!Cardinality, Cardinality

\* Where x is in the sequence s.
Places(x, s) == {k \in 1..Len(s) : s[k] = x}

LEMMA TimesIs ==
  ASSUME NEW S, NEW s \in Seq(S), NEW x
  PROVE  Scheduler!Times(x, s) = Cardinality(Places(x, s))
<1>1. DOMAIN s = 1..Len(s)
      BY LenProperties
<1>2. {k \in DOMAIN s : s[k] = x} = Places(x, s)
      BY <1>1 DEF Places
<1> QED BY <1>2, SchedulerCardinality DEF Scheduler!Times

LEMMA PlacesFinite ==
  ASSUME NEW S, NEW s \in Seq(S), NEW x
  PROVE  IsFiniteSet(Places(x, s)) /\ Places(x, s) \subseteq 1..Len(s)
<1>1. Len(s) \in Nat
      BY LenProperties
<1>2. IsFiniteSet(1..Len(s))
      BY <1>1, FS_Interval
<1>3. Places(x, s) \subseteq 1..Len(s)
      BY DEF Places
<1> QED BY <1>2, <1>3, FS_Subset

LEMMA TimesNat ==
  ASSUME NEW S, NEW s \in Seq(S), NEW x
  PROVE  /\ Scheduler!Times(x, s) \in Nat
         /\ Scheduler!Times(x, s) = 0 <=> \A k \in 1..Len(s) : s[k] # x
<1>1. Scheduler!Times(x, s) \in Nat
      BY TimesIs, PlacesFinite, FS_CardinalityType
<1>2. Scheduler!Times(x, s) = 0 <=> Places(x, s) = {}
      BY TimesIs, PlacesFinite, FS_EmptySet
<1>3. Places(x, s) = {} <=> \A k \in 1..Len(s) : s[k] # x
      BY DEF Places
<1> QED BY <1>1, <1>2, <1>3

LEMMA TimesNone == \A x : Scheduler!Times(x, << >>) = 0
<1> SUFFICES ASSUME NEW x PROVE Scheduler!Times(x, << >>) = 0
    OBVIOUS
<1>1. << >> \in Seq({x}) /\ Len(<< >>) = 0
      BY EmptySeq
<1>2. \A k \in 1..Len(<< >>) : << >>[k] # x
      BY <1>1
<1> QED BY <1>1, <1>2, TimesNat

LEMMA TimesAppend ==
  ASSUME NEW S, NEW s \in Seq(S), NEW y \in S, NEW x
  PROVE  Scheduler!Times(x, Append(s, y)) =
           Scheduler!Times(x, s) + (IF x = y THEN 1 ELSE 0)
<1> DEFINE t == Append(s, y)
           n == Len(s)
<1>1. /\ t \in Seq(S) /\ Len(t) = n + 1 /\ n \in Nat
      /\ \A k \in 1..n : t[k] = s[k]
      /\ t[n + 1] = y
      BY AppendProperties, LenProperties
<1>2. Scheduler!Times(x, t) = Cardinality(Places(x, t))
      BY <1>1, TimesIs
<1>3. Scheduler!Times(x, s) = Cardinality(Places(x, s))
      BY TimesIs
<1>4. IsFiniteSet(Places(x, s)) /\ n + 1 \notin Places(x, s)
  <2>1. IsFiniteSet(Places(x, s)) /\ Places(x, s) \subseteq 1..n
        BY PlacesFinite
  <2>2. n + 1 \notin 1..n
        BY <1>1
  <2> QED BY <2>1, <2>2
<1> HIDE DEF t
<1>5. CASE x = y
  <2>1. Places(x, t) = Places(x, s) \cup {n + 1}
        BY <1>1, <1>5 DEF Places
  <2>2. Cardinality(Places(x, t)) = Cardinality(Places(x, s)) + 1
        BY <2>1, <1>4, FS_AddElement
  <2> QED BY <1>2, <1>3, <1>5, <2>2 DEF t
<1>6. CASE x # y
  <2>1. Places(x, t) = Places(x, s)
        BY <1>1, <1>6 DEF Places
  <2>2. Scheduler!Times(x, s) \in Nat
        BY TimesNat
  <2> QED BY <1>2, <1>3, <1>6, <2>1, <2>2 DEF t
<1> QED BY <1>5, <1>6

\* t is s without its i-th entry.
Removed(t, s, i) ==
  /\ Len(t) = Len(s) - 1
  /\ \A k \in 1..Len(t) : /\ k < i => t[k] = s[k]
                          /\ k >= i => t[k] = s[k + 1]

LEMMA TimesRemoved ==
  ASSUME NEW S, NEW s \in Seq(S), NEW t \in Seq(S), NEW i \in 1..Len(s), NEW x,
         Removed(t, s, i)
  PROVE  Scheduler!Times(x, t) =
           Scheduler!Times(x, s) - (IF x = s[i] THEN 1 ELSE 0)
<1> DEFINE P == Places(x, s) \ {i}
           Q == Places(x, t)
           f == [k \in Q |-> IF k < i THEN k ELSE k + 1]
<1>1. Len(s) \in Nat /\ Len(t) \in Nat /\ Len(t) = Len(s) - 1 /\ i \in Int
      BY LenProperties DEF Removed
<1>a. \A k \in 1..Len(t) : /\ k < i => t[k] = s[k]
                           /\ k >= i => t[k] = s[k + 1]
      BY DEF Removed
<1>2. \A k \in Q : f[k] \in P
  <2> SUFFICES ASSUME NEW k \in Q PROVE f[k] \in P
      OBVIOUS
  <2>1. k \in 1..Len(t) /\ t[k] = x
        BY DEF Places
  <2>2. CASE k < i
        BY <1>1, <1>a, <2>1, <2>2 DEF Places
  <2>3. CASE k >= i
        BY <1>1, <1>a, <2>1, <2>3 DEF Places
  <2> QED BY <1>1, <2>1, <2>2, <2>3
<1>3. \A j, k \in Q : f[j] = f[k] => j = k
      BY <1>1 DEF Places
<1>4. \A j \in P : \E k \in Q : f[k] = j
  <2> SUFFICES ASSUME NEW j \in P PROVE \E k \in Q : f[k] = j
      OBVIOUS
  <2> DEFINE k == IF j < i THEN j ELSE j - 1
  <2>1. j \in 1..Len(s) /\ s[j] = x /\ j # i
        BY DEF Places
  <2>2. k \in 1..Len(t) /\ (IF k < i THEN k ELSE k + 1) = j
        BY <1>1, <2>1
  <2> HIDE DEF k
  <2>3. k \in Int /\ i \in Int
        BY <1>1, <2>2
  <2>4. t[k] = x
        BY <1>a, <2>1, <2>2, <2>3
  <2> QED BY <2>2, <2>4 DEF Places
<1>5. f \in Bijection(Q, P)
  <2>1. f \in [Q -> P]
        BY <1>2
  <2> HIDE DEF f, P, Q
  <2> QED BY <1>3, <1>4, <2>1 DEF Bijection, Injection, Surjection, IsInjective
<1>6. ExistsBijection(Q, P)
      BY <1>5 DEF ExistsBijection
<1>7. Cardinality(P) = Cardinality(Q)
  <2> HIDE DEF P
  <2> QED BY <1>6, PlacesFinite, FS_Bijection
<1>8. Cardinality(P) = IF i \in Places(x, s) THEN Cardinality(Places(x, s)) - 1
                                            ELSE Cardinality(Places(x, s))
      BY PlacesFinite, FS_RemoveElement
<1>9. i \in Places(x, s) <=> x = s[i]
      BY DEF Places
<1>10. /\ Scheduler!Times(x, t) = Cardinality(Q)
       /\ Scheduler!Times(x, s) = Cardinality(Places(x, s))
       /\ Scheduler!Times(x, s) \in Nat
      BY TimesIs, TimesNat
<1> HIDE DEF P, Q
<1>11. Cardinality(P) = Scheduler!Times(x, s) - (IF x = s[i] THEN 1 ELSE 0)
  <2>1. CASE x = s[i]
        BY <1>8, <1>9, <1>10, <2>1
  <2>2. CASE x # s[i]
        BY <1>8, <1>9, <1>10, <2>2
  <2> QED BY <2>1, <2>2
<1> QED BY <1>7, <1>10, <1>11

LEMMA TimesTail ==
  ASSUME NEW S, NEW s \in Seq(S), s # << >>, NEW x
  PROVE  Scheduler!Times(x, Tail(s)) =
           Scheduler!Times(x, s) - (IF x = Head(s) THEN 1 ELSE 0)
<1>1. Tail(s) \in Seq(S) /\ Len(Tail(s)) = Len(s) - 1 /\ Len(s) \in Nat
      BY HeadTailProperties, LenProperties
<1>2. Len(s) # 0
      BY EmptySeq, <1>1
<1>3. 1 \in 1..Len(s) /\ Head(s) = s[1]
      BY <1>1, <1>2
<1>4. \A k \in 1..Len(Tail(s)) : Tail(s)[k] = s[k + 1]
      BY HeadTailProperties
<1>5. \A k \in 1..Len(Tail(s)) :
         /\ k < 1 => Tail(s)[k] = s[k]
         /\ k >= 1 => Tail(s)[k] = s[k + 1]
      BY <1>1, <1>4
<1>6. Scheduler!Times(x, Tail(s)) =
        Scheduler!Times(x, s) - (IF x = s[1] THEN 1 ELSE 0)
  <2>1. Removed(Tail(s), s, 1)
        BY <1>1, <1>5 DEF Removed
  <2> QED BY <1>1, <1>3, <2>1, TimesRemoved
<1> QED BY <1>3, <1>6

LEMMA TimesWithout ==
  ASSUME NEW S, NEW s \in Seq(S), NEW i \in 1..Len(s), NEW x
  PROVE  /\ Scheduler!Without(s, i) \in Seq(S)
         /\ Scheduler!Times(x, Scheduler!Without(s, i)) =
              Scheduler!Times(x, s) - (IF x = s[i] THEN 1 ELSE 0)
<1> DEFINE a == SubSeq(s, 1, i - 1)
           b == SubSeq(s, i + 1, Len(s))
           t == Scheduler!Without(s, i)
<1>1. Len(s) \in Nat /\ i \in Nat /\ i >= 1 /\ i <= Len(s)
      BY LenProperties
<1>2. \A k \in 1..Len(s) : s[k] \in S
      BY ElementOfSeq
<1>3. /\ a \in Seq(S) /\ Len(a) = i - 1
      /\ \A k \in 1..i - 1 : a[k] = s[k]
  <2>1. \A k \in 1..i - 1 : s[k] \in S
        BY <1>1, <1>2
  <2>2. /\ a \in Seq(S) /\ Len(a) = IF 1 <= i - 1 THEN (i - 1) - 1 + 1 ELSE 0
        /\ \A k \in 1..(i - 1) - 1 + 1 : a[k] = s[1 + k - 1]
        BY <1>1, <2>1, SubSeqProperties
  <2> HIDE DEF a
  <2> QED BY <1>1, <2>2
<1>4. /\ b \in Seq(S) /\ Len(b) = Len(s) - i
      /\ \A k \in 1..Len(s) - i : b[k] = s[i + k]
  <2>1. \A k \in i + 1..Len(s) : s[k] \in S
        BY <1>1, <1>2
  <2>2. /\ b \in Seq(S)
        /\ Len(b) = IF i + 1 <= Len(s) THEN Len(s) - (i + 1) + 1 ELSE 0
        /\ \A k \in 1..Len(s) - (i + 1) + 1 : b[k] = s[(i + 1) + k - 1]
        BY <1>1, <2>1, SubSeqProperties
  <2> HIDE DEF b
  <2> QED BY <1>1, <2>2
<1>5. t = a \o b
      BY DEF Scheduler!Without
<1> HIDE DEF a, b, t
<1>6. /\ t \in Seq(S) /\ Len(t) = Len(a) + Len(b)
      /\ \A k \in 1..Len(a) + Len(b) : t[k] = IF k <= Len(a) THEN a[k]
                                             ELSE b[k - Len(a)]
      BY <1>3, <1>4, <1>5, ConcatProperties
<1>7. Len(t) = Len(s) - 1
      BY <1>1, <1>3, <1>4, <1>6
<1>8. ASSUME NEW k \in 1..Len(t)
      PROVE  (k < i => t[k] = s[k]) /\ (k >= i => t[k] = s[k + 1])
  <2>1. CASE k < i
        BY <1>1, <1>3, <1>4, <1>6, <1>7, <2>1
  <2>2. CASE ~(k < i)
    <3>1. k - (i - 1) \in 1..Len(s) - i /\ ~(k <= Len(a))
          BY <1>1, <1>3, <1>7, <2>2
    <3>2. t[k] = b[k - (i - 1)]
          BY <1>1, <1>3, <1>4, <1>6, <1>7, <3>1
    <3>3. b[k - (i - 1)] = s[i + (k - (i - 1))]
          BY <1>4, <3>1
    <3>4. i + (k - (i - 1)) = k + 1
          BY <1>1
    <3> QED BY <2>2, <3>2, <3>3, <3>4
  <2> QED BY <2>1, <2>2
<1>9. Scheduler!Times(x, t) = Scheduler!Times(x, s) - (IF x = s[i] THEN 1 ELSE 0)
  <2>1. Removed(t, s, i)
        BY <1>7, <1>8 DEF Removed
  <2> QED BY <1>6, <2>1, TimesRemoved
<1> QED BY <1>6, <1>9 DEF t

-----------------------------------------------------------------------------
\* The invariant of the schedulers.

SchedulerTyped ==
  /\ style \in Scheduler!Styles
  /\ ready \in Seq(TaskNumbers) /\ delayed \in Seq(TaskNumbers)
  /\ turns \in Seq(TaskNumbers)
  /\ current \in TaskNumbers \cup {NoCoroutine}
  /\ left \in [TaskNumbers -> 0..Lines]
  /\ task_frame \in [TaskNumbers -> {"suspended", "final", "destroyed"}]
  /\ started \in SUBSET TaskNumbers
  /\ main \in {"runs", "stopped", "left"}
  /\ task_misuse \in {"none", "resume", "scheduler"}

\* Who may do something undefined; a scheduler that nobody starts has nothing
\* to do.
MisuseExplained ==
  /\ task_misuse = "resume" => Scheduler!Queued
  /\ task_misuse = "scheduler" => style = "threads" /\ started # {}
  /\ style # "threads" => main = "runs"
  /\ style = "threads" /\ started = {} =>
       ready = << >> /\ delayed = << >> /\ current = NoCoroutine

\* A task that is over has printed its lines, and what runs is not over.
FramesKept ==
  ~Scheduler!Queued /\ main # "left" =>
    /\ \A c \in TaskNumbers : task_frame[c] # "destroyed"
    /\ \A c \in TaskNumbers : task_frame[c] = "final" => left[c] = 0
    /\ current # NoCoroutine => task_frame[current] = "suspended"

\* Every line is a step.
LinesCounted ==
  \A c \in TaskNumbers : Scheduler!Times(c, turns) = Lines - left[c]

\* How often a round has come to c, and c was not over before.
Taken(c) == (Lines - left[c]) + (IF task_frame[c] = "final" THEN 1 ELSE 0)
                              + (IF current = c THEN 1 ELSE 0)

\* The vector holds every task once, and no timer adds to it; those in front
\* have been taken as often as those behind them, or once less.
RoundsFair ==
  style = "rounds" =>
    /\ delayed = << >>
    /\ \A c \in TaskNumbers : \E i \in 1..Len(ready) : ready[i] = c
    /\ \A i, j \in 1..Len(ready) : ready[i] = ready[j] => i = j
    /\ \A i, j \in 1..Len(ready) :
         i < j => /\ Taken(ready[i]) <= Taken(ready[j])
                  /\ Taken(ready[j]) <= Taken(ready[i]) + 1
    /\ current # NoCoroutine => current = ready[Len(ready)]

\* Only the highest priority that is not over has begun.
PriorityKept ==
  style = "priority" =>
    \A c, d \in TaskNumbers :
      c > d /\ (left[d] < Lines \/ current = d) => task_frame[c] = "final"

\* The scheduler with threads has a task that has begun in one place.
HeldOnce ==
  style = "threads" /\ main # "left" =>
    \A c \in TaskNumbers :
      Scheduler!Times(c, ready) + Scheduler!Times(c, delayed)
        + (IF current = c THEN 1 ELSE 0)
      = IF left[c] < Lines /\ task_frame[c] = "suspended" THEN 1 ELSE 0

SchedulerInv == SchedulerTyped /\ MisuseExplained /\ FramesKept
                /\ LinesCounted /\ RoundsFair /\ PriorityKept /\ HeldOnce

-----------------------------------------------------------------------------
\* The schedulers begin with their tasks in order, or with none.

LEMMA TasksAre == /\ Cardinality(TaskNumbers) \in Nat
                  /\ TaskNumbers = 1..Cardinality(TaskNumbers)
                  /\ TaskNumbers \subseteq Nat
<1>1. Cardinality(TaskNumbers) \in Nat
      BY SchedulerAssumption, FS_CardinalityType
<1>2. TaskNumbers = 1..Cardinality(TaskNumbers)
      BY SchedulerAssumption
<1>3. 1..Cardinality(TaskNumbers) \subseteq Nat
      BY <1>1
<1> QED BY <1>1, <1>2, <1>3

LEMMA InOrderIs ==
  /\ Scheduler!InOrder \in Seq(TaskNumbers)
  /\ Len(Scheduler!InOrder) = Cardinality(TaskNumbers)
  /\ \A i \in 1..Len(Scheduler!InOrder) : Scheduler!InOrder[i] = i
<1> DEFINE n == Cardinality(TaskNumbers)
           s == [i \in 1..n |-> i]
<1>1. n \in Nat /\ TaskNumbers = 1..n
      BY TasksAre
<1>2. Scheduler!InOrder = s
      BY SchedulerCardinality DEF Scheduler!InOrder
<1> HIDE DEF n
<1>3. s \in Seq(TaskNumbers) /\ Len(s) = n
      BY <1>1
<1>4. \A i \in 1..n : s[i] = i
      OBVIOUS
<1> HIDE DEF s
<1> QED BY <1>2, <1>3, <1>4 DEF n

LEMMA SchedulerBegins == Init => SchedulerInv
<1> SUFFICES ASSUME Scheduler!Init PROVE SchedulerInv
    BY DEF Init
<1>1. /\ style \in Scheduler!Styles
      /\ ready = IF style = "threads" THEN << >> ELSE Scheduler!InOrder
      /\ delayed = << >> /\ current = NoCoroutine
      /\ left = [c \in TaskNumbers |-> Lines]
      /\ task_frame = [c \in TaskNumbers |-> "suspended"]
      /\ started \in IF style = "threads" THEN {{}, TaskNumbers}
                                          ELSE {TaskNumbers}
      /\ main = "runs"
      /\ turns = << >> /\ task_misuse = "none"
      BY DEF Scheduler!Init
<1>2. << >> \in Seq(TaskNumbers) /\ Len(<< >>) = 0
      BY EmptySeq
<1>3. Lines \in 0..Lines /\ NoCoroutine \notin TaskNumbers /\ Lines \in Int
      BY SchedulerAssumption
<1>4. SchedulerTyped
  <2>1. ready \in Seq(TaskNumbers)
        BY <1>1, <1>2, InOrderIs
  <2>2. started \in SUBSET TaskNumbers
        BY <1>1
  <2>3. /\ left \in [TaskNumbers -> 0..Lines]
        /\ task_frame \in [TaskNumbers -> {"suspended", "final", "destroyed"}]
        BY <1>1, <1>3
  <2> QED BY <1>1, <1>2, <2>1, <2>2, <2>3 DEF SchedulerTyped
<1>5. MisuseExplained /\ FramesKept
      BY <1>1 DEF MisuseExplained, FramesKept
<1>6. LinesCounted
      BY <1>1, <1>3, TimesNone DEF LinesCounted
<1>7. RoundsFair
  <2> SUFFICES ASSUME style = "rounds" PROVE RoundsFair
      BY DEF RoundsFair
  <2>1. ready = Scheduler!InOrder
        BY <1>1
  <2>2. /\ ready \in Seq(TaskNumbers) /\ 1..Len(ready) = TaskNumbers
        /\ \A i \in 1..Len(ready) : ready[i] = i
        BY <2>1, InOrderIs, TasksAre
  <2>3. \A c \in TaskNumbers : Taken(c) = 0
        BY <1>1, <1>3 DEF Taken
  <2>4. \A i \in 1..Len(ready) : Taken(ready[i]) = 0
        BY <2>2, <2>3
  <2>5. \A i, j \in 1..Len(ready) :
         i < j => /\ Taken(ready[i]) <= Taken(ready[j])
                  /\ Taken(ready[j]) <= Taken(ready[i]) + 1
        BY <2>4
  <2>6. /\ \A c \in TaskNumbers : \E i \in 1..Len(ready) : ready[i] = c
        /\ \A i, j \in 1..Len(ready) : ready[i] = ready[j] => i = j
        BY <2>2
  <2> QED BY <1>1, <2>5, <2>6 DEF RoundsFair
<1>8. PriorityKept
      BY <1>1, <1>3 DEF PriorityKept
<1>9. HeldOnce
      BY <1>1, <1>3, TimesNone DEF HeldOnce
<1> QED BY <1>4, <1>5, <1>6, <1>7, <1>8, <1>9 DEF SchedulerInv

-----------------------------------------------------------------------------
\* The steps of a scheduler, and what a step leaves alone.

LEMMA FrontOfQueue ==
  ASSUME SchedulerTyped, ready # << >>
  PROVE  /\ Head(ready) \in TaskNumbers /\ Tail(ready) \in Seq(TaskNumbers)
         /\ Scheduler!Times(Head(ready), ready) > 0
<1>1. Head(ready) \in TaskNumbers /\ Tail(ready) \in Seq(TaskNumbers)
      BY HeadTailProperties DEF SchedulerTyped
<1>2. Scheduler!Times(Head(ready), Tail(ready)) =
        Scheduler!Times(Head(ready), ready) - 1
      BY TimesTail DEF SchedulerTyped
<1>3. /\ Scheduler!Times(Head(ready), Tail(ready)) \in Nat
      /\ Scheduler!Times(Head(ready), ready) \in Nat
      BY <1>1, TimesNat DEF SchedulerTyped
<1> QED BY <1>1, <1>2, <1>3

\* The highest priority that is pending.
LEMMA HighestPending ==
  ASSUME \E c \in TaskNumbers : Scheduler!Pending(c)
  PROVE  \E c \in TaskNumbers :
           /\ Scheduler!Pending(c)
           /\ \A d \in TaskNumbers : Scheduler!Pending(d) => d <= c
<1> DEFINE R == {ss \in Nat \X Nat : ss[1] < ss[2]}
           n == Cardinality(TaskNumbers)
           T == {k \in 0..n - 1 : Scheduler!Pending(n - k)}
<1>1. n \in Nat /\ TaskNumbers = 1..n
      BY TasksAre
<1>2. IsWellFoundedOn(R, Nat)
      BY NatLessThanWellFounded DEF OpToRel
<1> HIDE DEF n
<1>3. T # {} /\ T \subseteq Nat
  <2>1. PICK c \in 1..n : Scheduler!Pending(c)
        BY <1>1
  <2>2. n - c \in 0..n - 1 /\ n - (n - c) = c
        BY <1>1, <2>1
  <2>3. n - c \in T
        BY <2>1, <2>2
  <2>4. T \subseteq Nat
        BY <1>1
  <2> QED BY <2>3, <2>4
<1>4. PICK m \in T : \A k \in T : ~(<<k, m>> \in R)
  <2> HIDE DEF R, T
  <2> QED BY <1>2, <1>3, WFMin
<1>5. n - m \in TaskNumbers /\ Scheduler!Pending(n - m)
      BY <1>1, <1>4
<1>6. ASSUME NEW d \in TaskNumbers, Scheduler!Pending(d) PROVE d <= n - m
  <2>1. n - d \in 0..n - 1 /\ n - (n - d) = d
        BY <1>1
  <2>2. n - d \in T
        BY <1>6, <2>1
  <2>3. ~(n - d < m)
        BY <1>3, <1>4, <2>2
  <2> QED BY <1>1, <1>4, <2>3
<1> QED BY <1>5, <1>6

LEMMA PickNextIs ==
  ASSUME SchedulerTyped, Scheduler!PickNext, style = "priority"
  PROVE  /\ current' \in TaskNumbers /\ task_frame[current'] = "suspended"
         /\ \A d \in TaskNumbers :
              task_frame[d] = "suspended" => d <= current'
<1>1. /\ \E c \in TaskNumbers : Scheduler!Pending(c)
      /\ current' = CHOOSE c \in TaskNumbers :
                      /\ Scheduler!Pending(c)
                      /\ \A d \in TaskNumbers : Scheduler!Pending(d) => d <= c
      BY DEF Scheduler!PickNext
<1>2. /\ current' \in TaskNumbers /\ Scheduler!Pending(current')
      /\ \A d \in TaskNumbers : Scheduler!Pending(d) => d <= current'
      BY <1>1, HighestPending
<1> QED BY <1>2 DEF Scheduler!Pending

LEMMA TypedStep ==
  ASSUME SchedulerTyped, RoundsFair, Scheduler!Next
  PROVE  SchedulerTyped'
<1> USE DEF SchedulerTyped
<1>1. ASSUME Scheduler!Step
      PROVE  /\ left' \in [TaskNumbers -> 0..Lines]
             /\ turns' \in Seq(TaskNumbers) /\ current \in TaskNumbers
             /\ current' = NoCoroutine
             /\ UNCHANGED <<style, task_frame, running, started, main,
                            task_misuse>>
  <2>1. current \in TaskNumbers /\ left[current] > 0
        BY <1>1 DEF Scheduler!Step
  <2>2. left[current] \in 0..Lines /\ Lines \in Nat
        BY <2>1, SchedulerAssumption
  <2>3. left[current] - 1 \in 0..Lines
        BY <2>1, <2>2
  <2>4. left' = [left EXCEPT ![current] = left[current] - 1]
        BY <1>1 DEF Scheduler!Step
  <2>5. left' \in [TaskNumbers -> 0..Lines]
        BY <2>3, <2>4
  <2>6. turns' = Append(turns, current)
        BY <1>1 DEF Scheduler!Step
  <2>7. turns' \in Seq(TaskNumbers)
        BY <2>1, <2>6, AppendProperties
  <2> QED BY <1>1, <2>1, <2>5, <2>7 DEF Scheduler!Step
<1>2. CASE Scheduler!Pick
  <2>1. ready # << >> /\ ready' = Tail(ready)
        BY <1>2 DEF Scheduler!Pick
  <2>2. Head(ready) \in TaskNumbers /\ ready' \in Seq(TaskNumbers)
        BY <2>1, FrontOfQueue
  <2>3. /\ current' \in TaskNumbers \cup {NoCoroutine}
        /\ task_misuse' \in {"none", "resume", "scheduler"}
        BY <1>2, <2>2 DEF Scheduler!Pick
  <2> QED BY <1>2, <2>2, <2>3 DEF Scheduler!Pick
<1>3. CASE Scheduler!PickNext
  <2>1. \E c \in TaskNumbers : Scheduler!Pending(c)
        BY <1>3 DEF Scheduler!PickNext
  <2>2. UNCHANGED <<style, delayed, left, task_frame, running, started, main,
                    turns, task_misuse>>
        BY <1>3 DEF Scheduler!PickNext
  <2>3. CASE style = "rounds"
    <3>a. ready # << >>
      <4>1. 1..Len(ready) # {}
            BY <2>1, <2>3 DEF RoundsFair
      <4> QED BY <4>1, EmptySeq
    <3>1. Head(ready) \in TaskNumbers /\ Tail(ready) \in Seq(TaskNumbers)
          BY <3>a, FrontOfQueue
    <3>2. /\ current' \in {Head(ready), NoCoroutine}
          /\ ready' = Append(Tail(ready), Head(ready))
          BY <1>3, <2>3 DEF Scheduler!PickNext
    <3>3. ready' \in Seq(TaskNumbers)
          BY <3>1, <3>2, AppendProperties
    <3> QED BY <2>2, <3>1, <3>2, <3>3
  <2>4. CASE style # "rounds"
    <3>1. ready' = ready /\ style = "priority"
          BY <1>3, <2>4 DEF Scheduler!PickNext, Scheduler!Vector
    <3>2. current' \in TaskNumbers
          BY <1>3, <3>1, PickNextIs
    <3> QED BY <2>2, <3>1, <3>2
  <2> QED BY <2>3, <2>4
<1>4. CASE Scheduler!StepAndYield
  <2>1. ready' = ready \o <<current, current>> /\ delayed' = delayed
        BY <1>4 DEF Scheduler!StepAndYield
  <2>2. Scheduler!Step
        BY <1>4 DEF Scheduler!StepAndYield
  <2>3. <<current, current>> \in Seq(TaskNumbers)
        BY <1>1, <2>2
  <2>4. ready' \in Seq(TaskNumbers)
        BY <2>1, <2>3, ConcatProperties
  <2> QED BY <1>1, <2>1, <2>2, <2>4
<1>5. CASE Scheduler!StepAndSleep
  <2>1. ready' = Append(ready, current) /\ delayed' = Append(delayed, current)
        BY <1>5 DEF Scheduler!StepAndSleep
  <2>2. Scheduler!Step
        BY <1>5 DEF Scheduler!StepAndSleep
  <2>3. ready' \in Seq(TaskNumbers) /\ delayed' \in Seq(TaskNumbers)
        BY <1>1, <2>1, <2>2, AppendProperties
  <2> QED BY <1>1, <2>2, <2>3
<1>6. CASE Scheduler!MacroStep
      BY <1>1, <1>6 DEF Scheduler!MacroStep
<1>7. CASE Scheduler!StepAndArm
  <2>1. ready' = ready /\ delayed' = Append(delayed, current)
        BY <1>7 DEF Scheduler!StepAndArm
  <2>2. Scheduler!Step
        BY <1>7 DEF Scheduler!StepAndArm
  <2>3. delayed' \in Seq(TaskNumbers)
        BY <1>1, <2>1, <2>2, AppendProperties
  <2> QED BY <1>1, <2>1, <2>2, <2>3
<1>8. CASE Scheduler!Finish
      BY <1>8 DEF Scheduler!Finish
<1>9. CASE Scheduler!Stop
      BY <1>9 DEF Scheduler!Stop
<1>10. CASE Scheduler!Leave
      BY <1>10 DEF Scheduler!Leave
<1>11. ASSUME NEW c \in TaskNumbers, Scheduler!Start(c) PROVE SchedulerTyped'
  <2>1. /\ left' = [left EXCEPT ![c] = left[c] - 1] /\ left[c] = Lines
        /\ turns' = Append(turns, c) /\ delayed' = Append(delayed, c)
        BY <1>11 DEF Scheduler!Start
  <2>2. left' \in [TaskNumbers -> 0..Lines]
        BY <2>1, SchedulerAssumption
  <2>3. turns' \in Seq(TaskNumbers) /\ delayed' \in Seq(TaskNumbers)
        BY <2>1, AppendProperties
  <2> QED BY <1>11, <2>2, <2>3 DEF Scheduler!Start
<1>12. CASE Scheduler!Due
  <2>1. PICK i \in DOMAIN delayed :
          /\ delayed' = Scheduler!Without(delayed, i)
          /\ IF style = "threads" /\ main = "left"
             THEN task_misuse' = "scheduler" /\ UNCHANGED ready
             ELSE ready' = Append(ready, delayed[i]) /\ UNCHANGED task_misuse
        BY <1>12 DEF Scheduler!Due
  <2>2. i \in 1..Len(delayed)
        BY LenProperties
  <2>3. delayed[i] \in TaskNumbers
        BY <2>2, ElementOfSeq
  <2>4. delayed' \in Seq(TaskNumbers)
        BY <2>1, <2>2, TimesWithout
  <2>5. ready' \in Seq(TaskNumbers)
    <3>1. Append(ready, delayed[i]) \in Seq(TaskNumbers)
          BY <2>3, AppendProperties
    <3>2. ready' \in {ready, Append(ready, delayed[i])}
          BY <2>1
    <3> QED BY <3>1, <3>2
  <2> QED BY <1>12, <2>1, <2>4, <2>5 DEF Scheduler!Due
<1> QED BY <1>2, <1>3, <1>4, <1>5, <1>6, <1>7, <1>8, <1>9, <1>10, <1>11, <1>12
        DEF Scheduler!Next, Scheduler!Run, Scheduler!Main

\* The actions, one by one.
LEMMA SchedulerSteps ==
  ASSUME Scheduler!Next
  PROVE  \/ Scheduler!Pick \/ Scheduler!PickNext \/ Scheduler!StepAndYield
         \/ Scheduler!StepAndSleep \/ Scheduler!MacroStep
         \/ Scheduler!StepAndArm \/ Scheduler!Finish \/ Scheduler!Stop
         \/ Scheduler!Leave \/ \E c \in TaskNumbers : Scheduler!Start(c)
         \/ Scheduler!Due
BY DEF Scheduler!Next, Scheduler!Run, Scheduler!Main

LEMMA MisuseStep ==
  ASSUME SchedulerTyped, FramesKept, MisuseExplained, Scheduler!Next
  PROVE  MisuseExplained'
<1> USE DEF Scheduler!On
<1>a. NoCoroutine \notin TaskNumbers
      BY SchedulerAssumption
<1>1. CASE Scheduler!Pick
  <2>1. /\ ready # << >> /\ main # "left" /\ ~Scheduler!Vector
        /\ task_misuse = "none"
        /\ task_misuse' = IF task_frame[Head(ready)] = "destroyed" THEN "resume"
                                                                   ELSE "none"
        /\ UNCHANGED <<style, main, started>>
        BY <1>1 DEF Scheduler!Pick
  <2>2. Head(ready) \in TaskNumbers
        BY <2>1, FrontOfQueue
  <2>3. task_misuse' = "resume" => Scheduler!Queued
        BY <2>1, <2>2 DEF FramesKept
  <2>4. ~(style = "threads" /\ started = {})
        BY <2>1 DEF MisuseExplained
  <2> QED BY <2>1, <2>3, <2>4 DEF MisuseExplained, Scheduler!Queued
<1>2. CASE Scheduler!PickNext
      BY <1>2 DEF Scheduler!PickNext, MisuseExplained, Scheduler!Queued,
                  Scheduler!Vector
<1>3. ASSUME Scheduler!Step, NEW q, NEW p, ready' = q, delayed' = p
      PROVE  MisuseExplained'
  <2>1. /\ current # NoCoroutine
        /\ UNCHANGED <<style, started, main, task_misuse>>
        BY <1>3 DEF Scheduler!Step
  <2>2. ~(style = "threads" /\ started = {})
        BY <2>1 DEF MisuseExplained
  <2> QED BY <2>1, <2>2 DEF MisuseExplained, Scheduler!Queued
<1>4. CASE Scheduler!Finish
      BY <1>4 DEF Scheduler!Finish, MisuseExplained, Scheduler!Queued
<1>5. CASE Scheduler!Stop
      BY <1>5 DEF Scheduler!Stop, MisuseExplained, Scheduler!Queued
<1>6. CASE Scheduler!Leave
      BY <1>6 DEF Scheduler!Leave, MisuseExplained, Scheduler!Queued
<1>7. ASSUME NEW c \in TaskNumbers, Scheduler!Start(c) PROVE MisuseExplained'
  <2>1. /\ c \in started /\ style = "threads"
        /\ UNCHANGED <<style, started, main, task_misuse>>
        BY <1>7 DEF Scheduler!Start
  <2> QED BY <2>1 DEF MisuseExplained, Scheduler!Queued
<1>8. CASE Scheduler!Due
  <2>1. PICK i \in DOMAIN delayed :
          \/ style = "threads" /\ main = "left" /\ task_misuse' = "scheduler"
          \/ UNCHANGED task_misuse
        BY <1>8 DEF Scheduler!Due
  <2>2. delayed # << >>
        BY <2>1
  <2>3. ~(style = "threads" /\ started = {})
        BY <2>2 DEF MisuseExplained
  <2>4. UNCHANGED <<style, started, main>>
        BY <1>8 DEF Scheduler!Due
  <2> QED BY <2>1, <2>3, <2>4 DEF MisuseExplained, Scheduler!Queued
<1> QED BY SchedulerSteps, <1>1, <1>2, <1>3, <1>4, <1>5, <1>6, <1>7, <1>8
        DEF Scheduler!StepAndYield, Scheduler!StepAndSleep,
            Scheduler!MacroStep, Scheduler!StepAndArm

LEMMA FramesStep ==
  ASSUME SchedulerTyped, MisuseExplained, FramesKept, Scheduler!Next
  PROVE  FramesKept'
<1> USE DEF Scheduler!On
<1>a. NoCoroutine \notin TaskNumbers
      BY SchedulerAssumption
<1>1. CASE Scheduler!Pick
  <2>1. /\ ready # << >>
        /\ current' = IF task_frame[Head(ready)] = "final" THEN NoCoroutine
                                                           ELSE Head(ready)
        /\ UNCHANGED <<style, main, left, task_frame>>
        BY <1>1 DEF Scheduler!Pick
  <2>2. /\ Head(ready) \in TaskNumbers
        /\ task_frame[Head(ready)] \in {"suspended", "final", "destroyed"}
        BY <2>1, FrontOfQueue DEF SchedulerTyped
  <2> QED BY <2>1, <2>2 DEF FramesKept, Scheduler!Queued
<1>2. CASE Scheduler!PickNext
  <2>1. UNCHANGED <<style, main, left, task_frame>>
        BY <1>2 DEF Scheduler!PickNext
  <2>2. current' # NoCoroutine => task_frame[current'] = "suspended"
    <3>1. CASE style = "rounds"
          BY <1>2, <3>1 DEF Scheduler!PickNext, Scheduler!Pending
    <3>2. CASE style = "priority"
          BY <1>2, <3>2, PickNextIs
    <3> QED BY <1>2, <3>1, <3>2 DEF Scheduler!PickNext, Scheduler!Vector
  <2> QED BY <2>1, <2>2 DEF FramesKept, Scheduler!Queued
<1>3. ASSUME Scheduler!Step PROVE FramesKept'
  <2>1. /\ current # NoCoroutine /\ left[current] > 0
        /\ current' = NoCoroutine
        /\ left' = [left EXCEPT ![current] = left[current] - 1]
        /\ UNCHANGED <<style, task_frame, main>>
        BY <1>3 DEF Scheduler!Step
  <2>2. current \in TaskNumbers
        BY <2>1 DEF SchedulerTyped
  <2>3. ~Scheduler!Queued /\ main # "left" => task_frame[current] = "suspended"
        BY <2>1 DEF FramesKept
  <2>4. \A c \in TaskNumbers : c # current => left'[c] = left[c]
        BY <2>1 DEF SchedulerTyped
  <2> QED BY <2>1, <2>3, <2>4 DEF FramesKept, Scheduler!Queued
<1>4. CASE Scheduler!Finish
  <2>1. /\ current # NoCoroutine /\ left[current] = 0
        /\ current' = NoCoroutine
        /\ task_frame' = [task_frame EXCEPT ![current] =
                            IF Scheduler!Queued THEN "destroyed" ELSE "final"]
        /\ UNCHANGED <<style, left, main>>
        BY <1>4 DEF Scheduler!Finish
  <2> QED BY <2>1 DEF FramesKept, Scheduler!Queued, SchedulerTyped
<1>5. CASE Scheduler!Stop
      BY <1>5 DEF Scheduler!Stop, FramesKept, Scheduler!Queued
<1>6. CASE Scheduler!Leave
      BY <1>6 DEF Scheduler!Leave, FramesKept
<1>7. ASSUME NEW c \in TaskNumbers, Scheduler!Start(c) PROVE FramesKept'
  <2>1. /\ left[c] = Lines
        /\ left' = [left EXCEPT ![c] = left[c] - 1]
        /\ UNCHANGED <<style, task_frame, main, current>>
        BY <1>7 DEF Scheduler!Start
  <2>2. Lines # 0
        BY SchedulerAssumption
  <2>3. ~Scheduler!Queued /\ main # "left" => task_frame[c] # "final"
        BY <2>1, <2>2 DEF FramesKept
  <2>4. \A d \in TaskNumbers : d # c => left'[d] = left[d]
        BY <2>1 DEF SchedulerTyped
  <2> QED BY <2>1, <2>3, <2>4 DEF FramesKept, Scheduler!Queued
<1>8. CASE Scheduler!Due
  <2>1. UNCHANGED <<style, current, left, task_frame, main>>
        BY <1>8 DEF Scheduler!Due
  <2> QED BY <2>1 DEF FramesKept, Scheduler!Queued
<1> QED BY SchedulerSteps, <1>1, <1>2, <1>3, <1>4, <1>5, <1>6, <1>7, <1>8
        DEF Scheduler!StepAndYield, Scheduler!StepAndSleep,
            Scheduler!MacroStep, Scheduler!StepAndArm

\* A line printed by c is a step of c.
LEMMA OneMoreLine ==
  ASSUME SchedulerTyped, LinesCounted, NEW c \in TaskNumbers,
         left' = [left EXCEPT ![c] = left[c] - 1],
         turns' = Append(turns, c)
  PROVE  LinesCounted'
<1> SUFFICES ASSUME NEW d \in TaskNumbers
             PROVE  Scheduler!Times(d, turns') = Lines - left'[d]
    BY DEF LinesCounted, Scheduler!Times
<1>1. Scheduler!Times(d, turns) = Lines - left[d]
      BY DEF LinesCounted
<1>2. Scheduler!Times(d, turns') =
        Scheduler!Times(d, turns) + (IF d = c THEN 1 ELSE 0)
      BY TimesAppend DEF SchedulerTyped
<1>3. left'[d] = left[d] - (IF d = c THEN 1 ELSE 0) /\ left[d] \in Int
      BY DEF SchedulerTyped
<1>4. Lines \in Int
      BY SchedulerAssumption
<1> QED BY <1>1, <1>2, <1>3, <1>4

LEMMA LinesStep ==
  ASSUME SchedulerTyped, LinesCounted, Scheduler!Next
  PROVE  LinesCounted'
<1>1. ASSUME UNCHANGED <<left, turns>> PROVE LinesCounted'
      BY <1>1 DEF LinesCounted, Scheduler!Times
<1>2. ASSUME Scheduler!Step PROVE LinesCounted'
  <2>1. /\ current # NoCoroutine
        /\ left' = [left EXCEPT ![current] = left[current] - 1]
        /\ turns' = Append(turns, current)
        BY <1>2 DEF Scheduler!Step
  <2> QED BY <2>1, OneMoreLine DEF SchedulerTyped
<1>3. ASSUME NEW c \in TaskNumbers, Scheduler!Start(c) PROVE LinesCounted'
      BY <1>3, OneMoreLine DEF Scheduler!Start
<1> QED BY SchedulerSteps, <1>1, <1>2, <1>3
        DEF Scheduler!Pick, Scheduler!PickNext, Scheduler!StepAndYield,
            Scheduler!StepAndSleep, Scheduler!MacroStep, Scheduler!StepAndArm,
            Scheduler!Finish, Scheduler!Stop, Scheduler!Leave, Scheduler!Due

\* A step that only ends the turn of the task that runs.
LEMMA TurnEnds ==
  ASSUME SchedulerTyped, RoundsFair, NEW c \in TaskNumbers, current = c,
         UNCHANGED <<style, ready, delayed>>, current' = NoCoroutine,
         \A d \in TaskNumbers : d # c =>
            left'[d] = left[d] /\ task_frame'[d] = task_frame[d],
         Taken(c)' = Taken(c)
  PROVE  RoundsFair'
<1> SUFFICES ASSUME style = "rounds" PROVE RoundsFair'
    BY DEF RoundsFair
<1>1. ASSUME NEW d \in TaskNumbers PROVE Taken(d)' = Taken(d)
  <2>1. NoCoroutine # d
        BY SchedulerAssumption
  <2>2. CASE d # c
        BY <2>1, <2>2 DEF Taken
  <2> QED BY <2>2
<1>2. \A i \in 1..Len(ready) : ready[i] \in TaskNumbers
      BY ElementOfSeq DEF SchedulerTyped
<1>3. ASSUME NEW i \in 1..Len(ready), NEW j \in 1..Len(ready), i < j
      PROVE  /\ Taken(ready[i])' <= Taken(ready[j])'
             /\ Taken(ready[j])' <= Taken(ready[i])' + 1
  <2>1. /\ Taken(ready[i]) <= Taken(ready[j])
        /\ Taken(ready[j]) <= Taken(ready[i]) + 1
        BY <1>3 DEF RoundsFair
  <2>2. Taken(ready[i])' = Taken(ready[i]) /\ Taken(ready[j])' = Taken(ready[j])
    <3>1. \A d \in TaskNumbers : Taken(d)' = Taken(d)
          BY <1>1
    <3>2. ready' = ready
          OBVIOUS
    <3>3. /\ ready[i] \in TaskNumbers /\ ready[j] \in TaskNumbers
          BY <1>2
    <3> QED BY <3>1, <3>2, <3>3 DEF Taken
  <2> QED BY <2>1, <2>2
<1>4. \A i, j \in 1..Len(ready) : i < j => /\ Taken(ready[i])' <= Taken(ready[j])'
                                           /\ Taken(ready[j])' <= Taken(ready[i])' + 1
      BY <1>3
<1>5. /\ delayed = << >>
      /\ \A d \in TaskNumbers : \E i \in 1..Len(ready) : ready[i] = d
      /\ \A i, j \in 1..Len(ready) : ready[i] = ready[j] => i = j
      BY DEF RoundsFair
<1> QED BY <1>4, <1>5 DEF RoundsFair


\* The sequence r of n entries holds every element of S once, and e does not
\* fall along it, nor rise by more than one.
InTurn(n, S, r, e) ==
  /\ \A i \in 1..n : r[i] \in S
  /\ \A x \in S : \E i \in 1..n : r[i] = x
  /\ \A i, j \in 1..n : r[i] = r[j] => i = j
  /\ \A i, j \in 1..n : i < j => /\ e[r[i]] <= e[r[j]]
                                 /\ e[r[j]] <= e[r[i]] + 1

\* The entry in front goes to the end, and its number grows by one.
Rotated(n, S, r, e, q, f) ==
  /\ \A k \in 1..n - 1 : q[k] = r[k + 1]
  /\ q[n] = r[1]
  /\ \A x \in S : f[x] = e[x] + (IF x = r[1] THEN 1 ELSE 0)

LEMMA Rotation ==
  ASSUME NEW n \in Nat \ {0}, NEW S, NEW r, NEW q,
         NEW e \in [S -> Int], NEW f \in [S -> Int],
         InTurn(n, S, r, e), Rotated(n, S, r, e, q, f)
  PROVE  InTurn(n, S, q, f)
<1>a. /\ \A i \in 1..n : r[i] \in S
      /\ \A c \in S : \E i \in 1..n : r[i] = c
      /\ \A i, j \in 1..n : r[i] = r[j] => i = j
      BY DEF InTurn
<1>b. \A i, j \in 1..n : i < j => /\ e[r[i]] <= e[r[j]]
                                  /\ e[r[j]] <= e[r[i]] + 1
      BY DEF InTurn
<1>c. /\ \A k \in 1..n - 1 : q[k] = r[k + 1]
      /\ q[n] = r[1]
      BY DEF Rotated
<1>d. \A c \in S : f[c] = e[c] + (IF c = r[1] THEN 1 ELSE 0)
      BY DEF Rotated
<1>0. 1 \in 1..n /\ r[1] \in S
      BY <1>a
<1>1. \A k \in 1..n - 1 : q[k] \in S /\ q[k] # r[1]
  <2> SUFFICES ASSUME NEW k \in 1..n - 1 PROVE q[k] \in S /\ q[k] # r[1]
      OBVIOUS
  <2>1. k + 1 \in 1..n /\ k + 1 # 1 /\ q[k] = r[k + 1]
        BY <1>c
  <2>2. r[k + 1] # r[1]
        BY <1>a, <1>0, <2>1
  <2> QED BY <1>a, <2>1, <2>2
<1>2. ASSUME NEW i \in 1..n, NEW j \in 1..n, i < j
      PROVE  f[q[i]] <= f[q[j]] /\ f[q[j]] <= f[q[i]] + 1
  <2>1. /\ i \in 1..n - 1 /\ i + 1 \in 1..n /\ 1 < i + 1
        BY <1>2
  <2>2. q[i] = r[i + 1] /\ q[i] \in S /\ q[i] # r[1]
        BY <1>1, <1>c, <2>1
  <2>3. f[q[i]] = e[q[i]] /\ e[q[i]] \in Int
        BY <1>d, <2>2
  <2>4. CASE j = n
    <3>1. e[r[1]] <= e[r[i + 1]] /\ e[r[i + 1]] <= e[r[1]] + 1
          BY <1>b, <1>0, <2>1
    <3>2. f[r[1]] = e[r[1]] + 1 /\ e[r[1]] \in Int
          BY <1>0, <1>d
    <3>3. f[q[j]] = e[r[1]] + 1
          BY <1>c, <2>4, <3>2
    <3> QED BY <2>2, <2>3, <3>1, <3>2, <3>3
  <2>5. CASE j # n
    <3>1. j \in 1..n - 1 /\ j + 1 \in 1..n /\ i + 1 < j + 1
          BY <1>2, <2>5
    <3>2. q[j] = r[j + 1] /\ q[j] \in S /\ q[j] # r[1]
          BY <1>1, <1>c, <3>1
    <3>3. f[q[j]] = e[q[j]] /\ e[q[j]] \in Int
          BY <1>d, <3>2
    <3>4. e[r[i + 1]] <= e[r[j + 1]] /\ e[r[j + 1]] <= e[r[i + 1]] + 1
          BY <1>b, <2>1, <3>1
    <3> QED BY <2>2, <2>3, <3>2, <3>3, <3>4
  <2> QED BY <2>4, <2>5
<1>3. ASSUME NEW c \in S PROVE \E k \in 1..n : q[k] = c
  <2>1. PICK i \in 1..n : r[i] = c
        BY <1>a
  <2>2. CASE i = 1
        BY <1>c, <2>1, <2>2
  <2>3. CASE i # 1
    <3>1. i - 1 \in 1..n - 1 /\ i - 1 \in 1..n /\ (i - 1) + 1 = i
          BY <2>3
    <3>2. q[i - 1] = r[i]
          BY <1>c, <3>1
    <3> QED BY <2>1, <3>1, <3>2
  <2> QED BY <2>2, <2>3
<1>4. ASSUME NEW i \in 1..n, NEW j \in 1..n, q[i] = q[j] PROVE i = j
  <2>a. ASSUME NEW k \in 1..n, q[k] = r[1] PROVE k = n
    <3>1. k # n => k \in 1..n - 1
          OBVIOUS
    <3> QED BY <1>1, <2>a, <3>1
  <2>1. CASE i = n \/ j = n
        BY <1>4, <1>c, <2>1, <2>a
  <2>2. CASE i # n /\ j # n
    <3>1. /\ i \in 1..n - 1 /\ i + 1 \in 1..n
          /\ j \in 1..n - 1 /\ j + 1 \in 1..n
          BY <2>2
    <3>2. r[i + 1] = r[j + 1]
          BY <1>4, <1>c, <3>1
    <3>3. i + 1 = j + 1
          BY <1>a, <3>1, <3>2
    <3> QED BY <3>3
  <2> QED BY <2>1, <2>2
<1>5. \A i \in 1..n : q[i] \in S
  <2> SUFFICES ASSUME NEW i \in 1..n PROVE q[i] \in S
      OBVIOUS
  <2>1. i \in 1..n - 1 \/ i = n
        OBVIOUS
  <2> QED BY <1>0, <1>1, <1>c, <2>1
<1> QED BY <1>2, <1>3, <1>4, <1>5 DEF InTurn

\* The round comes to the task in front, which is not over as long as any task
\* is not, and goes to the end.
LEMMA RoundMoves ==
  ASSUME SchedulerTyped, MisuseExplained, FramesKept, RoundsFair,
         style = "rounds", Scheduler!PickNext
  PROVE  RoundsFair'
<1> DEFINE n == Len(ready)
           h == ready[1]
           q == Append(Tail(ready), h)
<1>1. /\ \A c \in TaskNumbers : \E i \in 1..n : ready[i] = c
      /\ \A i, j \in 1..n : ready[i] = ready[j] => i = j
      /\ \A i, j \in 1..n : i < j => /\ Taken(ready[i]) <= Taken(ready[j])
                                     /\ Taken(ready[j]) <= Taken(ready[i]) + 1
      BY DEF RoundsFair
<1>2. /\ n \in Nat /\ \A i \in 1..n : ready[i] \in TaskNumbers
      BY ElementOfSeq, LenProperties DEF SchedulerTyped
<1>3. PICK c \in TaskNumbers : Scheduler!Pending(c)
      BY DEF Scheduler!PickNext
<1>4. ready # << >> /\ n > 0
  <2>1. 1..n # {}
        BY <1>1
  <2> QED BY <1>2, <2>1, EmptySeq
<1>5. h = Head(ready) /\ h \in TaskNumbers
      BY <1>2, <1>4
<1>6. /\ Tail(ready) \in Seq(TaskNumbers) /\ Len(Tail(ready)) = n - 1
      /\ \A k \in 1..n - 1 : Tail(ready)[k] = ready[k + 1]
      BY <1>4, HeadTailProperties DEF SchedulerTyped
<1>7. /\ q \in Seq(TaskNumbers) /\ Len(q) = n
      /\ \A k \in 1..n - 1 : q[k] = ready[k + 1]
      /\ q[n] = h
  <2>1. /\ q \in Seq(TaskNumbers) /\ Len(q) = Len(Tail(ready)) + 1
        /\ \A k \in 1..Len(Tail(ready)) : q[k] = Tail(ready)[k]
        /\ q[Len(Tail(ready)) + 1] = h
        BY <1>5, <1>6, AppendProperties
  <2> HIDE DEF q, h, n
  <2> QED BY <1>2, <1>6, <2>1
<1>8. /\ ready' = q /\ current = NoCoroutine
      /\ current' = IF Scheduler!Pending(h) THEN h ELSE NoCoroutine
      /\ UNCHANGED <<style, delayed, left, task_frame>>
      BY <1>5 DEF Scheduler!PickNext
<1>a. NoCoroutine \notin TaskNumbers /\ Lines \in Int
      BY SchedulerAssumption
<1>b. \A d \in TaskNumbers : left[d] \in Int /\ left[d] >= 0
      BY DEF SchedulerTyped
<1> HIDE DEF n, h, q
<1>9. Scheduler!Pending(h)
  <2> SUFFICES ASSUME ~Scheduler!Pending(h) PROVE FALSE
      OBVIOUS
  <2>1. task_frame[h] = "final" /\ left[h] = 0
    <3>1. ~Scheduler!Queued /\ main = "runs"
          BY DEF MisuseExplained, Scheduler!Queued
    <3>2. task_frame[h] \in {"suspended", "final", "destroyed"}
          BY <1>5 DEF SchedulerTyped
    <3> QED BY <1>5, <3>1, <3>2 DEF FramesKept, Scheduler!Pending
  <2>2. Taken(h) >= Lines + 1
        BY <1>5, <1>8, <1>a, <2>1 DEF Taken
  <2>3. Taken(c) <= Lines
        BY <1>3, <1>8, <1>a, <1>b DEF Taken, Scheduler!Pending
  <2>4. PICK i \in 1..n : ready[i] = c
        BY <1>1
  <2>5. c # h
        BY <1>3
  <2>6. i # 1
        BY <2>4, <2>5 DEF h
  <2>7. 1 \in 1..n /\ 1 < i
        BY <1>2, <1>4, <2>6
  <2>8. Taken(h) <= Taken(c)
        BY <1>1, <2>4, <2>7 DEF h
  <2>9. Taken(h) \in Int /\ Taken(c) \in Int
        BY <1>5, <1>a, <1>b DEF Taken
  <2> QED BY <1>a, <2>2, <2>3, <2>8, <2>9
<1>10. \A d \in TaskNumbers :
         /\ Taken(d) \in Int
         /\ Taken(d)' = Taken(d) + (IF d = h THEN 1 ELSE 0)
  <2> SUFFICES ASSUME NEW d \in TaskNumbers
               PROVE  /\ Taken(d) \in Int
                      /\ Taken(d)' = Taken(d) + (IF d = h THEN 1 ELSE 0)
      OBVIOUS
  <2>1. Taken(d) \in Int
        BY <1>a, <1>b DEF Taken
  <2>2. current # d /\ current' = h
        BY <1>8, <1>9, <1>a
  <2> QED BY <1>8, <1>a, <1>b, <2>1, <2>2 DEF Taken
<1> DEFINE e == [d \in TaskNumbers |-> Taken(d)]
           f == [d \in TaskNumbers |-> Taken(d) + (IF d = h THEN 1 ELSE 0)]
<1>11. /\ e \in [TaskNumbers -> Int] /\ f \in [TaskNumbers -> Int]
       /\ \A d \in TaskNumbers : e[d] = Taken(d)
       /\ \A d \in TaskNumbers : f[d] = e[d] + (IF d = h THEN 1 ELSE 0)
      BY <1>10
<1>12. \A d \in TaskNumbers : Taken(d)' = f[d]
      BY <1>10, <1>11
<1> HIDE DEF e, f
<1>13. InTurn(n, TaskNumbers, ready, e)
  <2>1. \A i, j \in 1..n : i < j => /\ e[ready[i]] <= e[ready[j]]
                                    /\ e[ready[j]] <= e[ready[i]] + 1
        BY <1>1, <1>2, <1>11
  <2> QED BY <1>1, <1>2, <2>1 DEF InTurn
<1>14. InTurn(n, TaskNumbers, q, f)
  <2>1. n \in Nat \ {0} /\ h = ready[1]
        BY <1>2, <1>4 DEF h
  <2>2. Rotated(n, TaskNumbers, ready, e, q, f)
        BY <1>7, <1>11, <2>1 DEF Rotated
  <2> QED BY <1>11, <1>13, <2>1, <2>2, Rotation
<1>15. delayed' = << >> /\ Len(ready') = n
      BY <1>7, <1>8 DEF RoundsFair
<1>16. current' = ready'[n]
      BY <1>7, <1>8, <1>9
<1>17. \A i \in 1..n : ready'[i] \in TaskNumbers
      BY <1>7, <1>8, ElementOfSeq
<1>18. ASSUME NEW i \in 1..n, NEW j \in 1..n, i < j
       PROVE  /\ Taken(ready[i])' <= Taken(ready[j])'
              /\ Taken(ready[j])' <= Taken(ready[i])' + 1
  <2>1. Taken(ready[i])' = f[ready'[i]] /\ Taken(ready[j])' = f[ready'[j]]
        BY <1>12, <1>17 DEF Taken
  <2>2. f[ready'[i]] <= f[ready'[j]] /\ f[ready'[j]] <= f[ready'[i]] + 1
        BY <1>8, <1>14, <1>18 DEF InTurn
  <2> QED BY <2>1, <2>2
<1>19. /\ \A d \in TaskNumbers : \E k \in 1..n : ready'[k] = d
       /\ \A i, j \in 1..n : ready'[i] = ready'[j] => i = j
      BY <1>8, <1>14 DEF InTurn
<1> QED BY <1>15, <1>16, <1>18, <1>19 DEF RoundsFair

LEMMA RoundsStep ==
  ASSUME SchedulerTyped, MisuseExplained, FramesKept, RoundsFair,
         Scheduler!Next
  PROVE  RoundsFair'
<1>1. style' = style
      BY SchedulerSteps
      DEF Scheduler!Pick, Scheduler!PickNext, Scheduler!StepAndYield,
          Scheduler!StepAndSleep, Scheduler!MacroStep, Scheduler!StepAndArm,
          Scheduler!Step, Scheduler!Finish, Scheduler!Stop, Scheduler!Leave,
          Scheduler!Start, Scheduler!Due
<1> SUFFICES ASSUME style = "rounds" PROVE RoundsFair'
    BY <1>1 DEF RoundsFair
<1>2. CASE Scheduler!PickNext
      BY <1>2, RoundMoves
<1>3. CASE Scheduler!MacroStep
  <2>1. Scheduler!Step /\ UNCHANGED <<ready, delayed>>
        BY <1>3 DEF Scheduler!MacroStep
  <2>2. /\ current # NoCoroutine /\ left[current] > 0 /\ current' = NoCoroutine
        /\ left' = [left EXCEPT ![current] = left[current] - 1]
        /\ UNCHANGED <<style, task_frame>>
        BY <2>1 DEF Scheduler!Step
  <2>3. current \in TaskNumbers /\ current' # current
        BY <2>2 DEF SchedulerTyped
  <2>4. PICK c \in TaskNumbers : c = current
        BY <2>3
  <2>5. \A d \in TaskNumbers : d # c =>
            left'[d] = left[d] /\ task_frame'[d] = task_frame[d]
        BY <2>2, <2>4 DEF SchedulerTyped
  <2>6. Taken(c)' = Taken(c)
    <3>1. left'[c] = left[c] - 1 /\ left[c] \in Int /\ task_frame'[c] = task_frame[c]
          BY <2>2, <2>4 DEF SchedulerTyped
    <3>2. current = c /\ current' # c /\ Lines \in Int
          BY <2>3, <2>4, SchedulerAssumption
    <3> QED BY <3>1, <3>2 DEF Taken
  <2> QED BY <2>1, <2>2, <2>4, <2>5, <2>6, TurnEnds
<1>4. CASE Scheduler!Finish
  <2>1. /\ current # NoCoroutine /\ current' = NoCoroutine /\ main # "left"
        /\ task_frame' = [task_frame EXCEPT ![current] =
                            IF Scheduler!Queued THEN "destroyed" ELSE "final"]
        /\ UNCHANGED <<style, ready, delayed, left>>
        BY <1>4 DEF Scheduler!Finish, Scheduler!On
  <2>2. ~Scheduler!Queued
        BY DEF Scheduler!Queued
  <2>3. current \in TaskNumbers /\ current' # current
        BY <2>1 DEF SchedulerTyped
  <2>4. PICK c \in TaskNumbers : c = current
        BY <2>3
  <2>5. \A d \in TaskNumbers : d # c =>
            left'[d] = left[d] /\ task_frame'[d] = task_frame[d]
        BY <2>1, <2>4 DEF SchedulerTyped
  <2>6. Taken(c)' = Taken(c)
    <3>1. task_frame'[c] = "final" /\ task_frame[c] = "suspended"
          BY <2>1, <2>2, <2>4 DEF SchedulerTyped, FramesKept
    <3>2. left'[c] = left[c] /\ left[c] \in Int
          BY <2>1 DEF SchedulerTyped
    <3>3. current = c /\ current' # c /\ Lines \in Int
          BY <2>3, <2>4, SchedulerAssumption
    <3> QED BY <3>1, <3>2, <3>3 DEF Taken
  <2> QED BY <2>1, <2>4, <2>5, <2>6, TurnEnds
<1>5. delayed = << >> /\ ~Scheduler!Due
  <2>1. delayed = << >>
        BY DEF RoundsFair
  <2>2. DOMAIN delayed = {}
        BY <2>1
  <2> QED BY <2>1, <2>2 DEF Scheduler!Due
<1>6. main = "runs" /\ Scheduler!Vector
      BY DEF MisuseExplained, Scheduler!Vector
<1> QED BY SchedulerSteps, <1>2, <1>3, <1>4, <1>5, <1>6
        DEF Scheduler!Pick, Scheduler!StepAndYield, Scheduler!StepAndSleep,
            Scheduler!StepAndArm, Scheduler!Stop, Scheduler!Leave,
            Scheduler!Start

LEMMA PriorityStep ==
  ASSUME SchedulerTyped, MisuseExplained, FramesKept, PriorityKept,
         Scheduler!Next
  PROVE  PriorityKept'
<1>1. style' = style
      BY SchedulerSteps
      DEF Scheduler!Pick, Scheduler!PickNext, Scheduler!StepAndYield,
          Scheduler!StepAndSleep, Scheduler!MacroStep, Scheduler!StepAndArm,
          Scheduler!Step, Scheduler!Finish, Scheduler!Stop, Scheduler!Leave,
          Scheduler!Start, Scheduler!Due
<1> SUFFICES ASSUME style = "priority",
                    NEW c \in TaskNumbers, NEW d \in TaskNumbers,
                    c > d, left'[d] < Lines \/ current' = d
             PROVE  task_frame'[c] = "final"
    BY <1>1 DEF PriorityKept
<1>2. left[d] < Lines \/ current = d => task_frame[c] = "final"
      BY DEF PriorityKept
<1>3. NoCoroutine \notin TaskNumbers
      BY SchedulerAssumption
<1>4. CASE Scheduler!PickNext
  <2>1. left' = left /\ task_frame' = task_frame
        BY <1>4 DEF Scheduler!PickNext
  <2>2. CASE current' = d
    <3>1. task_frame[c] = "suspended" => c <= d
          BY <1>4, <2>2, PickNextIs
    <3>2. c \in Int /\ d \in Int
          BY TasksAre
    <3>3. task_frame[c] # "suspended"
          BY <3>1, <3>2
    <3>4. ~Scheduler!Queued /\ main # "left"
          BY DEF MisuseExplained, Scheduler!Queued
    <3> QED BY <2>1, <3>3, <3>4 DEF FramesKept, SchedulerTyped
  <2> QED BY <1>2, <2>1, <2>2
<1>5. CASE Scheduler!MacroStep
  <2>1. /\ current # NoCoroutine /\ current' = NoCoroutine
        /\ left' = [left EXCEPT ![current] = left[current] - 1]
        /\ UNCHANGED task_frame
        BY <1>5 DEF Scheduler!MacroStep, Scheduler!Step
  <2>2. current # d => left'[d] = left[d]
        BY <2>1 DEF SchedulerTyped
  <2>3. current' # d
        BY <1>3, <2>1
  <2> QED BY <1>2, <2>1, <2>2, <2>3
<1>6. CASE Scheduler!Finish
  <2>1. /\ current' = NoCoroutine /\ left' = left
        /\ task_frame' = [task_frame EXCEPT ![current] =
                            IF Scheduler!Queued THEN "destroyed" ELSE "final"]
        BY <1>6 DEF Scheduler!Finish
  <2>2. ~Scheduler!Queued /\ current' # d
        BY <1>3, <2>1 DEF Scheduler!Queued
  <2>3. task_frame[c] = "final"
        BY <1>2, <2>1, <2>2
  <2> QED BY <2>1, <2>2, <2>3 DEF SchedulerTyped
<1>7. CASE Scheduler!Due
      BY <1>2, <1>7 DEF Scheduler!Due
<1>8. main = "runs" /\ Scheduler!Vector
      BY DEF MisuseExplained, Scheduler!Vector
<1> QED BY SchedulerSteps, <1>4, <1>5, <1>6, <1>7, <1>8
        DEF Scheduler!Pick, Scheduler!StepAndYield, Scheduler!StepAndSleep,
            Scheduler!StepAndArm, Scheduler!Stop, Scheduler!Leave,
            Scheduler!Start

\* How often the scheduler holds c, and how often it should.
Held(c) == Scheduler!Times(c, ready) + Scheduler!Times(c, delayed)
             + (IF current = c THEN 1 ELSE 0)
Owed(c) == IF left[c] < Lines /\ task_frame[c] = "suspended" THEN 1 ELSE 0

LEMMA HeldNat ==
  ASSUME SchedulerTyped, NEW c
  PROVE  Scheduler!Times(c, ready) \in Nat /\ Scheduler!Times(c, delayed) \in Nat
BY TimesNat DEF SchedulerTyped

LEMMA HeldStep ==
  ASSUME SchedulerTyped, MisuseExplained, FramesKept, HeldOnce, Scheduler!Next
  PROVE  HeldOnce'
<1>1. style' = style /\ (main = "left" => main' = "left")
      BY SchedulerSteps
      DEF Scheduler!Pick, Scheduler!PickNext, Scheduler!StepAndYield,
          Scheduler!StepAndSleep, Scheduler!MacroStep, Scheduler!StepAndArm,
          Scheduler!Step, Scheduler!Finish, Scheduler!Stop, Scheduler!Leave,
          Scheduler!Start, Scheduler!Due
<1> SUFFICES ASSUME style = "threads", main # "left", main' # "left",
                    NEW c \in TaskNumbers
             PROVE  Held(c)' = Owed(c)'
    BY <1>1 DEF HeldOnce, Held, Owed
<1>2. /\ Held(c) = Owed(c)
      /\ \A d \in TaskNumbers : Held(d) = Owed(d)
      BY DEF HeldOnce, Held, Owed
<1>3. /\ \A d \in TaskNumbers : task_frame[d] # "destroyed"
      /\ \A d \in TaskNumbers : task_frame[d] = "final" => left[d] = 0
      /\ current # NoCoroutine => task_frame[current] = "suspended"
      BY DEF FramesKept, Scheduler!Queued
<1>4. NoCoroutine \notin TaskNumbers /\ Lines \in Nat \ {0}
      BY SchedulerAssumption
<1>5. /\ Scheduler!Times(c, ready) \in Nat /\ Scheduler!Times(c, delayed) \in Nat
      BY HeldNat
<1>6. /\ left[c] \in Nat
      /\ \A d \in TaskNumbers : d = c \/ d # c
      BY DEF SchedulerTyped
<1>7. CASE Scheduler!Pick
  <2>1. /\ ready # << >> /\ current = NoCoroutine /\ ready' = Tail(ready)
        /\ current' = IF task_frame[Head(ready)] = "final" THEN NoCoroutine
                                                           ELSE Head(ready)
        /\ UNCHANGED <<delayed, left, task_frame>>
        BY <1>7 DEF Scheduler!Pick
  <2>2. PICK h \in TaskNumbers : h = Head(ready)
        BY <2>1, FrontOfQueue
  <2>3. task_frame[h] = "suspended"
    <3>1. /\ Scheduler!Times(h, ready) \in Nat
          /\ Scheduler!Times(h, delayed) \in Nat
          /\ Scheduler!Times(h, ready) > 0
          BY <2>1, <2>2, FrontOfQueue, HeldNat
    <3>2. Held(h) > 0
          BY <3>1 DEF Held
    <3>3. Owed(h) > 0
          BY <1>2, <3>2
    <3> QED BY <3>3 DEF Owed
  <2>4. current' = h
        BY <2>1, <2>2, <2>3
  <2>5. Scheduler!Times(c, Tail(ready)) =
          Scheduler!Times(c, ready) - (IF c = h THEN 1 ELSE 0)
        BY <2>1, <2>2, TimesTail DEF SchedulerTyped
  <2>6. Held(c) = Scheduler!Times(c, ready) + Scheduler!Times(c, delayed)
        BY <1>4, <1>5, <2>1 DEF Held
  <2>7. Held(c)' = Scheduler!Times(c, Tail(ready)) + Scheduler!Times(c, delayed)
                     + (IF h = c THEN 1 ELSE 0)
        BY <2>1, <2>4 DEF Held
  <2>8. Held(c)' = Held(c)
        BY <1>5, <2>5, <2>6, <2>7
  <2> QED BY <1>2, <2>1, <2>8 DEF Owed
<1>8. CASE Scheduler!StepAndArm
  <2>1. /\ current # NoCoroutine /\ left[current] > 0 /\ current' = NoCoroutine
        /\ left' = [left EXCEPT ![current] = left[current] - 1]
        /\ ready' = ready /\ task_frame' = task_frame
        /\ delayed' = Append(delayed, current)
        BY <1>8 DEF Scheduler!StepAndArm, Scheduler!Step
  <2>2. PICK h \in TaskNumbers : h = current
        BY <2>1 DEF SchedulerTyped
  <2>3. Scheduler!Times(c, Append(delayed, h)) =
          Scheduler!Times(c, delayed) + (IF c = h THEN 1 ELSE 0)
        BY TimesAppend DEF SchedulerTyped
  <2>4. Held(c)' = Scheduler!Times(c, ready) + Scheduler!Times(c, Append(delayed, h))
        BY <1>4, <1>5, <2>1, <2>2, <2>3 DEF Held
  <2>5. Held(c) = Scheduler!Times(c, ready) + Scheduler!Times(c, delayed)
                    + (IF h = c THEN 1 ELSE 0)
        BY <2>2 DEF Held
  <2>6. Held(c)' = Held(c)
        BY <1>5, <2>3, <2>4, <2>5
  <2>7. Owed(c)' = Owed(c)
    <3>1. CASE c = h
      <4>1. /\ task_frame[c] = "suspended" /\ left'[c] = left[c] - 1
            /\ left[c] > 0 /\ left[c] <= Lines
            BY <1>3, <2>1, <2>2, <3>1 DEF SchedulerTyped
      <4>2. Held(c) >= 1
            BY <1>5, <2>5, <3>1
      <4>3. Owed(c) = 1
            BY <1>2, <4>2 DEF Owed
      <4>4. left'[c] < Lines
            BY <1>4, <1>6, <4>1
      <4> QED BY <2>1, <4>1, <4>3, <4>4 DEF Owed
    <3>2. CASE c # h
      <4>1. left'[c] = left[c]
            BY <2>1, <2>2, <3>2 DEF SchedulerTyped
      <4> QED BY <2>1, <4>1 DEF Owed
    <3> QED BY <3>1, <3>2
  <2> QED BY <1>2, <2>6, <2>7
<1>9. CASE Scheduler!Finish
  <2>1. /\ current # NoCoroutine /\ current' = NoCoroutine
        /\ left[current] = 0
        /\ task_frame' = [task_frame EXCEPT ![current] =
                            IF Scheduler!Queued THEN "destroyed" ELSE "final"]
        /\ ready' = ready /\ delayed' = delayed /\ left' = left
        BY <1>9 DEF Scheduler!Finish
  <2>2. PICK h \in TaskNumbers : h = current
        BY <2>1 DEF SchedulerTyped
  <2>3. Held(c)' = Scheduler!Times(c, ready) + Scheduler!Times(c, delayed)
        BY <1>4, <1>5, <2>1 DEF Held
  <2>4. Held(c) = Scheduler!Times(c, ready) + Scheduler!Times(c, delayed)
                    + (IF h = c THEN 1 ELSE 0)
        BY <2>2 DEF Held
  <2>5. CASE c = h
    <3>1. task_frame'[c] = "final"
          BY <2>1, <2>2, <2>5 DEF SchedulerTyped, Scheduler!Queued
    <3>2. Owed(c)' = 0
          BY <3>1 DEF Owed
    <3>3. task_frame[c] = "suspended" /\ left[c] < Lines
          BY <1>3, <1>4, <2>1, <2>2, <2>5
    <3>4. Owed(c) = 1
          BY <3>3 DEF Owed
    <3> QED BY <1>2, <1>5, <2>3, <2>4, <2>5, <3>2, <3>4
  <2>6. CASE c # h
    <3>1. task_frame'[c] = task_frame[c]
          BY <2>1, <2>2, <2>6 DEF SchedulerTyped
    <3>2. Owed(c)' = Owed(c)
          BY <2>1, <3>1 DEF Owed
    <3> QED BY <1>2, <1>5, <2>3, <2>4, <2>6, <3>2
  <2> QED BY <2>5, <2>6
<1>10. CASE Scheduler!Stop
  <2>1. UNCHANGED <<ready, delayed, current, left, task_frame>>
        BY <1>10 DEF Scheduler!Stop
  <2> QED BY <1>2, <2>1 DEF Held, Owed
<1>11. CASE Scheduler!Leave
       BY <1>11 DEF Scheduler!Leave
<1>12. ASSUME NEW h \in TaskNumbers, Scheduler!Start(h)
       PROVE  Held(c)' = Owed(c)'
  <2>1. /\ left[h] = Lines /\ left' = [left EXCEPT ![h] = left[h] - 1]
        /\ delayed' = Append(delayed, h)
        /\ ready' = ready /\ current' = current /\ task_frame' = task_frame
        BY <1>12 DEF Scheduler!Start
  <2>2. Scheduler!Times(c, Append(delayed, h)) =
          Scheduler!Times(c, delayed) + (IF c = h THEN 1 ELSE 0)
        BY TimesAppend DEF SchedulerTyped
  <2>3. Held(c)' = Scheduler!Times(c, ready) + Scheduler!Times(c, Append(delayed, h))
                     + (IF current = c THEN 1 ELSE 0)
        BY <2>1 DEF Held
  <2>4. Held(c)' = Held(c) + (IF c = h THEN 1 ELSE 0)
    <3> DEFINE a == Scheduler!Times(c, ready)
               b == Scheduler!Times(c, delayed)
               d == Scheduler!Times(c, Append(delayed, h))
               e == IF current = c THEN 1 ELSE 0
               z == IF c = h THEN 1 ELSE 0
    <3>1. Held(c) = a + b + e /\ Held(c)' = a + d + e /\ d = b + z
          BY <2>2, <2>3 DEF Held
    <3>2. a \in Nat /\ b \in Nat /\ e \in Nat /\ z \in Nat
          BY <1>5
    <3> HIDE DEF a, b, d, e, z
    <3>3. Held(c)' = Held(c) + z
          BY <3>1, <3>2
    <3> QED BY <3>3 DEF z
  <2>5. CASE c = h
    <3>1. Owed(c) = 0
          BY <1>4, <2>1, <2>5 DEF Owed
    <3>2. task_frame[c] = "suspended" /\ left'[c] = Lines - 1
          BY <1>3, <1>4, <2>1, <2>5 DEF SchedulerTyped
    <3>3. Owed(c)' = 1
          BY <1>4, <2>1, <3>2 DEF Owed
    <3> QED BY <1>2, <2>4, <2>5, <3>1, <3>3
  <2>6. CASE c # h
    <3>1. left'[c] = left[c]
          BY <2>1, <2>6 DEF SchedulerTyped
    <3>2. Owed(c)' = Owed(c) /\ Owed(c) \in Nat
          BY <2>1, <3>1 DEF Owed
    <3> QED BY <1>2, <2>4, <2>6, <3>2
  <2> QED BY <2>5, <2>6
<1>13. CASE Scheduler!Due
  <2>1. PICK i \in DOMAIN delayed :
          /\ delayed' = Scheduler!Without(delayed, i)
          /\ ready' = Append(ready, delayed[i])
        BY <1>13 DEF Scheduler!Due
  <2>2. UNCHANGED <<current, left, task_frame>>
        BY <1>13 DEF Scheduler!Due
  <2>3. i \in 1..Len(delayed) /\ delayed[i] \in TaskNumbers
        BY LenProperties, ElementOfSeq DEF SchedulerTyped
  <2>4. PICK h \in TaskNumbers : h = delayed[i]
        BY <2>3
  <2> DEFINE a == Scheduler!Times(c, ready)
             b == Scheduler!Times(c, delayed)
             a1 == Scheduler!Times(c, Append(ready, h))
             b1 == Scheduler!Times(c, Scheduler!Without(delayed, i))
             e == IF current = c THEN 1 ELSE 0
             z == IF c = h THEN 1 ELSE 0
  <2>5. a1 = a + z
        BY TimesAppend DEF SchedulerTyped
  <2>6. b1 = b - z
        BY <2>3, <2>4, TimesWithout DEF SchedulerTyped
  <2>7. Held(c) = a + b + e
        BY DEF Held
  <2>8. Held(c)' = a1 + b1 + e
        BY <2>1, <2>2, <2>4 DEF Held
  <2>9. a \in Nat /\ b \in Nat /\ e \in Nat /\ z \in Nat
        BY <1>5
  <2> HIDE DEF a, b, a1, b1, e, z
  <2>10. Held(c)' = Held(c)
        BY <2>5, <2>6, <2>7, <2>8, <2>9
  <2> QED BY <1>2, <2>2, <2>10 DEF Owed
<1> QED BY SchedulerSteps, <1>7, <1>8, <1>9, <1>10, <1>11, <1>12, <1>13
        DEF Scheduler!PickNext, Scheduler!StepAndYield, Scheduler!StepAndSleep,
            Scheduler!MacroStep, Scheduler!Vector

LEMMA SchedulerStep == SchedulerInv /\ [Next]_vars => SchedulerInv'
<1> SUFFICES ASSUME SchedulerInv, [Next]_vars PROVE SchedulerInv'
    OBVIOUS
<1>1. CASE Scheduler!Next
  <2>1. SchedulerTyped' /\ MisuseExplained' /\ FramesKept'
        BY <1>1, TypedStep, MisuseStep, FramesStep DEF SchedulerInv
  <2>2. LinesCounted' /\ RoundsFair'
        BY <1>1, LinesStep, RoundsStep DEF SchedulerInv
  <2>3. PriorityKept' /\ HeldOnce'
        BY <1>1, PriorityStep, HeldStep DEF SchedulerInv
  <2> QED BY <2>1, <2>2, <2>3 DEF SchedulerInv
<1>2. CASE UNCHANGED schedulerVars
  <2>1. SchedulerTyped' /\ MisuseExplained' /\ FramesKept'
        BY <1>2 DEF SchedulerInv, SchedulerTyped, MisuseExplained, FramesKept,
                    Scheduler!Queued, schedulerVars
  <2>2. LinesCounted' /\ PriorityKept' /\ HeldOnce'
        BY <1>2 DEF SchedulerInv, LinesCounted, PriorityKept, HeldOnce,
                    schedulerVars
  <2>3. RoundsFair'
        BY <1>2 DEF SchedulerInv, RoundsFair, Taken, schedulerVars
  <2> QED BY <2>1, <2>2, <2>3 DEF SchedulerInv
<1> QED BY <1>1, <1>2 DEF Next, RunFrames, RunScheduler, vars

-----------------------------------------------------------------------------
\* What the invariant says of the order of the lines.

\* A number of lines and at most two more.
LEMMA AtMostTwoMore ==
  ASSUME NEW n \in Int, NEW a \in 0..1, NEW b \in 0..1
  PROVE  n + a + b \in Int /\ n <= n + a + b
  OBVIOUS

LEMMA TakenCounts ==
  ASSUME NEW x, Lines - left[x] \in Int
  PROVE  Taken(x) \in Int /\ Lines - left[x] <= Taken(x)
<1>1. (IF task_frame[x] = "final" THEN 1 ELSE 0) \in 0..1
      OBVIOUS
<1>2. (IF current = x THEN 1 ELSE 0) \in 0..1
      OBVIOUS
<1> DEFINE n == Lines - left[x]
           a == IF task_frame[x] = "final" THEN 1 ELSE 0
           b == IF current = x THEN 1 ELSE 0
<1>3. Taken(x) = n + a + b
      BY DEF Taken
<1>4. n \in Int /\ a \in 0..1 /\ b \in 0..1
      BY <1>1, <1>2
<1> HIDE DEF n, a, b
<1>5. n + a + b \in Int /\ n <= n + a + b
      BY <1>4, AtMostTwoMore
<1> QED BY <1>3, <1>5 DEF n

\* The rounds are fair: nobody is a whole line ahead.
LEMMA RoundsTakeTurns ==
  ASSUME SchedulerInv, style = "rounds", NEW c \in TaskNumbers,
         NEW d \in TaskNumbers
  PROVE  Lines - left[c] <= (Lines - left[d]) + 1
<1>1. /\ \A x \in TaskNumbers : \E i \in 1..Len(ready) : ready[i] = x
      /\ \A i, j \in 1..Len(ready) :
           i < j => /\ Taken(ready[i]) <= Taken(ready[j])
                    /\ Taken(ready[j]) <= Taken(ready[i]) + 1
      /\ current # NoCoroutine => current = ready[Len(ready)]
      BY DEF SchedulerInv, RoundsFair
<1>2. /\ left[c] \in 0..Lines /\ left[d] \in 0..Lines
      /\ Lines \in Nat /\ Len(ready) \in Nat /\ NoCoroutine # d
      BY SchedulerAssumption, LenProperties DEF SchedulerInv, SchedulerTyped
<1>3. PICK i \in 1..Len(ready) : ready[i] = c
      BY <1>1
<1>4. PICK j \in 1..Len(ready) : ready[j] = d
      BY <1>1
<1>5. Taken(c) \in Int /\ Taken(d) \in Int /\ Lines - left[c] <= Taken(c)
  <2>1. Lines - left[c] \in Int /\ Lines - left[d] \in Int
        BY <1>2
  <2> QED BY <2>1, TakenCounts
<1>6. i = j \/ i < j \/ j < i
      BY <1>2
<1>7. Taken(c) <= Taken(d) + 1
      BY <1>1, <1>3, <1>4, <1>5, <1>6
<1>8. CASE task_frame[d] = "final"
  <2>1. left[d] = 0
        BY <1>8 DEF SchedulerInv, FramesKept, MisuseExplained, Scheduler!Queued
  <2> QED BY <1>2, <2>1
<1>9. CASE task_frame[d] # "final" /\ current # d
  <2>1. Taken(d) = Lines - left[d]
        BY <1>2, <1>9 DEF Taken
  <2> QED BY <1>2, <1>5, <1>7, <2>1
<1>10. CASE task_frame[d] # "final" /\ current = d
  <2>1. Taken(d) = (Lines - left[d]) + 1
        BY <1>2, <1>10 DEF Taken
  <2>2. d = ready[Len(ready)] /\ Len(ready) \in 1..Len(ready)
        BY <1>1, <1>2, <1>3, <1>10
  <2>3. i < Len(ready) => Taken(c) <= Taken(d)
        BY <1>1, <1>3, <2>2
  <2>4. i = Len(ready) => Taken(c) = Taken(d)
        BY <1>3, <2>2
  <2> QED BY <1>2, <1>3, <1>5, <2>1, <2>3, <2>4
<1> QED BY <1>8, <1>9, <1>10

LEMMA SchedulerMeans == SchedulerInv => SchedulersSafe
<1> SUFFICES ASSUME SchedulerInv PROVE SchedulersSafe
    OBVIOUS
<1>1. SchedulerTyped /\ MisuseExplained /\ FramesKept /\ LinesCounted
      BY DEF SchedulerInv
<1>2. Scheduler!TypeOK
  <2>1. \A i \in DOMAIN ready : ready[i] \in TaskNumbers
        BY <1>1, LenProperties, ElementOfSeq DEF SchedulerTyped
  <2> QED BY <1>1, <2>1 DEF SchedulerTyped, Scheduler!TypeOK
<1>3. Scheduler!KnownMisuse
  <2>1. Scheduler!Vector => \A c \in TaskNumbers : task_frame[c] # "destroyed"
        BY <1>1 DEF MisuseExplained, FramesKept, Scheduler!Vector,
                    Scheduler!Queued
  <2> QED BY <1>1, <2>1 DEF MisuseExplained, Scheduler!KnownMisuse
<1>4. \A c \in TaskNumbers : /\ Scheduler!Times(c, turns) = Lines - left[c]
                             /\ left[c] \in 0..Lines
      BY <1>1 DEF LinesCounted, SchedulerTyped
<1>5. Lines \in Nat
      BY SchedulerAssumption
<1>6. Scheduler!OrderRight
  <2>1. ASSUME style = "rounds" PROVE Scheduler!TakeTurns
    <3>1. \A c, d \in TaskNumbers : Lines - left[c] <= (Lines - left[d]) + 1
          BY <2>1, RoundsTakeTurns
    <3> QED BY <1>4, <3>1 DEF Scheduler!TakeTurns
  <2>2. ASSUME style = "priority", NEW c \in TaskNumbers, NEW d \in TaskNumbers,
               c > d, Scheduler!Times(d, turns) > 0
        PROVE  task_frame[c] = "final"
    <3>1. left[d] < Lines
          BY <1>4, <1>5, <2>2
    <3> QED BY <2>2, <3>1 DEF SchedulerInv, PriorityKept
  <2> QED BY <2>1, <2>2 DEF Scheduler!OrderRight
<1>7. Scheduler!OnePlace
  <2> SUFFICES ASSUME style = "threads", main # "left", NEW c \in TaskNumbers
               PROVE
        /\ Scheduler!Times(c, ready) + Scheduler!Times(c, delayed)
             + (IF current = c THEN 1 ELSE 0) <= 1
        /\ c \in started /\ left[c] < Lines /\ task_frame[c] = "suspended" =>
             c = current \/ Scheduler!Times(c, ready)
                              + Scheduler!Times(c, delayed) = 1
      BY DEF Scheduler!OnePlace
  <2>1. Scheduler!Times(c, ready) + Scheduler!Times(c, delayed)
          + (IF current = c THEN 1 ELSE 0)
        = IF left[c] < Lines /\ task_frame[c] = "suspended" THEN 1 ELSE 0
        BY DEF SchedulerInv, HeldOnce
  <2>2. Scheduler!Times(c, ready) \in Nat /\ Scheduler!Times(c, delayed) \in Nat
        BY <1>1, HeldNat
  <2> QED BY <2>1, <2>2
<1> QED BY <1>2, <1>3, <1>6, <1>7 DEF SchedulersSafe

\* The vector and the thread neither lose nor double a task, the rounds are
\* fair and the priorities kept, for any number of tasks and lines; only owners
\* in queues, and timers that outlive the scheduler, are misused.
THEOREM SchedulersAreSafe == Spec => []SchedulersSafe
BY SchedulerBegins, SchedulerStep, SchedulerMeans, PTL DEF Spec
=============================================================================
