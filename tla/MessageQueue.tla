---------------------------- MODULE MessageQueue ----------------------------
(***************************************************************************)
(* The examples of 2_IPC/2_msgQueue.cpp: a parent and its child exchange   *)
(* typed messages through a System V queue.  What each of them does is a   *)
(* script of system calls; a step is one call.                             *)
(*                                                                         *)
(* The queue has a key and outlives the program: when a run is interrupted *)
(* (both processes are in the terminal's group) the next one finds what it *)
(* left.  Sleeping is an arbitrary delay; msgget and fork succeed, and the *)
(* queue has room.  A child that has finished its script goes on with the  *)
(* later examples: here it has ended, which is what its parent waits for.  *)
(***************************************************************************)
EXTENDS Naturals, Sequences, SequencesExt

CONSTANTS
  Tries,        \* the 5 attempts of nonBlockingExample
  MaxRuns       \* bound: the runs of the program on one queue

VARIABLES
  example,      \* the example that runs
  run,          \* the number of this run
  script,       \* process -> the calls it has still to make
  queue,        \* the messages in the queue: type and run of the sender
  got,          \* process -> the messages it has received in this run
  destroyed     \* the messages that IPC_RMID has destroyed

vars == <<example, run, script, queue, got, destroyed>>

Processes == {"parent", "child"}

REQUEST == 1   RESPONSE == 2   NOTIFICATION == 3   PRIORITY == 10
AnyType == 0

Send(t)    == <<"send", t>>
Receive(t) == <<"receive", t>>
Drain(t)   == <<"drain", t>>            \* IPC_NOWAIT until ENOMSG
Poll(t, n) == <<"poll", t, n>>          \* IPC_NOWAIT, at most n times
Clear      == <<<<"wait">>, <<"remove">>>>

Basic ==
  [parent |-> <<Send(REQUEST)>> \o Clear,
   child  |-> <<Receive(REQUEST)>>]

\* Mutant: the client waits for its answer before it asks.
Bidirectional_Hasty ==
  [parent |-> <<Receive(REQUEST), Send(RESPONSE)>> \o Clear,
   child  |-> <<Receive(RESPONSE), Send(REQUEST)>>]

\* bidirectionalExample: the parent serves one request.
Bidirectional ==
  [parent |-> <<Receive(REQUEST), Send(RESPONSE)>> \o Clear,
   child  |-> <<Send(REQUEST), Receive(RESPONSE)>>]

\* Mutant: the child drains before it waits for the urgent message.
Priority_DrainFirst ==
  [parent |-> <<Send(NOTIFICATION), Send(PRIORITY), Send(NOTIFICATION)>> \o Clear,
   child  |-> <<Drain(NOTIFICATION), Receive(PRIORITY)>>]

\* priorityExample: the urgent message first, then what else is there.
Priority ==
  [parent |-> <<Send(NOTIFICATION), Send(PRIORITY), Send(NOTIFICATION)>> \o Clear,
   child  |-> <<Receive(PRIORITY), Drain(NOTIFICATION)>>]

\* nonBlockingExample: one message, and a child that polls for it and then
\* waits for a message, whether it has got one or not.
NonBlocking ==
  [parent |-> <<Send(NOTIFICATION)>> \o Clear,
   child  |-> <<Poll(NOTIFICATION, Tries), Receive(NOTIFICATION)>>]

\* statusExample: a single process.
Status ==
  [parent |-> <<Send(1), Send(2), Send(3), Drain(AnyType), <<"remove">>>>,
   child  |-> <<>>]

Script(x) ==
  CASE x = "basic"         -> Basic
    [] x = "bidirectional" -> Bidirectional
    [] x = "priority"      -> Priority
    [] x = "non_blocking"  -> NonBlocking
    [] x = "status"        -> Status

Init ==
  /\ example \in {"basic", "bidirectional", "priority", "non_blocking", "status"}
  /\ run = 1
  /\ script = Script(example)
  /\ queue = <<>>
  /\ got = [x \in Processes |-> <<>>]
  /\ destroyed = <<>>

-----------------------------------------------------------------------------

\* x's next call is one of the given name; Advance goes behind it.
At(x, name) == script[x] # <<>> /\ Head(script[x])[1] = name
Advance(x)  == script' = [script EXCEPT ![x] = Tail(@)]
Type(x)     == Head(script[x])[2]

\* The places of the messages that x asks for; msgrcv takes the first.
Wanted(x) == {k \in 1..Len(queue) : Type(x) \in {AnyType, queue[k].type}}
First(S)  == CHOOSE k \in S : \A j \in S : k <= j

Take(x) ==
  /\ Wanted(x) # {}
  /\ got' = [got EXCEPT ![x] = Append(@, queue[First(Wanted(x))])]
  /\ queue' = RemoveAt(queue, First(Wanted(x)))

SendMessage(x) ==
  /\ At(x, "send")
  /\ queue' = Append(queue, [type |-> Type(x), run |-> run])
  /\ Advance(x)
  /\ UNCHANGED <<example, run, got, destroyed>>

\* A message was received.  The drain goes on, the attempts are over.
ReceiveMessage(x) ==
  /\ At(x, "receive") \/ At(x, "drain") \/ At(x, "poll")
  /\ Take(x)
  /\ IF At(x, "drain") THEN UNCHANGED script ELSE Advance(x)
  /\ UNCHANGED <<example, run, destroyed>>

\* ENOMSG ends the drain.
DrainEnds(x) ==
  /\ At(x, "drain")
  /\ Wanted(x) = {}
  /\ Advance(x)
  /\ UNCHANGED <<example, run, queue, got, destroyed>>

\* ENOMSG: the next attempt, if one is left.
PollFails(x) ==
  /\ At(x, "poll")
  /\ Wanted(x) = {}
  /\ LET n == Head(script[x])[3] IN
       IF n = 1 THEN Advance(x)
       ELSE script' = [script EXCEPT ![x] = <<Poll(Type(x), n - 1)>> \o Tail(@)]
  /\ UNCHANGED <<example, run, queue, got, destroyed>>

\* wait(nullptr)
Reap ==
  /\ At("parent", "wait")
  /\ script["child"] = <<>>
  /\ Advance("parent")
  /\ UNCHANGED <<example, run, queue, got, destroyed>>

\* msgctl(IPC_RMID)
RemoveQueue ==
  /\ At("parent", "remove")
  /\ destroyed' = destroyed \o queue
  /\ queue' = <<>>
  /\ Advance("parent")
  /\ UNCHANGED <<example, run, got>>

\* The processes are killed and the program is started again.
Interrupt ==
  /\ run < MaxRuns
  /\ script["parent"] # <<>>
  /\ run' = run + 1
  /\ script' = Script(example)
  /\ got' = [x \in Processes |-> <<>>]
  /\ UNCHANGED <<example, queue, destroyed>>

Process(x) ==
  \/ SendMessage(x) \/ ReceiveMessage(x) \/ DrainEnds(x) \/ PollFails(x)
  \/ x = "parent" /\ (Reap \/ RemoveQueue)

Next == (\E x \in Processes : Process(x)) \/ Interrupt

Spec == Init /\ [][Next]_vars

-----------------------------------------------------------------------------

Ended == script["parent"] = <<>>

TypeOK ==
  /\ run \in 1..MaxRuns
  /\ DOMAIN script = Processes
  /\ \A k \in 1..Len(queue) : queue[k].run \in 1..run
  /\ DOMAIN got = Processes

\* The child of priorityExample reads the urgent message before all others,
\* although it was neither sent nor queued first (2_msgQueue.cpp:253-280),
\* and a notification only in the order of the queue.
UrgentFirst ==
  example = "priority" =>
    \A k \in 1..Len(got["child"]) : (k = 1) <=> (got["child"][k].type = PRIORITY)

\* An undisturbed run destroys no message that somebody should have read,
\* with one exception: the second notification of priorityExample may come
\* after the child has seen ENOMSG (2_msgQueue.cpp:262-268).
NothingMissed ==
  run = 1 /\ Ended =>
    IF example = "priority"
      THEN /\ Len(got["child"]) >= 2
           /\ \A k \in 1..Len(destroyed) : destroyed[k].type = NOTIFICATION
      ELSE destroyed = <<>>

\* One message cannot satisfy two receivers: an undisturbed run of
\* nonBlockingExample ends only if all attempts have failed; otherwise the
\* child waits for a second message, which nobody sends, and the parent for
\* the child (2_msgQueue.cpp:318-345).
Stuck ==
  /\ example = "non_blocking"
  /\ got["child"] # <<>> /\ script["child"] # <<>>
  /\ queue = <<>> /\ ~At("parent", "send")
=============================================================================
