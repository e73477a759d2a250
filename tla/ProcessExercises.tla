-------------------------- MODULE ProcessExercises -------------------------
(***************************************************************************)
(* The programs of 2_multiProcess side by side.  One of them is chosen at  *)
(* the start and runs alone; those of 2_IPC one example at a time.  A      *)
(* variable that two modules have in common belongs to whichever runs; the *)
(* variables of the programs that do not run are "unused".                 *)
(***************************************************************************)
EXTENDS Integers, Sequences, FiniteSets

CONSTANTS
  MsgLen, BufLen, Capacity, Flood,              \* Pipes
  Tries, MaxRuns,                               \* MessageQueue
  Rounds, Waits, MaxInterrupts,                 \* Signals
  Children, Items, Slots, Writes, Repeats,      \* Semaphores
  Programs, Size, Steps,                        \* SharedMemory
  Loops, Few, Adds                              \* ProcessCreation

\* The programs that share a segment by its key are neither of the two that
\* share one by fork; a buffer has a slot, and there is something to do.
ASSUME SharedAssumption ==
  /\ IsFiniteSet(Programs) /\ Programs \cap {"parent", "child"} = {}
  /\ Size \in Nat \ {0} /\ Items \in Nat \ {0} /\ Steps \in Nat \ {0}

\* The children that share semaphores are none of the processes with a name of
\* their own.
ASSUME SemaAssumption ==
  /\ IsFiniteSet(Children)
  /\ Children \cap {"parent", "child", "producer", "consumer", "writer"} = {}
  /\ Slots \in Nat \ {0} /\ Writes \in Nat /\ Repeats \in Nat

\* A message has a unit, and a read returns it whole.
ASSUME PipeAssumption ==
  /\ MsgLen \in Nat \ {0} /\ BufLen \in Nat /\ MsgLen <= BufLen
  /\ Capacity \in Nat /\ Flood \in Nat

\* The program runs at least once.
ASSUME QueueAssumption == Tries \in Nat \ {0} /\ MaxRuns \in Nat \ {0}

\* The loops about signals are run so many times.
ASSUME SignalAssumption == Rounds \in Nat /\ Waits \in Nat /\ MaxInterrupts \in Nat

VARIABLES
  program, example,
  script, pc, got, made, count, counter,        \* of several programs
  open, sent, read, fifo, met, missed,
  run, queue, destroyed,
  handler, pending, mask, flag, round, timer, alarm_count, handled, to_send,
  reaped, interrupts,
  sem, items, in, out, reader_count, old_value, removed,
  buffer, head, tail, producer_done, ready, local, overlap,
  todo, state, value, seen, shared_counter, loaded, lost, fd, file, crashed

commonVars == <<example, script, pc, got, made, count, counter>>
pipeVars   == <<open, sent, read, fifo, met, missed>>
queueVars  == <<run, queue, destroyed>>
signalVars == <<handler, pending, mask, flag, round, timer, alarm_count, handled,
                to_send, reaped, interrupts>>
semVars    == <<sem, items, in, out, reader_count, old_value, removed>>
shmVars    == <<buffer, head, tail, producer_done, ready, local, overlap>>
makeVars   == <<todo, state, value, seen, shared_counter, loaded, lost, fd, file,
                crashed>>

vars == <<program, commonVars, pipeVars, queueVars, signalVars, semVars,
          shmVars, makeVars>>

Pipe   == INSTANCE Pipes
Queue  == INSTANCE MessageQueue
Signal == INSTANCE Signals
Sema   == INSTANCE Semaphores
Shared == INSTANCE SharedMemory
Make   == INSTANCE ProcessCreation

pipeState   == Pipe!vars
queueState  == Queue!vars
signalState == Signal!vars
semState    == Sema!vars
shmState    == Shared!vars
makeState   == Make!vars

\* The variables of a program that does not run.
NoPipes   == /\ open = "unused" /\ sent = "unused" /\ read = "unused"
             /\ fifo = "unused" /\ met = "unused" /\ missed = "unused"
NoQueue   == run = "unused" /\ queue = "unused" /\ destroyed = "unused"
NoSignals == /\ handler = "unused" /\ pending = "unused" /\ mask = "unused"
             /\ flag = "unused" /\ round = "unused" /\ timer = "unused"
             /\ alarm_count = "unused" /\ handled = "unused"
             /\ to_send = "unused" /\ reaped = "unused" /\ interrupts = "unused"
NoSemas   == /\ sem = "unused" /\ items = "unused" /\ in = "unused"
             /\ out = "unused" /\ reader_count = "unused"
             /\ old_value = "unused" /\ removed = "unused"
NoShared  == /\ buffer = "unused" /\ head = "unused" /\ tail = "unused"
             /\ producer_done = "unused" /\ ready = "unused"
             /\ local = "unused" /\ overlap = "unused"
NoMake    == /\ todo = "unused" /\ state = "unused" /\ value = "unused"
             /\ seen = "unused" /\ shared_counter = "unused"
             /\ loaded = "unused" /\ lost = "unused" /\ fd = "unused"
             /\ file = "unused" /\ crashed = "unused"
NoScript  == script = "unused"
NoPc      == pc = "unused"
NoGot     == got = "unused"
NoCounts  == made = "unused" /\ count = "unused" /\ counter = "unused"

Init ==
  \/ /\ program = "pipes" /\ Pipe!Init
     /\ NoPc /\ NoGot /\ NoCounts /\ NoQueue /\ NoSignals /\ NoSemas /\ NoShared /\ NoMake
  \/ /\ program = "queue" /\ Queue!Init
     /\ NoPc /\ NoCounts /\ NoPipes /\ NoSignals /\ NoSemas /\ NoShared /\ NoMake
  \/ /\ program = "signals" /\ Signal!Init
     /\ NoScript /\ NoGot /\ NoCounts /\ NoPipes /\ NoQueue /\ NoSemas /\ NoShared /\ NoMake
  \/ /\ program = "semaphores" /\ Sema!Init
     /\ NoPc /\ NoPipes /\ NoQueue /\ NoSignals /\ NoShared /\ NoMake
  \/ /\ program = "shared" /\ Shared!Init
     /\ NoScript /\ NoPipes /\ NoQueue /\ NoSignals /\ NoSemas /\ NoMake
  \/ /\ program = "creation" /\ Make!Init
     /\ example = "unused" /\ NoScript /\ NoPc /\ NoGot /\ NoCounts /\ NoPipes
     /\ NoQueue /\ NoSignals /\ NoSemas /\ NoShared

RunPipes ==
  /\ program = "pipes" /\ Pipe!Next
  /\ UNCHANGED <<program, pc, got, made, count, counter,
                 queueVars, signalVars, semVars, shmVars, makeVars>>

RunQueue ==
  /\ program = "queue" /\ Queue!Next
  /\ UNCHANGED <<program, pc, made, count, counter,
                 pipeVars, signalVars, semVars, shmVars, makeVars>>

RunSignals ==
  /\ program = "signals" /\ Signal!Next
  /\ UNCHANGED <<program, script, got, made, count, counter,
                 pipeVars, queueVars, semVars, shmVars, makeVars>>

RunSemaphores ==
  /\ program = "semaphores" /\ Sema!Next
  /\ UNCHANGED <<program, pc, pipeVars, queueVars, signalVars, shmVars,
                 makeVars>>

RunShared ==
  /\ program = "shared" /\ Shared!Next
  /\ UNCHANGED <<program, script, pipeVars, queueVars, signalVars, semVars,
                 makeVars>>

RunCreation ==
  /\ program = "creation" /\ Make!Next
  /\ UNCHANGED <<program, commonVars, pipeVars, queueVars, signalVars, semVars,
                 shmVars>>

Next == \/ RunPipes \/ RunQueue \/ RunSignals \/ RunSemaphores \/ RunShared
        \/ RunCreation

Spec == Init /\ [][Next]_vars

\* The processes of the running program are scheduled, sleeping processes
\* wake up, and the kernel delivers signals and lets timers expire.  That the
\* user interrupts a program is never relied on.
FairSpec ==
  /\ Spec
  /\ \A x \in {"parent", "child"} :
       /\ WF_pipeState(program = "pipes" /\ Pipe!Process(x))
       /\ WF_queueState(program = "queue" /\ Queue!Process(x))
  /\ WF_signalState(program = "signals" /\ Signal!Self)
  /\ WF_signalState(program = "signals" /\ Signal!Kernel)
  /\ WF_signalState(program = "signals" /\ Signal!Parent)
  /\ \A x \in {"parent", "child", "producer", "consumer", "writer"} \cup Children :
       WF_semState(program = "semaphores" /\ Sema!Process(x))
  /\ WF_shmState(program = "shared" /\ Shared!Parent)
  /\ WF_shmState(program = "shared" /\ Shared!Child)
  /\ \A x \in Programs : WF_shmState(program = "shared" /\ Shared!Program(x))
  /\ WF_makeState(program = "creation" /\ (Make!Parent \/ Make!Process(Make!main)))
  /\ WF_makeState(program = "creation" /\ Make!SomeChild)

-----------------------------------------------------------------------------

\* The pipes, message queues and signals of 1_pipeAndFIFO.cpp, 2_msgQueue.cpp
\* and 3_signal.cpp: no end of a pipe is left open, no data is left behind, the
\* urgent message comes first, no message is destroyed that somebody should
\* have read, no signal kills, whenever it comes, the loops end for the right
\* signal, and a blocked signal is handled once, after the mask.
ChannelsSafe ==
  /\ program = "pipes" => Pipe!TypeOK /\ Pipe!NothingLeaks /\ Pipe!AllRead
  /\ program = "queue" => Queue!TypeOK /\ Queue!UrgentFirst /\ Queue!NothingMissed
  /\ program = "signals" =>
       /\ Signal!TypeOK /\ Signal!NobodyKilled /\ Signal!LeavesForTerm
       /\ Signal!AlarmPerRound /\ Signal!BlockedThenHandled

\* The semaphores of 4_semaphore.cpp protect what is shared; without them, in
\* 5_sharedMemory.cpp, the result is right unless two updates overlap.
MemorySafe ==
  /\ program = "semaphores" =>
       /\ Sema!TypeOK /\ Sema!Exclusive /\ Sema!RingRight
       /\ Sema!WriterAlone /\ Sema!CounterRight /\ Sema!RemovedLast
  /\ program = "shared" =>
       /\ Shared!TypeOK /\ Shared!CountInBounds
       /\ Shared!RightUnlessOverlap /\ Shared!WatchedToTheEnd

\* The parent of 1_forkAndExec.cpp reaps its children but for one, its shared
\* file and its shared counter are right unless the wrong child was reaped or
\* two additions overlap, and a vforked child writes its parent's memory.
ChildrenSafe ==
  program = "creation" =>
    /\ Make!TypeOK /\ Make!OneLeftOver /\ Make!FileComplete
    /\ Make!MemorySeen /\ Make!CounterRight

Over ==
  CASE program = "pipes"      -> Pipe!Ended \/ missed
    [] program = "queue"      -> Queue!Ended \/ Queue!Stuck
    [] program = "signals"    -> Signal!Ended \/ Signal!Missed
    [] program = "semaphores" -> removed
    [] program = "shared"     -> Shared!Ended
    [] program = "creation"   -> Make!Ended

\* Every example ends, with three exceptions that the code admits: the reader
\* looks for the FIFO before the writer has made it (1_pipeAndFIFO.cpp:403),
\* the child of nonBlockingExample waits for a second message
\* (2_msgQueue.cpp:339), a signal comes between the test and the pause
\* (3_signal.cpp:190, 213).
ProcessesEnd == <>Over
=============================================================================
