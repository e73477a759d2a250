----------------------------- MODULE CoScheduler -----------------------------
(***************************************************************************)
(* The schedulers of 0_tutorial/3_coroutine.  Each task prints a line per  *)
(* step and then yields, or sleeps; the styles are                         *)
(*   "ready_queue", "timed"   1_cpp20/6_scheduler.cpp: C++20 coroutines,   *)
(*                            whose owners (class Task) stand in queues;   *)
(*   "rounds", "priority"     3_impl/3_simpleScheduler.cpp: macro          *)
(*                            coroutines in a vector;                      *)
(*   "threads"                _code/std_coroutineUsage.cpp:477-572: a      *)
(*                            thread that waits for handles, which timer   *)
(*                            threads put into the queue.                  *)
(* The queues of the first two hold owners: a task that stands in them     *)
(* twice is owned twice.  The first owner to see the coroutine done        *)
(* destroys its frame; the next one resumes, or destroys, what is gone.    *)
(*                                                                         *)
(* A task is a number: its place in the vector, and its priority.  What it *)
(* prints is left out: the names of the C++20 tasks are references to      *)
(* temporaries of the call, as in task_void of CoroutineExamples.          *)
(***************************************************************************)
EXTENDS Integers, Sequences, FiniteSets

CONSTANTS Tasks,        \* 1..n
          Steps,        \* of each task
          NoTask

VARIABLES style,
          ready,        \* the ready queue
          delayed,      \* the timers: tasks, in the order of the calls
          current,      \* the task that runs
          left,         \* the steps it has still to do
          frame,        \* "suspended", "final" or "destroyed"
          running,      \* the flag of the scheduler with threads
          started,      \* whom main has resumed: the source resumes nobody
          main,         \* where main is: "runs", "stopped", "left"
          turns,        \* the lines printed, by task
          misuse        \* the first undefined operation, or "none"

vars == <<style, ready, delayed, current, left, frame, running, started, main,
          turns, misuse>>

Styles == {"ready_queue", "timed", "rounds", "priority", "threads"}
Queued == style \in {"ready_queue", "timed"}
Vector == style \in {"rounds", "priority"}

\* The vector of the macro schedulers, or the queue after add_task.
InOrder == [i \in 1..Cardinality(Tasks) |-> i]

Init == /\ style \in Styles
        /\ ready = IF style = "threads" THEN <<>> ELSE InOrder
        /\ delayed = <<>> /\ current = NoTask
        /\ left = [c \in Tasks |-> Steps]
        /\ frame = [c \in Tasks |-> "suspended"]
        /\ running = TRUE
        /\ started \in IF style = "threads" THEN {{}, Tasks} ELSE {Tasks}
        /\ main = "runs"
        /\ turns = <<>> /\ misuse = "none"

Without(s, i) == SubSeq(s, 1, i - 1) \o SubSeq(s, i + 1, Len(s))
Pending(c) == frame[c] = "suspended"
On == misuse = "none" /\ main # "left"

-----------------------------------------------------------------------------

\* Mutant: the handle stays in the queue while it is resumed.
Pick_NoPop ==
  /\ On /\ current = NoTask /\ ready # <<>> /\ ~Vector
  /\ style = "threads" => running
  /\ current' = Head(ready)
  /\ UNCHANGED <<style, ready, delayed, left, frame, running, started, main,
                 turns, misuse>>

\* run() takes the front of the queue and resumes it.  The scheduler with
\* threads waits for an entry or the end of "running", and skips a handle that
\* is done.
Pick ==
  /\ On /\ current = NoTask /\ ready # <<>> /\ ~Vector
  /\ style = "threads" => running
  /\ LET c == Head(ready)
     IN /\ misuse' = IF frame[c] = "destroyed" THEN "resume" ELSE "none"
        /\ current' = IF frame[c] = "final" THEN NoTask ELSE c
  /\ ready' = Tail(ready)
  /\ UNCHANGED <<style, delayed, left, frame, running, started, main, turns>>

\* The loop over the vector runs each task that is not done; the other one
\* looks for the highest priority among them.
PickNext ==
  /\ On /\ current = NoTask /\ Vector /\ \E c \in Tasks : Pending(c)
  /\ IF style = "rounds"
     THEN /\ current' = IF Pending(Head(ready)) THEN Head(ready) ELSE NoTask
          /\ ready' = Append(Tail(ready), Head(ready))
     ELSE /\ current' = CHOOSE c \in Tasks :
                          Pending(c) /\ \A d \in Tasks : Pending(d) => d <= c
          /\ UNCHANGED ready
  /\ UNCHANGED <<style, delayed, left, frame, running, started, main, turns,
                 misuse>>

\* The task that was taken does a step and suspends.
Step == /\ On /\ current # NoTask /\ left[current] > 0
        /\ left' = [left EXCEPT ![current] = @ - 1]
        /\ turns' = Append(turns, current)
        /\ current' = NoTask
        /\ UNCHANGED <<style, frame, running, started, main, misuse>>

\* YieldAwaiter makes a second owner for it and puts that into the queue; run()
\* puts the first one back behind it, as the coroutine is not done.
StepAndYield == /\ style = "ready_queue" /\ Step
                /\ ready' = ready \o <<current, current>>
                /\ UNCHANGED delayed

\* SleepAwaiter's second owner stands among the timers.
StepAndSleep == /\ style = "timed" /\ Step
                /\ ready' = Append(ready, current)
                /\ delayed' = Append(delayed, current)

\* A macro task returns false and stays in its vector.
MacroStep == /\ Vector /\ Step
             /\ UNCHANGED <<ready, delayed>>

\* ScheduledTimer starts a detached thread for the handle.
StepAndArm == /\ style = "threads" /\ Step
              /\ delayed' = Append(delayed, current)
              /\ UNCHANGED ready

\* It comes to its end; the owner in run() destroys its frame.
Finish == /\ On /\ current # NoTask /\ left[current] = 0
          /\ frame' = [frame EXCEPT ![current] = IF Queued THEN "destroyed"
                                                 ELSE "final"]
          /\ current' = NoTask
          /\ UNCHANGED <<style, ready, delayed, left, running, started, main,
                         turns, misuse>>

\* A timer is due.  The timed scheduler moves the entries that are due before
\* it takes the next task; elsewhere a detached thread calls schedule().
Due ==
  /\ misuse = "none"
  /\ style = "timed" => On /\ current = NoTask
  /\ \E i \in DOMAIN delayed :
       /\ delayed' = Without(delayed, i)
       /\ IF style = "threads" /\ main = "left"
          THEN misuse' = "scheduler" /\ UNCHANGED ready
          ELSE ready' = Append(ready, delayed[i]) /\ UNCHANGED misuse
  /\ UNCHANGED <<style, current, left, frame, running, started, main, turns>>

\* demonstrateScheduler: tasks that somebody resumes once run on main up to
\* their first timer.
Start(c) ==
  /\ On /\ style = "threads" /\ main = "runs"
  /\ c \in started /\ left[c] = Steps /\ current # c
  /\ left' = [left EXCEPT ![c] = @ - 1]
  /\ turns' = Append(turns, c)
  /\ delayed' = Append(delayed, c)
  /\ UNCHANGED <<style, ready, current, frame, running, started, main,
                 misuse>>

\* After a second main calls stop() and joins the thread, which leaves after
\* the task that it runs.  Then the tasks and the scheduler are destroyed.
Stop ==
  /\ On /\ style = "threads" /\ main = "runs"
  /\ \A c \in started : left[c] < Steps
  /\ running' = FALSE /\ main' = "stopped"
  /\ UNCHANGED <<style, ready, delayed, current, left, frame, started, turns,
                 misuse>>

Leave ==
  /\ On /\ main = "stopped" /\ current = NoTask
  /\ main' = "left"
  /\ frame' = [c \in Tasks |-> "destroyed"]
  /\ UNCHANGED <<style, ready, delayed, current, left, running, started, turns,
                 misuse>>

\* The thread that runs the scheduler, and main.
Run  == \/ Pick \/ PickNext \/ StepAndYield \/ StepAndSleep \/ MacroStep
        \/ StepAndArm \/ Finish
Main == Stop \/ Leave \/ \E c \in Tasks : Start(c)

Next == Run \/ Main \/ Due

Spec == Init /\ [][Next]_vars

-----------------------------------------------------------------------------

TypeOK ==
  /\ style \in Styles
  /\ current \in Tasks \cup {NoTask}
  /\ \A i \in DOMAIN ready : ready[i] \in Tasks
  /\ left \in [Tasks -> 0..Steps]
  /\ misuse \in {"none", "resume", "scheduler"}

Times(c, s) == Cardinality({i \in DOMAIN s : s[i] = c})

\* Nobody is a whole line ahead of anybody: tasks take turns.
TakeTurns == \A c, d \in Tasks : Times(c, turns) <= Times(d, turns) + 1

\* The styles whose queues hold owners, or outlive what they refer to, end in
\* an undefined operation; the vectors never do.
KnownMisuse ==
  /\ misuse = "resume" => Queued
  /\ misuse = "scheduler" => style = "threads" /\ started # {}
  /\ Vector => \A c \in Tasks : frame[c] # "destroyed"

\* The rounds are fair, and a higher priority is served before a lower one.
OrderRight ==
  /\ style = "rounds" => TakeTurns
  /\ style = "priority" =>
       \A c, d \in Tasks : c > d /\ Times(d, turns) > 0
                             => frame[c] = "final"

\* A task that the scheduler with threads will go on with is in one place.
OnePlace ==
  style = "threads" /\ main # "left" =>
    \A c \in Tasks :
      /\ Times(c, ready) + Times(c, delayed) + (IF current = c THEN 1 ELSE 0)
           <= 1
      /\ c \in started /\ left[c] < Steps /\ frame[c] = "suspended" =>
           c = current \/ Times(c, ready) + Times(c, delayed) = 1

Over ==
  CASE Queued -> misuse # "none" \/ (ready = <<>> /\ delayed = <<>>
                                       /\ current = NoTask)
    [] Vector -> \A c \in Tasks : frame[c] = "final"
    [] style = "threads" -> main = "left"
=============================================================================
