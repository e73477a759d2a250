------------------------------ MODULE Coroutines ------------------------------
(***************************************************************************)
(* The examples of 0_tutorial/3_coroutine side by side: frames, promises,  *)
(* owners and awaiters (CoroutineFrames), and schedulers (CoScheduler).    *)
(* One program is chosen at the start and runs alone.                      *)
(***************************************************************************)
EXTENDS Integers, Sequences, FiniteSets

CONSTANTS NoCoroutine, TaskNumbers, Lines

\* The tasks are numbered from 1, and each prints at least one line.
ASSUME SchedulerAssumption ==
  /\ IsFiniteSet(TaskNumbers) /\ TaskNumbers = 1..Cardinality(TaskNumbers)
  /\ NoCoroutine \notin TaskNumbers
  /\ Lines \in Nat \ {0}

VARIABLES program,
          example, stack, ip, pulled, frame, value, outcome, waiter, armed,
          expired, out, misuse,
          style, ready, delayed, current, left, task_frame, running, started,
          main, turns, task_misuse

frameVars == <<example, stack, ip, pulled, frame, value, outcome, waiter, armed,
               expired, out, misuse>>
schedulerVars == <<style, ready, delayed, current, left, task_frame, running,
                   started, main, turns, task_misuse>>
vars == <<program, frameVars, schedulerVars>>

Course == INSTANCE CoroutineExamples WITH Nobody <- NoCoroutine
Frames == INSTANCE CoroutineFrames
            WITH Examples <- Course!CppExamples \cup Course!StdExamples,
                 Nobody <- NoCoroutine
Scheduler == INSTANCE CoScheduler
               WITH Tasks <- TaskNumbers, Steps <- Lines,
                    NoTask <- NoCoroutine, frame <- task_frame,
                    misuse <- task_misuse

\* A program that does not run needs one initial state only.
Init == /\ program \in {"frames", "scheduler"}
        /\ Frames!Init /\ Scheduler!Init
        /\ program # "frames" => example.name = "generator_basic"
        /\ program # "scheduler" => style = "rounds"

RunFrames == /\ program = "frames"
             /\ Frames!Next
             /\ UNCHANGED <<program, schedulerVars>>

RunScheduler == /\ program = "scheduler"
                /\ Scheduler!Next
                /\ UNCHANGED <<program, frameVars>>

Next == RunFrames \/ RunScheduler

Spec == Init /\ [][Next]_vars

\* main and the detached threads are scheduled, and a sleep ends.
FairSpec ==
  /\ Spec
  /\ \A t \in {"main"} \cup UNION {DOMAIN e.body : e \in Course!CppExamples
                                                \cup Course!StdExamples} :
       /\ WF_frameVars(program = "frames" /\ t \in Frames!Threads
                         /\ Frames!Run(t))
       /\ WF_frameVars(program = "frames" /\ t \in Frames!Coroutines
                         /\ Frames!Fire(t))
  /\ WF_schedulerVars(program = "scheduler" /\ Scheduler!Run)
  /\ WF_schedulerVars(program = "scheduler" /\ Scheduler!Due)
  /\ WF_schedulerVars(program = "scheduler" /\ Scheduler!Main)

\* The claim of one scheduler, see TakeTurns.
ReadyQueueSpec == /\ Init /\ program = "scheduler" /\ style = "ready_queue"
                  /\ [][Next]_vars

-----------------------------------------------------------------------------

\* Whatever the threads do, a frame is executed by one function at a time, is
\* resumed only where it is suspended, read only while it exists and destroyed
\* once, and nothing is left of it when main ends.  The examples that break
\* these rules are known, and each breaks one only: the frame of a promise
\* with suspend_never is destroyed again or read (1_promiseType.cpp:45, :61,
\* :183, :229), a reference parameter outlives its temporary
\* (3_customAwaiter.cpp:118, 5_task.cpp:234, std_coroutineUsage.cpp:984), and
\* Task::get lets main destroy a frame whose promise a detached thread still
\* reads (std_coroutineUsage.cpp:192).
FramesSafe == /\ Frames!TypeOK /\ Frames!MisuseIsKnown
              /\ Frames!OneRunner /\ Frames!NoLeak

\* Generators, pipelines of generators, awaited tasks and timers deliver the
\* values of a plain loop, each once and in order, however the control goes
\* to and fro between the frames.
PrintsRight == Frames!PrintsRight

\* The schedulers with a vector and the one with a thread neither lose nor
\* double a task, the rounds are fair and priorities are kept.  The queues of
\* owners (6_scheduler.cpp) do double tasks, and resume a frame that another
\* owner has destroyed; the timers of std_coroutineUsage.cpp:530 may outlive
\* the scheduler.
SchedulersSafe == /\ Scheduler!TypeOK /\ Scheduler!KnownMisuse
                  /\ Scheduler!OrderRight /\ Scheduler!OnePlace

\* Every example ends, or stops at an undefined operation: no coroutine waits
\* for a resume that nobody will make, no get() spins for ever.
ExamplesEnd == <>(IF program = "frames" THEN Frames!Stopped ELSE Scheduler!Over)

\* No task prints two lines more than another one: "两个任务轮流执行" (the two
\* tasks take turns), as 6_scheduler.cpp:101 says of the ready queue.
TakeTurns == Scheduler!TakeTurns
=============================================================================
