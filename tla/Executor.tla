------------------------------ MODULE Executor ------------------------------
(***************************************************************************)
(* What a thread pool of this repository promises to the code that uses    *)
(* it, without saying how: a task is accepted or refused, an accepted task *)
(* is started once and finished once, and the pool is closed only when     *)
(* nothing that it accepted is left.  The three pools under lib/ and the   *)
(* one of 0_tutorial/1_multiThread/5_threadsQuiz are compared with it.     *)
(***************************************************************************)

CONSTANT Tasks          \* the callables handed to the pool

VARIABLES life,         \* Tasks -> the stage of the task's life
          phase         \* of the pool: "open", "closing" or "closed"

vars == <<life, phase>>

Stages == {"new", "queued", "running", "ready", "refused"}

TypeOK ==
  /\ life \in [Tasks -> Stages]
  /\ phase \in {"open", "closing", "closed"}

Init ==
  /\ life = [t \in Tasks |-> "new"]
  /\ phase = "open"

Move(t, from, to) ==
  /\ life[t] = from
  /\ life' = [life EXCEPT ![t] = to]
  /\ UNCHANGED phase

\* submit while the pool is open: the caller gets a future
Accept(t) == phase = "open" /\ Move(t, "new", "queued")

\* submit after destruction began: the caller gets an exception
Refuse(t) == phase = "closing" /\ Move(t, "new", "refused")

Start(t)  == phase # "closed" /\ Move(t, "queued", "running")

\* the future becomes ready, with the value or the exception of the callable
Finish(t) == phase # "closed" /\ Move(t, "running", "ready")

BeginClose ==
  /\ phase = "open"
  /\ phase' = "closing"
  /\ UNCHANGED life

\* the destructor returns
Close ==
  /\ phase = "closing"
  /\ \A t \in Tasks : life[t] \notin {"queued", "running"}
  /\ phase' = "closed"
  /\ UNCHANGED life

Next ==
  \/ \E t \in Tasks : Accept(t) \/ Refuse(t) \/ Start(t) \/ Finish(t)
  \/ BeginClose
  \/ Close

Spec == Init /\ [][Next]_vars
=============================================================================
