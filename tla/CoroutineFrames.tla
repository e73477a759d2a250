--------------------------- MODULE CoroutineFrames ---------------------------
(***************************************************************************)
(* C++20 coroutines as the examples of 0_tutorial/3_coroutine use them:    *)
(* frames, the promise types that say when a frame starts, suspends and    *)
(* dies, the handles and owners that resume and destroy it, awaiters, and  *)
(* the detached threads that resume a coroutine later.                     *)
(*                                                                         *)
(* An example is a record (module CoroutineExamples):                      *)
(* the script of its main function, and for each coroutine its script, its *)
(* promise type and the frames that its locals own.  A script is a         *)
(* sequence of operations <<name, argument, ...>>.                         *)
(*                                                                         *)
(* Each thread has a stack.  An entry <<"runs", x>> is a function that     *)
(* executes its script; <<"re-enters", x, c>> is an await_suspend that     *)
(* runs the task c and then resumes x itself; <<"ends", c>> is the final   *)
(* awaiter of c, which has to look into the promise for who waits; and     *)
(* <<"leaves", x>> only has to return.                                     *)
(*                                                                         *)
(* What the language leaves undefined is recorded in "misuse", and the     *)
(* example stops there: nothing can be said about what follows.            *)
(***************************************************************************)
EXTENDS Integers, Sequences, FiniteSets, SequencesExt

CONSTANTS Examples,     \* the examples, see above
          Nobody        \* no coroutine

VARIABLES example,      \* the one that runs
          stack,        \* of main and of the timer thread of each coroutine
          ip,           \* the next operation of each script
          pulled,       \* who has a generator's next value, in a range-for
          frame,        \* the state of each coroutine's frame
          value,        \* what it has yielded last, the promise's field
          outcome,      \* what it has returned, or Thrown
          waiter,       \* who awaits it, a field of the promise
          armed,        \* whom a detached thread will resume
          expired,      \* whose reference parameters refer to nothing
          out,          \* what has been printed
          misuse        \* the first undefined operation, or "none"

vars == <<example, stack, ip, pulled, frame, value, outcome, waiter, armed,
          expired, out, misuse>>

Unset  == 0 - 2         \* neither yielded nor returned
Thrown == 0 - 1         \* an exception that is kept in the promise

Coroutines == DOMAIN example.body
Threads    == {"main"} \cup Coroutines
Promise(c) == example.promise[c]
Script(x)  == IF x = "main" THEN example.main ELSE example.body[x]

Finished == Len(stack["main"]) = 1 /\ ip["main"] > Len(example.main)
Stopped  == Finished \/ misuse # "none"

Top(t) == stack[t][Len(stack[t])]
Below(t) == SubSeq(stack[t], 1, Len(stack[t]) - 1)
Self(t) == Top(t)[2]
Runs(t) == ~Stopped /\ stack[t] # <<>> /\ Top(t)[1] = "runs"

\* The operation that thread t executes next; the end of a script is one.
Operation(t) == IF ip[Self(t)] > Len(Script(Self(t))) THEN <<"end">>
                ELSE Script(Self(t))[ip[Self(t)]]
At(t, name) == Runs(t) /\ Operation(t)[1] = name
On(t) == Operation(t)[2]

Advance(t) == ip' = [ip EXCEPT ![Self(t)] = @ + 1]
Push(t, entry) == stack' = [stack EXCEPT ![t] = Append(@, entry)]
Pop(t) == stack' = [stack EXCEPT ![t] = Below(t)]
Replace(t, entries) == stack' = [stack EXCEPT ![t] = Below(t) \o entries]

Misuse(what) == /\ misuse' = what
                /\ UNCHANGED <<example, stack, ip, pulled, frame, value,
                               outcome, waiter, armed, expired, out>>

\* A handle may resume a coroutine that is suspended, but not at its end.
Resumable(c) == frame[c] = "suspended"
Enter(t, c) == /\ frame' = [frame EXCEPT ![c] = "running"]
               /\ Push(t, <<"runs", c>>)

Init == /\ example \in Examples
        /\ stack = [t \in Threads |-> IF t = "main" THEN << <<"runs", t>> >>
                                      ELSE <<>>]
        /\ ip = [x \in Threads |-> 1]
        /\ pulled = {}
        /\ frame = [c \in Coroutines |-> "none"]
        /\ value = [c \in Coroutines |-> Unset]
        /\ outcome = [c \in Coroutines |-> Unset]
        /\ waiter = [c \in Coroutines |-> Nobody]
        /\ armed = {} /\ expired = {}
        /\ out = <<>>
        /\ misuse = "none"

-----------------------------------------------------------------------------
(* What a function does to a coroutine.                                    *)

\* The call allocates the frame; initial_suspend says whether it runs now.
Call(t) ==
  /\ At(t, "call")
  /\ LET c == On(t)
     IN IF Promise(c).start = "eager" THEN Enter(t, c)
        ELSE /\ frame' = [frame EXCEPT ![c] = "suspended"]
             /\ UNCHANGED stack
  /\ Advance(t)
  /\ UNCHANGED <<example, pulled, value, outcome, waiter, armed, expired, out,
                 misuse>>

\* The temporaries of the call die at the end of its full expression.
Expire(t) ==
  /\ At(t, "expire")
  /\ expired' = expired \cup {On(t)}
  /\ Advance(t)
  /\ UNCHANGED <<example, stack, pulled, frame, value, outcome, waiter, armed,
                 out, misuse>>

\* handle.resume(), once ("resume"), once unless done ("step"), or as long as
\* the coroutine is not done ("run").
Resume(t) ==
  /\ At(t, "resume") \/ At(t, "step") \/ At(t, "run")
  /\ LET how == Operation(t)[1]
         c == On(t)
     IN \/ /\ Resumable(c)
           /\ Enter(t, c)
           /\ IF how = "run" THEN UNCHANGED ip ELSE Advance(t)
           /\ UNCHANGED <<example, pulled, value, outcome, waiter, armed,
                          expired, out, misuse>>
        \/ /\ frame[c] = "final" /\ how # "resume"
           /\ Advance(t)
           /\ UNCHANGED <<example, stack, pulled, frame, value, outcome,
                          waiter, armed, expired, out, misuse>>
        \/ /\ ~Resumable(c) /\ ~(frame[c] = "final" /\ how # "resume")
           /\ Misuse("resume")

\* Task::get spins on done().
Spin(t) ==
  /\ At(t, "spin")
  /\ frame[On(t)] = "final"
  /\ Advance(t)
  /\ UNCHANGED <<example, stack, pulled, frame, value, outcome, waiter, armed,
                 expired, out, misuse>>

\* The promise dies with its frame.  A stored exception is thrown again: main
\* catches and reports it, a coroutine passes it on to its own promise.
Read(t) ==
  /\ At(t, "read")
  /\ LET c == On(t)
         x == Self(t)
     IN IF frame[c] \in {"none", "destroyed"} THEN Misuse("read")
        ELSE /\ IF outcome[c] = Thrown /\ x # "main"
                THEN /\ ip' = [ip EXCEPT ![x] = Len(Script(x)) + 1]
                     /\ outcome' = [outcome EXCEPT ![x] = Thrown]
                ELSE Advance(t) /\ UNCHANGED outcome
             /\ out' = IF x = "main" THEN Append(out, outcome[c]) ELSE out
             /\ UNCHANGED <<example, stack, pulled, frame, value, waiter,
                            armed, expired, misuse>>

\* The owner's destructor destroys the frame, if the class has one that does,
\* and with the frame go the frames that its parameters and locals own.
Destroyed(gone) == [d \in Coroutines |->
                      IF d \in gone /\ frame[d] # "none" THEN "destroyed"
                      ELSE frame[d]]
Owned_Leaked(c) == {}   \* mutant: handles instead of owning objects
Owned(c) == Promise(c).params \cup Promise(c).locals

Drop(t) ==
  /\ At(t, "drop")
  /\ LET c == On(t)
     IN IF frame[c] \notin {"suspended", "final"} /\ Promise(c).owned
        THEN Misuse("destroy")
        ELSE /\ frame' = IF Promise(c).owned THEN Destroyed({c} \cup Owned(c)) ELSE frame
             /\ Advance(t)
             /\ UNCHANGED <<example, stack, pulled, value, outcome, waiter,
                            armed, expired, out, misuse>>

-----------------------------------------------------------------------------
(* What a coroutine does to itself.                                        *)

Leave(t) == /\ frame' = [frame EXCEPT ![Self(t)] = "suspended"]
            /\ Pop(t)
            /\ Advance(t)

\* co_yield of one of some values, and co_await of an awaiter that only
\* suspends.
Yield(t) ==
  /\ At(t, "yield")
  /\ \E v \in On(t) : value' = [value EXCEPT ![Self(t)] = v]
  /\ Leave(t)
  /\ UNCHANGED <<example, pulled, outcome, waiter, armed, expired, out, misuse>>

\* An awaiter that starts a detached thread, which will resume the coroutine.
After(t) ==
  /\ At(t, "after")
  /\ armed' = armed \cup {Self(t)}
  /\ Leave(t)
  /\ UNCHANGED <<example, pulled, value, outcome, waiter, expired, out, misuse>>

\* An awaiter that resumes the coroutine itself, after it has run a task.
Nest(t) ==
  /\ At(t, "nest")
  /\ LET x == Self(t)
     IN /\ frame' = [frame EXCEPT ![x] = "suspended"]
        /\ Replace(t, << <<"re-enters", x, On(t)>> >>)
        /\ Advance(t)
  /\ UNCHANGED <<example, pulled, value, outcome, waiter, armed, expired, out,
                 misuse>>

\* co_await of a task whose final awaiter resumes who awaits it.
Await(t) ==
  /\ At(t, "await")
  /\ LET c == On(t)
         x == Self(t)
     IN \/ /\ frame[c] = "final"
           /\ UNCHANGED <<stack, frame, waiter>>
        \/ /\ Resumable(c)
           /\ waiter' = [waiter EXCEPT ![c] = x]
           /\ frame' = [frame EXCEPT ![x] = "suspended", ![c] = "running"]
           /\ Replace(t, << <<"leaves", x>>, <<"runs", c>> >>)
  /\ Advance(t)
  /\ UNCHANGED <<example, pulled, value, outcome, armed, expired, out, misuse>>

\* The output of a coroutine, which may use a parameter it has by reference.
Show(t) ==
  /\ At(t, "print")
  /\ IF Self(t) \in expired THEN Misuse("dangling")
     ELSE /\ out' = Append(out, On(t))
          /\ Advance(t)
          /\ UNCHANGED <<example, stack, pulled, frame, value, outcome, waiter,
                         armed, expired, misuse>>

\* for (v : generator): begin() and ++ resume it.  The loop passes on f[v] for
\* the values v that it keeps, the domain of f: a coroutine yields it, main
\* prints it and breaks off after "most" values.
Each(t) ==
  /\ At(t, "each")
  /\ LET c == On(t)
         x == Self(t)
         f == Operation(t)[3]
         most == Operation(t)[4]
         v == value[c]
     IN \/ /\ x \notin pulled /\ Resumable(c)
           /\ pulled' = pulled \cup {x}
           /\ Enter(t, c)
           /\ UNCHANGED <<ip, value, out>>
        \/ /\ x \in pulled /\ frame[c] = "final"
           /\ pulled' = pulled \ {x}
           /\ Advance(t)
           /\ UNCHANGED <<stack, frame, value, out>>
        \/ /\ x \in pulled /\ frame[c] = "suspended"
           /\ pulled' = pulled \ {x}
           /\ IF v \in DOMAIN f /\ x # "main"
              THEN /\ value' = [value EXCEPT ![x] = f[v]]
                   /\ frame' = [frame EXCEPT ![x] = "suspended"]
                   /\ Pop(t)
              ELSE UNCHANGED <<stack, frame, value>>
           /\ out' = IF v \in DOMAIN f /\ x = "main" THEN Append(out, f[v])
                     ELSE out
           /\ IF x = "main" /\ Len(out') >= most THEN Advance(t)
              ELSE UNCHANGED ip
  /\ UNCHANGED <<example, outcome, waiter, armed, expired, misuse>>

\* co_return of one of some values, or the end of the body; the locals die.
\* An exception that leaves the body is a value too: unhandled_exception keeps
\* it.
End(t) ==
  /\ At(t, "end") \/ At(t, "return")
  /\ Self(t) # "main"
  /\ LET x == Self(t)
         final == Promise(x).end
         results == IF At(t, "return") THEN On(t) ELSE {outcome[x]}
     IN /\ \E v \in results : outcome' = [outcome EXCEPT ![x] = v]
        /\ frame' = IF final = "destroy" THEN Destroyed({x} \cup Owned(x))
                    ELSE [Destroyed(Promise(x).locals) EXCEPT ![x] = "final"]
        /\ IF final = "wake" THEN Replace(t, << <<"ends", x>> >>) ELSE Pop(t)
        /\ Advance(t)
  /\ UNCHANGED <<example, pulled, value, waiter, armed, expired, out, misuse>>

-----------------------------------------------------------------------------
(* What runs between the functions.                                        *)

\* The final awaiter reads the promise; its frame has been at its end, and so
\* done(), since before.
Wake(t) ==
  /\ ~Stopped /\ stack[t] # <<>> /\ Top(t)[1] = "ends"
  /\ LET c == Top(t)[2]
         x == waiter[c]
     IN IF frame[c] = "destroyed" THEN Misuse("promise")
        ELSE IF x = Nobody
        THEN Pop(t) /\ UNCHANGED <<frame, example, ip, pulled, value, outcome,
                                   waiter, armed, expired, out, misuse>>
        ELSE IF ~Resumable(x) THEN Misuse("resume")
        ELSE /\ frame' = [frame EXCEPT ![x] = "running"]
             /\ Replace(t, << <<"leaves", c>>, <<"runs", x>> >>)
             /\ UNCHANGED <<example, ip, pulled, value, outcome, waiter, armed,
                            expired, out, misuse>>

ReEnter(t) ==
  /\ ~Stopped /\ stack[t] # <<>> /\ Top(t)[1] = "re-enters"
  /\ LET x == Top(t)[2]
         c == Top(t)[3]
     IN IF c # Nobody /\ Resumable(c) THEN Enter(t, c)
        ELSE /\ Resumable(x)
             /\ frame' = [frame EXCEPT ![x] = "running"]
             /\ Replace(t, << <<"leaves", x>>, <<"runs", x>> >>)
  /\ UNCHANGED <<example, ip, pulled, value, outcome, waiter, armed, expired,
                 out, misuse>>

Return(t) ==
  /\ ~Stopped /\ stack[t] # <<>> /\ Top(t)[1] = "leaves"
  /\ Pop(t)
  /\ UNCHANGED <<example, ip, pulled, frame, value, outcome, waiter, armed,
                 expired, out, misuse>>

\* A detached thread has slept long enough.
Fire(c) ==
  /\ ~Stopped /\ c \in armed /\ stack[c] = <<>>
  /\ IF ~Resumable(c) THEN Misuse("resume")
     ELSE /\ armed' = armed \ {c}
          /\ Enter(c, c)
          /\ UNCHANGED <<example, ip, pulled, value, outcome, waiter, expired,
                         out, misuse>>

Run(t) == \/ Call(t) \/ Expire(t) \/ Resume(t) \/ Spin(t) \/ Read(t) \/ Drop(t)
          \/ Yield(t) \/ After(t) \/ Nest(t) \/ Await(t) \/ Show(t) \/ Each(t)
          \/ End(t) \/ Wake(t) \/ ReEnter(t) \/ Return(t)

Next == \E t \in Threads : Run(t) \/ (t \in Coroutines /\ Fire(t))

Spec == Init /\ [][Next]_vars

-----------------------------------------------------------------------------

TypeOK ==
  /\ example \in Examples
  /\ \A c \in Coroutines :
       frame[c] \in {"none", "suspended", "running", "final", "destroyed"}
  /\ armed \subseteq Coroutines
  /\ misuse \in {"none", "resume", "read", "destroy", "dangling", "promise"}

\* The only undefined operation that an example can run into is the one that it
\* is recorded with: no frame is resumed while it runs, at its end or after
\* it, read or destroyed after it is gone, or destroyed while it runs; no
\* parameter is used that refers to nothing.
MisuseIsKnown == misuse \in {"none", example.flaw}

\* A frame on a stack is one that exists, and one function executes it.
OneRunner ==
  \A c \in Coroutines : frame[c] = "running" <=>
     Cardinality({t \in Threads : \E i \in DOMAIN stack[t] :
                                     stack[t][i] = <<"runs", c>>}) = 1

\* When main ends, no frame is left but those that detached threads hold.
NoLeak ==
  Finished => \A c \in Coroutines :
                 \/ frame[c] \in {"none", "destroyed"}
                 \/ c \in armed \/ stack[c] # <<>>

\* main prints what it should, in order, and all of it unless it leaves
\* detached threads behind or the example is flawed.
PrintsRight ==
  /\ \E p \in example.prints : IsPrefix(out, p)
  /\ Finished /\ example.flaw = "none"
       /\ (\A c \in Coroutines : c \notin armed /\ stack[c] = <<>>)
     => out \in example.prints

=============================================================================
