--------------------------- MODULE ProcessCreation --------------------------
(***************************************************************************)
(* main of 1_processCreate/1_forkAndExec.cpp from memoryIndependenceExample*)
(* on: one process that runs all examples in turn and the children that it *)
(* creates with fork, vfork and clone.  What a process does is a script of *)
(* system calls and of accesses to variables; a step is one of them.       *)
(*                                                                         *)
(* The child of Fork::basicExample does not exit: it runs all that follows *)
(* as the process of this module, and so does its parent after it.  exec   *)
(* replaces a child by a program that ends at last.  fork and vfork        *)
(* succeed, sleeping is an arbitrary delay.                                *)
(***************************************************************************)
EXTENDS Naturals, Sequences, FiniteSets

CONSTANTS
  Loops,        \* the 100 iterations of performanceComparison
  Few,          \* the 3 children, calls and commands of other examples
  Adds          \* the 3 and 5 additions of cloneSharedMemory

VARIABLES
  todo,         \* process -> the steps it has still to make
  state,        \* child -> "unborn", "running", "zombie" or "reaped"
  value,        \* process -> shared_var in its address space
  seen,         \* the values of shared_var that the parent has printed
  shared_counter,   \* of the address space that cloneSharedMemory shares
  loaded,       \* process -> the value of shared_counter it has loaded
  lost,         \* history: an addition was overwritten
  fd,           \* the descriptor of clone_test.txt: "closed" or "open"
  file,         \* who has written to the file
  crashed       \* the stack of a running thread was unmapped

vars == <<todo, state, value, seen, shared_counter, loaded, lost, fd, file, crashed>>

memVars     == <<value, seen>>
counterVars == <<shared_counter, loaded, lost>>
fileVars    == <<fd, file>>

Do(x)       == <<"do", x>>
Fork(c)     == <<"fork", c>>
Vfork(c)    == <<"vfork", c>>
WaitPid(c)  == <<"waitpid", c>>
WaitAny     == <<"wait">>
Begin       == <<"begin">>              \* the next example
Add(n)      == <<<<"load">>, <<"store", n>>>>

Repeat(n, F(_)) ==
  LET upto[k \in 0..n] == IF k = 0 THEN <<>> ELSE upto[k - 1] \o F(k) IN upto[n]

Child(x, k) == <<x, k>>

\* An example that waits for its only child with waitpid, or with wait.
Waited(x)   == <<Begin, Fork(Child(x, 1)), WaitPid(Child(x, 1))>>
Collected(x, n) ==
  <<Begin>> \o Repeat(n, LAMBDA k : <<Fork(Child(x, k)), WaitAny>>)

MemoryIndependence == <<Begin, Fork(Child("memory", 1)), Do("read"), WaitAny>>

MultipleChildren ==
  <<Begin>> \o Repeat(Few, LAMBDA k : <<Fork(Child("multiple", k))>>)
            \o Repeat(Few, LAMBDA k : <<WaitPid(Child("multiple", k))>>)

SafeVfork == <<Begin, Vfork(Child("safe", 1)), WaitPid(Child("safe", 1))>>

PerformanceComparison ==
  <<Begin>> \o Repeat(Loops, LAMBDA k : <<Fork(Child("fast", k)), WaitAny>>)
            \o Repeat(Loops, LAMBDA k : <<Vfork(Child("vfast", k)), WaitAny>>)

\* demonstrateDanger: nobody waits for the child.
DemonstrateDanger == <<Begin, Vfork(Child("danger", 1)), Do("read")>>

CloneThread == <<Begin, Fork(Child("thread", 1)), Do("munmap")>>

CloneSharedMemory ==
  <<Begin, Fork(Child("counter", 1))>> \o Repeat(Adds, LAMBDA k : Add(10))
    \o <<WaitPid(Child("counter", 1))>>

\* Mutant: the parent does not wait at all.
AdvancedClone_NoWait ==
  <<Begin, Do("open"), Fork(Child("files", 1)), Do("write"), Do("close")>>

AdvancedClone ==
  <<Begin, Do("open"), Fork(Child("files", 1)), Do("write"), WaitAny, Do("close")>>

Shell ==
  <<Begin>> \o Repeat(Few, LAMBDA k : <<Fork(Child("shell", k)), WaitPid(Child("shell", k))>>)

Main ==
  MemoryIndependence \o MultipleChildren \o Collected("error", 1)
    \o SafeVfork \o PerformanceComparison \o DemonstrateDanger
    \o Waited("clone") \o CloneThread \o CloneSharedMemory \o AdvancedClone
    \o Waited("namespace")
    \o Waited("ls") \o Collected("family", Few) \o Collected("environment", 1)
    \o Waited("missing") \o Shell \o <<Begin>>

\* What a child does before it exits or execs.
Body(c) ==
  CASE c[1] \in {"memory", "danger"} -> <<Do("set")>>
    [] c[1] = "counter"              -> Repeat(Adds, LAMBDA k : Add(1))
    [] c[1] = "files"                -> <<Do("write")>>
    [] OTHER                         -> <<>>

Offspring ==
  {Child(x, 1) : x \in {"memory", "error", "safe", "danger", "clone", "thread",
                        "counter", "files", "namespace", "ls", "environment",
                        "missing"}}
    \cup {Child(x, k) : x \in {"multiple", "family", "shell"}, k \in 1..Few}
    \cup {Child(x, k) : x \in {"fast", "vfast"}, k \in 1..Loops}

main == Child("main", 0)
Processes == Offspring \cup {main}

Vforked(c) == c[1] \in {"safe", "vfast", "danger"}

\* The process whose memory a process uses: a vforked child has its parent's.
Space(c) == IF c \in Offspring /\ Vforked(c) THEN main ELSE c

Init ==
  /\ todo = [p \in Processes |-> IF p = main THEN Main ELSE <<>>]
  /\ state = [c \in Offspring |-> "unborn"]
  /\ value = [p \in Processes |-> 100]
  /\ seen = <<>>
  /\ shared_counter = 0 /\ loaded = [p \in Processes |-> 0] /\ lost = FALSE
  /\ fd = "closed" /\ file = {}
  /\ crashed = FALSE

-----------------------------------------------------------------------------

Runs(p) == p \in Offspring => state[p] = "running"

\* p's next step is of the given kind; Advance goes behind it.
At(p, kind) == Runs(p) /\ todo[p] # <<>> /\ Head(todo[p])[1] = kind
AtDo(p, x)  == At(p, "do") /\ Head(todo[p])[2] = x
Advance(p)  == todo' = [todo EXCEPT ![p] = Tail(@)]

BeginExample ==
  /\ At(main, "begin")
  /\ Advance(main)
  /\ UNCHANGED <<state, memVars, counterVars, fileVars, crashed>>

\* fork and clone.  The child has a copy of the variables.
Create ==
  /\ At(main, "fork")
  /\ LET c == Head(todo[main])[2] IN
       /\ todo' = [todo EXCEPT ![main] = Tail(@), ![c] = Body(c)]
       /\ state' = [state EXCEPT ![c] = "running"]
       /\ value' = [value EXCEPT ![c] = value[main]]
  /\ UNCHANGED <<seen, counterVars, fileVars, crashed>>

\* CLONE_NEWPID needs privileges: without them the example returns.
CreateFails ==
  /\ At(main, "fork") /\ Head(todo[main])[2] = Child("namespace", 1)
  /\ todo' = [todo EXCEPT ![main] = Tail(Tail(@))]
  /\ UNCHANGED <<state, memVars, counterVars, fileVars, crashed>>

\* vfork: the parent sleeps until the child has called _exit or exec.
CreateVforked ==
  /\ At(main, "vfork")
  /\ LET c == Head(todo[main])[2] IN
       /\ state[c] = "unborn"
       /\ todo' = [todo EXCEPT ![c] = Body(c)]
       /\ state' = [state EXCEPT ![c] = "running"]
  /\ UNCHANGED <<memVars, counterVars, fileVars, crashed>>

\* Mutant: vfork returns at once.
VforkReturns_AtOnce ==
  /\ At(main, "vfork")
  /\ LET c == Head(todo[main])[2] IN state[c] # "unborn"
  /\ Advance(main)
  /\ UNCHANGED <<state, memVars, counterVars, fileVars, crashed>>

VforkReturns ==
  /\ At(main, "vfork")
  /\ LET c == Head(todo[main])[2] IN state[c] # "unborn" /\ todo[c] = <<>>
  /\ Advance(main)
  /\ UNCHANGED <<state, memVars, counterVars, fileVars, crashed>>

\* A child, or the program that it has become, ends.  A thread leaves no
\* zombie.
Exit(c) ==
  /\ state[c] = "running" /\ todo[c] = <<>>
  /\ state' = [state EXCEPT ![c] = IF c[1] = "thread" THEN "reaped" ELSE "zombie"]
  /\ UNCHANGED <<todo, memVars, counterVars, fileVars, crashed>>

WaitForChild ==
  /\ At(main, "waitpid")
  /\ LET c == Head(todo[main])[2] IN
       /\ state[c] = "zombie"
       /\ state' = [state EXCEPT ![c] = "reaped"]
  /\ Advance(main)
  /\ UNCHANGED <<memVars, counterVars, fileVars, crashed>>

\* wait(nullptr): any child that has ended.
WaitForAny ==
  /\ At(main, "wait")
  /\ \E c \in Offspring : /\ state[c] = "zombie"
                         /\ state' = [state EXCEPT ![c] = "reaped"]
  /\ Advance(main)
  /\ UNCHANGED <<memVars, counterVars, fileVars, crashed>>

\* shared_var = 200
SetVar(c) ==
  /\ AtDo(c, "set")
  /\ value' = [value EXCEPT ![Space(c)] = 200]
  /\ Advance(c)
  /\ UNCHANGED <<state, seen, counterVars, fileVars, crashed>>

\* The parent prints shared_var.
ReadVar ==
  /\ AtDo(main, "read")
  /\ seen' = Append(seen, value[main])
  /\ Advance(main)
  /\ UNCHANGED <<state, value, counterVars, fileVars, crashed>>

\* shared_counter++ and shared_counter += 10
Load(p) ==
  /\ At(p, "load")
  /\ loaded' = [loaded EXCEPT ![p] = shared_counter]
  /\ Advance(p)
  /\ UNCHANGED <<state, memVars, shared_counter, lost, fileVars, crashed>>

Store(p) ==
  /\ At(p, "store")
  /\ shared_counter' = loaded[p] + Head(todo[p])[2]
  /\ lost' = (lost \/ shared_counter # loaded[p])
  /\ Advance(p)
  /\ UNCHANGED <<state, memVars, loaded, fileVars, crashed>>

Open ==
  /\ AtDo(main, "open")
  /\ fd' = "open" /\ file' = {}
  /\ Advance(main)
  /\ UNCHANGED <<state, memVars, counterVars, crashed>>

\* The descriptor is shared: when the parent has closed it, the child's write
\* fails.
WriteFile(p) ==
  /\ AtDo(p, "write")
  /\ file' = IF fd = "open" THEN file \cup {p[1]} ELSE file
  /\ Advance(p)
  /\ UNCHANGED <<state, memVars, counterVars, fd, crashed>>

CloseFile ==
  /\ AtDo(main, "close")
  /\ fd' = "closed"
  /\ Advance(main)
  /\ UNCHANGED <<state, memVars, counterVars, file, crashed>>

\* munmap of the thread's stack after three seconds: a thread that still
\* runs brings the process down.
Unmap ==
  /\ AtDo(main, "munmap")
  /\ IF state[Child("thread", 1)] = "running"
       THEN crashed' = TRUE /\ todo' = [todo EXCEPT ![main] = <<>>]
       ELSE Advance(main) /\ UNCHANGED crashed
  /\ UNCHANGED <<state, memVars, counterVars, fileVars>>

Parent ==
  \/ BeginExample \/ Create \/ CreateFails \/ CreateVforked \/ VforkReturns
  \/ WaitForChild \/ WaitForAny \/ ReadVar \/ Open \/ CloseFile \/ Unmap

Process(p) == Load(p) \/ Store(p) \/ WriteFile(p)

SomeChild == \E c \in Offspring : Process(c) \/ SetVar(c) \/ Exit(c)

Next == Parent \/ Process(main) \/ SomeChild

Spec == Init /\ [][Next]_vars

-----------------------------------------------------------------------------

TypeOK ==
  /\ state \in [Offspring -> {"unborn", "running", "zombie", "reaped"}]
  /\ \A p \in Processes : value[p] \in {100, 200}
  /\ fd \in {"closed", "open"} /\ file \subseteq {"main", "files"}
  /\ crashed \in BOOLEAN

\* The children that are created and not yet reaped.
Outstanding == {c \in Offspring : state[c] \in {"running", "zombie"}}

\* Up to demonstrateDanger every example reaps its own children.  The child
\* of demonstrateDanger is left over, and from then on each wait(nullptr) may
\* take the wrong child: exactly one is outstanding between two examples
\* (1_forkAndExec.cpp:296-320, 572, 640-686).
OneLeftOver ==
  At(main, "begin") =>
    Cardinality(Outstanding) = (IF state[Child("danger", 1)] = "unborn" THEN 0 ELSE 1)

\* The child writes its line before the parent closes the descriptor they
\* share, unless the parent's wait has taken the child of demonstrateDanger
\* (1_forkAndExec.cpp:550-573).
FileComplete ==
  fd = "closed" /\ file # {} =>
    /\ "main" \in file
    /\ "files" \in file \/ state[Child("danger", 1)] = "reaped"

\* A forked child changes its own copy of the variable, a vforked one its
\* parent's, and the parent does not look before (1_forkAndExec.cpp:81-115,
\* 296-316).
MemorySeen ==
  \A k \in 1..Len(seen) : seen[k] = (IF k = 1 THEN 100 ELSE 200)

\* No addition is lost unless two of them overlap (1_forkAndExec.cpp:435, 471).
CounterRight ==
  state[Child("counter", 1)] = "reaped" /\ ~lost => shared_counter = 11 * Adds

Ended == todo[main] = <<>>
=============================================================================
