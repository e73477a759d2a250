---------------------------- MODULE LockFreeStack ----------------------------
(***************************************************************************)
(* The lock-free stacks of 6_lockFree/aba_problem.cpp: UnsafeLockFreeStack *)
(* (a bare pointer), SafeLockFreeStack and SafeStack (a pointer with a     *)
(* tag), and the program that uses the last one.                           *)
(*                                                                         *)
(* A step is one access to head_, or to a field of a node that another     *)
(* thread may have deleted.  A deleted address may be handed out again by  *)
(* new, and what is read through a pointer to a deleted node is arbitrary. *)
(* The initial state chooses the kind of stack.  Of UnsafeLockFreeStack    *)
(* the source says itself that several popping threads break it; here one  *)
(* thread pops from it.                                                    *)
(***************************************************************************)
EXTENDS Naturals, Sequences, FiniteSets, SequencesExt

CONSTANTS
  Pushers,              \* the threads that push
  Poppers,              \* the threads that pop
  Ops,                  \* ops: the pushes of one thread
  Addresses,            \* the addresses that new hands out
  Null,                 \* nullptr
  Freed,                \* the contents of an address that is not in use
  Untagged              \* the tag of a head_ that has none

VARIABLES
  head_,                \* the top: pointer and tag
  heap,                 \* address -> the node that lives there, or Freed
  old_head,             \* thread -> the value of head_ that it expects
  node,                 \* pusher -> the node that it is pushing
  pushed,               \* pusher -> its completed pushes
  at,                   \* popper -> where it is
  new_ptr,              \* popper -> the successor that it has read
  got,                  \* the values that pop has returned
  total_popped          \* the counter of the program

vars == <<head_, heap, old_head, node, pushed, at, new_ptr, got, total_popped>>

Values   == Pushers \X (1..Ops)
Total    == Cardinality(Pushers) * Ops
Pointers == Addresses \cup {Null}
Living   == {a \in Addresses : heap[a] # Freed}

Empty    == [ptr |-> Null, tag |-> 0]

\* A local variable has the value of Empty or Null out of its scope.
Init ==
  /\ \/ /\ head_ = Empty
        /\ at = [c \in Poppers |-> "testing"]
     \/ /\ head_ = [Empty EXCEPT !.tag = Untagged]
        /\ \E b \in Poppers :
             at = [c \in Poppers |-> IF c = b THEN "testing" ELSE "gone"]
  /\ heap = [a \in Addresses |-> Freed]
  /\ old_head = [t \in Pushers \cup Poppers |-> Empty]
  /\ node = [p \in Pushers |-> Null]
  /\ pushed = [p \in Pushers |-> 0]
  /\ new_ptr = [c \in Poppers |-> Null]
  /\ got = {}
  /\ total_popped = 0

-----------------------------------------------------------------------------

\* Mutant: the tag is not compared.
Expected_PointerOnly(t) == head_.ptr = old_head[t].ptr

\* compare_exchange_weak finds what the thread expects.
Expected(t) == head_ = old_head[t]

\* The value that a thread stores: another pointer and the next tag.
NewHead(t, ptr) ==
  [ptr |-> ptr, tag |-> IF old_head[t].tag = Untagged THEN Untagged
                        ELSE old_head[t].tag + 1]

\* push: a node is allocated and linked to the head that was loaded.
Prepare(p) ==
  /\ node[p] = Null /\ pushed[p] < Ops
  /\ \E a \in Addresses \ Living :
       /\ node' = [node EXCEPT ![p] = a]
       /\ heap' = [heap EXCEPT ![a] = [data |-> <<p, pushed[p] + 1>>,
                                       next |-> head_.ptr]]
  /\ old_head' = [old_head EXCEPT ![p] = head_]
  /\ UNCHANGED <<head_, pushed, at, new_ptr, got, total_popped>>

\* push: the exchange succeeds.
Push(p) ==
  /\ node[p] # Null /\ Expected(p)
  /\ head_' = NewHead(p, node[p])
  /\ node' = [node EXCEPT ![p] = Null]
  /\ pushed' = [pushed EXCEPT ![p] = @ + 1]
  /\ old_head' = [old_head EXCEPT ![p] = Empty]
  /\ UNCHANGED <<heap, at, new_ptr, got, total_popped>>

\* Mutant: the node is not linked again after a failed exchange.
Relink_Forgotten(p) ==
  /\ node[p] # Null
  /\ old_head' = [old_head EXCEPT ![p] = head_]
  /\ UNCHANGED <<head_, heap, node, pushed, at, new_ptr, got, total_popped>>

\* push: the exchange fails, possibly without a reason; the head that it
\* found is expected next time, and the node is linked to it.
Relink(p) ==
  /\ node[p] # Null
  /\ old_head' = [old_head EXCEPT ![p] = head_]
  /\ heap' = [heap EXCEPT ![node[p]].next = head_.ptr]
  /\ UNCHANGED <<head_, node, pushed, at, new_ptr, got, total_popped>>

-----------------------------------------------------------------------------

\* The loop of a popping thread ends when everything was popped.
Test(c) ==
  /\ at[c] = "testing"
  /\ at' = [at EXCEPT ![c] = IF total_popped < Total THEN "loading" ELSE "gone"]
  /\ UNCHANGED <<head_, heap, old_head, node, pushed, new_ptr, got, total_popped>>

\* pop loads the head, or finds the head that made its exchange fail: on an
\* empty stack it returns false.
Load(c) ==
  /\ at[c] \in {"loading", "swapping"}
  /\ old_head' = [old_head EXCEPT ![c] = IF head_.ptr = Null THEN Empty ELSE head_]
  /\ at' = [at EXCEPT ![c] = IF head_.ptr = Null THEN "testing" ELSE "reading"]
  /\ new_ptr' = [new_ptr EXCEPT ![c] = Null]
  /\ UNCHANGED <<head_, heap, node, pushed, got, total_popped>>

\* pop reads the successor of the node that it has seen on top.
ReadNext(c) ==
  /\ at[c] = "reading"
  /\ \E q \in IF old_head[c].ptr \in Living THEN {heap[old_head[c].ptr].next}
              ELSE Pointers :
       new_ptr' = [new_ptr EXCEPT ![c] = q]
  /\ at' = [at EXCEPT ![c] = "swapping"]
  /\ UNCHANGED <<head_, heap, old_head, node, pushed, got, total_popped>>

\* Mutant: the head that was found is stored again.
Pop_SameHead(c) ==
  /\ at[c] = "swapping" /\ Expected(c)
  /\ head_' = NewHead(c, old_head[c].ptr)
  /\ at' = [at EXCEPT ![c] = "owning"]
  /\ new_ptr' = [new_ptr EXCEPT ![c] = Null]
  /\ UNCHANGED <<heap, old_head, node, pushed, got, total_popped>>

\* pop: the exchange succeeds, the node belongs to the thread.
Pop(c) ==
  /\ at[c] = "swapping" /\ Expected(c)
  /\ head_' = NewHead(c, new_ptr[c])
  /\ at' = [at EXCEPT ![c] = "owning"]
  /\ new_ptr' = [new_ptr EXCEPT ![c] = Null]
  /\ UNCHANGED <<heap, old_head, node, pushed, got, total_popped>>

\* pop takes the data and deletes the node.
Delete(c) ==
  /\ at[c] = "owning"
  /\ got' = got \cup {heap[old_head[c].ptr].data}
  /\ heap' = [heap EXCEPT ![old_head[c].ptr] = Freed]
  /\ at' = [at EXCEPT ![c] = "counting"]
  /\ old_head' = [old_head EXCEPT ![c] = Empty]
  /\ UNCHANGED <<head_, node, pushed, new_ptr, total_popped>>

\* Mutant: the counter is no atomic, and a concurrent increment is lost.
Count_Lost(c) ==
  /\ at[c] = "counting"
  /\ total_popped' \in {total_popped, total_popped + 1}
  /\ at' = [at EXCEPT ![c] = "testing"]
  /\ UNCHANGED <<head_, heap, old_head, node, pushed, new_ptr, got>>

\* ++total_popped
Count(c) ==
  /\ at[c] = "counting"
  /\ total_popped' = total_popped + 1
  /\ at' = [at EXCEPT ![c] = "testing"]
  /\ UNCHANGED <<head_, heap, old_head, node, pushed, new_ptr, got>>

Pusher(p) == Prepare(p) \/ Push(p) \/ Relink(p)
Popper(c) ==
  Test(c) \/ Load(c) \/ ReadNext(c) \/ Pop(c) \/ Delete(c) \/ Count(c)

Terminated == (\A c \in Poppers : at[c] = "gone") /\ UNCHANGED vars

Next ==
  \/ \E p \in Pushers : Pusher(p)
  \/ \E c \in Poppers : Popper(c)
  \/ Terminated

Spec == Init /\ [][Next]_vars

\* The threads are scheduled, and an exchange does not fail for ever while
\* what it expects is there.
FairSpec ==
  /\ Spec
  /\ \A p \in Pushers : WF_vars(Pusher(p)) /\ SF_vars(Push(p))
  /\ \A c \in Poppers : WF_vars(Popper(c)) /\ SF_vars(Pop(c))

-----------------------------------------------------------------------------

\* What the node at position k of the addresses s points to; the top points to
\* the first.
After(s, k) == IF k = 0 THEN head_.ptr ELSE heap[s[k]].next

\* s is the linked list: living nodes, each the successor of the one before,
\* up to nullptr.
IsChain(s) ==
  /\ \A k \in 1..Len(s) : After(s, k - 1) = s[k] /\ s[k] \in Living
  /\ After(s, Len(s)) = Null

\* The addresses that are reached from the top, if they end at nullptr.
Paths   == SeqOf(Addresses, Cardinality(Addresses))
Reached == IF \E s \in Paths : IsChain(s) THEN CHOOSE s \in Paths : IsChain(s)
           ELSE <<>>

stack == [k \in 1..Len(Reached) |-> heap[Reached[k]].data]

\* The node of a thread whose exchange has succeeded.
Owned(c) == IF at[c] = "owning" THEN {old_head[c].ptr} ELSE {}

-----------------------------------------------------------------------------

Heads == [ptr : Pointers, tag : 0..2 * Total \cup {Untagged}]

TypeOK ==
  /\ head_ \in Heads
  /\ heap \in [Addresses -> [data : Values, next : Pointers] \cup {Freed}]
  /\ old_head \in [Pushers \cup Poppers -> Heads]
  /\ node \in [Pushers -> Pointers]
  /\ pushed \in [Pushers -> 0..Ops]
  /\ at \in [Poppers -> {"testing", "loading", "reading", "swapping",
                         "owning", "counting", "gone"}]
  /\ new_ptr \in [Poppers -> Pointers]
  /\ got \in SUBSET Values
  /\ total_popped \in 0..Total

\* The chain ends at nullptr and holds no deleted node and no node twice; the
\* nodes that threads are pushing or deleting are not in it and are theirs
\* alone.
Intact ==
  LET reached == {Reached[k] : k \in 1..Len(Reached)}
  IN  /\ IsChain(Reached)
      /\ Cardinality(reached) = Len(Reached)
      /\ \A p \in Pushers : node[p] # Null =>
           /\ node[p] \in Living \ reached
           /\ \A q \in Pushers \ {p} : node[q] # node[p]
           /\ \A c \in Poppers : node[p] \notin Owned(c)
      /\ \A c \in Poppers :
           /\ Owned(c) \subseteq Living \ reached
           /\ \A d \in Poppers \ {c} : Owned(c) \cap Owned(d) = {}

\* When the counter lets the threads go, every value was got and every node
\* is deleted.
NothingLeft ==
  total_popped = Total => got = Values /\ Living = {}

\* The state of the linked stack: types, the chain, and an empty heap at the
\* end.
Structure == TypeOK /\ Intact /\ NothingLeft

\* The stack implements the abstract one.  A value leaves when the exchange
\* succeeds.
out == got \cup {heap[a].data : a \in UNION {Owned(c) : c \in Poppers}}

Lifo == INSTANCE LifoStack

IsStack == Lifo!Spec

\* aba_problem.cpp:193, "the version with a tag, it does not crash": no
\* thread reads a field of a node that was deleted.
NoUseAfterFree ==
  \A c \in Poppers : at[c] = "reading" => old_head[c].ptr \in Living

\* Without a tag and with one popping thread no deleted node is read: it is
\* the only one that deletes.
OneReaderIsSafe == head_.tag = Untagged => NoUseAfterFree
=============================================================================
