----------------------------- MODULE MpscQueue ------------------------------
(***************************************************************************)
(* mpmc_queue of 6_lockFree/lockfree_queue.cpp: MpscQueue, a linked queue  *)
(* of several producers and one consumer, and the program that uses it.    *)
(*                                                                         *)
(* A step is one access to an atomic of the queue.  A node is named after  *)
(* the item that it carries.                                               *)
(***************************************************************************)
EXTENDS Naturals, Sequences, SequencesExt

CONSTANTS
  Producers,            \* the threads that push
  ItemsPerProducer,     \* items_per_producer
  Dummy,                \* the first sentinel
  Null                  \* nullptr

VARIABLES
  head_, tail_,         \* the two atomics of the queue
  next,                 \* node -> its successor
  freed,                \* the nodes that were deleted
  count,                \* producer -> the items it has exchanged into tail_
  prev_tail,            \* producer -> the node that it has still to link
  consumer,             \* where the consumer is
  taken,                \* the items that the consumer has got
  order                 \* history: the items in the order of the exchanges

vars == <<head_, tail_, next, freed, count, prev_tail, consumer, taken, order>>

AllItems == Producers \X (1..ItemsPerProducer)
Nodes == AllItems \cup {Dummy}

ProducersDone ==
  \A p \in Producers : count[p] = ItemsPerProducer /\ prev_tail[p] = Null

Init ==
  /\ head_ = Dummy /\ tail_ = Dummy
  /\ next = [n \in Nodes |-> Null]
  /\ freed = {}
  /\ count = [p \in Producers |-> 0]
  /\ prev_tail = [p \in Producers |-> Null]
  /\ consumer \in {"joining", "polling"}
  /\ taken = <<>>
  /\ order = <<>>

-----------------------------------------------------------------------------

\* push: a new node is exchanged into tail_.
Exchange(p) ==
  /\ prev_tail[p] = Null
  /\ count[p] < ItemsPerProducer
  /\ prev_tail' = [prev_tail EXCEPT ![p] = tail_]
  /\ tail_' = <<p, count[p] + 1>>
  /\ count' = [count EXCEPT ![p] = @ + 1]
  /\ order' = Append(order, <<p, count[p] + 1>>)
  /\ UNCHANGED <<head_, next, freed, consumer, taken>>

\* Mutant: push returns without the link.
Link_Forgotten(p) ==
  /\ prev_tail[p] # Null
  /\ prev_tail' = [prev_tail EXCEPT ![p] = Null]
  /\ UNCHANGED <<head_, tail_, next, freed, count, consumer, taken, order>>

\* push: the predecessor is linked to the node, and the call returns.
Link(p) ==
  /\ prev_tail[p] # Null
  /\ next' = [next EXCEPT ![prev_tail[p]] = <<p, count[p]>>]
  /\ prev_tail' = [prev_tail EXCEPT ![p] = Null]
  /\ UNCHANGED <<head_, tail_, freed, count, consumer, taken, order>>

\* try_pop loads head_->next and finds a node.
Found ==
  /\ consumer \in {"polling", "draining"}
  /\ next[head_] # Null
  /\ consumer' = "moving"
  /\ UNCHANGED <<head_, tail_, next, freed, count, prev_tail, taken, order>>

\* The producers are joined: from here on the first false ends the loop.  In
\* task() the consumer waits for this; it may also have polled before.
Joined ==
  /\ consumer \in {"joining", "polling"}
  /\ ProducersDone
  /\ consumer' = "draining"
  /\ UNCHANGED <<head_, tail_, next, freed, count, prev_tail, taken, order>>

\* try_pop loads nullptr and returns false.  (A false before the join changes
\* nothing.)
NotFound ==
  /\ consumer = "draining"
  /\ next[head_] = Null
  /\ consumer' = "destroying"
  /\ UNCHANGED <<head_, tail_, next, freed, count, prev_tail, taken, order>>

\* Mutant: the old sentinel's item is returned.
Move_OldSentinel ==
  /\ consumer = "moving"
  /\ taken' = Append(taken, head_)
  /\ head_' = next[head_]
  /\ freed' = freed \cup {head_}
  /\ consumer' = "polling"
  /\ UNCHANGED <<tail_, next, count, prev_tail, order>>

\* Mutant: the node that becomes the sentinel is deleted.
Move_DeletesNext ==
  /\ consumer = "moving"
  /\ taken' = Append(taken, next[head_])
  /\ head_' = next[head_]
  /\ freed' = freed \cup {next[head_]}
  /\ consumer' = "polling"
  /\ UNCHANGED <<tail_, next, count, prev_tail, order>>

\* try_pop takes the data of the next node, which becomes the sentinel, and
\* deletes the old one.
Move ==
  /\ consumer = "moving"
  /\ taken' = Append(taken, next[head_])
  /\ head_' = next[head_]
  /\ freed' = freed \cup {head_}
  /\ consumer' = "polling"
  /\ UNCHANGED <<tail_, next, count, prev_tail, order>>

\* One round of the loop of the destructor.
Destroy ==
  /\ consumer = "destroying"
  /\ head_ # Null
  /\ head_' = next[head_]
  /\ freed' = freed \cup {head_}
  /\ UNCHANGED <<tail_, next, count, prev_tail, consumer, taken, order>>

Producer(p) == Exchange(p) \/ Link(p)
Consumer    == Found \/ Joined \/ NotFound \/ Move \/ Destroy

Next == (\E p \in Producers : Producer(p)) \/ Consumer

Spec == Init /\ [][Next]_vars

-----------------------------------------------------------------------------

TypeOK ==
  /\ head_ \in Nodes \cup {Null} /\ tail_ \in Nodes
  /\ next \in [Nodes -> Nodes \cup {Null}]
  /\ freed \in SUBSET Nodes
  /\ count \in [Producers -> 0..ItemsPerProducer]
  /\ prev_tail \in [Producers -> Nodes \cup {Null}]
  /\ consumer \in {"joining", "polling", "draining", "moving", "destroying"}
  /\ taken \in Seq(AllItems) /\ order \in Seq(AllItems)

\* A deleted node is not touched again: producers link only living nodes,
\* and the consumer's sentinel lives.
NoUseAfterFree ==
  /\ \A p \in Producers : prev_tail[p] \notin freed
  /\ head_ \notin freed
  /\ consumer = "moving" => next[head_] \notin freed

\* The consumer gets the items in the order in which they were exchanged
\* into tail_, without a gap, although the links are made in any order.
Fifo == IsPrefix(taken, order)

\* The links follow the order of the exchanges; what is missing is what some
\* producer has still to link.
Chain ==
  \A k \in 1..Len(order) :
    LET pred == IF k = 1 THEN Dummy ELSE order[k - 1] IN
      \/ next[pred] = order[k]
      \/ /\ next[pred] = Null
         /\ \E p \in Producers :
              prev_tail[p] = pred /\ order[k] = <<p, count[p]>>

\* When the queue is destroyed every item was consumed and every node is
\* deleted: the loop of task() does not stop early (lockfree_queue.cpp:210).
NothingLeft ==
  head_ = Null => /\ ToSet(taken) = AllItems
                  /\ freed = Nodes
=============================================================================
