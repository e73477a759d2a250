----------------------------- MODULE PrintOrder -----------------------------
(***************************************************************************)
(* 5_threadsQuiz/02_printOrder.cpp: three threads print A, B and C, each   *)
(* ten times, in turns by a flag and a condition variable ("cv"), in turns *)
(* by three atomic flags ("atomic"), or one after the other by promises    *)
(* ("future").  A printer is its number, which is also its letter.         *)
(***************************************************************************)
EXTENDS Naturals, Sequences

CONSTANTS Printers,     \* how many threads
          Rounds        \* how often each prints

VARIABLES style,        \* "cv", "atomic" or "future"
          flag,         \* cv: flag
          light,        \* atomic: a, b and c
          set,          \* future: the printers whose promise is set
          pc,           \* where each printer is
          count,        \* how often it has printed
          out           \* the letters printed

vars == <<style, flag, light, set, pc, count, out>>

P == 0..Printers - 1

After(x) == (x + 1) % Printers

\* In the futures' chain pStart is set by task before anything is printed.
Init ==
  /\ style \in {"cv", "atomic", "future"}
  /\ flag = 0
  /\ light = [x \in P |-> x = 0]
  /\ set = {}
  /\ pc = [x \in P |-> "waiting"]
  /\ count = [x \in P |-> 0]
  /\ out = <<>>

Emit(x) ==
  /\ out' = Append(out, x)
  /\ count' = [count EXCEPT ![x] = @ + 1]

Last(x) == count[x] + 1 = Rounds

\* cv: the holder of myMutex has its turn.  It passes the turn on, notifies,
\* and waits again before it gives up the mutex.
PrintInTurn(x) ==
  /\ style = "cv"
  /\ pc[x] = "waiting"
  /\ flag = x
  /\ Emit(x)
  /\ flag' = After(x)
  /\ pc' = [y \in P |-> IF y = x THEN IF Last(x) THEN "done" ELSE "parked"
                        ELSE IF pc[y] = "parked" THEN "waiting" ELSE pc[y]]
  /\ UNCHANGED <<style, light, set>>

\* cv: it is another one's turn.
Park(x) ==
  /\ style = "cv"
  /\ pc[x] = "waiting"
  /\ flag # x
  /\ pc' = [pc EXCEPT ![x] = "parked"]
  /\ UNCHANGED <<style, flag, light, set, count, out>>

SpuriousWakeup(x) ==
  /\ pc[x] = "parked"
  /\ pc' = [pc EXCEPT ![x] = "waiting"]
  /\ UNCHANGED <<style, flag, light, set, count, out>>

\* atomic: the load returns true, and the letter is printed.
PrintLit(x) ==
  /\ style = "atomic"
  /\ pc[x] = "waiting"
  /\ light[x]
  /\ Emit(x)
  /\ pc' = [pc EXCEPT ![x] = "clearing"]
  /\ UNCHANGED <<style, flag, light, set>>

\* Mutant: the next one is lit before its own light is off.
Clear_Late(x) ==
  /\ pc[x] = "clearing"
  /\ light' = [light EXCEPT ![After(x)] = TRUE]
  /\ pc' = [pc EXCEPT ![x] = IF count[x] = Rounds THEN "done" ELSE "waiting"]
  /\ UNCHANGED <<style, flag, set, count, out>>

\* atomic: the own flag is stored false ...
Clear(x) ==
  /\ pc[x] = "clearing"
  /\ light' = [light EXCEPT ![x] = FALSE]
  /\ pc' = [pc EXCEPT ![x] = "lighting"]
  /\ UNCHANGED <<style, flag, set, count, out>>

\* ... and the next one's true.
Light(x) ==
  /\ pc[x] = "lighting"
  /\ light' = [light EXCEPT ![After(x)] = TRUE]
  /\ pc' = [pc EXCEPT ![x] = IF count[x] = Rounds THEN "done" ELSE "waiting"]
  /\ UNCHANGED <<style, flag, set, count, out>>

\* future: fPrev.wait() returns.
Enter(x) ==
  /\ style = "future"
  /\ pc[x] = "waiting"
  /\ x = 0 \/ x - 1 \in set
  /\ pc' = [pc EXCEPT ![x] = "printing"]
  /\ UNCHANGED <<style, flag, light, set, count, out>>

\* future: a pass of the loop; set_value comes after the last one.
PrintRow(x) ==
  /\ pc[x] = "printing"
  /\ Emit(x)
  /\ pc' = [pc EXCEPT ![x] = IF Last(x) THEN "setting" ELSE "printing"]
  /\ UNCHANGED <<style, flag, light, set>>

SetValue(x) ==
  /\ pc[x] = "setting"
  /\ set' = set \cup {x}
  /\ pc' = [pc EXCEPT ![x] = "done"]
  /\ UNCHANGED <<style, flag, light, count, out>>

Printer(x) ==
  \/ PrintInTurn(x) \/ Park(x)
  \/ PrintLit(x) \/ Clear(x) \/ Light(x)
  \/ Enter(x) \/ PrintRow(x) \/ SetValue(x)

Next == \E x \in P : Printer(x) \/ SpuriousWakeup(x)

Spec == Init /\ [][Next]_vars

-----------------------------------------------------------------------------

TypeOK ==
  /\ style \in {"cv", "atomic", "future"}
  /\ flag \in P
  /\ light \in [P -> BOOLEAN]
  /\ set \in SUBSET P
  /\ pc \in [P -> {"waiting", "parked", "clearing", "lighting", "printing",
                  "setting", "done"}]
  /\ count \in [P -> 0..Rounds]
  /\ out \in Seq(P)

\* The k-th letter is the one that the exercise asks for: ABCABC... with the
\* flags, A...AB...BC...C with the promises, whatever the scheduling; and the
\* letters that follow are still to come (02_printOrder.cpp:27-169).
InOrder ==
  \A k \in 1..Len(out) :
    out[k] = IF style = "future" THEN (k - 1) \div Rounds
             ELSE (k - 1) % Printers
=============================================================================
