------------------------------- MODULE Pipes -------------------------------
(***************************************************************************)
(* The examples of 2_IPC/1_pipeAndFIFO.cpp: a parent and the child it has  *)
(* forked, connected by anonymous pipes or by a FIFO.  What each of them   *)
(* does is a script of system calls; a step is one call.                   *)
(*                                                                         *)
(* A pipe is a count of the units written and of the units read: the       *)
(* kernel keeps their order.  Sleeping is an arbitrary delay, and pipe and *)
(* fork succeed.  A child that has finished its script goes on with the    *)
(* later examples, as a parent of its own: here it has ended, which is     *)
(* what its parent waits for.                                              *)
(***************************************************************************)
EXTENDS Naturals, Sequences, FiniteSets

CONSTANTS
  MsgLen,       \* the units of a message
  BufLen,       \* BUFFER_SIZE, the most units that a read returns
  Capacity,     \* the units that a pipe holds
  Flood         \* the 100 writes of errorHandlingExample

VARIABLES
  example,      \* the example that runs
  script,       \* process -> the calls it has still to make
  open,         \* end of a pipe -> the processes that hold it open
  sent, read,   \* pipe -> units written, units read
  fifo,         \* FIFO_NAME exists
  met,          \* the ends of the FIFO that were ever opened
  missed        \* the reader found no FIFO

vars == <<example, script, open, sent, read, fifo, met, missed>>

Processes == {"parent", "child"}
Ends      == {1, 2} \X {"r", "w"}

Close(p, e) == <<"close", p, e>>
Write(p)    == <<"write", p>>
Read(p)     == <<"read", p>>
ReadAll(p)  == <<"read_all", p>>
Wait        == <<"wait">>

Times(n, call) == [k \in 1..n |-> call]

\* basicExample and blockingExample: one message from the parent.
OneMessage ==
  [parent |-> <<Close(1, "r"), Write(1), Close(1, "w"), Wait>>,
   child  |-> <<Close(1, "w"), Read(1), Close(1, "r")>>]

\* Mutant: both processes read before they write.
Bidirectional_ReadFirst ==
  [parent |-> <<Close(1, "r"), Close(2, "w"), Read(2), Close(2, "r"), Write(1),
                Close(1, "w"), Wait>>,
   child  |-> <<Close(1, "w"), Close(2, "r"), Read(1), Close(1, "r"),
                Write(2), Close(2, "w")>>]

\* bidirectionalExample: a message and its answer, in two pipes.
Bidirectional ==
  [parent |-> <<Close(1, "r"), Close(2, "w"), Write(1), Close(1, "w"), Read(2),
                Close(2, "r"), Wait>>,
   child  |-> <<Close(1, "w"), Close(2, "r"), Read(1), Close(1, "r"),
                Write(2), Close(2, "w")>>]

\* Mutant: the reader leaves after one read.
ManyMessages_OneRead ==
  [parent |-> <<Close(1, "r")>> \o Times(Flood, Write(1)) \o <<Close(1, "w"), Wait>>,
   child  |-> <<Close(1, "w"), Read(1), Close(1, "r")>>]

\* errorHandlingExample: the parent writes more than a pipe holds, the child
\* reads to the end of the file.
ManyMessages ==
  [parent |-> <<Close(1, "r")>> \o Times(Flood, Write(1)) \o <<Close(1, "w"), Wait>>,
   child  |-> <<Close(1, "w"), ReadAll(1), Close(1, "r")>>]

\* demonstrateFIFO: the parent is writer(), the child is reader().
Fifo ==
  [parent |-> <<<<"mkfifo">>, <<"open", "w">>, <<"opened", "w">>>>
                \o Times(4, Write(1)) \o <<Close(1, "w"), Wait, <<"unlink">>>>,
   child  |-> <<<<"open", "r">>, <<"opened", "r">>, ReadAll(1), Close(1, "r")>>]

Script(x) ==
  CASE x \in {"basic", "blocking"} -> OneMessage
    [] x = "bidirectional"         -> Bidirectional
    [] x = "many"                  -> ManyMessages
    [] x = "fifo"                  -> Fifo

\* The pipes that the parent makes before it forks.
Used(x) == IF x = "fifo" THEN {} ELSE IF x = "bidirectional" THEN {1, 2} ELSE {1}

\* The processes hold all ends of the pipes when the child has been forked;
\* an earlier run that was killed may have left its FIFO.
Init ==
  /\ example \in {"basic", "blocking", "bidirectional", "many", "fifo"}
  /\ script = Script(example)
  /\ open = [e \in Ends |->
               IF e[1] \in Used(example) THEN Processes ELSE {}]
  /\ sent = [p \in {1, 2} |-> 0] /\ read = [p \in {1, 2} |-> 0]
  /\ fifo \in (IF example = "fifo" THEN BOOLEAN ELSE {FALSE})
  /\ met = {}
  /\ missed = FALSE

-----------------------------------------------------------------------------

\* x's next call is one of the given name; Advance goes behind it.
At(x, name) == script[x] # <<>> /\ Head(script[x])[1] = name
Advance(x)  == script' = [script EXCEPT ![x] = Tail(@)]
Pipe(x)     == Head(script[x])[2]
Held(p)     == sent[p] - read[p]
Smaller(m, n) == IF m < n THEN m ELSE n

CloseEnd(x) ==
  /\ At(x, "close")
  /\ open' = [open EXCEPT ![Tail(Head(script[x]))] = @ \ {x}]
  /\ Advance(x)
  /\ UNCHANGED <<example, sent, read, fifo, met, missed>>

\* A write of at most PIPE_BUF bytes is atomic: it blocks for lack of room.
\* Without a reader SIGPIPE would end the process: AllRead says that this
\* does not arise.
WriteMessage(x) ==
  /\ At(x, "write")
  /\ open[<<Pipe(x), "r">>] # {}
  /\ Held(Pipe(x)) + MsgLen <= Capacity
  /\ sent' = [sent EXCEPT ![Pipe(x)] = @ + MsgLen]
  /\ Advance(x)
  /\ UNCHANGED <<example, open, read, fifo, met, missed>>

\* A read takes what is there, up to the size of the buffer.  read_all reads
\* on.
ReadSome(x) ==
  /\ At(x, "read") \/ At(x, "read_all")
  /\ Held(Pipe(x)) > 0
  /\ read' = [read EXCEPT ![Pipe(x)] = @ + Smaller(Held(Pipe(x)), BufLen)]
  /\ IF At(x, "read") THEN Advance(x) ELSE UNCHANGED script
  /\ UNCHANGED <<example, open, sent, fifo, met, missed>>

\* The end of the file: the pipe is empty and has no writer.
ReadEof(x) ==
  /\ At(x, "read") \/ At(x, "read_all")
  /\ Held(Pipe(x)) = 0
  /\ open[<<Pipe(x), "w">>] = {}
  /\ Advance(x)
  /\ UNCHANGED <<example, open, sent, read, fifo, met, missed>>

\* mkfifo; that the FIFO exists (EEXIST) is all right.
MakeFifo(x) ==
  /\ At(x, "mkfifo")
  /\ fifo' = TRUE
  /\ Advance(x)
  /\ UNCHANGED <<example, open, sent, read, met, missed>>

\* open of the FIFO: the end is there at once, the call returns when the
\* other end has been opened.
OpenFifo(x) ==
  /\ At(x, "open")
  /\ fifo
  /\ open' = [open EXCEPT ![<<1, Pipe(x)>>] = @ \cup {x}]
  /\ met' = met \cup {Pipe(x)}
  /\ Advance(x)
  /\ UNCHANGED <<example, sent, read, fifo, missed>>

\* ENOENT: reader() returns.
OpenFails(x) ==
  /\ At(x, "open")
  /\ ~fifo
  /\ missed' = TRUE
  /\ script' = [script EXCEPT ![x] = <<>>]
  /\ UNCHANGED <<example, open, sent, read, fifo, met>>

OpenReturns(x) ==
  /\ At(x, "opened")
  /\ met = {"r", "w"}
  /\ Advance(x)
  /\ UNCHANGED <<example, open, sent, read, fifo, met, missed>>

\* wait(nullptr)
Reap ==
  /\ At("parent", "wait")
  /\ script["child"] = <<>>
  /\ Advance("parent")
  /\ UNCHANGED <<example, open, sent, read, fifo, met, missed>>

Unlink(x) ==
  /\ At(x, "unlink")
  /\ fifo' = FALSE
  /\ Advance(x)
  /\ UNCHANGED <<example, open, sent, read, met, missed>>

Process(x) ==
  \/ CloseEnd(x) \/ WriteMessage(x) \/ ReadSome(x)
  \/ ReadEof(x) \/ MakeFifo(x) \/ OpenFifo(x) \/ OpenFails(x)
  \/ OpenReturns(x) \/ Unlink(x)
  \/ x = "parent" /\ Reap

Next == \E x \in Processes : Process(x)

Spec == Init /\ [][Next]_vars

-----------------------------------------------------------------------------

TypeOK ==
  /\ example \in {"basic", "blocking", "bidirectional", "many", "fifo"}
  /\ DOMAIN script = Processes
  /\ open \in [Ends -> SUBSET Processes]
  /\ \A p \in {1, 2} : sent[p] \in Nat /\ read[p] \in 0..sent[p]
  /\ fifo \in BOOLEAN /\ missed \in BOOLEAN
  /\ met \subseteq {"r", "w"}

\* A process that is through with an example holds no end of its pipes: the
\* child goes on to fork, and a write end that it left open would keep a
\* later reader from the end of the file (1_pipeAndFIFO.cpp:112-126).
NothingLeaks ==
  \A x \in Processes : script[x] = <<>> => \A e \in Ends : x \notin open[e]

\* All that is written is read: nobody leaves a pipe while its writer still
\* writes (no SIGPIPE), and the parent ends with empty pipes
\* (1_pipeAndFIFO.cpp:89-126, 159-188, 261-310).
AllRead ==
  /\ \A p \in {1, 2} : open[<<p, "r">>] = {} =>
       \A x \in Processes : ~At(x, "write") \/ Pipe(x) # p \/ example = "fifo"
  /\ script["parent"] = <<>> => sent = read

\* The parent has come to the end of the example.
Ended == script["parent"] = <<>>
=============================================================================
