------------------------------ MODULE Signals ------------------------------
(***************************************************************************)
(* The examples of 2_IPC/3_signal.cpp.  Signals are delivered between any  *)
(* two steps of a process, a pending signal is not queued twice, sleeping  *)
(* is an arbitrary delay, and a user may interrupt the program (Ctrl+C).   *)
(*                                                                         *)
(* "self" is the only process of an example, but for parentChildExample,   *)
(* where it is the child and the parent is a list of signals to send.      *)
(***************************************************************************)
EXTENDS Naturals, Sequences, FiniteSets

CONSTANTS
  Rounds,           \* the 3 rounds of alarmExample
  Waits,            \* the 10 or 5 seconds that the polling loops wait
  MaxInterrupts     \* bound: how often the user interrupts

VARIABLES
  example,          \* the example that runs
  pc,               \* where self is
  handler,          \* signal -> the function that handles it
  pending, mask,    \* the signals that are pending, blocked
  flag,             \* signal_received or safe_flag
  round,            \* the rounds that self has begun
  timer,            \* alarm(2) is running
  alarm_count,      \* alarm_count
  handled,          \* history: how often each signal was handled
  to_send,          \* the signals that the parent has still to send
  reaped,           \* the parent's wait has returned
  interrupts        \* how often the user has interrupted

vars == <<example, pc, handler, pending, mask, flag, round, timer,
          alarm_count, handled, to_send, reaped, interrupts>>

selfVars   == <<handler, mask, round>>
parentVars == <<to_send, reaped>>

Signals == {"INT", "TERM", "USR1", "USR2", "ALRM"}
User    == {"USR1", "USR2"}

Start(x) == CASE x = "poll"         -> "polling"
              [] x = "parent_child" -> "register USR1"
              [] x = "alarm"        -> "arm"
              [] x = "mask"         -> "block"

\* Mutant: basicExample has registered no handlers.
Inherited_None(x) == [s \in Signals |-> "default"]

\* The handlers when the example begins.  basicExample registers its own,
\* and the examples after it, and their children, inherit them.
Inherited(x) ==
  [s \in Signals |-> IF s # "ALRM" THEN "basic"
                     ELSE IF x = "alarm" THEN "alarm" ELSE "default"]

\* basicExample may have received a signal: signal_received is never reset.
Init ==
  /\ example \in {"poll", "parent_child", "alarm", "mask"}
  /\ pc = Start(example)
  /\ handler = Inherited(example)
  /\ pending = {} /\ mask = {}
  /\ flag \in (IF example = "parent_child" THEN {"none", "INT", "USR1", "TERM"}
               ELSE {"none"})
  /\ round = 0
  /\ timer = FALSE /\ alarm_count = 0
  /\ handled = [s \in Signals |-> 0]
  /\ to_send = IF example = "parent_child" THEN <<"USR1", "USR2", "TERM">> ELSE <<>>
  /\ reaped = FALSE
  /\ interrupts = 0

Alive == pc \notin {"ended", "killed"}

-----------------------------------------------------------------------------
\* The kernel.

\* A handler runs: it interrupts self, and ends its pause.  basicSignalHandler
\* records any signal, the child's handler only SIGTERM.
Deliver(s) ==
  /\ Alive
  /\ s \in pending \ mask
  /\ pending' = pending \ {s}
  /\ handled' = [handled EXCEPT ![s] = @ + 1]
  /\ flag' = IF handler[s] = "basic" \/ (handler[s] = "child" /\ s = "TERM")
               THEN s ELSE flag
  /\ alarm_count' = alarm_count + (IF handler[s] = "alarm" THEN 1 ELSE 0)
  /\ pc' = IF handler[s] = "default" THEN "killed"
           ELSE IF pc = "paused" THEN "resumed" ELSE pc
  /\ UNCHANGED <<example, selfVars, timer, parentVars, interrupts>>

\* The timer expires.
Expire ==
  /\ timer /\ Alive
  /\ timer' = FALSE
  /\ pending' = pending \cup {"ALRM"}
  /\ UNCHANGED <<example, pc, selfVars, flag, alarm_count, handled, parentVars,
                 interrupts>>

\* The user presses Ctrl+C.
Interrupt ==
  /\ Alive
  /\ interrupts < MaxInterrupts
  /\ interrupts' = interrupts + 1
  /\ pending' = pending \cup {"INT"}
  /\ UNCHANGED <<example, pc, selfVars, flag, timer, alarm_count, handled,
                 parentVars>>

-----------------------------------------------------------------------------
\* The parent of parentChildExample.

SendNext ==
  /\ to_send # <<>>
  /\ pending' = IF Alive THEN pending \cup {Head(to_send)} ELSE pending
  /\ to_send' = Tail(to_send)
  /\ UNCHANGED <<example, pc, selfVars, flag, timer, alarm_count, handled,
                 reaped, interrupts>>

\* wait(&status)
Reap ==
  /\ example = "parent_child" /\ to_send = <<>> /\ ~reaped
  /\ ~Alive
  /\ reaped' = TRUE
  /\ UNCHANGED <<example, pc, selfVars, pending, flag, timer, alarm_count,
                 handled, to_send, interrupts>>

-----------------------------------------------------------------------------
\* The process itself.  A step changes pc and what is named.

Goto(from, to) == pc = from /\ pc' = to
Unchanged      == UNCHANGED <<example, flag, alarm_count, handled, parentVars,
                              interrupts>>

\* A round of the loops of basicExample and safeProgrammingExample.
PollRound ==
  /\ pc = "polling"
  /\ IF round < Waits /\ flag = "none"
       THEN round' = round + 1 /\ pc' = pc
       ELSE round' = round /\ pc' = "ended"
  /\ UNCHANGED <<handler, pending, mask, timer>> /\ Unchanged

\* The child: signal(s, childHandler), one signal after the other.
Register(s, place, next) ==
  /\ Goto(place, next)
  /\ handler' = [handler EXCEPT ![s] = "child"]
  /\ UNCHANGED <<pending, mask, round, timer>> /\ Unchanged

\* The child: while (signal_received != SIGTERM), the test.
TestFlag ==
  /\ pc = "test"
  /\ pc' = IF flag = "TERM" THEN "ended" ELSE "pause"
  /\ UNCHANGED <<selfVars, pending, timer>> /\ Unchanged

\* pause(): the process sleeps until a handler has run.
Pause ==
  /\ Goto("pause", "paused")
  /\ UNCHANGED <<selfVars, pending, timer>> /\ Unchanged

Resume ==
  /\ Goto("resumed", IF example = "alarm" THEN "arm" ELSE "test")
  /\ UNCHANGED <<selfVars, pending, timer>> /\ Unchanged

\* alarmExample: alarm(2), which replaces a timer that still runs.
Arm ==
  /\ pc = "arm" /\ round < Rounds
  /\ round' = round + 1
  /\ timer' = TRUE
  /\ pc' = "pause"
  /\ UNCHANGED <<handler, pending, mask>> /\ Unchanged

AlarmsOver ==
  /\ round = Rounds /\ Goto("arm", "ended")
  /\ UNCHANGED <<selfVars, pending, timer>> /\ Unchanged

\* signalSetExample: block, raise both signals, register, unblock.
Block ==
  /\ Goto("block", "raise")
  /\ mask' = mask \cup User
  /\ UNCHANGED <<handler, pending, round, timer>> /\ Unchanged

Raise ==
  /\ Goto("raise", "unblock")
  /\ pending' = pending \cup User
  /\ UNCHANGED <<selfVars, timer>> /\ Unchanged

\* Mutant: the mask is not restored.
Unblock_Keep ==
  /\ Goto("unblock", "unblocked")
  /\ handler' = [s \in Signals |-> IF s \in User THEN "basic" ELSE handler[s]]
  /\ UNCHANGED <<pending, mask, round, timer>> /\ Unchanged

Unblock ==
  /\ Goto("unblock", "unblocked")
  /\ handler' = [s \in Signals |-> IF s \in User THEN "basic" ELSE handler[s]]
  /\ mask' = {}
  /\ UNCHANGED <<pending, round, timer>> /\ Unchanged

\* The pending signals are delivered before sigprocmask returns.
Unblocked ==
  /\ pending \ mask = {}
  /\ Goto("unblocked", "ended")
  /\ UNCHANGED <<selfVars, pending, timer>> /\ Unchanged

Self ==
  \/ PollRound
  \/ Register("USR1", "register USR1", "register USR2")
  \/ Register("USR2", "register USR2", "register TERM")
  \/ Register("TERM", "register TERM", "test")
  \/ TestFlag \/ Pause \/ Resume \/ Arm \/ AlarmsOver
  \/ Block \/ Raise \/ Unblock \/ Unblocked

Kernel == Expire \/ \E s \in Signals : Deliver(s)
Parent == SendNext \/ Reap

Next == Self \/ Kernel \/ Parent \/ Interrupt

Spec == Init /\ [][Next]_vars

-----------------------------------------------------------------------------

TypeOK ==
  /\ handler \in [Signals -> {"default", "basic", "child", "alarm"}]
  /\ pending \subseteq Signals /\ mask \subseteq Signals
  /\ flag \in {"none"} \cup Signals
  /\ round \in Nat /\ alarm_count \in 0..round
  /\ interrupts \in 0..MaxInterrupts

\* No signal kills: a signal that comes before the child has registered its
\* handlers finds the handlers inherited from basicExample
\* (3_signal.cpp:93-96, 185-187).
NobodyKilled == pc # "killed"

\* The child leaves its loop for SIGTERM only, one that it has received or
\* one recorded before it was forked (3_signal.cpp:180, 190).
LeavesForTerm == example = "parent_child" /\ pc = "ended" => flag = "TERM"

\* Each round of alarmExample ends with an alarm or with an interrupt, and
\* without interrupts the alarms are as many as the rounds
\* (3_signal.cpp:212-220).
AlarmPerRound ==
  example = "alarm" /\ pc = "ended" => alarm_count + interrupts >= Rounds

\* A blocked signal is handled once, after the mask was restored
\* (3_signal.cpp:239-280).
BlockedThenHandled ==
  example = "mask" =>
    \A s \in User : handled[s] = (IF pc = "ended" THEN 1 ELSE handled[s])
                    /\ (mask # {} => handled[s] = 0)

\* pause() was called after the signal that it should have waited for: the
\* test and the pause are two steps (3_signal.cpp:190-191), and so are
\* alarm and pause (3_signal.cpp:213-217).
Missed ==
  /\ pc = "paused" /\ pending = {}
  /\ \/ example = "parent_child" /\ to_send = <<>>
     \/ example = "alarm" /\ ~timer

\* Self has ended, and its parent has seen it.
Ended == pc = "ended" /\ (example = "parent_child" => reaped)
=============================================================================
