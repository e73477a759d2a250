-------------------------- MODULE CoroutineExamples --------------------------
(***************************************************************************)
(* The examples of 3_coroutine/1_cpp20 and 3_coroutine/_code as scripts of *)
(* CoroutineFrames.  Output that no property tells apart is left out, and  *)
(* so is the time that somebody sleeps: a detached thread may be late.     *)
(*                                                                         *)
(* "prints" are the outputs to expect when all goes well, the values that  *)
(* the loops and recurrences of the source stand for; "flaw" is the        *)
(* undefined operation that the example runs into (see MisuseIsKnown).     *)
(***************************************************************************)
EXTENDS Integers, Sequences, FiniteSets, SequencesExt

CONSTANTS Nobody

Unset  == 0 - 2
Thrown == 0 - 1

\* A promise type: when its coroutine starts, what becomes of the frame at the
\* end ("destroy", "hold", or "wake": hold and resume who awaits it), whether
\* the returned object destroys it, and the frames that its parameters own,
\* directly or not, and those that its locals own.
Promise(start, end, owned) ==
  [start |-> start, end |-> end, owned |-> owned, params |-> {}, locals |-> {}]
Holding(p, frames) == [p EXCEPT !.params = frames]

\* suspend_never twice and no destructor: Task of 2_awaiter.cpp and
\* 3_customAwaiter.cpp, EagerTask, AutoDestroyTask, ReturnTask and SafeTask
\* of 1_promiseType.cpp.
Detached == Promise("eager", "destroy", FALSE)

\* suspend_always twice and a destructor: the generators, and Task of
\* 5_task.cpp.
Lazy == Promise("lazy", "hold", TRUE)

\* Starts at once and is destroyed by its owner: ManualDestroyTask.
Eager == Promise("eager", "hold", TRUE)

Example(name, promise, body, main, prints, flaw) ==
  [name |-> name, promise |-> promise, body |-> body, main |-> main,
   prints |-> {prints}, flaw |-> flaw]

\* An example with one coroutine "a".
Single(name, p, body, main, prints, flaw) ==
  Example(name, [c \in {"a"} |-> p], [c \in {"a"} |-> body], main, prints, flaw)

Call(c) == <<"call", c>>
Drop(c) == <<"drop", c>>
Read(c) == <<"read", c>>
Yields(values) == [i \in 1..Len(values) |-> <<"yield", {values[i]}>>]
Suspend == <<"yield", {Unset}>>
Returns(v) == << <<"return", {v}>> >>
Prints(v) == <<"print", v>>

Same == [v \in 0..100 |-> v]
All == 100
For(c) == <<"each", c, Same, All>>

-----------------------------------------------------------------------------
(* 1_cpp20/1_promiseType.cpp                                               *)

\* The frame destroys itself, and so does the object that still refers to it.
coro_lifecycle ==
  Single("coro_lifecycle", Promise("eager", "destroy", TRUE), <<>>,
         <<Call("a"), Drop("a")>>, <<>>, "destroy")

eager_vs_lazy ==
  Example("eager_vs_lazy",
          [c \in {"e", "l"} |-> IF c = "e" THEN Detached ELSE Lazy],
          [c \in {"e", "l"} |-> <<Prints(IF c = "e" THEN 1 ELSE 3)>>],
          <<Call("e"), Call("l"), Prints(2), <<"step", "l">>, <<"step", "l">>,
            Drop("l")>>,
          <<1, 2, 3>>, "none")

\* get() reads the promise of a frame that is gone.
return_void_vs_value ==
  Single("return_void_vs_value", Detached, Returns(42),
         <<Call("a"), Read("a")>>, <<42>>, "read")

exception_handling ==
  Example("exception_handling", [c \in {"a", "b"} |-> Detached],
          [c \in {"a", "b"} |-> Returns(IF c = "a" THEN 100 ELSE Thrown)],
          <<Call("a"), Read("a"), Call("b"), Read("b")>>,
          <<100, Thrown>>, "read")

final_suspend_management ==
  Example("final_suspend_management",
          [c \in {"a", "b"} |-> IF c = "a" THEN Detached ELSE Eager],
          [c \in {"a", "b"} |-> <<>>],
          <<Call("a"), Drop("a"), Call("b"), Drop("b")>>, <<>>, "none")

-----------------------------------------------------------------------------
(* 1_cpp20/2_awaiter.cpp and 3_customAwaiter.cpp                           *)

\* await_suspend resumes the coroutine, which ends and takes its frame, and
\* the awaiter in it, away under await_suspend.
awaiter_three_methods ==
  Single("awaiter_three_methods", Detached,
         << <<"nest", Nobody>>, Prints(1)>>,
         <<Call("a"), Prints(2)>>, <<1, 2>>, "none")

await_ready_fast_path ==
  Single("await_ready_fast_path", Detached, <<Prints(42)>>, <<Call("a")>>,
         <<42>>, "none")

\* await_suspend returns nothing, and main resumes; it returns false, and the
\* coroutine goes on.
await_suspend_returns ==
  Example("await_suspend_returns", [c \in {"a", "b"} |-> Detached],
          [c \in {"a", "b"} |-> IF c = "a" THEN <<Suspend, Prints(2)>>
                                ELSE <<Prints(3)>>],
          <<Call("a"), Prints(1), <<"resume", "a">>, Call("b")>>,
          <<1, 2, 3>>, "none")

builtin_awaiters ==
  Single("builtin_awaiters", Detached,
         <<Prints(1), Suspend, Prints(2), Suspend, Prints(3)>>,
         <<Call("a"), <<"resume", "a">>, <<"resume", "a">> >>,
         <<1, 2, 3>>, "none")

\* A detached thread resumes the coroutine; main only sleeps.
operator_co_await ==
  Single("operator_co_await", Detached, << <<"after">>, Prints(1)>>,
         <<Call("a")>>, <<1>>, "none")

\* msg is a reference to a temporary of the call, which ends long before.
timer_awaiter ==
  Example("timer_awaiter", [c \in {"a", "b", "c"} |-> Detached],
          [c \in {"a", "b", "c"} |-> << <<"after">>, Prints(1)>>],
          <<Call("a"), <<"expire", "a">>, Call("b"), <<"expire", "b">>,
            Call("c"), <<"expire", "c">> >>,
          <<1, 1, 1>>, "dangling")

\* The callback stores the result in the awaiter, then resumes.
callback_awaiter ==
  Single("callback_awaiter", Detached, << <<"after">>, Prints(1)>>,
         <<Call("a")>>, <<1>>, "none")

symmetric_transfer ==
  Example("symmetric_transfer", [c \in {"a", "b"} |-> Detached],
          [c \in {"a", "b"} |-> IF c = "a" THEN <<Call("b"), Suspend, Prints(2)>>
                                ELSE <<Prints(1)>>],
          <<Call("a"), <<"resume", "a">>, Prints(3)>>, <<1, 2, 3>>, "none")

-----------------------------------------------------------------------------
(* 1_cpp20/4_generator.cpp and 7_quiz.cpp                                  *)

generator_basic ==
  Single("generator_basic", Lazy, Yields(<<1, 2, 3, 4, 5>>),
         <<Call("a"), For("a"), Drop("a")>>, <<1, 2, 3, 4, 5>>, "none")

\* main breaks off an endless generator and destroys it where it is suspended.
\* Bound: 5 values for 15.
Fibonacci == LET fib[i \in 1..9] == IF i <= 2 THEN i - 1
                                    ELSE fib[i - 1] + fib[i - 2]
             IN fib
generator_fibonacci ==
  Single("generator_fibonacci", Lazy, Yields(Fibonacci),
         <<Call("a"), <<"each", "a", Same, 5>>, Drop("a")>>,
         SubSeq(Fibonacci, 1, 5), "none")

\* source -> first -> second; each stage is a parameter of the next one and
\* is destroyed with its frame.
Pipeline(name, source, first, second) ==
  LET stages == {"source", "first", "second"}
      passed == SelectSeq(source, LAMBDA v : v \in DOMAIN first
                                             /\ first[v] \in DOMAIN second)
  IN Example(name,
       [c \in stages |->
          CASE c = "source" -> Lazy
            [] c = "first"  -> Holding(Lazy, {"source"})
            [] c = "second" -> Holding(Lazy, {"source", "first"})],
       [c \in stages |->
          CASE c = "source" -> Yields(source)
            [] c = "first"  -> << <<"each", "source", first, All>> >>
            [] c = "second" -> << <<"each", "first", second, All>> >>],
       <<Call("source"), Call("first"), Call("second"), For("second"),
         Drop("second")>>,
       [i \in 1..Len(passed) |-> second[first[passed[i]]]], "none")

generator_pipeline ==
  Pipeline("generator_pipeline", [i \in 1..10 |-> i],
           [v \in {2, 4, 6, 8, 10} |-> v], [v \in 1..10 |-> 10 * v])

\* Words 1 and 2 are plain, word 3 is punctuation only; v + 10 is word v in
\* lower case.
quiz_pipeline ==
  Pipeline("quiz_pipeline", <<1, 3, 2, 1>>, [v \in 1..3 |-> v + 10],
           [v \in {11, 12} |-> v])

\* A node yields its depth, then passes on what two subtrees yield.  Bound:
\* depth 1 for 3; the calls below it return at once, as in the source.
Node(depth, left, right) ==
  Yields(<<depth>>) \o <<Call(left), For(left), Drop(left),
                         Call(right), For(right), Drop(right)>>
generator_tree ==
  Example("generator_tree",
          [c \in {"t", "l", "r", "ll", "lr", "rl", "rr"} |-> Lazy],
          [c \in {"t", "l", "r", "ll", "lr", "rl", "rr"} |->
             CASE c = "t" -> Node(0, "l", "r")
               [] c = "l" -> Node(1, "ll", "lr")
               [] c = "r" -> Node(1, "rl", "rr")
               [] OTHER   -> <<>>],
          <<Call("t"), For("t"), Drop("t")>>, <<0, 1, 1>>, "none")

\* The parser suspends at each separator; the text decides how many pairs.
quiz_state_machine ==
  Single("quiz_state_machine", Lazy, Yields(<<1, 2, 3>>),
         <<Call("a"), For("a"), Drop("a")>>, <<1, 2, 3>>, "none")

\* Each of three coroutines prints its letter once per resume, the last time
\* without a co_yield; main's rounds skip those that are done.
quiz_round_robin ==
  LET letters == {"a", "b", "c"}
      code == [c \in letters |-> CASE c = "a" -> 1 [] c = "b" -> 2 [] c = "c" -> 3]
      turn(how) == << <<how, "a">>, <<how, "b">>, <<how, "c">> >>
  IN Example("quiz_round_robin", [c \in letters |-> Lazy],
       [c \in letters |-> <<Prints(code[c]), Suspend, Prints(code[c]), Suspend,
                            Prints(code[c])>>],
       <<Call("a"), Call("b"), Call("c")>> \o turn("resume") \o turn("step")
         \o turn("step") \o turn("step") \o <<Drop("c"), Drop("b"), Drop("a")>>,
       <<1, 2, 3, 1, 2, 3, 1, 2, 3>>, "none")

-----------------------------------------------------------------------------
(* 1_cpp20/5_task.cpp                                                      *)

\* Task::get: resume until done, then the value or the exception.
Get(c) == << <<"run", c>>, Read(c)>>

task_return_value ==
  Single("task_return_value", Lazy, <<Prints(2)>> \o Returns(60),
         <<Call("a"), Prints(1)>> \o Get("a") \o <<Drop("a")>>,
         <<1, 2, 60>>, "none")

task_exception ==
  Example("task_exception", [c \in {"ok", "err"} |-> Lazy],
          [c \in {"ok", "err"} |-> Returns(IF c = "ok" THEN 5 ELSE Thrown)],
          <<Call("ok")>> \o Get("ok") \o <<Call("err")>> \o Get("err")
            \o <<Drop("err"), Drop("ok")>>,
          <<5, Thrown>>, "none")

\* co_await runs the child inside await_suspend and then resumes the parent
\* there, one level deeper for each co_await.
AwaitNested(c) == <<Call(c), <<"nest", c>> >> \o Get(c) \o <<Drop(c)>>
task_chain ==
  Example("task_chain", [c \in {"total", "aapl", "goog"} |-> Lazy],
          [c \in {"total", "aapl", "goog"} |->
             CASE c = "total" -> AwaitNested("aapl") \o AwaitNested("goog")
                                   \o Returns(43)
               [] c = "aapl"  -> Returns(15)
               [] c = "goog"  -> Returns(28)],
          <<Call("total")>> \o Get("total") \o <<Drop("total")>>, <<43>>, "none")

\* The lazy task prints a string that was a temporary of the call.
task_void ==
  Single("task_void", Lazy, <<Prints(1)>>,
         <<Call("a"), <<"expire", "a">>, <<"run", "a">>, Drop("a")>>,
         <<1>>, "dangling")

-----------------------------------------------------------------------------
(* _code/1_coroutinePromise.cpp and 2_coroutineAwaiter.cpp                 *)

InitialSuspendExample ==
  Example("InitialSuspendExample",
          [c \in {"e", "l"} |-> IF c = "e" THEN Eager ELSE Lazy],
          [c \in {"e", "l"} |-> <<Prints(IF c = "e" THEN 1 ELSE 4)>>
                                  \o Returns(IF c = "e" THEN 42 ELSE 100)],
          <<Call("e"), Prints(2), Drop("e"), Call("l"), Prints(3),
            <<"step", "l">>, Read("l"), Drop("l")>>,
          <<1, 2, 3, 4, 100>>, "none")

ReturnValueExample ==
  Example("ReturnValueExample", [c \in {"a", "b"} |-> Lazy],
          [c \in {"a", "b"} |-> IF c = "a" THEN Returns(1) ELSE <<Prints(2)>>],
          <<Call("a"), <<"resume", "a">>, Read("a"), Drop("a"),
            Call("b"), <<"resume", "b">>, Drop("b")>>,
          <<1, 2>>, "none")

ExceptionExample ==
  Single("ExceptionExample", Lazy, Returns(Thrown),
         <<Call("a"), <<"resume", "a">>, Read("a"), Drop("a")>>,
         <<Thrown>>, "none")

FinalSuspendExample ==
  Example("FinalSuspendExample",
          [c \in {"a", "b"} |-> IF c = "a" THEN Detached ELSE Eager],
          [c \in {"a", "b"} |-> <<>>],
          <<Call("a"), Drop("a"), Call("b"), Drop("b")>>, <<>>, "none")

\* An awaiter that is ready, one that declines to suspend, and one that saves
\* the handle for main.
AwaiterExample ==
  LET names == {"ready", "decide", "manual"}
  IN Example("AwaiterExample", [c \in names |-> Lazy],
       [c \in names |-> CASE c = "ready"  -> <<Prints(1)>>
                          [] c = "decide" -> <<Prints(2)>>
                          [] c = "manual" -> <<Suspend, Prints(4)>>],
       <<Call("ready"), <<"resume", "ready">>, Drop("ready"),
         Call("decide"), <<"resume", "decide">>, Drop("decide"),
         Call("manual"), <<"resume", "manual">>, Prints(3),
         <<"resume", "manual">>, Drop("manual")>>,
       <<1, 2, 3, 4>>, "none")

CppExamples ==
  {coro_lifecycle, eager_vs_lazy, return_void_vs_value, exception_handling,
   final_suspend_management, awaiter_three_methods, await_ready_fast_path,
   await_suspend_returns, builtin_awaiters, operator_co_await, timer_awaiter,
   callback_awaiter, symmetric_transfer, generator_basic, generator_fibonacci,
   generator_pipeline, quiz_pipeline, generator_tree, quiz_state_machine,
   quiz_round_robin, task_return_value, task_exception, task_chain, task_void,
   InitialSuspendExample, ReturnValueExample, ExceptionExample,
   FinalSuspendExample, AwaiterExample}

-----------------------------------------------------------------------------
(***************************************************************************)
(* The examples of 3_coroutine/_code/std_coroutineUsage.cpp as scripts of  *)
(* CoroutineFrames: generators, tasks that await tasks, awaiters that are  *)
(* resumed by detached threads, a state machine, results and errors.  Of   *)
(* these, main calls the generators only; the others are commented out     *)
(* there and are modelled as if they were called one at a time.            *)
(*                                                                         *)
(* The tasks that are resumed by a detached thread share a flaw, "promise".*)
(* Task::get returns as soon as the frame is at its end, and main destroys *)
(* it, while that thread is still about to read the promise in the final   *)
(* awaiter (lines 189-200, 213-215, 232-247).                              *)
(***************************************************************************)

\* Task<T> and Task<void>: lazy, the final awaiter resumes who awaits it.
Task_NoAwaiter == Lazy   \* mutant: final_suspend only suspends
Task == Promise("lazy", "wake", TRUE)

\* Task<void> is the same without a value.
TaskOfVoid == Task

\* An example that may print something else.
Or(e, prints) == [e EXCEPT !.prints = @ \cup {prints}]

\* get(): resume once, then spin until done.
Wait_NoSpin(c) == << <<"step", c>>, Read(c)>>   \* mutant: one resume will do
Wait(c) == << <<"step", c>>, <<"spin", c>>, Read(c)>>

\* co_await of a temporary task.
AwaitTask(c) == <<Call(c), <<"await", c>>, Read(c), Drop(c)>>

\* An awaiter with a detached thread: Timer, HttpRequest, FileReader,
\* HttpGetRequest.
After == <<"after">>

-----------------------------------------------------------------------------

\* Bound: 5 numbers for 10.
demonstrateBasicGenerator ==
  Example("demonstrateBasicGenerator", [c \in {"fib", "range"} |-> Lazy],
          [c \in {"fib", "range"} |->
             IF c = "fib" THEN Yields(SubSeq(Fibonacci, 1, 5))
             ELSE Yields([i \in 1..5 |-> 2 * i - 1])],
          <<Call("fib"), For("fib"), Drop("fib"),
            Call("range"), For("range"), Drop("range")>>,
          SubSeq(Fibonacci, 1, 5) \o <<1, 3, 5, 7, 9>>, "none")

\* task2 awaits a task that ends without suspending: its final awaiter resumes
\* task2, which destroys it, before the first resume has returned.
demonstrateAsyncTask ==
  LET names == {"task1", "task2", "squared"}
  IN Example("demonstrateAsyncTask", [c \in names |-> Task],
       [c \in names |-> CASE c = "task1"   -> Returns(25)
                          [] c = "task2"   -> AwaitTask("squared") \o Returns(49)
                          [] c = "squared" -> Returns(49)],
       <<Call("task1"), Call("task2")>> \o Wait("task1") \o Wait("task2")
         \o <<Drop("task2"), Drop("task1")>>,
       <<25, 49>>, "none")

demonstrateAdvancedAwaitables ==
  Single("demonstrateAdvancedAwaitables", Task,
         <<After, Prints(1), After, Prints(2), After, Prints(3)>> \o Returns(4),
         <<Call("a")>> \o Wait("a") \o <<Drop("a")>>,
         <<1, 2, 3, 4>>, "promise")

\* The machine's state is what it has yielded last; at the end main shows
\* Completed once more, whether it was Completed or Error.
demonstrateStateMachine ==
  LET init == 0 loading == 1 processing == 2 completed == 3 error == 4
  IN Or(Single("demonstrateStateMachine", Lazy,
       Yields(<<init, loading, processing>>)
         \o << <<"yield", {completed, error}>> >>,
       <<Call("a"), For("a"), Prints(completed), Drop("a")>>,
       <<init, loading, processing, completed, completed>>, "none"),
       <<init, loading, processing, error, completed>>)

\* SafeTask starts at once.  A chain stops at the first operation that fails.
\* Bound: one attempt for five.
demonstrateErrorHandling ==
  LET names == {"chain", "first", "second"}
      GetSafe(c) == <<Call(c), <<"step", c>>, Read(c)>>
      chain == [Eager EXCEPT !.locals = {"first", "second"}]
  IN Or(Example("demonstrateErrorHandling",
       [c \in names |-> IF c = "chain" THEN chain ELSE Eager],
       [c \in names |->
          IF c = "chain"
          THEN GetSafe("first") \o GetSafe("second") \o Returns(4)
          ELSE << <<"return", {2, Thrown}>> >>],
       GetSafe("chain") \o <<Drop("chain")>>, <<4>>, "none"),
       <<Thrown>>)

\* Each URL takes a request and a pause.  Bound: 2 URLs for 4.
fetch_multiple_urls ==
  Single("fetch_multiple_urls", Task,
         <<After, Prints(1), After, After, Prints(1), After>> \o Returns(2),
         <<Call("a")>> \o Wait("a") \o <<Drop("a")>>,
         <<1, 1, 2>>, "promise")

\* url is a reference to a temporary of the call, but used in the body, which
\* get() starts after the call.  Bound: 1 check for 5.
monitor_website ==
  Single("monitor_website", TaskOfVoid,
         <<Prints(0), After, Prints(1), After, Prints(2)>>,
         <<Call("a"), <<"expire", "a">> >> \o Wait("a") \o <<Drop("a")>>,
         <<0, 1, 2, Unset>>, "dangling")

coroutine_approach ==
  Single("coroutine_approach", Task,
         <<After, Prints(20), After, Prints(60), After>> \o Returns(60),
         <<Call("a")>> \o Wait("a") \o <<Drop("a")>>,
         <<20, 60, 60>>, "promise")

\* All generators are created before the first is used.  Bound: 2 of 3 values
\* each for 1000 of 100.
memory_usage_comparison ==
  Example("memory_usage_comparison", [c \in {"a", "b"} |-> Lazy],
          [c \in {"a", "b"} |-> Yields(<<0, 1, 2>>)],
          <<Call("a"), Call("b"), For("a"), For("b"), Drop("a"), Drop("b")>>,
          <<0, 1, 2, 0, 1, 2>>, "none")

StdExamples ==
  {demonstrateBasicGenerator, demonstrateAsyncTask,
   demonstrateAdvancedAwaitables, demonstrateStateMachine,
   demonstrateErrorHandling, fetch_multiple_urls, monitor_website,
   coroutine_approach, memory_usage_comparison}
=============================================================================
