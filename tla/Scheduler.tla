------------------------------ MODULE Scheduler ------------------------------
(***************************************************************************)
(* The libuv scheduler that delivers realm-core's callbacks to the Lua     *)
(* thread: luv::Scheduler and its Userdata (realm_scheduler.cpp) with the  *)
(* async callback of scheduler/libuv.lua.  Any thread that holds a         *)
(* shared_ptr to the scheduler may invoke(); the thread that drops the     *)
(* last one runs ~Scheduler; the Lua thread runs the event loop.  A step   *)
(* is one access to shared state: invoke() is a push and then a send,      *)
(* ~Scheduler sets the flag and then sends, the callback clears the        *)
(* wake-up, reads the flag and only then takes the queue.                  *)
(***************************************************************************)
EXTENDS Naturals, Sequences, SequencesExt

CONSTANTS
  Loop,                  \* the Lua thread, which runs the event loop
  Workers,               \* the other threads of the process (core's, sync's)
  Fns,                   \* the functions handed to invoke(), each at most once
  InitialCloseRequested, \* what the member close_requested may start as
  ClosedAfterDtor        \* what `closed` may read as after ~Userdata

Threads == {Loop} \cup Workers

\* close_requested has no initializer (realm_scheduler.cpp:22), and a store
\* in a destructor (line 26) may or may not survive the compiler.
ASSUME SchedulerAssumption ==
  /\ Loop \notin Workers
  /\ InitialCloseRequested \in SUBSET BOOLEAN
  /\ ClosedAfterDtor \in SUBSET BOOLEAN

VARIABLES
  refs,            \* the threads that hold a shared_ptr<Scheduler>
  pc,              \* per thread: "idle", "send" (in invoke), "dtor" (in ~Scheduler)
  queue,           \* Userdata::queue
  closeRequested,  \* Userdata::close_requested
  closed,          \* Userdata::closed
  destroyed,       \* how many times ~Userdata has run
  collected,       \* the Lua userdata has been finalized
  async,           \* the uv_async_t: "open", "closing", "closed"
  pending,         \* a send not yet taken by the loop
  loop,            \* the Lua thread: see LoopStates
  batch,           \* invoke_all's local vector: taken from queue, not yet run
  issued,          \* history: the functions given to invoke, in order
  done             \* history: the functions run, in order

threadVars == <<refs, pc>>
dataVars   == <<queue, closeRequested, closed, destroyed, collected>>
loopVars   == <<async, pending, loop, batch>>
history    == <<issued, done>>
vars       == <<threadVars, dataVars, loopVars, history>>

\* "poll": waiting in the loop or in other Lua code; "woken": in the async
\* callback, flag not yet read; "doWork": found no request to close;
\* "working": inside invoke_all; "exited": the process has ended.
LoopStates == {"poll", "woken", "doWork", "working", "exited"}

-----------------------------------------------------------------------------
\* create_scheduler: one shared_ptr, on the thread that made it.
Init == /\ refs = {Loop}
        /\ pc = [t \in Threads |-> "idle"]
        /\ queue = <<>>
        /\ closeRequested \in InitialCloseRequested
        /\ closed = FALSE
        /\ destroyed = 0
        /\ collected = FALSE
        /\ async = "open"
        /\ pending = FALSE
        /\ loop = "poll"
        /\ batch = <<>>
        /\ issued = <<>>
        /\ done = <<>>

\* A thread that holds the scheduler may call it when it is not inside a call:
\* the Lua thread from Lua code, from a function that invoke_all runs, or from
\* a finalizer, which the collector may run inside the callback itself.
CanCall(t) == /\ t \in refs
              /\ pc[t] = "idle"
              /\ loop # "exited"

\* uv_async_send: sends coalesce, and one on a closing handle is lost.
SendAsync == pending' = (pending \/ async = "open")

\* ~Userdata: `closed` is stored, then the queue's functions are destroyed.
DestroyUserdata == /\ closed' \in ClosedAfterDtor
                   /\ destroyed' = destroyed + 1
                   /\ queue' = <<>>

-----------------------------------------------------------------------------
(* Mutated steps: plausible bugs, not part of Spec, each of which breaks   *)
(* one of the properties at the end of the module.                         *)

\* invoke() forgets to wake the loop.
PushWithoutSend(t, f) == /\ CanCall(t)
                         /\ f \notin ToSet(issued)
                         /\ queue' = Append(queue, f)
                         /\ issued' = Append(issued, f)
                         /\ UNCHANGED <<threadVars, closeRequested, closed, destroyed,
                                        collected, loopVars, done>>

\* ~Scheduler sets the flag and does not wake the loop.
ReleaseLastQuietly(t) == /\ CanCall(t)
                         /\ refs = {t}
                         /\ refs' = {}
                         /\ closeRequested' = TRUE
                         /\ UNCHANGED <<pc, queue, closed, destroyed, collected,
                                        loopVars, history>>

\* The callback closes the handle and then works all the same.
CheckCloseFallsThrough ==
  /\ loop = "woken"
  /\ pc[Loop] = "idle"
  /\ async' = IF closeRequested THEN "closing" ELSE async
  /\ loop' = "doWork"
  /\ UNCHANGED <<threadVars, dataVars, pending, batch, history>>

\* The callback closes the handle without asking should_close.
CloseUnasked == /\ loop = "woken"
                /\ pc[Loop] = "idle"
                /\ async' = "closing"
                /\ loop' = "poll"
                /\ UNCHANGED <<threadVars, dataVars, pending, batch, history>>

\* invoke_all runs the functions without taking them out of the queue.
DoWorkInPlace == /\ loop = "doWork"
                 /\ pc[Loop] = "idle"
                 /\ batch' = queue
                 /\ loop' = "working"
                 /\ UNCHANGED <<threadVars, dataVars, async, pending, history>>

\* close() without the test of `closed`.
CloseUnchecked == DestroyUserdata

-----------------------------------------------------------------------------
(* Threads                                                                 *)

\* Scheduler::invoke, first half: the push, under InvocationQueue's lock.
Push(t, f) == /\ CanCall(t)
              /\ f \notin ToSet(issued)
              /\ queue' = Append(queue, f)
              /\ issued' = Append(issued, f)
              /\ pc' = [pc EXCEPT ![t] = "send"]
              /\ UNCHANGED <<refs, closeRequested, closed, destroyed, collected,
                             loopVars, done>>

\* Scheduler::invoke, second half, and the end of ~Scheduler: m_send(m_async).
Send(t) == /\ pc[t] \in {"send", "dtor"}
           /\ loop # "exited"
           /\ SendAsync
           /\ pc' = [pc EXCEPT ![t] = "idle"]
           /\ UNCHANGED <<refs, dataVars, async, loop, batch, history>>

\* realm_open and core's notifiers copy the shared_ptr to another thread.
Share(t, u) == /\ CanCall(t)
               /\ u \notin refs
               /\ refs' = refs \cup {u}
               /\ UNCHANGED <<pc, dataVars, loopVars, history>>

\* Dropping a shared_ptr that is not the last one.
Release(t) == /\ CanCall(t)
              /\ refs # {t}
              /\ refs' = refs \ {t}
              /\ UNCHANGED <<pc, dataVars, loopVars, history>>

\* Dropping the last one: ~Scheduler sets close_requested, then sends.
ReleaseLast(t) == /\ CanCall(t)
                  /\ refs = {t}
                  /\ refs' = {}
                  /\ closeRequested' = TRUE
                  /\ pc' = [pc EXCEPT ![t] = "dtor"]
                  /\ UNCHANGED <<queue, closed, destroyed, collected,
                                 loopVars, history>>

-----------------------------------------------------------------------------
(* The event loop                                                          *)

\* libuv clears the wake-up before it calls the async callback.
Wake == /\ loop = "poll"
        /\ pc[Loop] = "idle"
        /\ async = "open"
        /\ pending
        /\ pending' = FALSE
        /\ loop' = "woken"
        /\ UNCHANGED <<threadVars, dataVars, async, batch, history>>

\* The callback: should_close, then async:close or do_work.
CheckClose == /\ loop = "woken"
              /\ pc[Loop] = "idle"
              /\ IF closeRequested
                   THEN async' = "closing" /\ loop' = "poll"
                   ELSE loop' = "doWork" /\ UNCHANGED async
              /\ UNCHANGED <<threadVars, dataVars, pending, batch, history>>

\* do_work: InvocationQueue::invoke_all swaps the queue out under its lock.
DoWork == /\ loop = "doWork"
          /\ pc[Loop] = "idle"
          /\ batch' = queue
          /\ queue' = <<>>
          /\ loop' = "working"
          /\ UNCHANGED <<threadVars, closeRequested, closed, destroyed, collected,
                         async, pending, history>>

\* invoke_all runs the next function of its vector.
RunNext == /\ loop = "working"
           /\ pc[Loop] = "idle"
           /\ batch # <<>>
           /\ done' = Append(done, Head(batch))
           /\ batch' = Tail(batch)
           /\ UNCHANGED <<threadVars, dataVars, async, pending, loop, issued>>

\* A listener raised: the error leaves the async callback, and luv exits.
RunRaises == /\ loop = "working"
             /\ pc[Loop] = "idle"
             /\ batch # <<>>
             /\ loop' = "exited"
             /\ UNCHANGED <<threadVars, dataVars, async, pending, batch, history>>

EndWork == /\ loop = "working"
           /\ pc[Loop] = "idle"
           /\ batch = <<>>
           /\ loop' = "poll"
           /\ UNCHANGED <<threadVars, dataVars, async, pending, batch, history>>

\* close() in realm_scheduler.cpp, called from Lua and as __gc.
CloseUserdata == IF closed THEN UNCHANGED <<closed, destroyed, queue>>
                           ELSE DestroyUserdata

\* The callback given to async:close runs userdata:close().
OnClosed == /\ loop = "poll"
            /\ pc[Loop] = "idle"
            /\ async = "closing"
            /\ async' = "closed"
            /\ CloseUserdata
            /\ UNCHANGED <<threadVars, closeRequested, collected,
                           pending, loop, batch, history>>

\* The closed handle lets go of the callback, and with it of the userdata:
\* the collector runs the userdata's __gc, which is close() again.
Collect == /\ loop = "poll"
           /\ pc[Loop] = "idle"
           /\ async = "closed"
           /\ ~collected
           /\ collected' = TRUE
           /\ CloseUserdata
           /\ UNCHANGED <<threadVars, closeRequested, loopVars, history>>

\* The process has exited, or the scheduler is gone.
Finished == /\ \/ loop = "exited"
               \/ collected /\ \A t \in Threads : pc[t] = "idle"
            /\ UNCHANGED vars

-----------------------------------------------------------------------------
ThreadStep(t) == \/ \E f \in Fns : Push(t, f)
                 \/ Send(t)
                 \/ \E u \in Threads : Share(t, u)
                 \/ Release(t)
                 \/ ReleaseLast(t)

LoopStep == \/ Wake \/ CheckClose \/ DoWork \/ RunNext \/ RunRaises
            \/ EndWork \/ OnClosed \/ Collect

Next == (\E t \in Threads : ThreadStep(t)) \/ LoopStep \/ Finished

\* Threads finish the call they are in and the loop keeps turning.  Nobody
\* has to call, to share, to release or to collect garbage.
Fairness == /\ \A t \in Threads : WF_vars(Send(t))
            /\ WF_vars(Wake) /\ WF_vars(CheckClose) /\ WF_vars(DoWork)
            /\ WF_vars(RunNext) /\ WF_vars(EndWork) /\ WF_vars(OnClosed)

Spec == Init /\ [][Next]_vars /\ Fairness

-----------------------------------------------------------------------------
(* Properties                                                              *)

\* The variables' types.  ~Userdata runs at most once: close() is called by
\* the handle's close callback and again by __gc (realm_scheduler.cpp:120).
TypeOK == /\ refs \in SUBSET Threads
          /\ pc \in [Threads -> {"idle", "send", "dtor"}]
          /\ queue \in Seq(Fns)
          /\ closeRequested \in BOOLEAN
          /\ closed \in BOOLEAN
          /\ destroyed \in 0..1
          /\ collected \in BOOLEAN
          /\ async \in {"open", "closing", "closed"}
          /\ pending \in BOOLEAN
          /\ loop \in LoopStates
          /\ batch \in Seq(Fns)
          /\ issued \in Seq(Fns)
          /\ done \in Seq(Fns)

\* Until the queue is torn down no function given to invoke() is lost, run
\* twice or overtaken, wherever pushes fall between the steps of the loop.
NoneLostInOrder == destroyed = 0 => issued = (done \o batch) \o queue

\* A function never sits in the queue with nobody left to wake the loop: a
\* send is pending or about to be made, or the callback has yet to take the
\* queue, or the scheduler is closing (push before send, clear before take).
NoLostWakeup == queue # <<>> => \/ pending
                                \/ \E t \in Threads : pc[t] # "idle"
                                \/ loop \in {"woken", "doWork", "exited"}
                                \/ async # "open"

\* invoke() and ~Scheduler touch m_userdata and m_async without asking whether
\* they still exist.  While a thread holds the scheduler, is inside invoke(), or
\* the Lua thread is inside ~Scheduler, the handle is open and the userdata has
\* not been destroyed.  (In ~Scheduler on another thread the flag is out before
\* the send, and the loop may close the handle in between.)
HeldMeansAlive ==
  \/ refs # {}
  \/ \E t \in Threads : pc[t] = "send"
  \/ pc[Loop] = "dtor"
  => async = "open" /\ destroyed = 0

\* Once the callback has chosen to close the handle, no function runs.
NothingRunsOnceClosing == [][async # "open" => done' = done]_vars

\* What the scheduler is for: a function handed to invoke() is
\* run, unless the scheduler is given up or a function ends the process.
HeldSchedulerDelivers ==
  \A f \in Fns : f \in ToSet(issued)
                    ~> f \in ToSet(done) \/ refs = {} \/ loop = "exited"

\* After the last shared_ptr is gone the handle is closed and the userdata
\* destroyed, however the flag, the send and earlier sends interleave.
ClosedInTheEnd == refs = {} ~> destroyed = 1 \/ loop = "exited"

\* What the properties above rest on, inductive together with them: who may
\* still call, what the flag means, and in which order the end is reached.
FlagInv   == closeRequested <=> refs = {}
CallInv   == \A t \in Threads : /\ pc[t] = "send" => t \in refs
                                /\ pc[t] = "dtor" => refs = {}
                                /\ pc[t] = "dtor" /\ t = Loop => async = "open"
HandleInv == /\ async # "open" => closeRequested
             /\ destroyed = 1 <=> async = "closed"
             /\ closed <=> destroyed = 1
             /\ collected => async = "closed"
LoopInv   == /\ loop \in {"woken", "doWork", "working"} => async = "open"
             /\ loop \in {"poll", "woken", "doWork"} => batch = <<>>
IndInv    == TypeOK /\ FlagInv /\ CallInv /\ HandleInv /\ LoopInv

\* The scheduler implements the executor that core asks for.
ExecutorStatus == CASE loop = "exited" -> "crashed"
                    [] loop # "exited" /\ destroyed > 0 -> "stopped"
                    [] loop # "exited" /\ destroyed = 0 /\ closeRequested -> "stopping"
                    [] OTHER -> "open"

Executor == INSTANCE LoopExecutor WITH todo <- batch \o queue, log <- done,
                                       status <- ExecutorStatus
ExecutorSafety == Executor!Init /\ [][Executor!Next]_(Executor!vars)
ExecutorSpec   == Executor!Spec
=============================================================================
