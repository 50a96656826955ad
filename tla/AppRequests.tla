----------------------------- MODULE AppRequests -----------------------------
(***************************************************************************)
(* App:registerEmail and App:logIn over the synchronous HTTP transport.    *)
(* The callback given to them runs inside the call, on top of the request  *)
(* that the transport is still in, and may call the app again: a thread is *)
(* a stack of calls, requests and callbacks.  The core's other threads     *)
(* send requests of their own, to refresh access tokens.  All requests of  *)
(* the process share libcurl's global state, which CurlGlobalGuard counts  *)
(* the users of.                                                           *)
(***************************************************************************)
EXTENDS Naturals, Sequences, FiniteSets

CONSTANTS
  Lua,          \* the thread of the Lua state
  Others,       \* the core's threads
  None,         \* none
  Rounds,       \* the requests of a registration and of a log-in, if all succeed
  MaxCalls,     \* bound: the calls of the app that the program makes
  MaxRefreshes  \* bound: the requests of the core's threads

Threads == {Lua} \cup Others
Calls   == 1 .. MaxCalls

ASSUME RequestsAssumption ==
  /\ IsFiniteSet(Others) /\ Lua \notin Others /\ None \notin Threads
  /\ DOMAIN Rounds = {"register", "logIn"}
  /\ \A op \in DOMAIN Rounds : Rounds[op] \in Nat \ {0}
  /\ MaxCalls \in Nat /\ MaxRefreshes \in Nat

VARIABLES
  stack,      \* per thread, what it is in, the innermost last
  mutex,      \* the thread that holds CurlGlobalGuard::m_mutex, or None
  users,      \* CurlGlobalGuard::m_users
  curl,       \* libcurl's global state is initialized
  next,       \* the number of the next call
  registry,   \* the calls whose callback is in the Lua registry
  answers,    \* history: per call, how often its callback was called
  state,      \* per call: "unused", "running", "returned" or "raised"
  refreshes   \* the requests that the core's threads have made

curlVars == <<mutex, users, curl>>
callVars == <<next, registry, answers, state>>
vars     == <<stack, curlVars, callVars, refreshes>>

\* Frames.  A call has `left` requests to make; a request of call 0 is a
\* refresh; a callback runs in the request that was answered.
CallPhases    == {"start", "sent"}
RequestPhases == {"constructing", "counted", "guarded", "ok", "error", "done", "uncounted"}
Frames ==
  [at : {"call"}, call : Calls, left : Nat, phase : CallPhases]
    \cup [at : {"request"}, call : Calls \cup {0}, left : Nat, phase : RequestPhases]
    \cup [at : {"callback"}, call : Calls, left : {0}, phase : {"running"}]

Request(c, n) == [at |-> "request", call |-> c, left |-> n, phase |-> "constructing"]
Callback(c)   == [at |-> "callback", call |-> c, left |-> 0, phase |-> "running"]

Init == /\ stack = [t \in Threads |-> <<>>]
        /\ mutex = None
        /\ users = 0
        /\ curl = FALSE
        /\ next = 1
        /\ registry = {}
        /\ answers = [c \in Calls |-> 0]
        /\ state = [c \in Calls |-> "unused"]
        /\ refreshes = 0

-----------------------------------------------------------------------------
(* Stacks                                                                  *)

Top(t)   == stack[t][Len(stack[t])]
Below(t) == SubSeq(stack[t], 1, Len(stack[t]) - 1)

\* Thread t is in a frame of kind k and phase p.
In(t, k, p) == stack[t] # <<>> /\ Top(t).at = k /\ Top(t).phase = p

\* The innermost frame gets phase p, and the frames s on top of it.
Go(t, p, s) ==
  stack' = [stack EXCEPT ![t] = Append(Below(t), [Top(t) EXCEPT !.phase = p]) \o s]
Pop(t)  == stack' = [stack EXCEPT ![t] = Below(t)]

\* Lua code runs: the program, or a callback.
LuaRuns == stack[Lua] = <<>> \/ In(Lua, "callback", "running")

-----------------------------------------------------------------------------
(* The transport                                                           *)

\* Mutated: the constructor does not lock.
CountUnlocked(t) == /\ In(t, "request", "constructing")
                    /\ users' = users + 1
                    /\ Go(t, "counted", <<>>)
                    /\ UNCHANGED <<mutex, curl, callVars, refreshes>>

\* CurlGlobalGuard(): the lock and the count.
Count(t) == /\ In(t, "request", "constructing")
            /\ mutex = None
            /\ mutex' = t
            /\ users' = users + 1
            /\ Go(t, "counted", <<>>)
            /\ UNCHANGED <<curl, callVars, refreshes>>

\* Mutated: the lock is kept for the request.
InitializeLocked(t) == /\ In(t, "request", "counted")
                       /\ curl' = (curl \/ users = 1)
                       /\ Go(t, "guarded", <<>>)
                       /\ UNCHANGED <<mutex, users, callVars, refreshes>>

\* The first user initializes libcurl; the lock is released.
Initialize(t) == /\ In(t, "request", "counted")
                 /\ curl' = (curl \/ users = 1)
                 /\ mutex' = None
                 /\ Go(t, "guarded", <<>>)
                 /\ UNCHANGED <<users, callVars, refreshes>>

\* The request is made, with an answer of success or not: an HTTP status, no
\* connection, or no easy handle (500, -1).
Perform(t) == /\ In(t, "request", "guarded")
              /\ \E p \in {"ok", "error"} : Go(t, p, <<>>)
              /\ UNCHANGED <<curlVars, callVars, refreshes>>

\* The completion block: the next request, the callback, or nothing.
Completed(t) == In(t, "request", "ok") \/ In(t, "request", "error")
Last(t)      == Top(t).phase = "error" \/ Top(t).left = 1

SendNext(t) == /\ In(t, "request", "ok") /\ ~Last(t)
               /\ Go(t, "done", <<Request(Top(t).call, Top(t).left - 1)>>)
               /\ UNCHANGED <<curlVars, callVars, refreshes>>

Refreshed(t) == /\ Completed(t) /\ Last(t) /\ Top(t).call = 0
                /\ Go(t, "done", <<>>)
                /\ UNCHANGED <<curlVars, callVars, refreshes>>

\* Mutated: an error is reported to nobody.
AnswerSuccess(t) ==
  /\ Completed(t) /\ Last(t) /\ Top(t).call # 0
  /\ IF Top(t).phase = "ok"
       THEN /\ answers' = [answers EXCEPT ![Top(t).call] = @ + 1]
            /\ Go(t, "done", <<Callback(Top(t).call)>>)
       ELSE UNCHANGED answers /\ Go(t, "done", <<>>)
  /\ UNCHANGED <<curlVars, next, registry, state, refreshes>>

\* Mutated: a refresh is answered to Lua as well.
AnswerAny(t) ==
  /\ Completed(t) /\ Last(t)
  /\ answers' = [c \in Calls |-> answers[c] + IF c = Top(t).call THEN 1 ELSE 0]
  /\ Go(t, "done", <<Callback(Top(t).call)>>)
  /\ UNCHANGED <<curlVars, next, registry, state, refreshes>>

\* on_register_email_complete, on_log_in_complete.
Answer(t) ==
  /\ Completed(t) /\ Last(t) /\ Top(t).call # 0
  /\ answers' = [answers EXCEPT ![Top(t).call] = @ + 1]
  /\ Go(t, "done", <<Callback(Top(t).call)>>)
  /\ UNCHANGED <<curlVars, next, registry, state, refreshes>>

\* ~CurlGlobalGuard(), after the easy handle's cleanup: the lock and the count.
Uncount(t) == /\ In(t, "request", "done")
              /\ mutex = None
              /\ mutex' = t
              /\ users' = users - 1
              /\ Go(t, "uncounted", <<>>)
              /\ UNCHANGED <<curl, callVars, refreshes>>

\* The last user cleans libcurl up; the lock is released.
CleanUp(t) == /\ In(t, "request", "uncounted")
              /\ curl' = (curl /\ users # 0)
              /\ mutex' = None
              /\ Pop(t)
              /\ UNCHANGED <<users, callVars, refreshes>>

-----------------------------------------------------------------------------
(* The app                                                                 *)

\* App:registerEmail, App:logIn: the callback goes into the registry.
Call(op) ==
  /\ LuaRuns /\ next \in Calls
  /\ next' = next + 1
  /\ registry' = registry \cup {next}
  /\ state' = [state EXCEPT ![next] = "running"]
  /\ stack' = [stack EXCEPT ![Lua] =
       Append(@, [at |-> "call", call |-> next, left |-> Rounds[op], phase |-> "start"])]
  /\ UNCHANGED <<curlVars, answers, refreshes>>

\* The core takes the call on.
Send == /\ In(Lua, "call", "start")
        /\ Go(Lua, "sent", <<Request(Top(Lua).call, Top(Lua).left)>>)
        /\ UNCHANGED <<curlVars, callVars, refreshes>>

\* The core refuses the call: its error is raised, the callback freed.
Refuse == /\ In(Lua, "call", "start")
          /\ registry' = registry \ {Top(Lua).call}
          /\ state' = [state EXCEPT ![Top(Lua).call] = "raised"]
          /\ Pop(Lua)
          /\ UNCHANGED <<curlVars, next, answers, refreshes>>

\* The callback ends; an error in it is logged by log_lua_error.
EndCallback == /\ In(Lua, "callback", "running")
               /\ Pop(Lua)
               /\ UNCHANGED <<curlVars, callVars, refreshes>>

\* free_lua_userdata: the core is through with the callback of c once nothing is
\* left to answer.
Answered(c) == \A i \in 1 .. Len(stack[Lua]) : stack[Lua][i].call = c =>
                 stack[Lua][i].phase \in {"sent", "done", "uncounted"}
Free(c) == /\ c \in registry /\ Answered(c)
           /\ registry' = registry \ {c}
           /\ UNCHANGED <<stack, curlVars, next, answers, state, refreshes>>

\* The call returns.
Return == /\ In(Lua, "call", "sent")
          /\ Top(Lua).call \notin registry
          /\ state' = [state EXCEPT ![Top(Lua).call] = "returned"]
          /\ Pop(Lua)
          /\ UNCHANGED <<curlVars, next, registry, answers, refreshes>>

\* A thread of the core refreshes an access token.
Refresh(t) == /\ stack[t] = <<>> /\ refreshes < MaxRefreshes
              /\ refreshes' = refreshes + 1
              /\ stack' = [stack EXCEPT ![t] = <<Request(0, 1)>>]
              /\ UNCHANGED <<curlVars, callVars>>

-----------------------------------------------------------------------------
\* What a thread does in a request, and Lua's in a call and a callback.
InRequest(t) == \/ Count(t) \/ Initialize(t) \/ Perform(t)
                \/ SendNext(t) \/ Refreshed(t) \/ Answer(t)
                \/ Uncount(t) \/ CleanUp(t)
InCall == Send \/ Refuse \/ EndCallback \/ Return

\* The program need not call, nor the core refresh: all of it may stop.
Finished == /\ \A t \in Threads : stack[t] = <<>>
            /\ UNCHANGED vars

Next == \/ \E t \in Threads : InRequest(t)
        \/ InCall
        \/ \E op \in DOMAIN Rounds : Call(op)
        \/ \E c \in Calls : Free(c)
        \/ \E t \in Others : Refresh(t)
        \/ Finished

\* The server answers or the request fails, callbacks end, threads go on.
Fairness == /\ \A t \in Threads : WF_vars(InRequest(t))
            /\ WF_vars(InCall)
            /\ \A c \in Calls : WF_vars(Free(c))

Spec == Init /\ [][Next]_vars /\ Fairness

-----------------------------------------------------------------------------
(* Properties                                                              *)

\* The variables' types; no callback is called twice, or on a core's thread.
TypeOK == /\ stack \in [Threads -> Seq(Frames)]
          /\ \A t \in Others : \A i \in 1 .. Len(stack[t]) : stack[t][i].at = "request"
          /\ mutex \in Threads \cup {None}
          /\ users \in Nat
          /\ curl \in BOOLEAN
          /\ next \in 1 .. MaxCalls + 1
          /\ registry \in SUBSET Calls
          /\ answers \in [Calls -> 0 .. 1]
          /\ state \in [Calls -> {"unused", "running", "returned", "raised"}]
          /\ refreshes \in 0 .. MaxRefreshes

\* libcurl is initialized as long as any request of any thread uses it, with
\* the requests that a callback nests in others, and cleaned up when none does:
\* users counts the requests that are under way.
Guarding(t) == {i \in 1 .. Len(stack[t]) : /\ stack[t][i].at = "request"
                                           /\ stack[t][i].phase \notin {"constructing", "uncounted"}}
Guards == UNION {{t} \X Guarding(t) : t \in Threads}
CurlReady ==
  /\ users = Cardinality(Guards)
  /\ mutex = None => (curl <=> Guards # {})
  /\ \A g \in Guards : stack[g[1]][g[2]].phase # "counted" => curl

\* A call that returns has called its callback, once, before it returns
\* (README.md:497-498 reads the current user right after the call), and one
\* that raises has not.  The callback is in the registry while it may be called.
AnsweredOnce == \A c \in Calls :
  /\ state[c] = "returned" => answers[c] = 1
  /\ state[c] = "raised" => answers[c] = 0
  /\ c \in registry => state[c] = "running"
  /\ \A i \in 1 .. Len(stack[Lua]) : stack[Lua][i] = Callback(c) => c \in registry

\* Every call ends, also one made in a callback on top of other requests.
CallsEnd == \A c \in Calls : state[c] = "running" ~> state[c] \in {"returned", "raised"}
=============================================================================
