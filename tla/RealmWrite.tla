----------------------------- MODULE RealmWrite -----------------------------
(***************************************************************************)
(* Write transactions: Realm:write (init.lua:42-52) around a user callback *)
(* that creates, changes and deletes objects, yields, raises and catches   *)
(* errors.  Several Lua threads (processes, or Lua states) write one file  *)
(* through realm instances of their own; on a thread, coroutines take      *)
(* turns.  Core's write lock is held by one instance at a time: begin_write*)
(* blocks the whole thread until it is free, and raises when the instance  *)
(* already has a transaction.  realm_begin_write runs before the xpcall,   *)
(* realm_commit and realm_rollback after it, so an error in any of them is *)
(* not followed by a realm_cancel_transaction that would end it.           *)
(***************************************************************************)
EXTENDS Naturals, FiniteSets

CONSTANTS
  Fibers,       \* the coroutines
  Instances,    \* the open realms of the file
  NoInstance,
  Home,         \* the thread of each fiber and of each instance
  Keys,         \* primary keys
  Props,        \* the other properties
  MaxWrites,    \* bound: how many calls of Realm:write are made
  Faults        \* which of "commit", "listener", "rollback" may raise outside the xpcall

ASSUME WriteAssumption ==
  /\ NoInstance \notin Instances
  /\ "pk" \notin Props
  /\ MaxWrites \in Nat
  /\ Faults \subseteq {"commit", "listener", "rollback"}

Calls == 1 .. MaxWrites
Cells == Keys \X (Props \cup {"pk"})    \* <<k, "pk">> stands for the object

\* A version of a cell: set or not, and the write call that made it so.
Version == [by : Calls \cup {0}, set : BOOLEAN]

VARIABLES
  store,      \* the committed file: a version per cell
  working,    \* the open transaction's copy
  writer,     \* the instance that is in a transaction, or NoInstance
  cur,        \* the write call whose callback runs in it, or 0
  next,       \* the number of the next write call
  state,      \* per call: "unused", "waiting", "open", "returned", "raised"
  caller,     \* per call that was made, <<fiber, instance>>
  err,        \* an error is on its way out of the open callback
  failed,     \* history: the calls in whose callback an operation failed
  leaked      \* history: an error outside the xpcall left a transaction open

calls == <<next, state, caller>>
vars  == <<store, working, writer, cur, calls, err, failed, leaked>>

Init == /\ store = [c \in Cells |-> [by |-> 0, set |-> FALSE]]
        /\ working = store
        /\ writer = NoInstance
        /\ cur = 0
        /\ next = 1
        /\ state = [w \in Calls |-> "unused"]
        /\ caller = [w \in Calls |-> <<>>]
        /\ err = FALSE
        /\ failed = {}
        /\ leaked = FALSE

-----------------------------------------------------------------------------
(* Helpers                                                                 *)

FiberOf(w)    == caller[w][1]
InstanceOf(w) == caller[w][2]

\* A thread in begin_write waits for the lock with all its coroutines.
Blocked(t) == \E w \in Calls : state[w] = "waiting" /\ Home[FiberOf(w)] = t

InCallback(f) == cur # 0 /\ FiberOf(cur) = f

\* User code of fiber f runs: its thread is not blocked, and not unwinding a
\* callback, in which nothing can yield.
Runs(f) == /\ ~Blocked(Home[f])
           /\ ~(err /\ Home[f] = Home[FiberOf(cur)])

\* The object exists in the open transaction: realm_object_is_valid.
Exists(k) == working[<<k, "pk">>].set

\* Cells D are written (s) or removed in the open transaction.
Touch(D, s) == working' = [c \in Cells |-> IF c \in D THEN [by |-> cur, set |-> s]
                                                     ELSE working[c]]

\* An operation of fiber f raises: so does its callback, if it is in one.
OpRaises(f) == /\ err' = (err \/ InCallback(f))
               /\ failed' = IF InCallback(f) THEN failed \cup {cur} ELSE failed
               /\ UNCHANGED <<store, writer, cur, calls, leaked>>

OpSucceeds == UNCHANGED <<store, writer, cur, calls, err, failed, leaked>>

\* The transaction of call w on instance i opens on the latest version.
Start(w, i) == /\ writer' = i
               /\ cur' = w
               /\ working' = store

-----------------------------------------------------------------------------
(* Realm:write, up to the callback                                         *)

\* Call number next, made by fiber f on instance i, gets state s.
Call(f, i, s) == /\ Runs(f)
                 /\ Home[f] = Home[i]
                 /\ next \in Calls
                 /\ next' = next + 1
                 /\ state' = [state EXCEPT ![next] = s]
                 /\ caller' = [caller EXCEPT ![next] = <<f, i>>]

\* realm_begin_write takes the lock.
Begin(f, i) == /\ writer = NoInstance
               /\ Call(f, i, "open")
               /\ Start(next, i)
               /\ UNCHANGED <<store, err, failed, leaked>>

\* Another instance has it: the thread waits.
BeginWaits(f, i) == /\ writer \notin {i, NoInstance}
                    /\ Call(f, i, "waiting")
                    /\ UNCHANGED <<store, working, writer, cur, err, failed, leaked>>

\* The instance is already in a transaction: begin_write raises, in the
\* callback that made the nested call or in another coroutine.
BeginRaises(f, i) == /\ writer = i
                     /\ Call(f, i, "raised")
                     /\ err' = (err \/ InCallback(f))
                     /\ failed' = IF InCallback(f) THEN failed \cup {cur} ELSE failed
                     /\ UNCHANGED <<store, working, writer, cur, leaked>>

\* The lock is free for a waiting call.
Acquire(w) == /\ state[w] = "waiting"
              /\ writer = NoInstance
              /\ state' = [state EXCEPT ![w] = "open"]
              /\ Start(w, InstanceOf(w))
              /\ UNCHANGED <<store, next, caller, err, failed, leaked>>

\* Beginning a transaction delivers notifications.  A listener that raises
\* leaves begin_write by an error, with the transaction open: there is no
\* xpcall around it yet, and nobody cancels.
StartRaises(i) == /\ "listener" \in Faults
                  /\ writer' = i
                  /\ working' = store
                  /\ leaked' = TRUE
                  /\ UNCHANGED <<store, cur, err, failed>>

BeginLeaks(f, i) == /\ writer = NoInstance
                    /\ Call(f, i, "raised")
                    /\ StartRaises(i)

AcquireLeaks(w) == /\ state[w] = "waiting"
                   /\ writer = NoInstance
                   /\ state' = [state EXCEPT ![w] = "raised"]
                   /\ StartRaises(InstanceOf(w))
                   /\ UNCHANGED <<next, caller>>

-----------------------------------------------------------------------------
(* Inside a callback, or in a coroutine that runs while one has yielded    *)

\* A fiber whose thread owns the instance in the transaction.
CanWrite(f) == Runs(f) /\ writer # NoInstance /\ Home[f] = Home[writer]

\* realm:create with primary key k and the properties P: the object, then the
\* properties one by one.  A property that cannot be set raises, and leaves
\* the object with those set before it.
Create(f, k, P) ==
  /\ CanWrite(f)
  /\ ~Exists(k)
  /\ \E D \in SUBSET P :
       /\ Touch({<<k, p>> : p \in D \cup {"pk"}}, TRUE)
       /\ IF D = P THEN OpSucceeds ELSE OpRaises(f)

\* realm:create without the key, or with one that is taken.
CreateRaises(f) == /\ CanWrite(f)
                   /\ OpRaises(f)
                   /\ UNCHANGED working

\* Mutated: a property set through a wrapper whose object is gone.
SetUnchecked(f, k, p) == /\ CanWrite(f)
                         /\ Touch({<<k, p>>}, TRUE)
                         /\ OpSucceeds

\* object[p] = value
Set(f, k, p) == /\ CanWrite(f)
                /\ \/ Exists(k) /\ Touch({<<k, p>>}, TRUE) /\ OpSucceeds
                   \/ OpRaises(f) /\ UNCHANGED working

\* realm:delete(object)
Delete(f, k) == /\ CanWrite(f)
                /\ \/ /\ Exists(k)
                      /\ Touch({k} \X (Props \cup {"pk"}), FALSE)
                      /\ OpSucceeds
                   \/ ~Exists(k) /\ OpRaises(f) /\ UNCHANGED working

\* The callback raises an error of its own.
Raise(f) == /\ InCallback(f) /\ Runs(f) /\ ~err
            /\ err' = TRUE
            /\ UNCHANGED <<store, working, writer, cur, calls, failed, leaked>>

\* A pcall of the callback catches the error.
Catch(f) == /\ InCallback(f) /\ err
            /\ err' = FALSE
            /\ UNCHANGED <<store, working, writer, cur, calls, failed, leaked>>

-----------------------------------------------------------------------------
(* Realm:write, after the callback                                         *)

\* The open call ends with state s and, if free, gives the lock back.
End(s, free) == /\ state' = [state EXCEPT ![cur] = s]
                /\ cur' = 0
                /\ writer' = IF free THEN NoInstance ELSE writer
                /\ err' = FALSE
                /\ UNCHANGED <<working, next, caller, failed>>

\* xpcall returned true: realm_commit_transaction.
Commit == /\ cur # 0 /\ ~err /\ ~Blocked(Home[FiberOf(cur)])
          /\ store' = working
          /\ End("returned", TRUE)
          /\ UNCHANGED leaked

\* realm_commit fails: its error leaves write, and nobody cancels.
CommitRaises == /\ "commit" \in Faults
                /\ cur # 0 /\ ~err /\ ~Blocked(Home[FiberOf(cur)])
                /\ End("raised", FALSE)
                /\ leaked' = TRUE
                /\ UNCHANGED store

\* Mutated: the status of xpcall is not looked at.
CommitAfterError == /\ cur # 0 /\ err
                    /\ store' = working
                    /\ End("raised", TRUE)
                    /\ UNCHANGED leaked

\* Mutated: the error is raised again before the transaction is cancelled.
RethrowOnly == /\ cur # 0 /\ err
               /\ End("raised", FALSE)
               /\ UNCHANGED <<store, leaked>>

\* xpcall returned false: realm_cancel_transaction, then error(result).
Cancel == /\ cur # 0 /\ err
          /\ End("raised", TRUE)
          /\ UNCHANGED <<store, leaked>>

\* realm_rollback fails: its error leaves write in place of the callback's.
CancelRaises == /\ "rollback" \in Faults
                /\ cur # 0 /\ err
                /\ End("raised", FALSE)
                /\ leaked' = TRUE
                /\ UNCHANGED store

\* Releasing the realm rolls back a transaction that was left open.
CloseRealm(i) == /\ writer = i /\ cur = 0 /\ ~Blocked(Home[i])
                 /\ writer' = NoInstance
                 /\ leaked' = FALSE
                 /\ UNCHANGED <<store, working, cur, calls, err, failed>>

-----------------------------------------------------------------------------
BeginStep == \/ \E f \in Fibers, i \in Instances :
                  Begin(f, i) \/ BeginWaits(f, i) \/ BeginRaises(f, i)
             \/ \E f \in Fibers, i \in Instances : BeginLeaks(f, i)
             \/ \E w \in Calls : Acquire(w) \/ AcquireLeaks(w)

BodyStep(f) == \/ \E k \in Keys : \/ \E P \in SUBSET Props : Create(f, k, P)
                                  \/ \E p \in Props : Set(f, k, p)
                                  \/ Delete(f, k)
               \/ CreateRaises(f) \/ Raise(f) \/ Catch(f)

EndStep == \/ Commit \/ CommitRaises \/ Cancel \/ CancelRaises
           \/ \E i \in Instances : CloseRealm(i)

\* The bound on calls is reached and the last one has ended.
Finished == next \notin Calls /\ writer = NoInstance /\ UNCHANGED vars

Next == BeginStep \/ (\E f \in Fibers : BodyStep(f)) \/ EndStep \/ Finished

\* Callbacks end, in one way or the other, and the lock is handed on.
Fairness == /\ WF_vars(Commit \/ Cancel)
            /\ \A w \in Calls : WF_vars(Acquire(w))

Spec == Init /\ [][Next]_vars /\ Fairness
-----------------------------------------------------------------------------
(* Properties                                                              *)

\* The variables' types.  No property is stored without its object, in the
\* file or in the open transaction, whatever fails half way.
WellFormed(db) == /\ db \in [Cells -> Version]
                  /\ \A c \in Cells : db[c].set => db[<<c[1], "pk">>].set
TypeOK == /\ WellFormed(store) /\ WellFormed(working)
          /\ writer \in Instances \cup {NoInstance}
          /\ cur \in Calls \cup {0}
          /\ next \in 1 .. MaxWrites + 1
          /\ state \in [Calls -> {"unused", "waiting", "open", "returned", "raised"}]
          /\ caller \in [Calls -> {<<>>} \cup (Fibers \X Instances)]
          /\ err \in BOOLEAN
          /\ failed \in SUBSET Calls
          /\ leaked \in BOOLEAN

\* A transaction left open: no callback runs in it and nobody will end it.
LeftOpen == writer # NoInstance /\ cur = 0

\* A transaction and a callback begin and end together, over nested calls,
\* errors in the callback, and calls of other coroutines: there is one callback
\* in the transaction of its instance, and only an error outside the xpcall
\* (a listener during begin_write, a failed commit or rollback) leaves one open.
OneCallPerTransaction ==
  /\ cur # 0 => state[cur] = "open" /\ writer = InstanceOf(cur)
  /\ \A w \in Calls : state[w] = "open" => w = cur
  /\ err => cur # 0
  /\ LeftOpen => leaked

\* "Either all the operations in the transaction succeed or none of the
\* operations complete" (README.md:190-192), the second half: nothing that a
\* call of write did is in the file after the call has raised.
RaisedLeavesNothing ==
  \A w \in Calls : state[w] # "returned" => \A c \in Cells : store[c].by # w

\* Each waiting writer gets its turn, unless a transaction was left open.
WaiterGetsItsTurn ==
  \A w \in Calls : state[w] = "waiting" ~> state[w] # "waiting" \/ leaked

\* Write calls are atomic and none overwrites what it has not seen.
Results == [w \in Calls |-> CASE state[w] = "returned" -> "returned"
                              [] state[w] = "raised" -> "raised"
                              [] OTHER -> "pending"]
Atomic == INSTANCE AtomicStore WITH result <- Results
AtomicSpec == Atomic!Spec

\* What the properties rest on, inductive together with them.
CallsInv == \A w \in Calls : /\ state[w] = "unused" <=> w >= next
                             /\ state[w] # "unused" => caller[w] \in Fibers \X Instances
\* The open transaction differs from the file only in what its call did.
CopyInv == cur # 0 => \A c \in Cells : working[c] = store[c] \/ working[c].by = cur
IndInv == TypeOK /\ CallsInv /\ CopyInv /\ OneCallPerTransaction /\ RaisedLeavesNothing

\* The first half of README.md:190-192: a call of write that returns has had no
\* operation fail.
AllOrNothing == \A w \in Calls : state[w] = "returned" => w \notin failed
=============================================================================
