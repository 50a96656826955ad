--------------------------- MODULE RealmOpenProofs ---------------------------
(***************************************************************************)
(* Proofs about Realm.open, for any users, schemas, calls and userdata: a  *)
(* call may end in any of its errors and the collector runs between any    *)
(* two steps.                                                              *)
(*   - TypeCorrect, OwnersAreExact, StackIsKept: the call;                 *)
(*   - DocumentedAccepted, InfoIsFaithful: what the parser makes of the    *)
(*     types of a schema's properties.                                     *)
(***************************************************************************)
EXTENDS RealmOpen, SequenceTheorems, TLAPS

PCs   == {"parse", "sync", "scheduler", "open", "return"}
Slots == {"config", "scheduler", "schema", "class"}
Ops   == [pc : PCs, n : Calls, schema : DOMAIN Schema, sync : Syncs, stack : Seq(Slots), peak : Nat]

RealmStates  == [state : {"none", "open", "dropped", "closed"}, user : Users \cup {None}]
HandleStates == [state : {"unused", "held", "dropped", "released"}, user : Users \cup {None}]
Owners       == {"core", "user", "sync", "realm"} \X Nat

\* The variables' types, as functions and records.
ShapeInv ==
  /\ op = Idle \/ op \in Ops
  /\ next \in 1 .. MaxOpens + 1
  /\ sched \in [Calls -> {"none", "local", "garbage", "null"}]
  /\ schedOwners \in [Calls -> SUBSET {"userdata", "config", "realm"}]
  /\ realm \in [Calls -> RealmStates]
  /\ handle \in [Handles -> HandleStates]
  /\ \A h \in Handles : handle[h].state # "unused" => handle[h].user \in Users
  /\ userOwners \in [Users -> SUBSET Owners]
  /\ loggedIn \in SUBSET Users
  /\ current \in loggedIn \cup {None}
  /\ (current = None) = (loggedIn = {})
  /\ empty \in SUBSET Calls

\* The call under way: its scheduler is Realm.open's own, its realm is not there
\* yet, its user is held, and its stack is what the parser left.
CallInv ==
  op # Idle =>
    /\ op.n < next
    /\ op.sync.kind = "user" => handle[op.sync.handle].state = "held"
    /\ sched[op.n] = "local"
    /\ op.pc # "return" => realm[op.n].state = "none"
    /\ Classes = <<>> => op.n \in empty
    /\ op.pc = "parse" => op.stack = <<"config", "scheduler", "schema">> /\ op.peak = 3
    /\ op.pc # "parse" => /\ Len(op.stack) = Len(Classes) + 1
                          /\ Classes # <<>> => op.stack[2] = "scheduler"
                          /\ op.peak <= Len(Classes) + 7

\* Calls to come have nothing.
FreshInv == \A n \in Calls : n >= next => sched[n] = "none" /\ realm[n].state = "none"

\* The two halves of OwnersExact, owner by owner.
SchedOwned == \A n \in Calls :
  /\ ("userdata" \in schedOwners[n]) = (sched[n] \in {"local", "garbage"})
  /\ ("config" \in schedOwners[n]) = Underway(n, {"open"})
  /\ ("realm" \in schedOwners[n]) = (realm[n].state \in {"open", "dropped"})

UserOwned == \A u \in Users :
  /\ (Core \in userOwners[u]) = (u \in loggedIn)
  /\ \A h \in Handles : (<<"user", h>> \in userOwners[u]) =
       (handle[h].user = u /\ handle[h].state \in {"held", "dropped"})
  /\ \A n \in Calls : (<<"realm", n>> \in userOwners[u]) =
       (realm[n].user = u /\ realm[n].state \in {"open", "dropped"})
  /\ \A n \in Calls : (<<"sync", n>> \in userOwners[u]) =>
       n \in empty \/ (Underway(n, {"scheduler", "open"}) /\ u = SyncUser)
  /\ Underway(op.n, {"scheduler", "open"}) /\ u = SyncUser => <<"sync", op.n>> \in userOwners[u]

IndInv == ShapeInv /\ CallInv /\ FreshInv /\ SchedOwned /\ UserOwned

-----------------------------------------------------------------------------
(* Lemmas                                                                  *)

\* A call under way is one of Ops.
LEMMA Running ==
  ASSUME ShapeInv, op # Idle
  PROVE  op \in Ops
BY DEF ShapeInv

\* What the parts of a schema are.
LEMMA SchemaTypes ==
  ASSUME NEW k \in DOMAIN Schema
  PROVE  Len(Schema[k]) \in Nat /\ (Schema[k] # <<>> => Len(Schema[k]) >= 1)
<1>1. Schema[k] \in Seq({Schema[k][i] : i \in DOMAIN Schema[k]})
  BY OpenAssumption
<1> QED BY <1>1

\* The user of a call under way is a user, or None if it has none.
LEMMA SyncUserType ==
  ASSUME ShapeInv, CallInv, op # Idle
  PROVE  SyncUser \in Users \cup {None}
<1>1. op.sync \in Syncs
  BY Running DEF Ops
<1>2. op.sync.kind = "user" => op.sync.handle \in Handles
  BY <1>1 DEF Syncs
<1> QED BY <1>2 DEF SyncUser, CallInv, ShapeInv

\* Concatenation.
LEMMA Concat ==
  ASSUME NEW S, NEW s \in Seq(S), NEW t \in Seq(S)
  PROVE  /\ s \o t \in Seq(S) /\ Len(s \o t) = Len(s) + Len(t)
         /\ \A i \in 1 .. Len(s) : (s \o t)[i] = s[i]
OBVIOUS

LEMMA InitIndInv == Init => IndInv
<1> SUFFICES ASSUME Init PROVE IndInv
  OBVIOUS
<1> USE OpenAssumption DEF Init, Calls, Handles
<1>1. ShapeInv
  BY DEF ShapeInv, RealmStates, HandleStates
<1>2. CallInv /\ FreshInv
  BY DEF CallInv, FreshInv
<1>3. SchedOwned
  BY DEF SchedOwned, Underway
<1>4. UserOwned
  BY DEF UserOwned, Underway, Idle
<1> QED BY <1>1, <1>2, <1>3, <1>4 DEF IndInv

-----------------------------------------------------------------------------
(* Users                                                                   *)

\* A new userdata for a user that is logged in from now on.
LEMMA LogInKeeps ==
  ASSUME IndInv, NEW u \in Users, LogIn(u)
  PROVE  IndInv'
<1> USE DEF IndInv
<1>1. PICK h \in Handles :
        /\ handle[h].state = "unused"
        /\ handle' = [handle EXCEPT ![h] = [state |-> "held", user |-> u]]
        /\ userOwners' = [userOwners EXCEPT ![u] = @ \cup {Core, <<"user", h>>}]
  BY DEF LogIn, NewUser
<1>2. /\ op = Idle /\ loggedIn' = loggedIn \cup {u} /\ current' = u
      /\ UNCHANGED <<op, next, sched, schedOwners, realm, empty>>
  BY DEF LogIn, UserSteps
<1>3. Core \in Owners /\ <<"user", h>> \in Owners
  BY DEF Core, Owners, Handles
<1>4. ShapeInv'
  BY <1>1, <1>2, <1>3, OpenAssumption DEF ShapeInv, HandleStates
<1>5. CallInv' /\ FreshInv' /\ SchedOwned'
  BY <1>2 DEF CallInv, FreshInv, SchedOwned, Underway
<1>6. UserOwned'
  BY <1>1, <1>2 DEF UserOwned, Underway, ShapeInv, HandleStates, Core, Idle
<1> QED BY <1>4, <1>5, <1>6

\* One more userdata for the current user.
LEMMA CurrentUserKeeps ==
  ASSUME IndInv, CurrentUser
  PROVE  IndInv'
<1> USE DEF IndInv
<1>1. current \in Users /\ current \in loggedIn
  BY DEF CurrentUser, ShapeInv
<1>2. PICK h \in Handles :
        /\ handle[h].state = "unused"
        /\ handle' = [handle EXCEPT ![h] = [state |-> "held", user |-> current]]
        /\ userOwners' = [userOwners EXCEPT ![current] = @ \cup {Core, <<"user", h>>}]
  BY DEF CurrentUser, NewUser
<1>3. /\ op = Idle /\ UNCHANGED <<loggedIn, current>>
      /\ UNCHANGED <<op, next, sched, schedOwners, realm, empty>>
  BY DEF CurrentUser, UserSteps
<1>4. Core \in Owners /\ <<"user", h>> \in Owners
  BY DEF Core, Owners, Handles
<1>5. ShapeInv'
  BY <1>1, <1>2, <1>3, <1>4, OpenAssumption DEF ShapeInv, HandleStates
<1>6. CallInv' /\ FreshInv' /\ SchedOwned'
  BY <1>3 DEF CallInv, FreshInv, SchedOwned, Underway
<1>7. UserOwned'
  BY <1>1, <1>2, <1>3 DEF UserOwned, Underway, ShapeInv, HandleStates, Core, Idle
<1> QED BY <1>5, <1>6, <1>7

\* Only core lets go of a user who logs out.
LEMMA LogOutKeeps ==
  ASSUME IndInv, NEW h \in Handles, LogOut(h)
  PROVE  IndInv'
<1> USE DEF IndInv
<1> DEFINE u == handle[h].user
<1>1. /\ op = Idle /\ u \in loggedIn /\ u \in Users
      /\ loggedIn' = loggedIn \ {u}
      /\ userOwners' = [userOwners EXCEPT ![u] = @ \ {Core}]
      /\ current' \in IF current \in loggedIn' THEN {current}
                      ELSE IF loggedIn' = {} THEN {None} ELSE loggedIn'
      /\ UNCHANGED <<op, next, sched, schedOwners, realm, empty, handle>>
  BY DEF LogOut, UserSteps, ShapeInv
<1>2. current' \in loggedIn' \cup {None} /\ (current' = None) = (loggedIn' = {})
  BY <1>1, OpenAssumption DEF ShapeInv
<1>3. ShapeInv'
  BY <1>1, <1>2 DEF ShapeInv
<1>4. CallInv' /\ FreshInv' /\ SchedOwned'
  BY <1>1 DEF CallInv, FreshInv, SchedOwned, Underway
<1>5. UserOwned'
  BY <1>1 DEF UserOwned, Underway, ShapeInv, Core, Idle
<1> QED BY <1>3, <1>4, <1>5

\* A userdata that the program forgets is still an owner.
LEMMA DropUserKeeps ==
  ASSUME IndInv, NEW h \in Handles, DropUser(h)
  PROVE  IndInv'
<1> USE DEF IndInv
<1>1. /\ op = Idle /\ handle[h].state = "held"
      /\ handle' = [handle EXCEPT ![h].state = "dropped"]
      /\ UNCHANGED <<op, next, sched, schedOwners, realm, empty, userOwners, loggedIn, current>>
  BY DEF DropUser, UserSteps
<1>2. ShapeInv'
  BY <1>1 DEF ShapeInv, HandleStates
<1>3. CallInv' /\ FreshInv' /\ SchedOwned'
  BY <1>1 DEF CallInv, FreshInv, SchedOwned, Underway
<1>4. UserOwned'
  BY <1>1 DEF UserOwned, Underway, ShapeInv, HandleStates, Idle
<1> QED BY <1>2, <1>3, <1>4

\* Once collected it is not, whatever open is doing.
LEMMA CollectUserKeeps ==
  ASSUME IndInv, NEW h \in Handles, CollectUser(h)
  PROVE  IndInv'
<1> USE DEF IndInv
<1> DEFINE u == handle[h].user
<1>1. /\ handle[h].state = "dropped" /\ u \in Users
      /\ handle' = [handle EXCEPT ![h].state = "released"]
      /\ userOwners' = [userOwners EXCEPT ![u] = @ \ {<<"user", h>>}]
      /\ UNCHANGED <<op, next, sched, schedOwners, realm, empty, loggedIn, current>>
  BY DEF CollectUser, UserSteps, ShapeInv
<1>2. /\ \A g \in Handles : handle'[g].user = handle[g].user
      /\ \A g \in Handles : g # h => handle'[g].state = handle[g].state
      /\ handle'[h].state = "released"
  BY <1>1 DEF ShapeInv, HandleStates
<1>3. ShapeInv'
  BY <1>1, <1>2 DEF ShapeInv, HandleStates
<1>4. op # Idle /\ op.sync.kind = "user" => /\ op.sync.handle \in Handles
                                            /\ op.sync.handle # h
  BY <1>1, Running DEF CallInv, Ops, Syncs
<1>5. CallInv' /\ FreshInv' /\ SchedOwned'
  BY <1>1, <1>2, <1>4 DEF CallInv, FreshInv, SchedOwned, Underway, Classes
<1>6. op # Idle => SyncUser' = SyncUser
  BY <1>1, <1>2, <1>4 DEF SyncUser
<1>7. UserOwned'
  BY <1>1, <1>2, <1>6 DEF UserOwned, Underway, ShapeInv, Core
<1> QED BY <1>3, <1>5, <1>7

-----------------------------------------------------------------------------
(* Realm.open                                                              *)

\* A call begins.
LEMMA OpenKeeps ==
  ASSUME IndInv, NEW k \in DOMAIN Schema, NEW y \in Syncs, Open(k, y)
  PROVE  IndInv'
<1> USE DEF IndInv
<1>1. /\ op = Idle /\ next \in Calls
      /\ y.kind = "user" => handle[y.handle].state = "held"
      /\ op' = [pc |-> "parse", n |-> next, schema |-> k, sync |-> y,
                stack |-> <<"config", "scheduler", "schema">>, peak |-> 3]
      /\ next' = next + 1
      /\ sched' = [sched EXCEPT ![next] = "local"]
      /\ schedOwners' = [schedOwners EXCEPT ![next] = {"userdata"}]
      /\ empty' = IF Schema[k] = <<>> THEN empty \cup {next} ELSE empty
      /\ UNCHANGED <<realm, handle, userOwners, loggedIn, current>>
  BY DEF Open, users
<1>2. op' \in Ops
  <2>1. <<"config", "scheduler", "schema">> \in Seq(Slots)
    BY DEF Slots
  <2> QED BY <1>1, <2>1 DEF Ops, PCs
<1>3. next' \in 1 .. MaxOpens + 1
  BY <1>1, OpenAssumption DEF Calls
<1>4. ShapeInv'
  BY <1>1, <1>2, <1>3 DEF ShapeInv
<1>5. CallInv'
  BY <1>1, <1>2 DEF CallInv, FreshInv, Classes, ShapeInv, Calls
<1>6. FreshInv'
  BY <1>1, OpenAssumption DEF FreshInv, ShapeInv, Calls
<1>7. SchedOwned'
  BY <1>1 DEF SchedOwned, FreshInv, ShapeInv, Underway, Calls, Idle
<1>8. UserOwned'
  BY <1>1 DEF UserOwned, ShapeInv, Underway, Idle
<1> QED BY <1>4, <1>5, <1>6, <1>7, <1>8

\* The schema is parsed.
LEMMA ParseSchemaKeeps ==
  ASSUME IndInv, ParseSchema
  PROVE  IndInv'
<1> USE DEF IndInv
<1> DEFINE n      == Len(Classes)
           parsed == op.stack \o [i \in 1 .. n |-> "class"]
           after  == Pop(Pop(parsed))
<1>1. /\ op # Idle /\ op.pc = "parse"
      /\ op' = [op EXCEPT !.pc = "sync", !.stack = after, !.peak = Len(parsed) + 4]
      /\ UNCHANGED <<next, sched, empty, handle, loggedIn, current, schedOwners, realm, userOwners>>
  BY DEF ParseSchema, OnTo, Idle
<1>2. op \in Ops /\ op.schema \in DOMAIN Schema
  BY <1>1, Running DEF Ops
<1>3. n \in Nat /\ (Classes # <<>> => n >= 1)
  BY <1>2, SchemaTypes DEF Classes
<1>4. op.stack = <<"config", "scheduler", "schema">>
  BY <1>1 DEF CallInv
<1>5. /\ parsed \in Seq(Slots) /\ Len(parsed) = n + 3
      /\ parsed[1] = "config" /\ parsed[2] = "scheduler"
  <2> DEFINE added == [i \in 1 .. n |-> "class"]
  <2>1. added \in Seq(Slots) /\ Len(added) = n
    BY <1>3 DEF Slots
  <2>2. op.stack \in Seq(Slots) /\ Len(op.stack) = 3
    BY <1>4 DEF Slots
  <2>3. op.stack[1] = "config" /\ op.stack[2] = "scheduler"
    BY <1>4
  <2>4. parsed = op.stack \o added
    OBVIOUS
  <2> HIDE DEF added, parsed
  <2>5. /\ parsed \in Seq(Slots) /\ Len(parsed) = 3 + n
        /\ \A i \in 1 .. 3 : parsed[i] = op.stack[i]
    <3>1. /\ op.stack \o added \in Seq(Slots)
          /\ Len(op.stack \o added) = Len(op.stack) + Len(added)
          /\ \A i \in 1 .. Len(op.stack) : (op.stack \o added)[i] = op.stack[i]
      <4>1. op.stack \in Seq(Slots) /\ added \in Seq(Slots)
        BY <2>1, <2>2
      <4> HIDE DEF IndInv
      <4> QED BY <4>1, Concat
    <3> QED BY <2>1, <2>2, <2>4, <3>1
  <2>6. parsed[1] = "config" /\ parsed[2] = "scheduler"
    BY <2>3, <2>5
  <2> QED BY <2>5, <2>6, <1>3
<1>6. /\ after \in Seq(Slots) /\ Len(after) = n + 1
      /\ n >= 1 => after[2] = "scheduler"
  <2>1. /\ Pop(parsed) \in Seq(Slots) /\ Len(Pop(parsed)) = n + 2
        /\ Pop(parsed)[2] = "scheduler"
    BY <1>3, <1>5, SMTT(30) DEF Pop
  <2> HIDE DEF parsed
  <2>2. Pop(Pop(parsed)) \in Seq(Slots) /\ Len(Pop(Pop(parsed))) = n + 1
    BY <1>3, <2>1 DEF Pop
  <2>3. n >= 1 => Pop(Pop(parsed))[2] = "scheduler"
    BY <1>3, <2>1 DEF Pop
  <2> QED BY <2>2, <2>3
<1> HIDE DEF after, parsed
<1>7. op' \in Ops
  <2>1. Len(parsed) + 4 \in Nat /\ "sync" \in PCs
    BY <1>3, <1>5 DEF PCs
  <2> QED BY <1>1, <1>2, <1>6, <2>1 DEF Ops
<1>8. /\ op'.pc = "sync" /\ op'.stack = after /\ op'.peak = n + 7
      /\ op'.n = op.n /\ op'.schema = op.schema /\ op'.sync = op.sync
  BY <1>1, <1>2, <1>3, <1>5 DEF Ops
<1>9. ShapeInv'
  BY <1>1, <1>7 DEF ShapeInv
<1>10. CallInv'
  BY <1>1, <1>3, <1>6, <1>8 DEF CallInv, Classes
<1>11. FreshInv' /\ SchedOwned' /\ UserOwned'
  BY <1>1, <1>8 DEF FreshInv, SchedOwned, UserOwned, Underway
<1> QED BY <1>9, <1>10, <1>11

\* An error that lets go of nothing but the call itself: for what the sync
\* configuration owns see SetSchedulerRaises.
LEMMA RaiseKeeps ==
  ASSUME IndInv, op # Idle, Raise, UNCHANGED realm,
         schedOwners' = [schedOwners EXCEPT ![op.n] = @ \ {"config"}],
         userOwners' \in [Users -> SUBSET Owners],
         \A u \in Users : userOwners'[u] \in {userOwners[u], userOwners[u] \ {<<"sync", op.n>>}},
         \A u \in Users : <<"sync", op.n>> \in userOwners'[u] => op.n \in empty
  PROVE  IndInv'
<1> USE DEF IndInv
<1>1. /\ op' = Idle
      /\ sched' = [sched EXCEPT ![op.n] = "garbage"]
      /\ UNCHANGED <<next, empty, handle, loggedIn, current, realm>>
  BY DEF Raise
<1>2. op \in Ops /\ op.n \in Calls /\ op.n < next /\ sched[op.n] = "local"
  BY Running DEF Ops, CallInv
<1>3. ShapeInv'
  BY <1>1, <1>2 DEF ShapeInv
<1>4. CallInv' /\ FreshInv'
  BY <1>1, <1>2 DEF CallInv, FreshInv, ShapeInv, Calls
<1>5. SchedOwned'
  BY <1>1, <1>2 DEF SchedOwned, ShapeInv, Underway, Idle
<1>6. UserOwned'
  <2> SUFFICES ASSUME NEW u \in Users
               PROVE  /\ (Core \in userOwners'[u]) = (u \in loggedIn)
                      /\ \A h \in Handles : (<<"user", h>> \in userOwners'[u]) =
                           (handle[h].user = u /\ handle[h].state \in {"held", "dropped"})
                      /\ \A n \in Calls : (<<"realm", n>> \in userOwners'[u]) =
                           (realm[n].user = u /\ realm[n].state \in {"open", "dropped"})
                      /\ \A n \in Calls : (<<"sync", n>> \in userOwners'[u]) => n \in empty
    BY <1>1 DEF UserOwned, Underway
  <2>1. \A x : x # <<"sync", op.n>> => (x \in userOwners'[u]) = (x \in userOwners[u])
    OBVIOUS
  <2>2. Core # <<"sync", op.n>>
    BY DEF Core
  <2>3. \A n : <<"user", n>> # <<"sync", op.n>> /\ <<"realm", n>> # <<"sync", op.n>>
    OBVIOUS
  <2>4. \A n \in Calls : (<<"sync", n>> \in userOwners'[u]) => n \in empty
    <3> SUFFICES ASSUME NEW n \in Calls, <<"sync", n>> \in userOwners'[u], n # op.n PROVE n \in empty
      OBVIOUS
    <3>1. <<"sync", n>> \in userOwners[u]
      OBVIOUS
    <3> QED BY <3>1 DEF UserOwned, Underway
  <2> QED BY <2>1, <2>2, <2>3, <2>4 DEF UserOwned
<1> QED BY <1>3, <1>4, <1>5, <1>6

\* The errors before there is a sync configuration.
LEMMA EarlyRaises ==
  ASSUME IndInv, ParseRaises \/ ReadSyncRaises
  PROVE  IndInv'
<1> USE DEF IndInv
<1>1. /\ op # Idle /\ op.pc \in {"parse", "sync"} /\ Raise
      /\ UNCHANGED <<schedOwners, realm, userOwners>>
  BY DEF ParseRaises, ReadSyncRaises, Idle
<1>2. op.n \in Calls /\ "config" \notin schedOwners[op.n]
  BY <1>1, Running DEF Ops, SchedOwned, Underway
<1>3. schedOwners' = [schedOwners EXCEPT ![op.n] = @ \ {"config"}]
  BY <1>1, <1>2 DEF ShapeInv
<1>4. \A u \in Users : <<"sync", op.n>> \in userOwners[u] => op.n \in empty
  BY <1>1, <1>2 DEF UserOwned, Underway
<1> QED BY <1>1, <1>3, <1>4, RaiseKeeps DEF ShapeInv

\* The scheduler is not in slot 2: the schema is empty.
LEMMA SetSchedulerRaisesKeeps ==
  ASSUME IndInv, SetSchedulerRaises
  PROVE  IndInv'
<1> USE DEF IndInv
<1>1. /\ op # Idle /\ op.pc = "scheduler" /\ ~InSlot2 /\ Raise
      /\ UNCHANGED <<schedOwners, realm, userOwners>>
  BY DEF SetSchedulerRaises, Idle
<1>2. op.n \in Calls /\ op.schema \in DOMAIN Schema /\ "config" \notin schedOwners[op.n]
  BY <1>1, Running DEF Ops, SchedOwned, Underway
<1>3. schedOwners' = [schedOwners EXCEPT ![op.n] = @ \ {"config"}]
  BY <1>1, <1>2 DEF ShapeInv
<1>4. Classes = <<>>
  BY <1>1, <1>2, SchemaTypes DEF CallInv, InSlot2, Classes
<1>5. op.n \in empty
  BY <1>1, <1>4 DEF CallInv
<1> QED BY <1>1, <1>3, <1>5, RaiseKeeps DEF ShapeInv

\* realm_open fails after both configurations were released.
LEMMA OpenFailsKeeps ==
  ASSUME IndInv, OpenFails
  PROVE  IndInv'
<1> USE DEF IndInv
<1>1. /\ op # Idle /\ op.pc = "open" /\ Raise
      /\ schedOwners' = [schedOwners EXCEPT ![op.n] = @ \ {"config"}]
      /\ userOwners' = [u \in Users |-> IF u = SyncUser
                          THEN (userOwners[u] \ ({"sync"} \X {op.n})) \cup ({} \X {op.n})
                          ELSE userOwners[u]]
      /\ UNCHANGED realm
  BY DEF OpenFails, Disown, OwnUser, Idle
<1>2. op.n \in Calls
  BY <1>1, Running DEF Ops
<1>3. {"sync"} \X {op.n} = {<<"sync", op.n>>} /\ {} \X {op.n} = {}
  OBVIOUS
<1>4. \A u \in Users : userOwners'[u] = IF u = SyncUser THEN userOwners[u] \ {<<"sync", op.n>>}
                                                        ELSE userOwners[u]
  BY <1>1, <1>3
<1>5. userOwners' \in [Users -> SUBSET Owners]
  BY <1>1, <1>3 DEF ShapeInv
<1>6. \A u \in Users : <<"sync", op.n>> \in userOwners'[u] => op.n \in empty
  BY <1>2, <1>4 DEF UserOwned, Underway
<1> QED BY <1>1, <1>4, <1>5, <1>6, RaiseKeeps

\* What a step of the call leaves of it when only its pc changes.
LEMMA NextPc ==
  ASSUME op \in Ops, NEW pc \in PCs, op' = [op EXCEPT !.pc = pc]
  PROVE  /\ op' \in Ops /\ op' # Idle /\ op'.pc = pc
         /\ op'.n = op.n /\ op'.schema = op.schema /\ op'.sync = op.sync
         /\ op'.stack = op.stack /\ op'.peak = op.peak
<1>1. op' \in Ops /\ op'.pc = pc
  BY DEF Ops
<1>2. pc # "idle"
  BY DEF PCs
<1> QED BY <1>1, <1>2 DEF Ops, Idle

\* A sync configuration comes to own the user.
LEMMA ReadSyncKeeps ==
  ASSUME IndInv, ReadSync
  PROVE  IndInv'
<1> USE DEF IndInv
<1>1. /\ op # Idle /\ op.pc = "sync"
      /\ op' = [op EXCEPT !.pc = "scheduler"]
      /\ userOwners' = [u \in Users |-> IF u = SyncUser
                          THEN (userOwners[u] \ ({} \X {op.n})) \cup ({"sync"} \X {op.n})
                          ELSE userOwners[u]]
      /\ UNCHANGED <<next, sched, empty, handle, loggedIn, current, schedOwners, realm>>
  BY DEF ReadSync, OwnUser, OnTo, Idle
<1>2. op \in Ops /\ op.n \in Calls /\ "scheduler" \in PCs
  BY <1>1, Running DEF Ops, PCs
<1>3. /\ op' \in Ops /\ op' # Idle /\ op'.pc = "scheduler"
      /\ op'.n = op.n /\ op'.schema = op.schema /\ op'.sync = op.sync
      /\ op'.stack = op.stack /\ op'.peak = op.peak
  BY <1>1, <1>2, NextPc
<1>4. {"sync"} \X {op.n} = {<<"sync", op.n>>} /\ {} \X {op.n} = {}
  OBVIOUS
<1>5. \A u \in Users : userOwners'[u] = IF u = SyncUser THEN userOwners[u] \cup {<<"sync", op.n>>}
                                                        ELSE userOwners[u]
  BY <1>1, <1>4
<1>6. <<"sync", op.n>> \in Owners
  BY <1>2 DEF Owners, Calls
<1>7. userOwners' \in [Users -> SUBSET Owners]
  BY <1>1, <1>5, <1>6 DEF ShapeInv
<1>8. SyncUser' = SyncUser /\ Classes' = Classes
  BY <1>1, <1>3 DEF SyncUser, Classes
<1>9. ShapeInv'
  BY <1>1, <1>3, <1>7 DEF ShapeInv
<1>10. CallInv' /\ FreshInv' /\ SchedOwned'
  BY <1>1, <1>3, <1>8 DEF CallInv, FreshInv, SchedOwned, Underway
<1>11. UserOwned'
  BY <1>1, <1>3, <1>5, <1>8 DEF UserOwned, Underway, Core
<1> QED BY <1>9, <1>10, <1>11

\* The configuration comes to own the scheduler.
LEMMA SetSchedulerKeeps ==
  ASSUME IndInv, SetScheduler
  PROVE  IndInv'
<1> USE DEF IndInv
<1>1. /\ op # Idle /\ op.pc = "scheduler"
      /\ op' = [op EXCEPT !.pc = "open"]
      /\ schedOwners' = [schedOwners EXCEPT ![op.n] = @ \cup {"config"}]
      /\ UNCHANGED <<next, sched, empty, handle, loggedIn, current, userOwners, realm>>
  BY DEF SetScheduler, Own, OnTo, Idle
<1>2. op \in Ops /\ op.n \in Calls /\ "open" \in PCs
  BY <1>1, Running DEF Ops, PCs
<1>3. /\ op' \in Ops /\ op' # Idle /\ op'.pc = "open"
      /\ op'.n = op.n /\ op'.schema = op.schema /\ op'.sync = op.sync
      /\ op'.stack = op.stack /\ op'.peak = op.peak
  BY <1>1, <1>2, NextPc
<1>4. SyncUser' = SyncUser /\ Classes' = Classes
  BY <1>1, <1>3 DEF SyncUser, Classes
<1>5. ShapeInv'
  BY <1>1, <1>2, <1>3 DEF ShapeInv
<1>6. CallInv' /\ FreshInv'
  BY <1>1, <1>3, <1>4 DEF CallInv, FreshInv
<1>7. SchedOwned'
  BY <1>1, <1>2, <1>3 DEF SchedOwned, ShapeInv, Underway
<1>8. UserOwned'
  BY <1>1, <1>3, <1>4 DEF UserOwned, Underway
<1> QED BY <1>5, <1>6, <1>7, <1>8

\* The realm comes to own what the configurations let go of.
LEMMA OpenRealmKeeps ==
  ASSUME IndInv, OpenRealm
  PROVE  IndInv'
<1> USE DEF IndInv
<1> DEFINE peak == IF Len(op.stack) + 6 > op.peak THEN Len(op.stack) + 6 ELSE op.peak
<1>1. /\ op # Idle /\ op.pc = "open"
      /\ op' = [op EXCEPT !.pc = "return", !.peak = peak]
      /\ realm' = [realm EXCEPT ![op.n] = [state |-> "open", user |-> SyncUser]]
      /\ schedOwners' = [schedOwners EXCEPT ![op.n] = (@ \cup {"realm"}) \ {"config"}]
      /\ userOwners' = [u \in Users |-> IF u = SyncUser
                          THEN (userOwners[u] \ ({"sync"} \X {op.n})) \cup ({"realm"} \X {op.n})
                          ELSE userOwners[u]]
      /\ UNCHANGED <<next, sched, empty, handle, loggedIn, current>>
  BY DEF OpenRealm, OwnUser, OnTo, Idle
<1>2. op \in Ops /\ op.n \in Calls /\ op.schema \in DOMAIN Schema
  BY <1>1, Running DEF Ops
<1>3. Len(Classes) \in Nat
  BY <1>2, SchemaTypes DEF Classes
<1>4. peak \in Nat /\ peak <= Len(Classes) + 7
  BY <1>1, <1>2, <1>3 DEF CallInv, Ops
<1> HIDE DEF peak
<1>5. /\ op' \in Ops /\ op'.pc = "return" /\ op'.peak = peak
      /\ op'.n = op.n /\ op'.schema = op.schema /\ op'.sync = op.sync
      /\ op'.stack = op.stack
  BY <1>1, <1>2, <1>4 DEF Ops, PCs
<1>6. op' # Idle
  BY <1>5 DEF Idle
<1>7. {"sync"} \X {op.n} = {<<"sync", op.n>>} /\ {"realm"} \X {op.n} = {<<"realm", op.n>>}
  OBVIOUS
<1>8. \A u \in Users : userOwners'[u] =
        IF u = SyncUser THEN (userOwners[u] \ {<<"sync", op.n>>}) \cup {<<"realm", op.n>>}
        ELSE userOwners[u]
  BY <1>1, <1>7
<1>9. <<"realm", op.n>> \in Owners
  BY <1>2 DEF Owners, Calls
<1>10. userOwners' \in [Users -> SUBSET Owners]
  BY <1>1, <1>8, <1>9 DEF ShapeInv
<1>11. Classes' = Classes /\ SyncUser \in Users \cup {None}
  BY <1>1, <1>5, SyncUserType DEF Classes
<1>12. realm' \in [Calls -> RealmStates]
  BY <1>1, <1>2, <1>11 DEF ShapeInv, RealmStates
<1>13. ShapeInv'
  BY <1>1, <1>2, <1>5, <1>10, <1>12 DEF ShapeInv
<1>14. CallInv'
  BY <1>1, <1>2, <1>4, <1>5, <1>11 DEF CallInv
<1>15. FreshInv'
  BY <1>1, <1>2 DEF FreshInv, CallInv, ShapeInv, Calls
<1>16. /\ realm[op.n].state = "none"
       /\ \A n \in Calls : n # op.n => realm'[n] = realm[n]
       /\ realm'[op.n].state = "open" /\ realm'[op.n].user = SyncUser
  BY <1>1, <1>2 DEF CallInv, ShapeInv
<1>17. SchedOwned'
  BY <1>1, <1>2, <1>5, <1>6, <1>16 DEF SchedOwned, ShapeInv, Underway
<1>18. op'.pc # "scheduler" /\ op'.pc # "open"
  BY <1>5
<1>19. ASSUME NEW u \in Users
       PROVE  /\ (Core \in userOwners'[u]) = (u \in loggedIn)
              /\ \A h \in Handles : (<<"user", h>> \in userOwners'[u]) =
                   (handle[h].user = u /\ handle[h].state \in {"held", "dropped"})
              /\ \A n \in Calls : (<<"realm", n>> \in userOwners'[u]) =
                   (realm'[n].user = u /\ realm'[n].state \in {"open", "dropped"})
              /\ \A n \in Calls : (<<"sync", n>> \in userOwners'[u]) => n \in empty
  <2> DEFINE s == <<"sync", op.n>>
             r == <<"realm", op.n>>
  <2>1. /\ \A x : x # s /\ x # r => (x \in userOwners'[u]) = (x \in userOwners[u])
        /\ s \in userOwners'[u] => u # SyncUser /\ s \in userOwners[u]
        /\ (r \in userOwners'[u]) = (u = SyncUser \/ r \in userOwners[u])
    <3>1. s # r
      OBVIOUS
    <3> HIDE DEF s, r
    <3>2. userOwners'[u] = IF u = SyncUser THEN (userOwners[u] \ {s}) \cup {r} ELSE userOwners[u]
      BY <1>8 DEF s, r
    <3> HIDE DEF IndInv
    <3> QED BY <3>1, <3>2
  <2>2. Core # s /\ Core # r
    BY DEF Core
  <2>3. \A n : <<"user", n>> # s /\ <<"user", n>> # r /\ <<"realm", n>> # s /\ <<"sync", n>> # r
    OBVIOUS
  <2>4. \A n : n # op.n => <<"realm", n>> # r /\ <<"sync", n>> # s
    OBVIOUS
  <2> HIDE DEF s, r
  <2>5. (Core \in userOwners'[u]) = (u \in loggedIn)
    BY <2>1, <2>2 DEF UserOwned
  <2>6. \A h \in Handles : (<<"user", h>> \in userOwners'[u]) =
          (handle[h].user = u /\ handle[h].state \in {"held", "dropped"})
    BY <2>1, <2>3 DEF UserOwned
  <2>7. \A n \in Calls : (<<"realm", n>> \in userOwners'[u]) =
          (realm'[n].user = u /\ realm'[n].state \in {"open", "dropped"})
    <3> SUFFICES ASSUME NEW n \in Calls
                 PROVE  (<<"realm", n>> \in userOwners'[u]) =
                          (realm'[n].user = u /\ realm'[n].state \in {"open", "dropped"})
      OBVIOUS
    <3>1. CASE n # op.n
      BY <3>1, <2>1, <2>3, <2>4, <1>16 DEF UserOwned
    <3>2. CASE n = op.n
      <4>1. r \notin userOwners[u]
        BY <1>2, <1>16 DEF UserOwned, r
      <4> QED BY <3>2, <4>1, <2>1, <1>16 DEF r
    <3> QED BY <3>1, <3>2
  <2>8. \A n \in Calls : (<<"sync", n>> \in userOwners'[u]) => n \in empty
    <3> SUFFICES ASSUME NEW n \in Calls, <<"sync", n>> \in userOwners'[u] PROVE n \in empty
      OBVIOUS
    <3>1. CASE n # op.n
      BY <3>1, <2>1, <2>3, <2>4 DEF UserOwned, Underway
    <3>2. CASE n = op.n
      <4>1. s \in userOwners'[u]
        BY <3>2 DEF s
      <4>2. u # SyncUser /\ s \in userOwners[u]
        BY <4>1, <2>1
      <4> QED BY <3>2, <4>2 DEF UserOwned, s
    <3> QED BY <3>1, <3>2
  <2> QED BY <2>5, <2>6, <2>7, <2>8
<1>20. UserOwned'
  <2>1. loggedIn' = loggedIn /\ handle' = handle /\ empty' = empty
    BY <1>1
  <2>2. ~Underway(op.n, {"scheduler", "open"})'
    BY <1>18 DEF Underway
  <2> HIDE DEF IndInv
  <2>3. \A u \in Users :
          /\ (Core \in userOwners'[u]) = (u \in loggedIn')
          /\ \A h \in Handles : (<<"user", h>> \in userOwners'[u]) =
               (handle'[h].user = u /\ handle'[h].state \in {"held", "dropped"})
          /\ \A n \in Calls : (<<"realm", n>> \in userOwners'[u]) =
               (realm'[n].user = u /\ realm'[n].state \in {"open", "dropped"})
          /\ \A n \in Calls : (<<"sync", n>> \in userOwners'[u]) => n \in empty'
    BY <2>1, <1>19
  <2> QED BY <2>2, <2>3 DEF UserOwned, Core
<1> QED BY <1>13, <1>14, <1>15, <1>17, <1>20

\* Realm.open returns.
LEMMA ReturnKeeps ==
  ASSUME IndInv, Return
  PROVE  IndInv'
<1> USE DEF IndInv
<1>1. /\ op # Idle /\ op.pc = "return" /\ op' = Idle
      /\ sched' = [sched EXCEPT ![op.n] = "null"]
      /\ schedOwners' = [schedOwners EXCEPT ![op.n] = @ \ {"userdata"}]
      /\ UNCHANGED <<next, realm, handle, userOwners, loggedIn, current, empty>>
  BY DEF Return, Disown, users, Idle
<1>2. op.n \in Calls /\ op.n < next
  BY <1>1, Running DEF Ops, CallInv
<1>3. ShapeInv'
  BY <1>1, <1>2 DEF ShapeInv
<1>4. CallInv' /\ FreshInv'
  BY <1>1, <1>2 DEF CallInv, FreshInv, ShapeInv, Calls
<1>5. SchedOwned'
  BY <1>1, <1>2 DEF SchedOwned, ShapeInv, Underway
<1>6. UserOwned'
  BY <1>1 DEF UserOwned, Underway
<1> QED BY <1>3, <1>4, <1>5, <1>6

-----------------------------------------------------------------------------
(* The collector, and realms                                               *)

\* A scheduler's userdata is collected.
LEMMA CollectSchedulerKeeps ==
  ASSUME IndInv, NEW n \in Calls, CollectScheduler(n)
  PROVE  IndInv'
<1> USE DEF IndInv
<1>1. /\ sched[n] = "garbage"
      /\ sched' = [sched EXCEPT ![n] = "null"]
      /\ schedOwners' = [schedOwners EXCEPT ![n] = @ \ {"userdata"}]
      /\ UNCHANGED <<op, next, realm, handle, userOwners, loggedIn, current, empty>>
  BY DEF CollectScheduler, users
<1>2. ShapeInv'
  BY <1>1 DEF ShapeInv
<1>3. op # Idle => op.n \in Calls /\ op.n # n
  BY <1>1, Running DEF Ops, CallInv
<1>4. CallInv'
  BY <1>1, <1>3 DEF CallInv, ShapeInv, Classes
<1>5. FreshInv'
  BY <1>1 DEF FreshInv, ShapeInv
<1>6. SchedOwned'
  BY <1>1 DEF SchedOwned, ShapeInv, Underway
<1>7. UserOwned'
  BY <1>1 DEF UserOwned, Underway, SyncUser
<1> QED BY <1>2, <1>4, <1>5, <1>6, <1>7

\* A realm that the program forgets is still an owner.
LEMMA DropRealmKeeps ==
  ASSUME IndInv, NEW n \in Calls, DropRealm(n)
  PROVE  IndInv'
<1> USE DEF IndInv
<1>1. /\ op = Idle /\ realm[n].state = "open"
      /\ realm' = [realm EXCEPT ![n].state = "dropped"]
      /\ UNCHANGED <<op, next, sched, schedOwners, handle, userOwners, loggedIn, current, empty>>
  BY DEF DropRealm, users
<1>2. /\ \A m \in Calls : realm'[m].user = realm[m].user
      /\ \A m \in Calls : m # n => realm'[m].state = realm[m].state
      /\ realm'[n].state = "dropped"
  BY <1>1 DEF ShapeInv, RealmStates
<1>3. ShapeInv'
  BY <1>1 DEF ShapeInv, RealmStates
<1>4. CallInv' /\ FreshInv'
  BY <1>1, <1>2 DEF CallInv, FreshInv
<1>5. SchedOwned'
  BY <1>1, <1>2 DEF SchedOwned, Underway
<1>6. UserOwned'
  BY <1>1, <1>2 DEF UserOwned, Underway, Idle
<1> QED BY <1>3, <1>4, <1>5, <1>6

\* A realm is closed, perhaps by the collector and in the middle of a call.
LEMMA CloseKeeps ==
  ASSUME IndInv, NEW n \in Calls, Close(n)
  PROVE  IndInv'
<1> USE DEF IndInv
<1>1. /\ realm[n].state \in {"open", "dropped"}
      /\ op # Idle => realm[n].state = "dropped"
      /\ realm' = [realm EXCEPT ![n].state = "closed"]
      /\ schedOwners' = [schedOwners EXCEPT ![n] = @ \ {"realm"}]
      /\ userOwners' = [u \in Users |-> userOwners[u] \ {<<"realm", n>>}]
      /\ UNCHANGED <<op, next, sched, handle, loggedIn, current, empty>>
  BY DEF Close
<1>2. /\ \A m \in Calls : realm'[m].user = realm[m].user
      /\ \A m \in Calls : m # n => realm'[m].state = realm[m].state
      /\ realm'[n].state = "closed"
  BY <1>1 DEF ShapeInv, RealmStates
<1>3. ShapeInv'
  BY <1>1 DEF ShapeInv, RealmStates
<1>4. op # Idle /\ op.pc # "return" => op.n \in Calls /\ op.n # n
  BY <1>1, Running DEF Ops, CallInv
<1>5. CallInv'
  BY <1>1, <1>2, <1>4 DEF CallInv, Classes
<1>6. FreshInv'
  BY <1>1, <1>2 DEF FreshInv
<1>7. SchedOwned'
  BY <1>1, <1>2 DEF SchedOwned, ShapeInv, Underway
<1>8. UserOwned'
  <2>1. \A u \in Users : userOwners'[u] = userOwners[u] \ {<<"realm", n>>}
    BY <1>1
  <2> QED BY <1>1, <1>2, <2>1 DEF UserOwned, Underway, SyncUser, Core
<1> QED BY <1>3, <1>5, <1>6, <1>7, <1>8
-----------------------------------------------------------------------------
(* The invariant and its consequences                                      *)

LEMMA StutterKeeps == IndInv /\ UNCHANGED vars => IndInv'
<1> SUFFICES ASSUME IndInv, UNCHANGED vars PROVE IndInv'
  OBVIOUS
<1> USE DEF IndInv, vars, users
<1>1. ShapeInv' /\ CallInv' /\ FreshInv'
  BY DEF ShapeInv, CallInv, FreshInv, Classes
<1>2. SchedOwned' /\ UserOwned'
  BY DEF SchedOwned, UserOwned, Underway, SyncUser
<1> QED BY <1>1, <1>2

LEMMA NextKeeps == IndInv /\ [Next]_vars => IndInv'
<1> SUFFICES ASSUME IndInv, [Next]_vars PROVE IndInv'
  OBVIOUS
<1>1. ASSUME NEW u \in Users, LogIn(u) PROVE IndInv'
  BY <1>1, LogInKeeps
<1>2. CASE CurrentUser
  BY <1>2, CurrentUserKeeps
<1>3. ASSUME NEW h \in Handles, LogOut(h) \/ DropUser(h) \/ CollectUser(h) PROVE IndInv'
  BY <1>3, LogOutKeeps, DropUserKeeps, CollectUserKeeps
<1>4. ASSUME NEW k \in DOMAIN Schema, NEW y \in Syncs, Open(k, y) PROVE IndInv'
  BY <1>4, OpenKeeps
<1>5. CASE OpenStep
  <2>1. CASE ParseSchema
    BY <2>1, ParseSchemaKeeps
  <2>2. CASE ParseRaises \/ ReadSyncRaises
    BY <2>2, EarlyRaises
  <2>3. CASE ReadSync
    BY <2>3, ReadSyncKeeps
  <2>4. CASE SetScheduler
    BY <2>4, SetSchedulerKeeps
  <2>5. CASE SetSchedulerRaises
    BY <2>5, SetSchedulerRaisesKeeps
  <2>6. CASE OpenRealm
    BY <2>6, OpenRealmKeeps
  <2>7. CASE OpenFails
    BY <2>7, OpenFailsKeeps
  <2>8. CASE Return
    BY <2>8, ReturnKeeps
  <2> QED BY <1>5, <2>1, <2>2, <2>3, <2>4, <2>5, <2>6, <2>7, <2>8 DEF OpenStep
<1>6. ASSUME NEW n \in Calls, CollectScheduler(n) \/ DropRealm(n) \/ Close(n) PROVE IndInv'
  BY <1>6, CollectSchedulerKeeps, DropRealmKeeps, CloseKeeps
<1>7. CASE Finished \/ UNCHANGED vars
  BY <1>7, StutterKeeps DEF Finished
<1> QED BY <1>1, <1>2, <1>3, <1>4, <1>5, <1>6, <1>7 DEF Next

LEMMA Inductive == Spec => []IndInv
<1> QED BY InitIndInv, NextKeeps, PTL DEF Spec

\* The variables keep their types for any users, schemas and number of calls; a
\* user that somebody has is one that logged in, and a call of open keeps the
\* userdata of its user.
THEOREM TypeCorrect == Spec => []TypeOK
<1>1. IndInv => TypeOK
  <2> SUFFICES ASSUME IndInv PROVE TypeOK
    OBVIOUS
  <2>1. op # Idle => /\ op.n \in Calls /\ op.pc \in PCs /\ op.schema \in DOMAIN Schema
                     /\ op.sync \in Syncs
    BY Running DEF IndInv, Ops
  <2> QED BY <2>1 DEF IndInv, ShapeInv, CallInv, TypeOK, PCs, RealmStates, HandleStates
<1> QED BY <1>1, Inductive, PTL

\* A scheduler and a user have exactly the owners that the code counts: an error
\* of open, wherever it is raised, leaves none behind but the configuration of an
\* empty schema, and takes none too early.
THEOREM OwnersAreExact == Spec => []OwnersExact
<1>1. IndInv => OwnersExact
  <2> SUFFICES ASSUME IndInv PROVE OwnersExact
    OBVIOUS
  <2>1. ASSUME NEW n \in Calls
        PROVE  schedOwners[n] =
                 Owner("userdata", sched[n] \in {"local", "garbage"})
                   \cup Owner("config", Underway(n, {"open"}))
                   \cup Owner("realm", realm[n].state \in {"open", "dropped"})
    <3>1. schedOwners[n] \in SUBSET {"userdata", "config", "realm"}
      BY DEF IndInv, ShapeInv
    <3>2. /\ ("userdata" \in schedOwners[n]) = (sched[n] \in {"local", "garbage"})
          /\ ("config" \in schedOwners[n]) = Underway(n, {"open"})
          /\ ("realm" \in schedOwners[n]) = (realm[n].state \in {"open", "dropped"})
      BY DEF IndInv, SchedOwned
    <3>3. \A x, c : Owner(x, c) = IF c THEN {x} ELSE {}
      BY DEF Owner
    <3> QED BY <3>1, <3>2, <3>3
  <2> QED BY <2>1 DEF OwnersExact, IndInv, UserOwned
<1> QED BY <1>1, Inductive, PTL

\* The scheduler is in slot 2 when lib_realm_open looks there, for every schema of
\* at least one class, and up to MinStack - 5 classes fit on the stack.
THEOREM StackIsKept == Spec => []StackKept
<1>1. IndInv => StackKept
  <2> SUFFICES ASSUME IndInv, op # Idle
               PROVE  /\ op.pc = "scheduler" /\ Classes # <<>> => InSlot2
                      /\ Len(Classes) + 5 <= MinStack => op.peak <= 2 + MinStack
    BY DEF StackKept
  <2>1. op \in Ops
    BY Running DEF IndInv
  <2>2. Len(Classes) \in Nat /\ (Classes # <<>> => Len(Classes) >= 1)
    BY <2>1, SchemaTypes DEF Ops, Classes
  <2>3. op.pc = "scheduler" /\ Classes # <<>> => InSlot2
    BY <2>2 DEF IndInv, CallInv, InSlot2
  <2>4. Len(Classes) + 5 <= MinStack => op.peak <= 2 + MinStack
    BY <2>1, <2>2, OpenAssumption DEF IndInv, CallInv, Ops
  <2> QED BY <2>3, <2>4
<1> QED BY <1>1, Inductive, PTL

-----------------------------------------------------------------------------
(* How types are read                                                      *)

\* Strip, for suffixes of a given number.
LEMMA StripOfTwo ==
  ASSUME NEW a, NEW b
  PROVE  SubSeq(<<a, b>>, 1, 1) = <<a>>
<1> DEFINE s == <<a, b>>
           t == SubSeq(s, 1, 1)
<1>1. s[1] = a /\ \A i \in 1 .. 1 : s[i] \in {a}
  OBVIOUS
<1> HIDE DEF s
<1>2. t \in Seq({a}) /\ Len(t) = 1 /\ t[1] = s[1]
  BY <1>1, SubSeqProperties
<1> HIDE DEF t
<1>3. t = <<a>>
  BY <1>1, <1>2
<1> QED BY <1>3 DEF s, t

LEMMA StripSuffixes ==
  /\ \A x : Strip(<<>>, x) = <<>>
  /\ \A a, x : Strip(<<a>>, x) = IF a = x THEN <<>> ELSE <<a>>
  /\ \A a, b, x : Strip(<<a, b>>, x) = IF b = x THEN <<a>> ELSE <<a, b>>
<1>1. ASSUME NEW x PROVE Strip(<<>>, x) = <<>>
  BY DEF Strip
<1>2. ASSUME NEW a, NEW x PROVE Strip(<<a>>, x) = IF a = x THEN <<>> ELSE <<a>>
  <2>1. <<a>> # <<>> /\ Len(<<a>>) = 1 /\ <<a>>[1] = a
    OBVIOUS
  <2>2. SubSeq(<<a>>, 1, 1 - 1) = <<>>
    OBVIOUS
  <2> QED BY <2>1, <2>2, Zenon DEF Strip
<1>3. ASSUME NEW a, NEW b, NEW x PROVE Strip(<<a, b>>, x) = IF b = x THEN <<a>> ELSE <<a, b>>
  <2>1. <<a, b>> # <<>> /\ Len(<<a, b>>) = 2 /\ <<a, b>>[2] = b /\ 2 - 1 = 1
    OBVIOUS
  <2> QED BY <2>1, StripOfTwo, Zenon DEF Strip
<1> QED BY <1>1, <1>2, <1>3

LEMMA HasSuffix ==
  ASSUME NEW t, NEW x
  PROVE  /\ t.suffixes = <<>> => ~Has(t, x)
         /\ \A a : t.suffixes = <<a>> => (Has(t, x) <=> x = a)
         /\ \A a, b : t.suffixes = <<a, b>> => (Has(t, x) <=> x = a \/ x = b)
<1>1. t.suffixes = <<>> => ~Has(t, x)
  BY DEF Has
<1>2. ASSUME NEW a, t.suffixes = <<a>> PROVE Has(t, x) <=> x = a
  <2>1. PICK s : s = t.suffixes
    OBVIOUS
  <2>2. DOMAIN s = {1} /\ s[1] = a
    BY <1>2, <2>1
  <2> QED BY <2>1, <2>2, Zenon DEF Has
<1>3. ASSUME NEW a, NEW b, t.suffixes = <<a, b>> PROVE Has(t, x) <=> (x = a \/ x = b)
  <2>1. PICK s : s = t.suffixes
    OBVIOUS
  <2>2. DOMAIN s = {1, 2} /\ s[1] = a /\ s[2] = b
    BY <1>3, <2>1
  <2> QED BY <2>1, <2>2, Zenon DEF Has
<1> QED BY <1>1, <1>2, <1>3

\* A documented type names one collection at most.
LEMMA OneCollection ==
  ASSUME NEW t, t.suffixes \in Written, NEW x \in Collections, NEW y \in Collections, x # y
  PROVE  ~(Has(t, x) /\ Has(t, y))
<1>1. x # "?" /\ y # "?"
  BY DEF Collections
<1>2. CASE t.suffixes = <<>>
  BY <1>2, HasSuffix
<1>3. ASSUME NEW a, t.suffixes = <<a>> PROVE ~(Has(t, x) /\ Has(t, y))
  BY <1>3, HasSuffix
<1>4. ASSUME NEW a, NEW b, t.suffixes = <<a, b>>, a = "?" \/ b = "?" PROVE ~(Has(t, x) /\ Has(t, y))
  <2>1. (Has(t, x) <=> x = a \/ x = b) /\ (Has(t, y) <=> y = a \/ y = b)
    BY <1>4, HasSuffix
  <2> QED BY <1>1, <1>4, <2>1
<1> QED BY <1>2, <1>3, <1>4 DEF Written

\* What _parse_property_type is left with after each suffix.
AfterList(t) == Strip(t.suffixes, "[]")
AfterSet(t)  == Strip(AfterList(t), "<>")
AfterNull(t) == Strip(AfterSet(t), "?")
Rest(t)      == Strip(AfterNull(t), "{}")

LEMMA Stages ==
  ASSUME NEW t, t.base # NoBase
  PROVE  /\ ParsePropertyType(t).collection = IF Rest(t) # AfterNull(t) THEN "dictionary"
                                               ELSE IF AfterSet(t) # AfterList(t) THEN "set"
                                               ELSE IF AfterList(t) # t.suffixes THEN "list" ELSE "none"
         /\ ParsePropertyType(t).nullable = (AfterNull(t) # AfterSet(t))
         /\ ParsePropertyType(t).type =
              IF Rest(t) = <<>> /\ t.base \in Primitives THEN t.base ELSE "object"
         /\ ParsePropertyType(t).target =
              IF Rest(t) = <<>> /\ t.base \in Primitives THEN None ELSE <<t.base, Rest(t)>>
BY DEF ParsePropertyType, AfterList, AfterSet, AfterNull, Rest

\* When nothing is left of the suffixes: what is read is what is meant.
LEMMA AllRead ==
  ASSUME NEW t, NEW list, NEW set, NEW null, NEW collection,
         Strip(t.suffixes, "[]") = list, Strip(list, "<>") = set,
         Strip(set, "?") = null, Strip(null, "{}") = <<>>, t.base # NoBase,
         collection = IF null # <<>> THEN "dictionary" ELSE IF set # list THEN "set"
                      ELSE IF list # t.suffixes THEN "list" ELSE "none",
         Has(t, "[]") <=> (collection = "list"), Has(t, "<>") <=> (collection = "set"),
         Has(t, "{}") <=> (collection = "dictionary"), Has(t, "?") <=> null # set
  PROVE  /\ ParsePropertyType(t).collection = Meaning(t).collection
         /\ ParsePropertyType(t).nullable = Meaning(t).nullable
         /\ ParsePropertyType(t).type = Meaning(t).type
         /\ ParsePropertyType(t).target = Meaning(t).target
<1>1. /\ Meaning(t).collection = collection
      /\ Meaning(t).type = IF t.base \in Primitives THEN t.base ELSE "object"
      /\ Meaning(t).target = IF t.base \in Primitives THEN None ELSE <<t.base, <<>>>>
  BY DEF Meaning
<1>2. Meaning(t).nullable = (null # set)
  BY DEF Meaning, Has
<1>3. /\ ParsePropertyType(t).collection = collection
      /\ ParsePropertyType(t).nullable = (null # set)
      /\ ParsePropertyType(t).type = IF t.base \in Primitives THEN t.base ELSE "object"
      /\ ParsePropertyType(t).target = IF t.base \in Primitives THEN None ELSE <<t.base, <<>>>>
  <2>1. AfterList(t) = list /\ AfterSet(t) = set /\ AfterNull(t) = null /\ Rest(t) = <<>>
    BY DEF AfterList, AfterSet, AfterNull, Rest
  <2> QED BY <2>1, Stages
<1> QED BY <1>1, <1>2, <1>3

\* A type written as documented is read as it is meant, but for "T?{}".
LEMMA ReadAsMeant ==
  ASSUME NEW t, t.base # NoBase, t.suffixes \in Written \ {<<"?", "{}">>}
  PROVE  /\ ParsePropertyType(t).collection = Meaning(t).collection
         /\ ParsePropertyType(t).nullable = Meaning(t).nullable
         /\ ParsePropertyType(t).type = Meaning(t).type
         /\ ParsePropertyType(t).target = Meaning(t).target
<1>1. \/ t.suffixes = <<>> \/ t.suffixes = <<"?">> \/ t.suffixes = <<"{}", "?">>
      \/ t.suffixes = <<"[]">> \/ t.suffixes = <<"<>">> \/ t.suffixes = <<"{}">>
      \/ t.suffixes = <<"?", "[]">> \/ t.suffixes = <<"?", "<>">>
  BY DEF Written, Collections
<1>2. \A a : <<a>> # <<>> /\ \A b : <<a, b>> # <<a>>
  OBVIOUS
<1>3. \A a : <<>> # <<a>>
  OBVIOUS
<1>4. CASE t.suffixes = <<>>
  <2>1. /\ Strip(<<>>, "[]") = <<>> /\ Strip(<<>>, "<>") = <<>>
        /\ Strip(<<>>, "?") = <<>> /\ Strip(<<>>, "{}") = <<>>
    BY StripSuffixes, Zenon
  <2>2. ~Has(t, "[]") /\ ~Has(t, "<>") /\ ~Has(t, "{}") /\ ~Has(t, "?")
    BY <1>4, HasSuffix, Zenon
  <2>3. "none" = IF <<>> # <<>> THEN "dictionary" ELSE IF <<>> # <<>> THEN "set"
                 ELSE IF <<>> # <<>> THEN "list" ELSE "none"
    BY <1>2, <1>3, Zenon
  <2>4. <<>> = <<>>
    BY <1>2, <1>3, Zenon
  <2> QED BY <1>4, <2>1, <2>2, <2>3, <2>4, AllRead
<1>5. CASE t.suffixes = <<"?">>
  <2>1. /\ Strip(<<"?">>, "[]") = <<"?">> /\ Strip(<<"?">>, "<>") = <<"?">>
        /\ Strip(<<"?">>, "?") = <<>> /\ Strip(<<>>, "{}") = <<>>
    BY StripSuffixes, Zenon
  <2>2. ~Has(t, "[]") /\ ~Has(t, "<>") /\ ~Has(t, "{}") /\ Has(t, "?")
    BY <1>5, HasSuffix, Zenon
  <2>3. "none" = IF <<>> # <<>> THEN "dictionary" ELSE IF <<"?">> # <<"?">> THEN "set"
                 ELSE IF <<"?">> # <<"?">> THEN "list" ELSE "none"
    BY <1>2, <1>3, Zenon
  <2>4. <<>> # <<"?">>
    BY <1>2, <1>3, Zenon
  <2> QED BY <1>5, <2>1, <2>2, <2>3, <2>4, AllRead
<1>6. CASE t.suffixes = <<"{}", "?">>
  <2>1. /\ Strip(<<"{}", "?">>, "[]") = <<"{}", "?">> /\ Strip(<<"{}", "?">>, "<>") = <<"{}", "?">>
        /\ Strip(<<"{}", "?">>, "?") = <<"{}">> /\ Strip(<<"{}">>, "{}") = <<>>
    BY StripSuffixes, Zenon
  <2>2. ~Has(t, "[]") /\ ~Has(t, "<>") /\ Has(t, "{}") /\ Has(t, "?")
    <3>1. \A x : Has(t, x) <=> (x = "{}" \/ x = "?")
      BY <1>6, HasSuffix
    <3> QED BY <3>1, Zenon
  <2>3. "dictionary" = IF <<"{}">> # <<>> THEN "dictionary" ELSE IF <<"{}", "?">> # <<"{}", "?">> THEN "set"
                 ELSE IF <<"{}", "?">> # <<"{}", "?">> THEN "list" ELSE "none"
    BY <1>2, <1>3, Zenon
  <2>4. <<"{}">> # <<"{}", "?">>
    BY <1>2, <1>3, Zenon
  <2> QED BY <1>6, <2>1, <2>2, <2>3, <2>4, AllRead
<1>7. CASE t.suffixes = <<"[]">>
  <2>1. /\ Strip(<<"[]">>, "[]") = <<>> /\ Strip(<<>>, "<>") = <<>>
        /\ Strip(<<>>, "?") = <<>> /\ Strip(<<>>, "{}") = <<>>
    BY StripSuffixes, Zenon
  <2>2. Has(t, "[]") /\ ~Has(t, "<>") /\ ~Has(t, "{}") /\ ~Has(t, "?")
    BY <1>7, HasSuffix, Zenon
  <2>3. "list" = IF <<>> # <<>> THEN "dictionary" ELSE IF <<>> # <<>> THEN "set"
                 ELSE IF <<>> # <<"[]">> THEN "list" ELSE "none"
    BY <1>2, <1>3, Zenon
  <2>4. <<>> = <<>>
    BY <1>2, <1>3, Zenon
  <2> QED BY <1>7, <2>1, <2>2, <2>3, <2>4, AllRead
<1>8. CASE t.suffixes = <<"<>">>
  <2>1. /\ Strip(<<"<>">>, "[]") = <<"<>">> /\ Strip(<<"<>">>, "<>") = <<>>
        /\ Strip(<<>>, "?") = <<>> /\ Strip(<<>>, "{}") = <<>>
    BY StripSuffixes, Zenon
  <2>2. ~Has(t, "[]") /\ Has(t, "<>") /\ ~Has(t, "{}") /\ ~Has(t, "?")
    BY <1>8, HasSuffix, Zenon
  <2>3. "set" = IF <<>> # <<>> THEN "dictionary" ELSE IF <<>> # <<"<>">> THEN "set"
                 ELSE IF <<"<>">> # <<"<>">> THEN "list" ELSE "none"
    BY <1>2, <1>3, Zenon
  <2>4. <<>> = <<>>
    BY <1>2, <1>3, Zenon
  <2> QED BY <1>8, <2>1, <2>2, <2>3, <2>4, AllRead
<1>9. CASE t.suffixes = <<"{}">>
  <2>1. /\ Strip(<<"{}">>, "[]") = <<"{}">> /\ Strip(<<"{}">>, "<>") = <<"{}">>
        /\ Strip(<<"{}">>, "?") = <<"{}">> /\ Strip(<<"{}">>, "{}") = <<>>
    BY StripSuffixes, Zenon
  <2>2. ~Has(t, "[]") /\ ~Has(t, "<>") /\ Has(t, "{}") /\ ~Has(t, "?")
    BY <1>9, HasSuffix, Zenon
  <2>3. "dictionary" = IF <<"{}">> # <<>> THEN "dictionary" ELSE IF <<"{}">> # <<"{}">> THEN "set"
                 ELSE IF <<"{}">> # <<"{}">> THEN "list" ELSE "none"
    BY <1>2, <1>3, Zenon
  <2>4. <<"{}">> = <<"{}">>
    BY <1>2, <1>3, Zenon
  <2> QED BY <1>9, <2>1, <2>2, <2>3, <2>4, AllRead
<1>10. CASE t.suffixes = <<"?", "[]">>
  <2>1. /\ Strip(<<"?", "[]">>, "[]") = <<"?">> /\ Strip(<<"?">>, "<>") = <<"?">>
        /\ Strip(<<"?">>, "?") = <<>> /\ Strip(<<>>, "{}") = <<>>
    BY StripSuffixes, Zenon
  <2>2. Has(t, "[]") /\ ~Has(t, "<>") /\ ~Has(t, "{}") /\ Has(t, "?")
    <3>1. \A x : Has(t, x) <=> (x = "?" \/ x = "[]")
      BY <1>10, HasSuffix
    <3> QED BY <3>1, Zenon
  <2>3. "list" = IF <<>> # <<>> THEN "dictionary" ELSE IF <<"?">> # <<"?">> THEN "set"
                 ELSE IF <<"?">> # <<"?", "[]">> THEN "list" ELSE "none"
    BY <1>2, <1>3, Zenon
  <2>4. <<>> # <<"?">>
    BY <1>2, <1>3, Zenon
  <2> QED BY <1>10, <2>1, <2>2, <2>3, <2>4, AllRead
<1>11. CASE t.suffixes = <<"?", "<>">>
  <2>1. /\ Strip(<<"?", "<>">>, "[]") = <<"?", "<>">> /\ Strip(<<"?", "<>">>, "<>") = <<"?">>
        /\ Strip(<<"?">>, "?") = <<>> /\ Strip(<<>>, "{}") = <<>>
    BY StripSuffixes, Zenon
  <2>2. ~Has(t, "[]") /\ Has(t, "<>") /\ ~Has(t, "{}") /\ Has(t, "?")
    <3>1. \A x : Has(t, x) <=> (x = "?" \/ x = "<>")
      BY <1>11, HasSuffix
    <3> QED BY <3>1, Zenon
  <2>3. "set" = IF <<>> # <<>> THEN "dictionary" ELSE IF <<"?">> # <<"?", "<>">> THEN "set"
                 ELSE IF <<"?", "<>">> # <<"?", "<>">> THEN "list" ELSE "none"
    BY <1>2, <1>3, Zenon
  <2>4. <<>> # <<"?">>
    BY <1>2, <1>3, Zenon
  <2> QED BY <1>11, <2>1, <2>2, <2>3, <2>4, AllRead
<1> QED BY <1>1, <1>4, <1>5, <1>6, <1>7, <1>8, <1>9, <1>10, <1>11

\* "T?{}" is read as a link to a class named "T?".
LEMMA NullableValuesAreLinks ==
  ASSUME NEW t, t.base # NoBase, t.suffixes = <<"?", "{}">>
  PROVE  ParsePropertyType(t).type = "object" /\ ParsePropertyType(t).target = <<t.base, <<"?">>>>
<1>1. Rest(t) = <<"?">>
  <2>1. /\ Strip(<<"?", "{}">>, "[]") = <<"?", "{}">> /\ Strip(<<"?", "{}">>, "<>") = <<"?", "{}">>
        /\ Strip(<<"?", "{}">>, "?") = <<"?", "{}">> /\ Strip(<<"?", "{}">>, "{}") = <<"?">>
    BY StripSuffixes, Zenon
  <2> QED BY <2>1 DEF AfterList, AfterSet, AfterNull, Rest
<1>2. <<"?">> # <<>>
  OBVIOUS
<1> QED BY <1>1, <1>2, Stages

-----------------------------------------------------------------------------
(* Schemas                                                                 *)

\* What core is given of a class.
LEMMA ParsedClass ==
  ASSUME NEW k \in DOMAIN Schema, NEW i \in DOMAIN Schema[k]
  PROVE  LET c == Schema[k][i]
             d == ParsedSchema[k][i]
         IN  /\ d.primaryKey = c.primaryKey
             /\ DOMAIN d.properties = DOMAIN c.properties
             /\ \A p \in DOMAIN c.properties : d.properties[p] = ParsePropertyType(c.properties[p])
<1>1. ParsedSchema[k][i] = ParseClass(Schema[k][i])
  BY DEF ParsedSchema
<1> QED BY <1>1 DEF ParseClass

\* Core takes a documented type as it is read, or the code gets it refused.
LEMMA ValidUnlessRefused ==
  ASSUME NEW t, NEW N, t.base \in (Primitives \cup N) \ {NoBase}, t.suffixes \in Written
  PROVE  Valid(ParsePropertyType(t), N) <=> ~RefusedThough(t)
<1>1. CASE t.suffixes = <<"?", "{}">>
  <2>1. ParsePropertyType(t).type = "object" /\ ParsePropertyType(t).target = <<t.base, <<"?">>>>
    BY <1>1, NullableValuesAreLinks
  <2>2. <<t.base, <<"?">>>> \notin {<<m, <<>>>> : m \in N}
    <3>1. <<"?">> # <<>>
      OBVIOUS
    <3> QED BY <3>1
  <2> QED BY <1>1, <2>1, <2>2 DEF Valid, RefusedThough
<1>2. CASE t.suffixes # <<"?", "{}">>
  <2>1. Valid(ParsePropertyType(t), N) <=> Valid(Meaning(t), N)
    BY <1>2, ReadAsMeant DEF Valid
  <2>2. CASE t.base \in Primitives
    <3>1. Meaning(t).type # "object"
      BY <2>2, TypesAssumption DEF Meaning
    <3> QED BY <1>2, <2>1, <2>2, <3>1 DEF Valid, RefusedThough
  <2>3. CASE t.base \notin Primitives
    <3>1. Meaning(t).type = "object" /\ Meaning(t).target \in {<<m, <<>>>> : m \in N}
      BY <2>3 DEF Meaning
    <3>2. Meaning(t).nullable = Has(t, "?") /\ Has(t, "?") \in BOOLEAN
      BY DEF Meaning, Has
    <3>3. (Meaning(t).collection \in {"none", "dictionary"}) <=> ~(Has(t, "[]") \/ Has(t, "<>"))
      <4>1. CASE Has(t, "[]")
        <5>1. ~Has(t, "<>") /\ ~Has(t, "{}")
          BY <4>1, OneCollection DEF Collections
        <5> QED BY <4>1, <5>1 DEF Meaning
      <4>2. CASE ~Has(t, "[]") /\ Has(t, "<>")
        <5>1. ~Has(t, "{}")
          BY <4>2, OneCollection DEF Collections
        <5> QED BY <4>2, <5>1 DEF Meaning
      <4>3. CASE ~Has(t, "[]") /\ ~Has(t, "<>")
        BY <4>3 DEF Meaning
      <4> QED BY <4>1, <4>2, <4>3
    <3>4. Valid(Meaning(t), N) <=> (Has(t, "?") <=> ~(Has(t, "[]") \/ Has(t, "<>")))
      <4>1. PICK m : m = Meaning(t)
        OBVIOUS
      <4>2. Valid(m, N) <=> (m.nullable = (m.collection \in {"none", "dictionary"}))
        BY <3>1, <4>1 DEF Valid
      <4>3. m.nullable \in BOOLEAN
        BY <3>2, <4>1
      <4> QED BY <3>2, <3>3, <4>1, <4>2, <4>3
    <3> QED BY <1>2, <2>1, <2>3, <3>4 DEF RefusedThough, Has
  <2> QED BY <2>2, <2>3
<1> QED BY <1>1, <1>2

\* A schema written as README.md describes it, with whatever classes, names,
\* primary keys and properties, is read without an error, and what is read passes
\* core's rules for primary keys and links if and only if no property has one of
\* the documented types that the code gets refused (RefusedThough): a bare "Task",
\* "Task{}", "Task?[]", "Task?<>", or "?" before "{}".
THEOREM DocumentedAccepted == Spec => []DocumentedIsAccepted
<1>1. ASSUME NEW k \in DOMAIN Schema, NEW i \in DOMAIN Schema[k], Documented(Schema[k][i], Names[k])
      PROVE  Readable(Schema[k][i])
  BY <1>1, TypesAssumption DEF Documented, Readable
<1>2. ASSUME NEW k \in DOMAIN Schema, \A i \in DOMAIN Schema[k] : Documented(Schema[k][i], Names[k])
      PROVE  Accepted[k] <=> \A i \in DOMAIN Schema[k] : \A p \in DOMAIN Schema[k][i].properties :
                               ~RefusedThough(Schema[k][i].properties[p])
  <2>1. ASSUME NEW i \in DOMAIN Schema[k]
        PROVE  LET d == ParsedSchema[k][i]
               IN  (/\ d.primaryKey \in DOMAIN d.properties \cup {None}
                    /\ \A p \in DOMAIN d.properties : Valid(d.properties[p], Names[k]))
                   <=> \A p \in DOMAIN Schema[k][i].properties :
                         ~RefusedThough(Schema[k][i].properties[p])
    <3> DEFINE c == Schema[k][i]
               d == ParsedSchema[k][i]
    <3>1. Documented(c, Names[k])
      BY <1>2
    <3>2. /\ d.primaryKey = c.primaryKey /\ DOMAIN d.properties = DOMAIN c.properties
          /\ \A p \in DOMAIN c.properties : d.properties[p] = ParsePropertyType(c.properties[p])
      BY ParsedClass
    <3> HIDE DEF c, d
    <3>3. \A p \in DOMAIN c.properties :
            Valid(ParsePropertyType(c.properties[p]), Names[k]) <=> ~RefusedThough(c.properties[p])
      BY <3>1, ValidUnlessRefused DEF Documented
    <3>4. (/\ d.primaryKey \in DOMAIN d.properties \cup {None}
           /\ \A p \in DOMAIN d.properties : Valid(d.properties[p], Names[k]))
          <=> \A p \in DOMAIN c.properties : ~RefusedThough(c.properties[p])
      BY <3>1, <3>2, <3>3 DEF Documented
    <3> QED BY <3>4 DEF c, d
  <2> QED BY <2>1 DEF Accepted
<1>3. IndInv => DocumentedIsAccepted
  <2> SUFFICES ASSUME IndInv, op # Idle,
                      \A i \in DOMAIN Classes : Documented(Classes[i], Names[op.schema])
               PROVE  /\ \A i \in DOMAIN Classes : Readable(Classes[i])
                      /\ Accepted[op.schema] <=>
                           \A i \in DOMAIN Classes : \A p \in DOMAIN Classes[i].properties :
                             ~RefusedThough(Classes[i].properties[p])
    BY DEF DocumentedIsAccepted
  <2>1. op.schema \in DOMAIN Schema
    BY Running DEF IndInv, Ops
  <2> QED BY <1>1, <1>2, <2>1 DEF Classes
<1> QED BY <1>3, Inductive, PTL

\* A realm is returned only for a schema that core took.
OpenedInv == op.pc = "return" => Accepted[op.schema]

LEMMA OpenedKept == IndInv /\ OpenedInv /\ [Next]_vars => OpenedInv'
<1> SUFFICES ASSUME IndInv, OpenedInv, [Next]_vars PROVE OpenedInv'
  OBVIOUS
<1>1. CASE op' = op
  BY <1>1 DEF OpenedInv
<1>2. ASSUME op'.pc # "return" PROVE OpenedInv'
  BY <1>2 DEF OpenedInv
<1>3. ASSUME op' = Idle PROVE OpenedInv'
  BY <1>2, <1>3 DEF Idle
<1>4. ASSUME NEW u \in Users, LogIn(u) PROVE op' = op
  BY <1>4 DEF LogIn, UserSteps
<1>5. CASE CurrentUser
  BY <1>1, <1>5 DEF CurrentUser, UserSteps
<1>6. ASSUME NEW h \in Handles, LogOut(h) \/ DropUser(h) \/ CollectUser(h) PROVE op' = op
  BY <1>6 DEF LogOut, DropUser, CollectUser, UserSteps
<1>7. ASSUME NEW k \in DOMAIN Schema, NEW y \in Syncs, Open(k, y) PROVE op'.pc # "return"
  BY <1>7 DEF Open
<1>8. ASSUME NEW n \in Calls, CollectScheduler(n) \/ DropRealm(n) \/ Close(n) PROVE op' = op
  BY <1>8 DEF CollectScheduler, DropRealm, Close
<1>9. CASE OpenStep
  <2>1. CASE ParseRaises \/ ReadSyncRaises \/ SetSchedulerRaises \/ OpenFails \/ Return
    <3>1. op' = Idle
      BY <2>1 DEF ParseRaises, ReadSyncRaises, SetSchedulerRaises, OpenFails, Return, Raise
    <3> QED BY <1>3, <3>1
  <2>2. CASE ParseSchema \/ ReadSync \/ SetScheduler
    <3>1. op # Idle
      BY <2>2 DEF ParseSchema, ReadSync, SetScheduler, Idle
    <3>2. op \in Ops
      BY <3>1, Running DEF IndInv
    <3>3. op'.pc \in {"sync", "scheduler", "open"}
      BY <2>2, <3>2 DEF ParseSchema, ReadSync, SetScheduler, OnTo, Ops
    <3> QED BY <1>2, <3>3
  <2>3. CASE OpenRealm
    <3>1. op # Idle /\ Accepted[op.schema]
      BY <2>3 DEF OpenRealm, Idle
    <3>2. op \in Ops
      BY <3>1, Running DEF IndInv
    <3>3. op'.schema = op.schema
      BY <2>3, <3>2 DEF OpenRealm, OnTo, Ops
    <3>4. Accepted' = Accepted
      BY DEF Accepted, Names, ParsedSchema, ParseClass
    <3> QED BY <3>1, <3>3, <3>4 DEF OpenedInv
  <2> QED BY <1>9, <2>1, <2>2, <2>3 DEF OpenStep
<1>10. CASE Finished \/ UNCHANGED vars
  BY <1>1, <1>10 DEF Finished, vars
<1> QED BY <1>1, <1>2, <1>4, <1>5, <1>6, <1>7, <1>8, <1>9, <1>10 DEF Next

\* What Lua is told of a property of an opened realm is what was declared, and a
\* link leads to a class of the schema.
LEMMA InfoOfProperty ==
  ASSUME NEW t, NEW N, Valid(ParsePropertyType(t), N)
  PROVE  LET info == PropertyInfo(ParsePropertyType(t))
         IN  /\ t.base # NoBase /\ t.suffixes \in Written
                  => /\ info.type = Meaning(t).type
                     /\ info.collectionType = Meaning(t).collection
                     /\ info.objectType = Meaning(t).target
                     /\ ParsePropertyType(t).nullable = Meaning(t).nullable
             /\ info.type = "object" => info.objectType \in {<<m, <<>>>> : m \in N}
<1>1. CASE t.base # NoBase /\ t.suffixes = <<"?", "{}">>
  <2>1. ParsePropertyType(t).target \in {<<m, <<>>>> : m \in N}
    BY <1>1, NullableValuesAreLinks DEF Valid
  <2>2. PICK m \in N : <<t.base, <<"?">>>> = <<m, <<>>>>
    BY <1>1, <2>1, NullableValuesAreLinks
  <2>3. <<"?">> # <<>>
    OBVIOUS
  <2> QED BY <2>2, <2>3
<1>2. CASE ~(t.base # NoBase /\ t.suffixes = <<"?", "{}">>)
  BY <1>2, ReadAsMeant DEF PropertyInfo, Valid
<1> QED BY <1>1, <1>2

\* The schema information of an opened realm says of every property what the
\* program declared: type, collection and class.  Nullability is not in it: what
\* was declared nullable is so in what core was given.
THEOREM InfoIsFaithful == Spec => []InfoFaithful
<1>1. IndInv /\ OpenedInv => InfoFaithful
  <2> SUFFICES ASSUME IndInv, OpenedInv, op.pc = "return", NEW i \in DOMAIN Classes
               PROVE  \A p \in DOMAIN Classes[i].properties :
                        LET text == Classes[i].properties[p]
                            read == Parsed[i].properties[p]
                            info == PropertyInfo(read)
                        IN  /\ text.base # NoBase /\ text.suffixes \in Written
                                 => /\ info.type = Meaning(text).type
                                    /\ info.collectionType = Meaning(text).collection
                                    /\ info.objectType = Meaning(text).target
                                    /\ read.nullable = Meaning(text).nullable
                            /\ info.type = "object" =>
                                 info.objectType \in {<<m, <<>>>> : m \in Names[op.schema]}
    BY DEF InfoFaithful
  <2>1. op # Idle
    BY DEF Idle
  <2>2. op.schema \in DOMAIN Schema /\ Accepted[op.schema]
    BY <2>1, Running DEF IndInv, Ops, OpenedInv
  <2>3. i \in DOMAIN Schema[op.schema]
    BY DEF Classes
  <2> DEFINE c == Schema[op.schema][i]
             d == ParsedSchema[op.schema][i]
  <2>4. /\ DOMAIN d.properties = DOMAIN c.properties
        /\ \A p \in DOMAIN c.properties : d.properties[p] = ParsePropertyType(c.properties[p])
    BY <2>2, <2>3, ParsedClass
  <2>5. \A p \in DOMAIN d.properties : Valid(d.properties[p], Names[op.schema])
    BY <2>2, <2>3 DEF Accepted
  <2>6. Classes[i] = c /\ Parsed[i] = d
    BY DEF Classes, Parsed
  <2> HIDE DEF c, d
  <2> QED BY <2>4, <2>5, <2>6, InfoOfProperty
<1>2. Init => OpenedInv
  BY DEF Init, OpenedInv, Idle
<1> QED BY <1>1, <1>2, OpenedKept, Inductive, PTL DEF Spec
=============================================================================
