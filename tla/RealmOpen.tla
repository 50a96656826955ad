------------------------------ MODULE RealmOpen ------------------------------
(***************************************************************************)
(* Realm.open, and the users that synced realms are opened with.           *)
(* lib_realm_open reads its configuration from the Lua stack and raises in *)
(* six places; native objects are shared, and go when nobody owns them: a  *)
(* Lua userdata, a configuration, a realm, or realm-core.  Call number n   *)
(* of open makes scheduler n, configuration n and, if it succeeds, realm n.*)
(* The collector runs between any two steps; other handles of a realm are  *)
(* the subject of RealmHandles.                                            *)
(***************************************************************************)
EXTENDS PropertyTypes, FiniteSets

CONSTANTS
  Users,
  Schema,       \* the schemas that the program gives to open, by number
  MinStack,     \* slots a C function may use beyond its arguments
  MaxOpens,     \* bound: calls of open
  MaxHandles    \* bound: userdata for users

Calls   == 1 .. MaxOpens
Handles == 1 .. MaxHandles

\* A class of a schema: `strings` if its properties are a table of strings to
\* strings, as _parse_schema wants it.
ASSUME OpenAssumption ==
  /\ None \notin Users
  /\ MinStack \in Nat /\ MaxOpens \in Nat /\ MaxHandles \in Nat
  /\ \A k \in DOMAIN Schema : Schema[k] \in Seq({Schema[k][i] : i \in DOMAIN Schema[k]})

\* config.sync: not there, without a partition value, without a user, or with the
\* user of a userdata.
Syncs == [kind : {"none", "noPartition", "noUser"}, handle : {0}]
           \cup [kind : {"user"}, handle : Handles]

VARIABLES
  op,           \* the call of open under way, or Idle
  next,         \* the number of the next call
  sched,        \* per call: the scheduler's userdata is "none", "local" (Realm.open
                \* refers to it), "garbage" or "null" (released)
  schedOwners,  \* per call: who owns its scheduler
  realm,        \* per call: [state, user]
  handle,       \* per userdata for a user: [state, user]
  userOwners,   \* per user: who owns it
  loggedIn,     \* the users that are logged in
  current,      \* the current user, or None
  empty         \* history: the calls whose schema had no class

\* Owners of a user: core while it is logged in, and <<kind, number>>.
Core == <<"core", 0>>

users == <<handle, userOwners, loggedIn, current>>
vars  == <<op, next, sched, schedOwners, realm, users, empty>>

Idle == [pc |-> "idle"]

Init == /\ op = Idle
        /\ next = 1
        /\ sched = [n \in Calls |-> "none"]
        /\ schedOwners = [n \in Calls |-> {}]
        /\ realm = [n \in Calls |-> [state |-> "none", user |-> None]]
        /\ handle = [h \in Handles |-> [state |-> "unused", user |-> None]]
        /\ userOwners = [u \in Users |-> {}]
        /\ loggedIn = {}
        /\ current = None
        /\ empty = {}

-----------------------------------------------------------------------------
(* Users                                                                   *)

UserSteps == UNCHANGED <<op, next, sched, schedOwners, realm, empty>>

\* Mutated: the callback is given core's own user, without realm_clone.
UserWithoutClone(u) ==
  \E h \in Handles :
    /\ handle[h].state = "unused"
    /\ handle' = [handle EXCEPT ![h] = [state |-> "held", user |-> u]]
    /\ userOwners' = [userOwners EXCEPT ![u] = @ \cup {Core}]

\* RealmUser._new around a userdata with an ownership of its own: a clone of
\* core's user, or what realm_app_get_current_user returns.
NewUser(u) ==
  \E h \in Handles :
    /\ handle[h].state = "unused"
    /\ handle' = [handle EXCEPT ![h] = [state |-> "held", user |-> u]]
    /\ userOwners' = [userOwners EXCEPT ![u] = @ \cup {Core, <<"user", h>>}]

\* on_log_in_complete
LogIn(u) == /\ op = Idle
            /\ NewUser(u)
            /\ loggedIn' = loggedIn \cup {u}
            /\ current' = u
            /\ UserSteps

\* app:currentUser(), when there is one
CurrentUser == /\ op = Idle
               /\ current # None
               /\ NewUser(current)
               /\ UNCHANGED <<loggedIn, current>>
               /\ UserSteps

\* Mutated: the current user stays.
LogOutOnly(h) ==
  /\ op = Idle
  /\ handle[h].state = "held" /\ handle[h].user \in loggedIn
  /\ loggedIn' = loggedIn \ {handle[h].user}
  /\ userOwners' = [userOwners EXCEPT ![handle[h].user] = @ \ {Core}]
  /\ UNCHANGED <<handle, current>>
  /\ UserSteps

\* user:logOut(): core forgets the user; another may become the current one.
LogOut(h) ==
  /\ op = Idle
  /\ handle[h].state = "held" /\ handle[h].user \in loggedIn
  /\ loggedIn' = loggedIn \ {handle[h].user}
  /\ userOwners' = [userOwners EXCEPT ![handle[h].user] = @ \ {Core}]
  /\ current' \in IF current \in loggedIn' THEN {current}
                  ELSE IF loggedIn' = {} THEN {None} ELSE loggedIn'
  /\ UNCHANGED handle
  /\ UserSteps

\* The program forgets a user; its userdata is collected.
DropUser(h) == /\ op = Idle
               /\ handle[h].state = "held"
               /\ handle' = [handle EXCEPT ![h].state = "dropped"]
               /\ UNCHANGED <<userOwners, loggedIn, current>>
               /\ UserSteps
CollectUser(h) ==
  /\ handle[h].state = "dropped"
  /\ handle' = [handle EXCEPT ![h].state = "released"]
  /\ userOwners' = [userOwners EXCEPT ![handle[h].user] = @ \ {<<"user", h>>}]
  /\ UNCHANGED <<loggedIn, current>>
  /\ UserSteps

-----------------------------------------------------------------------------
(* Realm.open                                                              *)

\* Owner x of the scheduler of the call under way, and of its user if it has
\* one, comes or goes.
Own(x)    == schedOwners' = [schedOwners EXCEPT ![op.n] = @ \cup {x}]
Disown(X) == schedOwners' = [schedOwners EXCEPT ![op.n] = @ \ X]
SyncUser  == IF op.sync.kind = "user" THEN handle[op.sync.handle].user ELSE None
OwnUser(X, Y) ==
  userOwners' = [u \in Users |-> IF u = SyncUser
                                   THEN (userOwners[u] \ (Y \X {op.n})) \cup (X \X {op.n})
                                   ELSE userOwners[u]]

\* An error leaves open: its scheduler's userdata is garbage.
Raise == /\ op' = Idle
         /\ sched' = [sched EXCEPT ![op.n] = "garbage"]
         /\ UNCHANGED <<next, empty, handle, loggedIn, current>>

OnTo(step) == /\ op' = step
              /\ UNCHANGED <<next, sched, empty, handle, loggedIn, current>>

Pop(s) == SubSeq(s, 1, Len(s) - 1)

\* Realm.open makes a scheduler and calls lib_realm_open, which gets the schema.
Open(schema, sync) ==
  /\ op = Idle
  /\ next \in Calls
  /\ sync.kind = "user" => handle[sync.handle].state = "held"
  /\ op' = [pc |-> "parse", n |-> next, schema |-> schema, sync |-> sync,
            stack |-> <<"config", "scheduler", "schema">>, peak |-> 3]
  /\ next' = next + 1
  /\ sched' = [sched EXCEPT ![next] = "local"]
  /\ schedOwners' = [schedOwners EXCEPT ![next] = {"userdata"}]
  /\ empty' = IF Schema[schema] = <<>> THEN empty \cup {next} ELSE empty
  /\ UNCHANGED <<realm, users>>

\* What the program wrote, and what core is given for it.
ParseClass(c) == [name |-> c.name, primaryKey |-> c.primaryKey,
                  properties |-> [p \in DOMAIN c.properties |-> ParsePropertyType(c.properties[p])]]
ParsedSchema == [k \in DOMAIN Schema |-> [i \in DOMAIN Schema[k] |-> ParseClass(Schema[k][i])]]
Classes == Schema[op.schema]
Parsed  == ParsedSchema[op.schema]

\* luaL_checktype takes the class's properties, and no type is empty.
Readable(c) ==
  c.strings /\ \A p \in DOMAIN c.properties :
    ~(c.properties[p].base = NoBase /\ c.properties[p].suffixes = <<>>)

\* Mutated: the key and the value of a property are popped one by one.
ParseSchemaUnbalanced ==
  /\ op.pc = "parse"
  /\ \A i \in DOMAIN Classes : Readable(Classes[i])
  /\ LET n      == Len(Classes)
         parsed == op.stack \o [i \in 1 .. 2 * n |-> "class"]
     IN  OnTo([op EXCEPT !.pc = "sync", !.stack = Pop(Pop(parsed)), !.peak = Len(parsed) + 4])
  /\ UNCHANGED <<schedOwners, realm, userOwners>>

\* _parse_schema leaves every class on the stack, works in four slots above the
\* last one (properties, key, value, copied key), and pops one value; the caller
\* pops another.
ParseSchema ==
  /\ op.pc = "parse"
  /\ \A i \in DOMAIN Classes : Readable(Classes[i])
  /\ LET n      == Len(Classes)
         parsed == op.stack \o [i \in 1 .. n |-> "class"]
     IN  OnTo([op EXCEPT !.pc = "sync", !.stack = Pop(Pop(parsed)), !.peak = Len(parsed) + 4])
  /\ UNCHANGED <<schedOwners, realm, userOwners>>

\* A class is not readable, or realm_schema_new refuses: nothing was made yet.
ParseRaises == /\ op.pc = "parse"
               /\ Raise
               /\ UNCHANGED <<schedOwners, realm, userOwners>>

\* The configuration exists.  config.sync: a sync configuration owns its user.
ReadSync == /\ op.pc = "sync"
            /\ op.sync.kind \in {"none", "user"}
            /\ OwnUser({"sync"}, {})
            /\ OnTo([op EXCEPT !.pc = "scheduler"])
            /\ UNCHANGED <<schedOwners, realm>>

\* No partition value, or no user: the configuration is never released, but it
\* owns neither a user nor the scheduler.
ReadSyncRaises == /\ op.pc = "sync"
                  /\ op.sync.kind \in {"noPartition", "noUser"}
                  /\ Raise
                  /\ UNCHANGED <<schedOwners, realm, userOwners>>

\* The scheduler is looked for in slot 2 of the stack.
InSlot2 == Len(op.stack) >= 2 /\ op.stack[2] = "scheduler"

SetScheduler == /\ op.pc = "scheduler"
                /\ InSlot2
                /\ Own("config")
                /\ OnTo([op EXCEPT !.pc = "open"])
                /\ UNCHANGED <<realm, userOwners>>

\* luaL_checkudata raises: configuration and sync configuration stay behind.
SetSchedulerRaises == /\ op.pc = "scheduler"
                      /\ ~InSlot2
                      /\ Raise
                      /\ UNCHANGED <<schedOwners, realm, userOwners>>

\* realm-core: the names of a schema are known, and its properties valid.
Names == [k \in DOMAIN Schema |-> {Schema[k][i].name : i \in DOMAIN Schema[k]}]
Accepted == [k \in DOMAIN Schema |->
  \A i \in DOMAIN Schema[k] : LET c == ParsedSchema[k][i] IN
    /\ c.primaryKey \in DOMAIN c.properties \cup {None}
    /\ \A p \in DOMAIN c.properties : Valid(c.properties[p], Names[k])]

\* realm_open succeeds: the realm owns scheduler and user, the configurations are
\* released, and the schema information is pushed, six slots deep.
OpenRealm ==
  /\ op.pc = "open"
  /\ Accepted[op.schema]
  /\ realm' = [realm EXCEPT ![op.n] = [state |-> "open", user |-> SyncUser]]
  /\ schedOwners' = [schedOwners EXCEPT ![op.n] = (@ \cup {"realm"}) \ {"config"}]
  /\ OwnUser({"realm"}, {"sync"})
  /\ OnTo([op EXCEPT !.pc = "return",
                     !.peak = IF Len(op.stack) + 6 > @ THEN Len(op.stack) + 6 ELSE @])

\* Mutated: the error is raised before the configurations are released.
OpenFailsEarly == /\ op.pc = "open"
                  /\ Raise
                  /\ UNCHANGED <<realm, schedOwners, userOwners>>

\* realm_open fails, over the schema or the file: both are released first.
OpenFails == /\ op.pc = "open"
             /\ Disown({"config"})
             /\ OwnUser({}, {"sync"})
             /\ Raise
             /\ UNCHANGED realm

\* Realm.open releases the scheduler it made and returns the realm.
Return == /\ op.pc = "return"
          /\ Disown({"userdata"})
          /\ op' = Idle
          /\ sched' = [sched EXCEPT ![op.n] = "null"]
          /\ UNCHANGED <<next, realm, users, empty>>

\* The __gc of a scheduler's userdata that a refused call left.
CollectScheduler(n) ==
  /\ sched[n] = "garbage"
  /\ sched' = [sched EXCEPT ![n] = "null"]
  /\ schedOwners' = [schedOwners EXCEPT ![n] = @ \ {"userdata"}]
  /\ UNCHANGED <<op, next, realm, users, empty>>

\* The program forgets a realm.
DropRealm(n) == /\ op = Idle
                /\ realm[n].state = "open"
                /\ realm' = [realm EXCEPT ![n].state = "dropped"]
                /\ UNCHANGED <<op, next, sched, schedOwners, users, empty>>

\* Realm:close(), called by the program or by __gc.
Close(n) ==
  /\ realm[n].state \in IF op = Idle THEN {"open", "dropped"} ELSE {"dropped"}
  /\ realm' = [realm EXCEPT ![n].state = "closed"]
  /\ schedOwners' = [schedOwners EXCEPT ![n] = @ \ {"realm"}]
  /\ userOwners' = [u \in Users |-> userOwners[u] \ {<<"realm", n>>}]
  /\ UNCHANGED <<op, next, sched, handle, loggedIn, current, empty>>

-----------------------------------------------------------------------------
OpenStep == \/ ParseSchema \/ ParseRaises \/ ReadSync \/ ReadSyncRaises
            \/ SetScheduler \/ SetSchedulerRaises \/ OpenRealm \/ OpenFails \/ Return

Collect == \/ \E n \in Calls : CollectScheduler(n) \/ (realm[n].state = "dropped" /\ Close(n))
           \/ \E h \in Handles : CollectUser(h)

\* The bound on calls is reached.
Finished == op = Idle /\ next \notin Calls /\ UNCHANGED vars

Next == \/ \E u \in Users : LogIn(u)
        \/ CurrentUser
        \/ \E h \in Handles : LogOut(h) \/ DropUser(h) \/ CollectUser(h)
        \/ \E s \in DOMAIN Schema, y \in Syncs : Open(s, y)
        \/ OpenStep
        \/ \E n \in Calls : CollectScheduler(n) \/ DropRealm(n) \/ Close(n)
        \/ Finished

\* open runs on, and the collector finds garbage in the end.
Spec == Init /\ [][Next]_vars /\ WF_vars(OpenStep) /\ WF_vars(Collect)

-----------------------------------------------------------------------------
(* Properties                                                              *)

\* The variables' types.  A user that somebody has is one that logged in, and the
\* current user is logged in.
TypeOK ==
  /\ op # Idle => /\ op.n \in Calls /\ op.n < next
                  /\ op.pc \in {"parse", "sync", "scheduler", "open", "return"}
                  /\ op.schema \in DOMAIN Schema
                  /\ op.sync \in Syncs
                  /\ op.sync.kind = "user" => handle[op.sync.handle].state = "held"
  /\ next \in 1 .. MaxOpens + 1
  /\ sched \in [Calls -> {"none", "local", "garbage", "null"}]
  /\ schedOwners \in [Calls -> SUBSET {"userdata", "config", "realm"}]
  /\ realm \in [Calls -> [state : {"none", "open", "dropped", "closed"}, user : Users \cup {None}]]
  /\ \A h \in Handles : /\ handle[h].state \in {"unused", "held", "dropped", "released"}
                        /\ handle[h].state # "unused" => handle[h].user \in Users
  /\ loggedIn \in SUBSET Users
  /\ current \in loggedIn \cup {None}
  /\ (current = None) = (loggedIn = {})
  /\ empty \in SUBSET Calls

Underway(n, P) == op # Idle /\ op.n = n /\ op.pc \in P
Owner(x, cond) == IF cond THEN {x} ELSE {}

\* Every owner that the code counts is there and no other: a user or a scheduler
\* goes neither too early, while a userdata, a call of open or a realm has it, nor
\* too late.  One thing keeps a user for good: the sync configuration of a call
\* with an empty schema, which is refused after it was made.
OwnersExact ==
  /\ \A n \in Calls : schedOwners[n] =
       Owner("userdata", sched[n] \in {"local", "garbage"})
         \cup Owner("config", Underway(n, {"open"}))
         \cup Owner("realm", realm[n].state \in {"open", "dropped"})
  /\ \A u \in Users :
       /\ (Core \in userOwners[u]) = (u \in loggedIn)
       /\ \A h \in Handles : (<<"user", h>> \in userOwners[u]) =
            (handle[h].user = u /\ handle[h].state \in {"held", "dropped"})
       /\ \A n \in Calls : (<<"realm", n>> \in userOwners[u]) =
            (realm[n].user = u /\ realm[n].state \in {"open", "dropped"})
       /\ \A n \in Calls : (<<"sync", n>> \in userOwners[u]) =>
            n \in empty \/ (Underway(n, {"scheduler", "open"}) /\ u = SyncUser)
       /\ Underway(op.n, {"scheduler", "open"}) /\ u = SyncUser => <<"sync", op.n>> \in userOwners[u]

\* Slot 2 still holds the scheduler when it is looked for there, and the stack has
\* not outgrown what Lua gives a C function: for schemas of at least one class and
\* of at most MinStack - 5, which is fifteen.
StackKept ==
  op # Idle =>
    /\ op.pc = "scheduler" /\ Classes # <<>> => InSlot2
    /\ Len(Classes) + 5 <= MinStack => op.peak <= 2 + MinStack

\* A class as README.md:65-118 describes it: a table of strings, each the type of
\* a property, written with the names of primitive types and of the schema's classes
\* N; the primary key is one of the properties.
Documented(c, N) ==
  /\ c.strings
  /\ c.primaryKey \in DOMAIN c.properties \cup {None}
  /\ \A p \in DOMAIN c.properties :
       /\ c.properties[p].base \in (Primitives \cup N) \ {NoBase}
       /\ c.properties[p].suffixes \in Written

\* A schema written as the documentation says is read without an error, and core
\* takes what is read if and only if no property is a bare "Task", as in
\* README.md:113, a "Task{}", or has the "?" of README.md:116-118 before "[]" or
\* "<>" after a class, or before "{}" after anything.  In those documented types
\* the code and the documentation disagree: such a schema cannot be opened.
DocumentedIsAccepted ==
  op # Idle /\ (\A i \in DOMAIN Classes : Documented(Classes[i], Names[op.schema])) =>
    /\ \A i \in DOMAIN Classes : Readable(Classes[i])
    /\ Accepted[op.schema] <=>
         \A i \in DOMAIN Classes : \A p \in DOMAIN Classes[i].properties :
           ~RefusedThough(Classes[i].properties[p])

\* The schema information that Lua works with says of each property what was
\* declared: its type, collection and class; what was declared nullable is so in
\* core; and Lua has the class of every link (object.lua:87, 121).
InfoFaithful ==
  op.pc = "return" =>
    \A i \in DOMAIN Classes : \A p \in DOMAIN Classes[i].properties :
      LET text == Classes[i].properties[p]
          read == Parsed[i].properties[p]
          info == PropertyInfo(read)
      IN  /\ text.base # NoBase /\ text.suffixes \in Written
               => /\ info.type = Meaning(text).type
                  /\ info.collectionType = Meaning(text).collection
                  /\ info.objectType = Meaning(text).target
                  /\ read.nullable = Meaning(text).nullable
          /\ info.type = "object" => info.objectType \in {<<m, <<>>>> : m \in Names[op.schema]}

\* A scheduler is let go of in the end, unless its realm stays open: a refused call
\* does not keep the run loop alive.
SchedulerLetGo ==
  \A n \in Calls : schedOwners[n] # {} ~> schedOwners[n] = {} \/ realm[n].state = "open"
=============================================================================
