# Realm Lua: models, checks and proofs

Realm Lua is a Lua binding of the Realm database. A C++ library exposes
realm-core's C API to Lua, Lua modules make objects, collections and
transactions of it, a libuv scheduler delivers notifications to the Lua thread,
and a libcurl transport serves App Services. This directory holds TLA+ models of
that code, the TLC configurations that check them on small instances, and proofs
of their main invariants that TLAPS checks for every value of the constants.

File names below are those of the repository (`src/` is its root here):
`init.lua`, `object.lua`, ... are in `lib/realm/`, the `.cpp` files in `src/`.
realm-core, libuv, Lua, luv and libcurl are not part of the repository: what the
models say of them is what this code relies on, and is marked external.

## 1. The system

### Components, their state, operations and what makes them correct

| component | state | operations | correct when |
|---|---|---|---|
| Scheduler (`realm_scheduler.cpp`, `scheduler/libuv.lua`) | `Userdata` {queue, close_requested, closed}, the `uv_async_t`, the `shared_ptr`s to the scheduler | `invoke`, `~Scheduler`, the async callback (`should_close`, `do_work`, `close`), `__gc` | functions run once, in order, on the Lua thread; none is stranded; the handle is closed exactly once, after the last holder is gone, and nothing is touched after that |
| Handles (`init.lua`, `results.lua`, `object.lua`, `list.lua`, ..., `realm_native_lib.cpp`, `realm_notifications.cpp`) | one native pointer per userdata, the weak table `_childHandles`, listeners in the Lua registry | creation of results, objects, collections and tokens; `Realm:close`, `Realm.__gc`, `__gc` of each handle | no pointer is released twice, leaked or used after its release; a live listener keeps what it needs; `close` releases everything |
| Write transactions (`init.lua` 42-52) | the transaction of an instance, core's write lock | `Realm:write` around a callback | one callback per transaction; atomic; rolled back on any error; the lock is handed on |
| Objects and conversion (`object.lua`, `realm_util.cpp`) | the object's properties, the tables given to `create` | `Realm:create` (recursive over nested tables), property assignment, `realm:delete` | what was given can be read back; one object per keyed table; recursion ends |
| Lists (`list.lua`) | the native list | `[i]`, `[i] = v`, `#`, and Lua's `table.insert`/`table.remove` on top of them | the list is a Lua array; 1-based to 0-based conversion; no element is lost |
| Sets, dictionaries (`set.lua`, `dictionary.lua`) | entries | `__newindex`, `__index`, `__len` | only what the element type allows is stored; only nil removes |
| Results and queries (`results.lua`) | a live query's handle | `filter`, `[i]`, `#`, `addListener` | handles as above; `[i]` and the change tables agree about positions; the query language is core's |
| Notifications (`realm_notifications.cpp`) | token, listener's registry reference | `on_*_change`, error propagation | the listener is called on the Lua thread with a change table that mirrors core's change set; errors go to who can handle them |
| Opening (`init.lua` 70-104, `realm_native_lib.cpp` 18-116) | configuration objects and their references | `Realm.open` | whoever owns scheduler and user lets them go on every path |
| Schema (`realm_schema.cpp`, `classes.lua`) | C arrays, the Lua stack | `_parse_schema`, `_parse_property_type` | the type grammar of the repository's README; a balanced Lua stack |
| App Services (`realm_app.cpp`, `realm_user.cpp`, `app.lua`, `app/*.lua`) | callbacks in the registry, users | `registerEmail`, `logIn`, `currentUser`, `logOut` | each call is answered exactly once, before it returns |
| HTTP transport (`curl_http_transport.cpp`) | `CurlGlobalGuard::m_users`, libcurl's global state | `send_request_to_server` | libcurl is initialized for exactly as long as a request is under way |
| Examples, playground, tests | none the library depends on | | |

### How they interact

* `Realm.open` makes a scheduler (`lib_realm_open` copies its `shared_ptr` into
  the configuration); core copies it to its notifier threads. They call
  `invoke`, which pushes to the queue and calls `uv_async_send`. The event loop
  runs the async callback of `scheduler/libuv.lua` on the Lua thread.
* The functions so run call listeners (`realm_notifications.cpp`). Beginning a
  write transaction calls them too. An error in a listener leaves by `lua_error`:
  through `realm_begin_write`, or through the async callback, which ends the
  process.
* Every read through a realm makes a userdata and puts it into `_childHandles`;
  the collector removes entries at any time; `close` walks what is left.
* `realm:write` runs a callback in which `create`, assignment and the
  collections are used; a coroutine may yield in it, and other coroutines run.
* `registerEmail`/`logIn` send their request synchronously: the callback runs
  inside the call, inside the request, and may call the app again. Core's own
  threads send requests as well.

### What is hard in it

Concurrency: the run-loop bridge (push, send, flag and queue are accessed without
a common lock), the request count, several realm instances on one write lock.
Scheduling by others: the garbage collector between any two steps, coroutines in
a transaction, callbacks inside calls. Partial failure: an object half created, an
error inside a C callback, a loop of the table library that raises in the middle.
Boundaries: index 0 as a `size_t`, tables with holes, nil as a value and as a
command. `hazards` in `PROJECT.json` lists them line by line, with the
properties that cover each, and says so where none does yet.

## 2. Modules

| module | of | abstract specification | proofs |
|---|---|---|---|
| `Scheduler` | the run-loop bridge | `LoopExecutor` | `SchedulerProofs` |
| `RealmHandles` | handles, listeners, close | | `RealmHandlesProofs` |
| `RealmWrite` (`MCRealmWrite`) | `Realm:write` | `AtomicStore` | `RealmWriteProofs` |
| `RealmList` (`MCRealmList`) | lists under the table library | `LuaArray` | `RealmListProofs` |
| `RealmObjects` (`MCRealmObjects`) | creation, assignment, sets, dictionaries, conversion | | `RealmObjectsProofs` |
| `AppRequests` (`MCAppRequests`) | App calls over the transport | | `AppRequestsProofs` |
| `PropertyTypes` | the types of properties in a schema | what the documentation says they mean (`Meaning`) | `RealmOpenProofs` |
| `RealmOpen` (`MCRealmOpen`) | `Realm.open`, schemas, users | | `RealmOpenProofs` |
| `RealmResults` | results, change tables, listeners | | `RealmResultsProofs` |

A specification and its properties are in one module; the MC modules only name
model values. Definitions whose comment begins with "Mutated" are plausible bugs,
not part of any specification: each breaks the property it is listed with in
`PROJECT.json`, which shows that the property depends on the code.

### Scheduler

A step is one access to shared state. `Push` is the locked push of `invoke` and
`Send` the `uv_async_send` after it (`pc = "send"` between the two, where another
thread may act); `ReleaseLast` is the drop of the last `shared_ptr`, which stores
`close_requested` in `~Scheduler`, followed by its `Send` (`pc = "dtor"`).
`Wake` is libuv clearing the wake-up, `CheckClose` the reading of the flag,
`DoWork` the swap of the queue in `invoke_all`, `RunNext`/`RunRaises` one function.
`OnClosed` is the close callback's `userdata:close()` and `Collect` the later
`__gc`, both of which are `close()` (`CloseUserdata`). The Lua thread can call the
scheduler in any of these steps, since a finalizer or a listener may drop a realm.

`InitialCloseRequested` is the set of values that the uninitialized member
`close_requested` may have, and `ClosedAfterDtor` what the member `closed` may
read as after the destructor that stores it: the language leaves both open.

`LoopExecutor` is what core asks for: submit, run in order, stop. Its `todo` is
`batch \o queue`, its status is read off the handle.

### RealmHandles

One realm. A handle is a userdata with one native pointer: `data` (results,
object, list, set, dictionary, with its Lua wrapper) or `token`. `Create` and
`Insert` are the constructor followed by `table.insert(realm._childHandles, h)`:
where a table has holes, `#t` is *any* border (`Borders`), as Lua's manual says.
`Visited` is what `ipairs` sees: the entries before the first nil. The collector
condemns any subset of what is unreachable (`Condemn`), clears it from the weak
table, and finalizes it later, in separate steps; a realm condemned in the same
cycle keeps its table for `Realm.__gc`. What is reachable follows from the
program's references and from the registry: a listener captures the wrapper it
was added to, and a wrapper has its realm in `_realm`.

### RealmWrite

The fibers are coroutines, each on its thread (`Home`), and so are realm instances.
`Begin`, `BeginWaits`, `BeginRaises` are the three outcomes of `realm_begin_write`;
`BeginLeaks`/`AcquireLeaks` a listener's error inside it. `Create` stores the
object and any subset of the properties, and raises if it is a proper subset (the loop of
`_new` stops at an error). `Commit`, `CommitRaises`, `Cancel` and `CancelRaises` are what follows the
`xpcall`; when the commit or the rollback fails, the transaction stays open. A cell of the store carries the number of the call that wrote it: that
is what the atomicity properties tell apart. An operation belongs to the open
transaction (`cur`) even if another coroutine of the thread makes it, as in the code.

`AtomicStore` says that a call changes the file at one instant, when it returns,
leaving all cells it did not write as they are *then*.

### RealmList

`NewIndex`, `CanRead`, `Read` are `list.lua`'s metamethods with the native calls
under them (`Put` appends or overwrites, `Erase` removes, `Index0` wraps as a
`size_t` does). The loops of `table.insert` and `table.remove` (Lua 5.4's
`ltablib.c`) are external code, one step per element moved, because each step is a
call into the list that may raise: `ShiftUp`, `Store`, `ShiftDown`, `DropLast`.
`LuaArray` is the array in which a call takes effect at once.

### RealmObjects

`frames` is the stack of `RealmObject._new` calls under way: a value that is a table
makes `__newindex` call `_new` again (`New`), and the object is linked when that
returns (`Return`). `SetNext` takes any of the values that are left, since
`pairs` has no order. `New` takes the primary key out of the table, as the code
does; a table met again has none, and raises. So does a call of `_new` when `MaxDepth` of
them are under way, which stands for the limit of Lua's stack: it alone ends a
circle of tables for classes without a primary key. `Arrays` are the tables with numbers for keys:
`_new` makes an object of such a table too, and its first number is no property (`Unknown`). `ToRealm`, `ToLua` are the
conversions of `realm_util.cpp`. Sets and dictionaries are changed through their
`__newindex` (`SetEntry`, `SetKey`); `Handle` is the code's `value._handle`.

### AppRequests

A thread is a stack of calls, requests and callbacks, because the transport is
synchronous: `Call` (app.lua) pushes a call and puts the callback in the
registry, `Send` a request, `Answer` (`on_register_email_complete`,
`on_log_in_complete`) a callback on top of the request that was answered. A
log-in is several requests, each sent from the completion of the one before
(`SendNext`), inside its `CurlGlobalGuard`. The guard's constructor and destructor
are two steps each (`Count`/`Initialize`, `Uncount`/`CleanUp`), between which the
mutex is held. `Others` are core's threads, which send requests of their own.

### PropertyTypes and RealmOpen

A type's text is a base and a sequence of suffixes, and `ParsePropertyType` strips
suffixes in the order of the code, whatever the order they were written in.
`PropertyInfo` is what `_push_schema_info` tells Lua, `Meaning` what the
repository's README says of a type, and `Written` the forms it gives. `Documented` is a class written
so, in terms of the README alone; `Valid` and `Accepted` are core's rules for links and primary
keys' names (external), and `RefusedThough` is where the two differ.

`RealmOpen` runs `lib_realm_open` in the order of its source, one action per part
and one per error: `ParseSchema`/`ParseRaises`, `ReadSync`/`ReadSyncRaises`,
`SetScheduler`/`SetSchedulerRaises`, `OpenRealm`/`OpenFails`, and `Return`, which is
`Realm.open` releasing the scheduler it made. `op.stack` is the Lua stack as far as
the code's indices depend on it and `op.peak` its height. Native objects are
counted by core; the model names the owners instead of counting them, so that
`OwnersExact` can say who they are. Owners come and go in the collector's steps too
(`CollectUser`, `CollectScheduler`, `Close`), between any two steps of `open`. A
user is owned by core while it is logged in, by each userdata (`NewUser`, which
`on_log_in_complete` and `app:currentUser()` come to), by a sync configuration and
by each realm that was opened with it.

The other handles of a realm are `RealmHandles`' subject, and how a log-in is
answered is `AppRequests`'.

### RealmResults

`file` holds the versions from the one last told of, `seen` is the one that the
instance reads: its own commits are visible to it before they are told of
(`WriteOwn`), others' when it advances (`Deliver`). `ChangeSet` is core's and counts from
0; `Populate`, `CollectionChanges` and `ObjectChanges` are the tables that
`realm_notifications.cpp` makes of it, and `Index` is `collection[i]`. What the listener
does with them is the repository's README (268-321): deletions first, then what is at the
insertions and the modifications is read from the collection. A program that does
so keeps a `mirror` of the collection, and `copy` of one object.

## 3. Runs

| run | module, cfg | checks | shows |
|---|---|---|---|
| `scheduler` | `Scheduler`, `Scheduler.cfg` | `TypeOK`, `NoneLostInOrder`, `NoLostWakeup`, `HeldMeansAlive`, `NothingRunsOnceClosing`, `HeldSchedulerDelivers`, `ClosedInTheEnd`, `ExecutorSpec` | Two workers and the Lua thread hand three functions to the scheduler and drop it in any order on any thread: nothing is lost, overtaken or run on a destroyed queue, every function of a held scheduler is run, the handle is closed in the end, and the whole implements LoopExecutor. |
| `scheduler_garbage_flag` (violation) | `Scheduler`, `SchedulerGarbage.cfg` | `HeldSchedulerDelivers` | close_requested has no initializer: when the memory it lands in is not zero the first wake-up closes the handle, and a listener's function is never run although the realm holds the scheduler. |
| `handles` | `RealmHandles`, `Handles.cfg` | `TypeOK`, `NothingLeaks`, `TrackedOnce`, `ListenerIsWhole`, `RealmOutlivesItsHandles`, `CloseCompleteWithoutHoles`, `ReleasedInTheEnd` | Four userdata of one realm created, forgotten, listened to, collected and closed in any order: no pointer is released twice, leaked or lost from the weak table, a live listener keeps its object and realm, and all is released in the end. |
| `handles_close` (violation) | `RealmHandles`, `HandlesClose.cfg` | `CloseReleasesAll` | A collection leaves a nil in _childHandles; ipairs stops there and close() leaves the handles behind it open. |
| `write` | `MCRealmWrite`, `Write.cfg` | `TypeOK`, `OneCallPerTransaction`, `RaisedLeavesNothing`, `WaiterGetsItsTurn`, `AtomicSpec` | Three calls of Realm:write by three coroutines on two threads, with errors wherever one can be raised: a transaction has one callback, a raised call leaves nothing behind, a waiting thread gets the lock, and the calls implement AtomicStore. |
| `write_caught` (violation) | `MCRealmWrite`, `WriteCaught.cfg` | `AllOrNothing` | A callback that catches the error of a failed create returns normally: Realm:write commits the object without the property that failed. |
| `list` | `MCRealmList`, `List.cfg` | `TypeOK`, `ArraySpec` | table.insert, table.remove and assignment through list.lua's metamethods, any value refused at any point, make an array that loses no element |
| `list_nulls` (violation) | `MCRealmList`, `ListNulls.cfg` | `InsertInserts` | in a list of a nullable type, table.insert in front of a stored null silently loses the null: moving it up assigns nil, which erases |
| `objects` | `MCRealmObjects`, `Objects.cfg` | `TypeOK`, `OnceEach`, `CreationMirrors`, `CreationEnds` | tables that refer to themselves and to each other in a circle, as objects with and without a primary key, nested up to Lua's limit, an array given for a list, and values of the wrong type: a creation ends, has made what its tables say if it returns, and makes one object of a keyed table; one with an array for a list never returns |
| `requests` | `MCAppRequests`, `Requests.cfg` | `TypeOK`, `CurlReady`, `AnsweredOnce`, `CallsEnd` | registrations and log-ins, one called in the callback of another, while a thread of the core sends requests too: libcurl is ready for each request, each call is answered once before it returns, and all of them end |
| `open` | `MCRealmOpen`, `Open.cfg` | `TypeOK`, `OwnersExact`, `StackKept`, `DocumentedIsAccepted`, `InfoFaithful`, `SchedulerLetGo` | two calls of Realm.open with schemas of every documented type, of wrong ones, and of no class and of fifteen, with and without sync, by two users who log in and out, under a collector: each error leaves exactly the owners it should, a documented schema is read as it was written and refused for exactly four kinds of documented types, and no refused call keeps its scheduler |
| `results` | `RealmResults`, `Results.cfg` | `TypeOK`, `MirrorExact`, `CopyExact`, `ToldInTheEnd` | three objects created, changed and deleted by this instance and others, any two transactions told of together or one by one: a program that follows the change tables as documented has the collection, or the object, exactly as it is, and is told of everything |

### Bounds, and why they are enough

* `Scheduler.cfg`: the Lua thread and two workers, three functions. Two pushes can
  meet between any two steps of the loop while a third thread drops the last
  reference. `RunRaises` may end any function.
* `Handles.cfg`: four userdata are the fewest with a hole that has entries on both
  sides and a listener on a wrapper next to another token. `HandlesClose.cfg`
  needs no more than three.
* `Write.cfg`: three calls by three coroutines on two threads and two instances:
  a call waits for another thread, nests in a callback, or is made by a second coroutine
  while the first has yielded. One key and one property suffice for half-made
  objects, since the property may be set or not. All errors outside the `xpcall` are on
  (`Faults`): of a listener in `begin_write`, of the commit, and of the rollback.
* `List.cfg`: lists of up to four, so that every insert and removal has elements on
  both sides, with three distinct elements, nil and a value that is refused;
  indices from 0 to two past the end.
* `Objects.cfg`: six tables that cover two paths to one table, a table in itself as an object with a
  primary key, two in each other as objects without, an array for a list,
  and values of the wrong type, over two classes (with and without a primary key)
  and four property types. `MaxDepth` is four calls of `_new`, one more than the deepest creation without
  a circle needs, so that what Lua's limit ends is a circle. New calls are made while there are fewer than two
  objects; a single creation then goes on to as many as its tables need.
* `Open.cfg`: two calls of `open` and two userdata for two users, so that realms share a
  user or do not, a refused call leaves what another still uses, and a user is
  current while another logs out. The schemas have every documented type of a
  primitive and of a class (those that are refused in schemas of their own, but for `Pet?<>` and `Pet?{}`,
  which are refused as `Pet?[]` and `int?{}` are), types in the wrong order, the empty base of `{}`,
  wrong links and a wrong primary key, a class that cannot be read, no class, and as many classes (fifteen) as fit
  the twenty slots that Lua guarantees.
* `Results.cfg`: three objects, so that something lies before and after a change, each
  with a value that a filter lets through and one that it does not. Up to two
  transactions, which may each change all objects, are told of at a time; there is
  no bound on how many follow.
* `Requests.cfg`: three calls, so that one nests in the callback of another that
  nests in a third's; a log-in of two requests; a core thread with two requests.

The proofs do not have these bounds.

### Fairness

* Scheduler: threads finish the call they are in, and libuv runs a handle that was
  woken; nobody need call, release, or collect garbage.
* Handles: the collector completes cycles and runs the finalizers it owes.
  The program owes nothing.
* Write: a callback ends at some time, in a return or in an error (weak fairness of
  `Commit \/ Cancel`), and core gives a free lock to a waiting thread.
* Objects: the library's loops run on; the program need not call.
* Requests: a request ends (libcurl returns), callbacks return, threads go on.
* Open: `open` runs on, and the collector completes cycles. The program need not close a realm.
* Results: the run loop delivers (that it does is `Scheduler`'s claim). The fairness is stated of
  `Advance`, the part of `Deliver` that decides whether it is possible.

`List` has no fairness: only what a step may do is claimed.

### What the violations show

Each is a place where the code disagrees with the repository's own text, and
`findings` quotes the line.

* `scheduler_garbage_flag` (`HeldSchedulerDelivers`, src/src/realm_scheduler.cpp:22): `volatile bool close_requested;` has no initializer and create_scheduler default-initializes the Userdata in memory fresh from lua_newuserdata (src/src/realm_scheduler.cpp:97-98), so should_close may be true at the first wake-up: the handle is closed and the notification is never delivered. The test at src/spec/realm_spec.lua:214 says it is: `assert.True(notificationReceived)`.
* `handles_close` (`CloseReleasesAll`, src/lib/realm/init.lua:65): close() walks _childHandles with ipairs, which stops at the first nil; the table's values are weak (src/lib/realm/init.lua:99), so a collection before close() leaves a nil and the handles after it are not released. The comment at src/lib/realm/init.lua:63 says close() will "Explicitly close this realm and its associated userdata (release native resources)."
* `write_caught` (`AllOrNothing`, src/lib/realm/init.lua:45): write commits whenever the callback returns, also after an operation in it failed and the callback caught the error; a create that fails at a property leaves the object and the properties before it (src/lib/realm/object.lua:46-64). src/README.md:190-192 says "A transaction is all or nothing. Either: All the operations in the transaction succeed, or; If any operation fails, none of the operations complete."
* `list_nulls` (`InsertInserts`, src/lib/realm/list.lua:38): RealmList.__newindex erases when it is given nil, and realm_to_lua_value makes nil of a stored null: the loop of table.insert, which moves elements up, erases where it should move a null, and the call ends without an error with the null lost. src/README.md:328 says "Lists are the only Realm collection type where values can be inserted using Lua's `table.insert()` and removed using `table.remove()`", and src/README.md:118 allows lists of nullable types ("int?[]")

More defects are visible without a run:

* `Realm.open` with a scheduler of the caller's calls `native.realm_clone`, which is not
  exported (`init.lua` 93): every such call raises.
* `CURLOPT_TIMEOUT` counts seconds and is given milliseconds (`curl_http_transport.cpp` 123).
* nil assigned to a nullable property raises (`object.lua` 127, `realm_util.cpp` 49); README.md:118 of the
  repository says that it can be assigned. A plain table assigned to a dictionary's key erases
  the entry (`dictionary.lua` 38). Both are in `RealmObjects` as the code does them.
* A string with a zero byte is stored whole and read up to that byte (`realm_util.cpp` 66; `Cut`).
* `filter` never releases the query that it makes (`realm_native_lib.cpp` 354), and `lib_realm_open`
  leaves its configuration behind on the errors of lines 36, 51 and 96.
* An empty schema is refused with an error about the scheduler, since the pops meant for a class and
  for the schema take the scheduler off the stack (`realm_schema.cpp` 148). A schema of more than fifteen classes
  grows the Lua stack beyond what Lua guarantees. `StackKept` holds between these two.
* A table given for a list, as in `tasks = { syncedTask }` of README.md:519-530 of the repository, becomes an
  object of the list's class (`object.lua` 119-124): the creation raises, for want of a primary key or at the
  first number. `CreationMirrors` says that no such creation returns.
* Documented types that the code gets refused (README.md:95-118 of the repository; `RefusedThough`, and
  `DocumentedIsAccepted` says that these are all, as far as core's rules are modelled): a bare `Task` (113) and `Task{}`,
  since core wants a link nullable and the parser passes on what was written; `Task?[]` and `Task?<>`, which 118
  allows as it allows `int?[]`, since core wants those not nullable; and `T?{}`, which
  is read as a dictionary of objects of a class named `T?` (`realm_schema.cpp` 26-41): it must be written `T{}?`.

## 4. Proofs

Each proof module shows `Init => IndInv`, `IndInv /\ [Next]_vars => IndInv'` with a
step per action, and derives the theorems.

| theorem | property | says |
|---|---|---|
| `SchedulerProofs!TypeCorrect` | `TypeOK` | Every variable keeps its type and ~Userdata runs at most once, for any threads and calls. |
| `SchedulerProofs!HeldIsAlive` | `HeldMeansAlive` | A thread that holds the scheduler or is inside invoke never meets a closing handle or a destroyed userdata. |
| `SchedulerProofs!QuietOnceClosing` | `NothingRunsOnceClosing` | No function is run once the callback has chosen to close the handle. |
| `SchedulerProofs!OrderKept` | `NoneLostInOrder` | Every function issued is run, being run or queued, in the order of issue, until the queue is torn down. |
| `SchedulerProofs!WakeupKept` | `NoLostWakeup` | The queue is never left with nobody on the way to take it. |
| `SchedulerProofs!ImplementsExecutor` |  | Every step of the scheduler is a step of LoopExecutor or a stutter. |
| `RealmHandlesProofs!TypeCorrect` | `TypeOK` | Every variable keeps its type and no native pointer is released twice, for any number of handles. |
| `RealmHandlesProofs!NoLeak` | `NothingLeaks` | A finalized handle has been released, and no handle that can be reached has been finalized. |
| `RealmHandlesProofs!Tracked` | `TrackedOnce` | While the realm lives each handle that owns a pointer is in exactly one slot of _childHandles, through any insertions and collections. |
| `RealmHandlesProofs!ListenersAreWhole` | `ListenerIsWhole` | A listener that can still be called has its object and its realm. |
| `RealmHandlesProofs!RealmOutlives` | `RealmOutlivesItsHandles` | Unless closed, the native realm outlives every wrapper read from it. |
| `RealmHandlesProofs!CloseComplete` | `CloseCompleteWithoutHoles` | close() over a table without holes releases every handle of the realm. |
| `RealmWriteProofs!TypeCorrect` | `TypeOK` | Every variable keeps its type and no property is stored without its object, for any threads, coroutines, keys and calls. |
| `RealmWriteProofs!OneCall` | `OneCallPerTransaction` | A transaction has exactly one callback, that of its instance, and is left open only by an error outside the xpcall. |
| `RealmWriteProofs!NothingOfARaisedCall` | `RaisedLeavesNothing` | Nothing of a write call that raised or has not ended is in the file. |
| `RealmWriteProofs!WritesAreAtomic` | `AtomicSpec` | Realm:write implements AtomicStore: calls take effect one at a time, whole or not at all. |
| `RealmWriteProofs!UncaughtIsAllOrNothing` |  | While no callback catches the error of an operation, and whatever else happens, a write call that returns has had no operation fail: the caught error of the write_caught finding is the only way to a half-done write. |
| `RealmListProofs!ListIsArray` | `ArraySpec` | a list without nulls, of any element type and length, implements an array under assignment, table.insert and table.remove, whatever value is refused |
| `RealmListProofs!TypeCorrect` | `TypeOK` | the list stays within the length that the program's own calls give it |
| `RealmObjectsProofs!TypeCorrect` | `TypeOK` | a property, a dictionary's entry and a set's member hold a value that the core takes there, a link leads to an object of its property's class, and calls of _new have objects of their own, for any tables and schema |
| `RealmObjectsProofs!OnlyOneObject` | `OnceEach` | a table makes one object of a class with a primary key, in whatever tables it stands and however the creation ends |
| `RealmObjectsProofs!CreationIsMirrored` | `CreationMirrors` | when a creation returns, every object that it made reads as the Lua table it was made from, nested tables as the objects made from them, for any tables (shared and circular ones too) and any schema; none of the tables was an array or had a value for a list, so that the creation of README.md:519-530 does not return |
| `AppRequestsProofs!TypeCorrect` | `TypeOK` | the variables keep their types for any threads, calls and rounds; no callback is called twice, or on a thread of the core |
| `AppRequestsProofs!CurlIsReady` | `CurlReady` | the count is the number of requests under way, of all threads and nested in callbacks, and libcurl is initialized for each of them |
| `AppRequestsProofs!OneAnswer` | `AnsweredOnce` | a call that returned has had its callback called once, one that raised never, and the registry holds a callback that runs |
| `RealmOpenProofs!TypeCorrect` | `TypeOK` | the variables keep their types for any users, schemas and calls, and a call of open keeps the userdata of its user |
| `RealmOpenProofs!OwnersAreExact` | `OwnersExact` | a scheduler and a user have exactly the owners that the code counts, whatever error of open is raised and whenever the collector runs |
| `RealmOpenProofs!StackIsKept` | `StackKept` | lib_realm_open finds the scheduler in slot 2 for every schema of at least one class, and up to MinStack - 5 classes fit on the stack |
| `RealmOpenProofs!DocumentedAccepted` | `DocumentedIsAccepted` | every schema written as README.md:65-118 describes it, of any classes and properties, is read without an error, and what is read passes core's rules for links and primary keys if and only if no property has one of the documented types that the code gets refused: T?{}, a bare Task, Task{}, Task?[] and Task?<> |
| `RealmOpenProofs!InfoIsFaithful` | `InfoFaithful` | of every schema that was opened, the schema information gives each property whose type is written in a documented form the type, collection and class that the README means by it (and core the nullability, which the information leaves out), and leads each link to a class of the schema |
| `RealmResultsProofs!TypeCorrect` | `TypeOK` | the variables keep their types, and the program that follows the change tables never reads past the end of its collection, for any objects, filter and number of transactions between two calls |
| `RealmResultsProofs!ChangesKeepMirror` | `MirrorExact` | taking out at the deletions, putting in at the insertions and reading the modifications again leaves the collection as it is in the version told of, position by position, and both lists of modifications name the same objects |
| `RealmResultsProofs!ChangesKeepCopy` | `CopyExact` | following an object's change tables gives its values and its deletion, though the list of properties is undefined once it is deleted |

Assumptions. Each module's `ASSUME` on its constants, which the runs evaluate
(`SchedulerAssumption`, `TypesAssumption`, `HandlesAssumption`, `WriteAssumption`, `ListAssumption`,
`ObjectsAssumption`, `RequestsAssumption`, `OpenAssumption`, `ResultsAssumption`); nothing bounds threads,
handles, calls, elements or versions. In addition:

* `Built` in `SchedulerProofs`: a build in which `close_requested` starts false and
  the destructor's store of `closed` is kept. Without the first the run
  `scheduler_garbage_flag` shows what fails. The second is what keeps `__gc`
  from destroying the queue twice (`realm_scheduler.cpp` 122).
* `NoNulls` in `RealmListProofs`: the file's list has no null. Without it the run
  `list_nulls` shows what fails.
* `WholeStrings` in `RealmObjectsProofs`, for `CreationIsMirrored` alone: no string has a zero byte. What
  follows one is lost when it is read (`realm_util.cpp` 66), so that such a string never reads as it was given.

Why the inductive invariants are what they are:

* Scheduler (`IndInv`): `FlagInv` ties the flag to the holders, so that a callback that
  reads it knows that no holder is left; `CallInv` says that whoever is in
  `invoke` holds a reference; `HandleInv` orders flag, handle and userdata; with `LoopInv`
  nothing is in a batch when the handle closes. Order and wake-up are
  invariants on top of that one.
* Handles: besides the properties, `FreshInv` (handles are numbered in order, the
  table holds no number to come), `PtrInv` (a live pointer has not been released) and
  `RealmInv` (a condemned realm has no live wrapper).
* Write: `CopyInv` says that the open copy differs from the file only in cells that the
  open call wrote. It turns a commit into one step of `AtomicStore`. The run `write_caught` breaks the
  documented all-or-nothing by one caught error; `UncaughtIsAllOrNothing` shows that no other step does. It is
  about the steps of `UncaughtNext`, `Next` without `Catch`, and rests on `UncaughtInv`: a call in which an
  operation failed has its error on the way out, or has raised.
* List: `InsertInv` and `RemoveInv` say where the elements of the old list are while a
  loop is at index i. They make the end of the loop one step of `LuaArray`.
* Objects: a frame's object is made later than that of the frame below, links in progress lead to
  properties that exist, and a keyed object's table has lost its key: a second one needs the key. For
  `CreationMirrors`, which is about the step in which a creation returns, `MirrorsSoFar` says that what is not
  pending is mirrored, and `NumbersLeft` that an array's number is still to be set while its call is under way, and that the
  outermost object is younger than what it will be linked to. `Linked` says of each call but the lowest that the place it will link its object to
  belongs to the call below, and that this call's table has there the table its own object is made from.
  A call that returns then finishes exactly the place it was pending for.
* Open: `CallInv` (a call under way has its scheduler, its user and the stack that the parser left),
  `FreshInv` (calls to come have nothing), and `OwnersExact` said owner by owner (`SchedOwned`, `UserOwned`), since a
  step adds or takes one owner and must leave the others. Of schemas, `OpenedInv` says that a call past the
  parser has an accepted schema; the rest is about `ParsePropertyType`, by cases of the documented
  suffixes: `ReadAsMeant` (it reads what the README
  means, but for `T?{}`, which no accepted schema has), `ValidUnlessRefused` (core takes a documented type as read if and
  only if it is not one of `RefusedThough`) and
  `ParsedClass` (a class that was accepted had all its properties read).
* Results: `Segments` (an object that no version between two of the file changes is equal in both) is what
  makes core's change set tell the whole difference between the first version and the one told of, and `Exact`
  has the mirror as a sequence of the right length with each object at its place. That the documented
  procedure leads from one exact mirror to the next is `ChangesAreFollowed`. It rests on lemmas that count:
  an object's place is one more than the members before it (`Spot`), places are injective and
  fill `1 .. Cardinality(S)` (`SpotsAreTaken`), a part keeps its order among the places of the whole
  (`BeforeAmongSpots`), and what is before a number splits into what stayed and what is new (`BeforeInParts`).
* Requests: `StackInv` (only a thread's innermost frame is at work, the frames below wait),
  `MutexInv` (the lock is held in two phases of that frame), `GuardInv` (what the holder is about
  to set) and `CallInv` (a call not yet answered is at work in Lua's innermost frame).


Only model-checked: every liveness property (and with them the fairness half of
`ExecutorSpec`; the theorem is about `ExecutorSafety`, its initial state and steps).
Every invariant of the passing runs is a theorem.

## 5. What is not modelled, and what comes next

* The creation of an app and of credentials (`realm_app.cpp` 52-83, 121-137, 186-199): straight-line code that makes one
  value and releases what it used; only their own userdata owns them.
* `realm_query_t` and the configuration objects as resources: the code leaks them as said in section 3, and no
  property about them would hold.
* Keys of objects are never used again: an object deleted and created anew with the same primary key
  between two notifications is not in `RealmResults`, for what core tells then is core's alone.
* Realms that share a file and a cached instance (`_cached`), migration and the schema mode are core's.
* Out of reach or of no interest here: realm-core's storage, sync protocol and query
  language, Lua's virtual machine (a listener runs on the `lua_State` of the coroutine that
  added it, `realm_notifications.cpp` 40), HTTP headers and bodies, formatting of
  messages, build files, examples.
