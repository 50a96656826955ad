---------------------------- MODULE RealmHandles ----------------------------
(***************************************************************************)
(* Who releases the native resources of one realm, and when.  Every        *)
(* results, object, list, set, dictionary and notification token is a Lua  *)
(* userdata that owns one native pointer.  Realm keeps them in the table   *)
(* _childHandles, whose values are weak (init.lua:99); a pointer goes when *)
(* the userdata is finalized, or when Realm:close() or Realm.__gc walks    *)
(* the table with ipairs.  The collector runs between any two steps.       *)
(***************************************************************************)
EXTENDS Naturals, FiniteSets

CONSTANT MaxHandles     \* bound: how many userdata are ever created

ASSUME HandlesAssumption == MaxHandles \in Nat

Handle == 1 .. MaxHandles      \* numbered in the order of their creation
Nil    == 0

VARIABLES
  next,         \* the next handle to be created
  kind,         \* per handle: "unused", "data" (has a Lua wrapper) or "token"
  target,       \* per token: the data handle whose wrapper its listener captures
  ptr,          \* per handle: the native pointer, "live" or "null"
  heap,         \* per handle: "unused", "alive", "doomed" (condemned by the
                \* collector, __gc to come) or "finalized"
  child,        \* _childHandles: per slot, a handle or Nil
  held,         \* the handles the program still refers to
  realmHeld,    \* the program refers to the realm
  realmPtr,     \* the native realm: "live" or "null"
  realmHeap,    \* the realm's table: "alive", "doomed" or "finalized"
  closed,       \* the program has called Realm:close()
  releases      \* history: per handle, how often a native pointer was released

handleVars == <<next, kind, target>>
realmVars  == <<realmHeld, realmPtr, realmHeap, closed>>
vars == <<handleVars, ptr, heap, child, held, realmVars, releases>>

Init == /\ next = 1
        /\ kind = [h \in Handle |-> "unused"]
        /\ target = [h \in Handle |-> Nil]
        /\ ptr = [h \in Handle |-> "null"]
        /\ heap = [h \in Handle |-> "unused"]
        /\ child = [i \in Handle |-> Nil]
        /\ held = {}
        /\ realmHeld = TRUE
        /\ realmPtr = "live"
        /\ realmHeap = "alive"
        /\ closed = FALSE
        /\ releases = [h \in Handle |-> 0]

-----------------------------------------------------------------------------
(* What is reachable                                                       *)

\* Tokens whose native callback exists: their listener is in the registry.
Listening == {k \in Handle : kind[k] = "token" /\ ptr[k] = "live"}

\* Mutated: a listener that does not capture the object it was added to.
UncapturedRoots == held

\* Mutated: a listener that captures its token as well.
SelfCapturedRoots == held \cup Listening \cup {target[k] : k \in Listening}

\* Handles the collector can reach: what the program refers to, and what a
\* listener in the registry captures (its `self`, with its _handle).
Roots == held \cup {target[k] : k \in Listening}

Garbage == {h \in Handle : heap[h] = "alive"} \ Roots

\* Mutated: a wrapper that does not keep its realm alive.
RealmOnlyIfHeld == realmHeld

\* The realm is reached directly or through the _realm field of a wrapper.
RealmReachable == realmHeld \/ \E h \in Roots : kind[h] = "data"

-----------------------------------------------------------------------------
(* _childHandles                                                           *)

\* #t is any border of a table with holes.
Borders == {b \in 0 .. MaxHandles - 1 : /\ b = 0 \/ child[b] # Nil
                                        /\ child[b + 1] = Nil}

\* Mutated: a count of the entries for a border: it moves when one is cleared.
InsertAtCount(h) ==
  child' = [child EXCEPT ![Cardinality({i \in Handle : child[i] # Nil}) + 1] = h]

\* table.insert(realm._childHandles, h)
Insert(h) == \E b \in Borders : child' = [child EXCEPT ![b + 1] = h]

\* ipairs(self._childHandles) stops at the first nil.
Visited == {child[i] : i \in {j \in Handle : \A k \in 1 .. j : child[k] # Nil}}

\* Mutated: lib_realm_release without the reset of the pointer.
ReleaseWithoutReset(S) ==
  /\ releases' = [h \in Handle |-> IF h \in S /\ ptr[h] = "live"
                                     THEN releases[h] + 1 ELSE releases[h]]
  /\ UNCHANGED ptr

\* native.realm_release on each handle of S; releasing null does nothing.
Release(S) ==
  /\ ptr' = [h \in Handle |-> IF h \in S THEN "null" ELSE ptr[h]]
  /\ releases' = [h \in Handle |-> IF h \in S /\ ptr[h] = "live"
                                     THEN releases[h] + 1 ELSE releases[h]]

-----------------------------------------------------------------------------
(* The program                                                             *)

\* The program can get at an open realm and has not closed it.
CanUse == ~closed /\ (realmHeld \/ \E h \in held : kind[h] = "data")

\* The userdata made next, of kind k, on p.
Create(k, p) == /\ next \in Handle
                /\ next' = next + 1
                /\ kind' = [kind EXCEPT ![next] = k]
                /\ ptr' = [ptr EXCEPT ![next] = p]
                /\ heap' = [heap EXCEPT ![next] = "alive"]

\* realm:objects, results[i], filter, create, a property that is an object or
\* a collection: a wrapper, its handle tracked.  An index out of range gives
\* a wrapper whose native pointer is null (realm_native_lib.cpp:283).
NewData == /\ CanUse
           /\ \E p \in {"live", "null"} : Create("data", p)
           /\ Insert(next)
           /\ held' = held \cup {next}
           /\ UNCHANGED <<target, realmVars, releases>>

\* addListener on a wrapper: the token is returned and tracked.
AddListener(d) == /\ CanUse
                  /\ d \in held /\ kind[d] = "data" /\ ptr[d] = "live"
                  /\ Create("token", "live")
                  /\ target' = [target EXCEPT ![next] = d]
                  /\ Insert(next)
                  /\ held' = held \cup {next}
                  /\ UNCHANGED <<realmVars, releases>>

\* The native call fails: the token's userdata is left with a null pointer,
\* the error leaves addListener before table.insert.
AddListenerFails(d) == /\ CanUse
                       /\ d \in held /\ kind[d] = "data" /\ ptr[d] = "live"
                       /\ Create("token", "null")
                       /\ UNCHANGED <<target, child, held, realmVars, releases>>

\* The program forgets a wrapper, a token or the realm.
Drop(h) == /\ h \in held
           /\ held' = held \ {h}
           /\ UNCHANGED <<handleVars, ptr, heap, child, realmVars, releases>>

DropRealm == /\ realmHeld
             /\ realmHeld' = FALSE
             /\ UNCHANGED <<handleVars, ptr, heap, child, held,
                            realmPtr, realmHeap, closed, releases>>

\* A notification: the listener gets its `self`, and may keep it.
Notify(k) == /\ k \in Listening
             /\ held' = held \cup {target[k]}
             /\ UNCHANGED <<handleVars, ptr, heap, child, realmVars, releases>>

\* Mutated: close() that releases the realm and forgets what was read from it.
CloseRealmOnly == /\ realmHeld
                  /\ realmPtr' = "null"
                  /\ closed' = TRUE
                  /\ UNCHANGED <<handleVars, ptr, heap, child, held,
                                 realmHeld, realmHeap, releases>>

\* Realm:close() called by the program, any number of times.
Close == /\ realmHeld
         /\ Release(Visited)
         /\ realmPtr' = "null"
         /\ closed' = TRUE
         /\ UNCHANGED <<handleVars, heap, child, held, realmHeld, realmHeap>>

-----------------------------------------------------------------------------
(* The collector                                                           *)

\* The atomic phase of a cycle that condemns the handles D and, if r, the
\* realm.  Garbage made during the cycle may survive it, so D is any subset.
\* The weak table loses the condemned handles, unless the table is condemned
\* with them: then it is resurrected for Realm.__gc with its entries.
Condemn(D, r) == /\ D \subseteq Garbage
                 /\ r => /\ realmHeap = "alive" /\ ~RealmReachable
                         /\ {h \in Garbage : kind[h] = "data"} \subseteq D
                 /\ D # {} \/ r
                 /\ heap' = [h \in Handle |-> IF h \in D THEN "doomed" ELSE heap[h]]
                 /\ realmHeap' = IF r THEN "doomed" ELSE realmHeap
                 /\ child' = IF r THEN child
                             ELSE [i \in Handle |-> IF child[i] \in D THEN Nil ELSE child[i]]
                 /\ UNCHANGED <<handleVars, ptr, held, realmHeld, realmPtr, closed, releases>>

\* A whole cycle in which the program does nothing.
FullCycle == Condemn(Garbage, realmHeap = "alive" /\ ~RealmReachable)

\* Mutated: a handle metatable without __gc.
FinalizeWithoutRelease(h) == /\ heap[h] = "doomed"
                             /\ heap' = [heap EXCEPT ![h] = "finalized"]
                             /\ UNCHANGED <<handleVars, ptr, child, held, realmVars, releases>>

\* __gc of a handle is lib_realm_release.
Finalize(h) == /\ heap[h] = "doomed"
               /\ heap' = [heap EXCEPT ![h] = "finalized"]
               /\ Release({h})
               /\ UNCHANGED <<handleVars, child, held, realmVars>>

\* Realm.__gc calls close().  Finalizers run in the reverse order of creation
\* within a cycle, and cycle by cycle: the handles come before their realm.
FinalizeRealm == /\ realmHeap = "doomed"
                 /\ \A h \in Handle : heap[h] # "doomed"
                 /\ realmHeap' = "finalized"
                 /\ Release(Visited)
                 /\ realmPtr' = "null"
                 /\ UNCHANGED <<handleVars, heap, child, held, realmHeld, closed>>

-----------------------------------------------------------------------------
Program == \/ NewData \/ DropRealm \/ Close
           \/ \E h \in Handle : AddListener(h) \/ AddListenerFails(h) \/ Drop(h) \/ Notify(h)

Collector == \/ \E D \in SUBSET Handle, r \in BOOLEAN : Condemn(D, r)
             \/ \E h \in Handle : Finalize(h)
             \/ FinalizeRealm

Finished == realmHeap = "finalized" /\ UNCHANGED vars

Next == Program \/ Collector \/ Finished

\* The collector keeps running; the program owes nothing.
Fairness == /\ WF_vars(FullCycle)
            /\ \A h \in Handle : WF_vars(Finalize(h))
            /\ WF_vars(FinalizeRealm)

Spec == Init /\ [][Next]_vars /\ Fairness

-----------------------------------------------------------------------------
(* Properties                                                              *)

\* The variables' types; no native pointer is released twice, by whatever
\* mix of close(), Realm.__gc and the handle's own __gc.
TypeOK == /\ next \in 1 .. MaxHandles + 1
          /\ kind \in [Handle -> {"unused", "data", "token"}]
          /\ target \in [Handle -> Handle \cup {Nil}]
          /\ ptr \in [Handle -> {"live", "null"}]
          /\ heap \in [Handle -> {"unused", "alive", "doomed", "finalized"}]
          /\ child \in [Handle -> Handle \cup {Nil}]
          /\ held \in SUBSET Handle
          /\ realmHeld \in BOOLEAN
          /\ realmPtr \in {"live", "null"}
          /\ realmHeap \in {"alive", "doomed", "finalized"}
          /\ closed \in BOOLEAN
          /\ releases \in [Handle -> 0 .. 1]

\* Native memory is neither leaked nor handed out after its release: a handle
\* that is finalized has been released, and one the program refers to or a
\* listener captures has not been finalized.
NothingLeaks == \A h \in Handle : /\ heap[h] = "finalized" => ptr[h] = "null"
                                  /\ h \in Roots => heap[h] = "alive"

\* table.insert into a table the collector punches holes in never overwrites
\* an entry: while the realm lives, every handle with a native pointer that is
\* not condemned is in exactly one slot, and no slot holds a dead handle.
TrackedOnce ==
  realmHeap = "alive" =>
    /\ \A h \in Handle : heap[h] = "alive" /\ ptr[h] = "live"
                           => \E i \in Handle : child[i] = h
    /\ \A i, j \in Handle : child[i] # Nil /\ child[i] = child[j] => i = j
    /\ \A i \in Handle : child[i] # Nil => heap[child[i]] = "alive"

\* A listener that can still be called has a `self` that is not condemned, in
\* a realm that is not: the registry keeps the closure, it keeps the wrapper,
\* the wrapper keeps the realm.
ListenerIsWhole == \A k \in Listening : /\ heap[target[k]] = "alive"
                                        /\ realmHeap = "alive"

\* Unless the program closes it, the native realm goes only when the program
\* has let go of it and no wrapper read from it is left.
RealmOutlivesItsHandles ==
  realmPtr = "null" /\ ~closed
    => ~realmHeld /\ \A h \in Handle : kind[h] = "data" => heap[h] # "alive"

\* close() releases all of the realm's handles when the table has no hole: no
\* entry after the first nil.
CloseCompleteWithoutHoles ==
  [][(closed' /\ ~closed /\ \A i \in Handle : child[i] # Nil => child[i] \in Visited)
       => \A h \in Handle : heap[h] = "alive" => ptr'[h] = "null"]_vars

\* What the program lets go of for good is released in the end, listeners
\* and the objects they capture included.
ReleasedInTheEnd ==
  <>[](~realmHeld /\ held = {})
    => <>(realmPtr = "null" /\ \A h \in Handle : ptr[h] = "null")

\* "Explicitly close this realm and its associated userdata (release native
\* resources)": after close() no userdata of the realm owns anything.
CloseReleasesAll == closed => \A h \in Handle : heap[h] = "alive" => ptr[h] = "null"

\* What the invariants above rest on, inductive together with them.
FreshInv == \A h \in Handle :
  /\ h >= next <=> heap[h] = "unused"
  /\ h >= next <=> kind[h] = "unused"
  /\ h >= next => ptr[h] = "null" /\ h \notin held /\ releases[h] = 0
  /\ \A i \in Handle : child[i] = h => h < next
PtrInv   == \A h \in Handle : ptr[h] = "live" => releases[h] = 0
TargetInv == \A k \in Listening : target[k] \in Handle /\ kind[target[k]] = "data"
RealmInv == /\ realmHeap # "alive" => /\ ~realmHeld
                                      /\ \A h \in Handle : kind[h] = "data" => heap[h] # "alive"
            /\ realmPtr = "null" => closed \/ realmHeap = "finalized"
IndInv   == /\ TypeOK /\ FreshInv /\ PtrInv /\ TargetInv /\ RealmInv
            /\ NothingLeaks /\ TrackedOnce
=============================================================================
