------------------------- MODULE RealmHandlesProofs -------------------------
(***************************************************************************)
(* Proofs about the handles of a realm, for any number of them: the        *)
(* collector may run between any two steps and condemn any set of garbage. *)
(***************************************************************************)
EXTENDS RealmHandles, TLAPS

LEMMA InitIndInv == Init => IndInv
<1> SUFFICES ASSUME Init PROVE IndInv
  OBVIOUS
<1> USE HandlesAssumption DEF Init, Handle, Nil
<1>1. TypeOK
  <2>1. next \in 1 .. MaxHandles + 1
    OBVIOUS
  <2>2. kind \in [Handle -> {"unused", "data", "token"}]
    OBVIOUS
  <2>3. target \in [Handle -> Handle \cup {Nil}] /\ child \in [Handle -> Handle \cup {Nil}]
    OBVIOUS
  <2>4. ptr \in [Handle -> {"live", "null"}]
    OBVIOUS
  <2>5. heap \in [Handle -> {"unused", "alive", "doomed", "finalized"}]
    OBVIOUS
  <2>6. releases \in [Handle -> 0 .. 1]
    OBVIOUS
  <2>7. held \in SUBSET Handle /\ realmHeld \in BOOLEAN /\ closed \in BOOLEAN
    OBVIOUS
  <2>8. realmPtr \in {"live", "null"} /\ realmHeap \in {"alive", "doomed", "finalized"}
    OBVIOUS
  <2> QED BY <2>1, <2>2, <2>3, <2>4, <2>5, <2>6, <2>7, <2>8 DEF TypeOK
<1>2. FreshInv
  BY DEF FreshInv
<1>3. PtrInv /\ TargetInv
  BY DEF PtrInv, TargetInv, Listening
<1>4. RealmInv
  BY DEF RealmInv
<1>5. NothingLeaks /\ TrackedOnce
  BY DEF NothingLeaks, TrackedOnce, Roots, Listening
<1> QED BY <1>1, <1>2, <1>3, <1>4, <1>5 DEF IndInv

-----------------------------------------------------------------------------
(* Lemmas about the helpers                                                *)

\* table.insert into a hole keeps every other entry.
LEMMA InsertKeeps ==
  ASSUME TypeOK, NEW h \in Handle, Insert(h)
  PROVE  /\ child' \in [Handle -> Handle \cup {Nil}]
         /\ \E i \in Handle : /\ child[i] = Nil
                              /\ child' = [child EXCEPT ![i] = h]
<1>1. PICK b \in Borders : child' = [child EXCEPT ![b + 1] = h]
  BY DEF Insert
<1>2. b + 1 \in Handle /\ child[b + 1] = Nil
  BY HandlesAssumption DEF Borders, Handle
<1> QED BY <1>1, <1>2 DEF TypeOK

\* What a release does to the pointers and to their count of releases.
LEMMA ReleaseKeeps ==
  ASSUME TypeOK, PtrInv, NEW S, Release(S)
  PROVE  /\ ptr' \in [Handle -> {"live", "null"}]
         /\ releases' \in [Handle -> 0 .. 1]
         /\ PtrInv'
         /\ \A h \in Handle : ptr'[h] = "live" => ptr[h] = "live" /\ h \notin S
<1>1. /\ ptr' \in [Handle -> {"live", "null"}]
      /\ \A h \in Handle : ptr'[h] = IF h \in S THEN "null" ELSE ptr[h]
  BY DEF Release, TypeOK
<1>2. \A h \in Handle : releases'[h] = IF h \in S /\ ptr[h] = "live"
                                         THEN releases[h] + 1 ELSE releases[h]
  BY DEF Release
<1>3. ASSUME NEW h \in Handle
      PROVE  releases'[h] \in 0 .. 1 /\ (ptr'[h] = "live" => releases'[h] = 0)
  BY <1>1, <1>2 DEF TypeOK, PtrInv
<1>4. releases' \in [Handle -> 0 .. 1]
  BY <1>3 DEF Release
<1> QED BY <1>1, <1>3, <1>4 DEF PtrInv

\* Nothing is used or listened to through a realm that is condemned.
LEMMA CondemnedIsQuiet ==
  ASSUME IndInv, realmHeap # "alive"
  PROVE  ~CanUse /\ ~realmHeld /\ Listening = {}
<1>1. ~realmHeld /\ \A h \in Handle : kind[h] = "data" => heap[h] # "alive"
  BY DEF IndInv, RealmInv
<1>2. \A h \in held : kind[h] # "data"
  BY <1>1 DEF IndInv, NothingLeaks, Roots, TypeOK
<1>3. ASSUME NEW k \in Listening  PROVE FALSE
  <2>1. target[k] \in Roots /\ target[k] \in Handle /\ kind[target[k]] = "data"
    BY DEF Roots, IndInv, TargetInv
  <2> QED BY <1>1, <2>1 DEF IndInv, NothingLeaks
<1> QED BY <1>1, <1>2, <1>3 DEF CanUse
-----------------------------------------------------------------------------
(* The program's steps                                                     *)

\* A new userdata that is tracked and handed to the program.
LEMMA CreateTracked ==
  ASSUME IndInv, CanUse, NEW k \in {"data", "token"}, NEW p \in {"live", "null"},
         Create(k, p), Insert(next), held' = held \cup {next},
         target' \in [Handle -> Handle \cup {Nil}], UNCHANGED <<realmVars, releases>>
  PROVE  TypeOK' /\ FreshInv' /\ PtrInv' /\ RealmInv' /\ TrackedOnce'
<1> USE DEF IndInv, realmVars
<1>0. next \in Handle /\ Handle \subseteq Nat /\ Nil \notin Handle /\ MaxHandles \in Nat
  BY HandlesAssumption DEF Create, Handle, Nil
<1>1. /\ next' = next + 1
      /\ kind' = [kind EXCEPT ![next] = k]
      /\ ptr' = [ptr EXCEPT ![next] = p]
      /\ heap' = [heap EXCEPT ![next] = "alive"]
  BY DEF Create
<1>2. /\ child' \in [Handle -> Handle \cup {Nil}]
      /\ \E i \in Handle : child[i] = Nil /\ child' = [child EXCEPT ![i] = next]
  BY <1>0, InsertKeeps
<1>3. PICK slot \in Handle : child[slot] = Nil /\ child' = [child EXCEPT ![slot] = next]
  BY <1>2
<1>4. TypeOK'
  BY <1>0, <1>1, <1>2 DEF TypeOK, Handle
<1>5. FreshInv'
  <2> SUFFICES ASSUME NEW h \in Handle
               PROVE  /\ h >= next' <=> heap'[h] = "unused"
                      /\ h >= next' <=> kind'[h] = "unused"
                      /\ h >= next' => ptr'[h] = "null" /\ h \notin held' /\ releases'[h] = 0
                      /\ \A i \in Handle : child'[i] = h => h < next'
    BY DEF FreshInv
  <2>1. CASE h = next
    BY <1>0, <1>1, <2>1 DEF TypeOK
  <2>2. CASE h # next
    <3>1. heap'[h] = heap[h] /\ kind'[h] = kind[h] /\ ptr'[h] = ptr[h] /\ (h >= next' <=> h >= next)
      BY <1>0, <1>1, <2>2 DEF TypeOK
    <3>2. \A i \in Handle : child'[i] = h => child[i] = h
      BY <1>3, <2>2 DEF TypeOK
    <3> QED BY <1>0, <1>1, <2>2, <3>1, <3>2 DEF FreshInv
  <2> QED BY <2>1, <2>2
<1>6. PtrInv'
  <2>1. releases[next] = 0
    BY <1>0 DEF FreshInv
  <2> QED BY <1>0, <1>1, <2>1 DEF PtrInv, TypeOK
<1>7. realmHeap = "alive"
  BY CondemnedIsQuiet
<1>8. RealmInv'
  BY <1>7 DEF RealmInv
<1>9. TrackedOnce'
  <2>1. \A i \in Handle : child[i] # next
    BY <1>0 DEF FreshInv
  <2>2. ASSUME NEW h \in Handle, heap'[h] = "alive", ptr'[h] = "live"
        PROVE  \E i \in Handle : child'[i] = h
    <3>1. CASE h = next
      BY <1>3, <3>1 DEF TypeOK
    <3>2. CASE h # next
      <4>1. PICK i \in Handle : child[i] = h
        BY <1>1, <1>7, <2>2, <3>2 DEF TrackedOnce, TypeOK
      <4>2. child'[i] = h
        BY <1>0, <1>3, <4>1 DEF TypeOK
      <4> QED BY <4>2
    <3> QED BY <3>1, <3>2
  <2>3. ASSUME NEW i \in Handle, NEW j \in Handle, child'[i] # Nil, child'[i] = child'[j]
        PROVE  i = j
    BY <1>0, <1>3, <1>7, <2>1, <2>3 DEF TrackedOnce, TypeOK
  <2>4. ASSUME NEW i \in Handle, child'[i] # Nil
        PROVE  heap'[child'[i]] = "alive"
    <3>1. child'[i] \in Handle
      BY <1>2, <2>4
    <3> QED BY <1>0, <1>1, <1>3, <1>7, <2>4, <3>1 DEF TrackedOnce, TypeOK
  <2> QED BY <2>2, <2>3, <2>4 DEF TrackedOnce
<1> QED BY <1>4, <1>5, <1>6, <1>8, <1>9

LEMMA NewDataIndInv == ASSUME IndInv, NewData PROVE IndInv'
<1>1. PICK p \in {"live", "null"} : Create("data", p)
  BY DEF NewData
<1>2. /\ CanUse /\ Insert(next) /\ held' = held \cup {next} /\ target' = target
      /\ UNCHANGED <<realmVars, releases>>
  BY DEF NewData
<1>3. TypeOK' /\ FreshInv' /\ PtrInv' /\ RealmInv' /\ TrackedOnce'
  BY <1>1, <1>2, CreateTracked DEF IndInv, TypeOK
<1>4. /\ next \in Handle /\ kind[next] = "unused" /\ heap[next] = "unused"
      /\ kind' = [kind EXCEPT ![next] = "data"]
      /\ ptr' = [ptr EXCEPT ![next] = p]
      /\ heap' = [heap EXCEPT ![next] = "alive"]
  BY <1>1, HandlesAssumption DEF Create, IndInv, FreshInv, Handle
<1>5. Listening' = Listening
  BY <1>4 DEF Listening, IndInv, TypeOK
<1>6. TargetInv'
  <2> SUFFICES ASSUME NEW k \in Listening  PROVE target[k] \in Handle /\ kind'[target[k]] = "data"
    BY <1>2, <1>5 DEF TargetInv
  <2>1. target[k] \in Handle /\ kind[target[k]] = "data"
    BY DEF IndInv, TargetInv
  <2> QED BY <1>4, <2>1 DEF IndInv, TypeOK
<1>7. NothingLeaks'
  <2> SUFFICES ASSUME NEW h \in Handle
               PROVE  /\ heap'[h] = "finalized" => ptr'[h] = "null"
                      /\ h \in Roots' => heap'[h] = "alive"
    BY DEF NothingLeaks
  <2>1. Roots' = Roots \cup {next}
    BY <1>2, <1>5 DEF Roots
  <2> QED BY <1>4, <2>1 DEF IndInv, NothingLeaks, TypeOK
<1> QED BY <1>3, <1>6, <1>7 DEF IndInv

LEMMA AddListenerIndInv ==
  ASSUME IndInv, NEW d \in Handle, AddListener(d) PROVE IndInv'
<1>1. /\ CanUse /\ Create("token", "live") /\ Insert(next) /\ held' = held \cup {next}
      /\ target' = [target EXCEPT ![next] = d] /\ UNCHANGED <<realmVars, releases>>
      /\ d \in held /\ kind[d] = "data"
  BY DEF AddListener
<1>2. /\ next \in Handle /\ kind[next] = "unused" /\ heap[next] = "unused"
      /\ kind' = [kind EXCEPT ![next] = "token"]
      /\ ptr' = [ptr EXCEPT ![next] = "live"]
      /\ heap' = [heap EXCEPT ![next] = "alive"]
  BY <1>1, HandlesAssumption DEF Create, IndInv, FreshInv, Handle
<1>3. TypeOK' /\ FreshInv' /\ PtrInv' /\ RealmInv' /\ TrackedOnce'
  <2>1. target' \in [Handle -> Handle \cup {Nil}]
    BY <1>1 DEF IndInv, TypeOK
  <2> QED BY <1>1, <2>1, CreateTracked
<1>4. Listening' = Listening \cup {next}
  BY <1>2 DEF Listening, IndInv, TypeOK
<1>5. next \notin Listening /\ d # next
  BY <1>1, <1>2 DEF Listening
<1>6. target'[next] = d /\ \A k \in Listening : target'[k] = target[k]
  BY <1>1, <1>2, <1>5 DEF Listening, IndInv, TypeOK
<1>7. TargetInv'
  <2> SUFFICES ASSUME NEW k \in Listening'  PROVE target'[k] \in Handle /\ kind'[target'[k]] = "data"
    BY DEF TargetInv
  <2>1. CASE k = next
    BY <1>1, <1>2, <1>5, <1>6, <2>1 DEF IndInv, TypeOK
  <2>2. CASE k # next
    <3>1. target'[k] = target[k] /\ target[k] \in Handle /\ kind[target[k]] = "data"
      BY <1>4, <1>6, <2>2 DEF IndInv, TargetInv
    <3> QED BY <1>2, <3>1 DEF IndInv, TypeOK
  <2> QED BY <2>1, <2>2
<1>8. NothingLeaks'
  <2> SUFFICES ASSUME NEW h \in Handle
               PROVE  /\ heap'[h] = "finalized" => ptr'[h] = "null"
                      /\ h \in Roots' => heap'[h] = "alive"
    BY DEF NothingLeaks
  <2>1. Roots' \subseteq Roots \cup {next}
    BY <1>1, <1>4, <1>6 DEF Roots
  <2> QED BY <1>2, <2>1 DEF IndInv, NothingLeaks, TypeOK
<1> QED BY <1>3, <1>7, <1>8 DEF IndInv
\* The token of a failed addListener is garbage with nothing to release.
LEMMA AddListenerFailsIndInv ==
  ASSUME IndInv, NEW d \in Handle, AddListenerFails(d) PROVE IndInv'
<1> USE DEF IndInv, realmVars
<1>1. /\ next \in Handle /\ kind[next] = "unused" /\ heap[next] = "unused"
      /\ next' = next + 1 /\ next \in Nat
      /\ kind' = [kind EXCEPT ![next] = "token"]
      /\ ptr' = [ptr EXCEPT ![next] = "null"]
      /\ heap' = [heap EXCEPT ![next] = "alive"]
      /\ UNCHANGED <<target, child, held, realmVars, releases>>
      /\ \A i \in Handle : child[i] # next
      /\ next \notin held
  BY HandlesAssumption DEF AddListenerFails, Create, FreshInv, Handle
<1>2. TypeOK'
  BY <1>1, HandlesAssumption DEF TypeOK, Handle
<1>3. Listening' = Listening
  BY <1>1 DEF Listening, TypeOK, FreshInv
<1>4. FreshInv'
  <2> SUFFICES ASSUME NEW h \in Handle
               PROVE  /\ h >= next' <=> heap'[h] = "unused"
                      /\ h >= next' <=> kind'[h] = "unused"
                      /\ h >= next' => ptr'[h] = "null" /\ h \notin held' /\ releases'[h] = 0
                      /\ \A i \in Handle : child'[i] = h => h < next'
    BY DEF FreshInv
  <2>0. h \in Nat
    BY DEF Handle
  <2>1. CASE h = next
    BY <1>1, <2>0, <2>1 DEF TypeOK
  <2>2. CASE h # next
    <3>1. heap'[h] = heap[h] /\ kind'[h] = kind[h] /\ ptr'[h] = ptr[h] /\ (h >= next' <=> h >= next)
      BY <1>1, <2>0, <2>2 DEF TypeOK
    <3> QED BY <1>1, <2>0, <3>1 DEF FreshInv
  <2> QED BY <2>1, <2>2
<1>5. PtrInv'
  BY <1>1 DEF PtrInv, TypeOK
<1>6. TargetInv'
  BY <1>1, <1>3 DEF TargetInv, TypeOK
<1>7. RealmInv'
  BY <1>1 DEF RealmInv, TypeOK
<1>8. NothingLeaks'
  <2>1. Roots' = Roots
    BY <1>1, <1>3 DEF Roots
  <2> QED BY <1>1, <2>1 DEF NothingLeaks, TypeOK
<1>9. TrackedOnce'
  <2> SUFFICES ASSUME realmHeap = "alive"
      PROVE /\ \A h \in Handle : heap'[h] = "alive" /\ ptr'[h] = "live"
                                    => \E i \in Handle : child[i] = h
            /\ \A i, j \in Handle : child[i] # Nil /\ child[i] = child[j] => i = j
            /\ \A i \in Handle : child[i] # Nil => heap'[child[i]] = "alive"
    BY <1>1 DEF TrackedOnce
  <2>1. \A h \in Handle : h # next => heap'[h] = heap[h] /\ ptr'[h] = ptr[h]
    BY <1>1 DEF TypeOK
  <2>2. \A i \in Handle : child[i] # Nil => child[i] \in Handle
    BY DEF TypeOK
  <2> QED BY <1>1, <2>1, <2>2 DEF TrackedOnce, TypeOK
<1> QED BY <1>2, <1>4, <1>5, <1>6, <1>7, <1>8, <1>9

\* Letting go of a handle or of the realm, and keeping a listener's `self`.
LEMMA ReferencesIndInv ==
  ASSUME IndInv,
         DropRealm \/ \E h \in Handle : Drop(h) \/ Notify(h)
  PROVE  IndInv'
<1> USE DEF IndInv, handleVars, realmVars
<1>1. UNCHANGED <<handleVars, ptr, heap, child, realmPtr, realmHeap, closed, releases>>
  BY DEF DropRealm, Drop, Notify
<1>2. /\ held' \subseteq held \cup {target[k] : k \in Listening}
      /\ realmHeld' \in BOOLEAN /\ (realmHeld' => realmHeld)
  <2>1. CASE DropRealm
    BY <2>1 DEF DropRealm
  <2>2. ASSUME NEW h \in Handle, Drop(h) \/ Notify(h)
        PROVE  realmHeld' = realmHeld /\ held' \subseteq held \cup {target[k] : k \in Listening}
    BY <2>2 DEF Drop, Notify
  <2>3. realmHeld \in BOOLEAN
    BY DEF TypeOK
  <2> QED BY <2>1, <2>2, <2>3
<1>3. Listening' = Listening /\ \A k \in Listening : target[k] \in Handle
  BY <1>1 DEF Listening, TargetInv
<1>4. held' \in SUBSET Handle /\ Roots' \subseteq Roots
  BY <1>1, <1>2, <1>3 DEF Roots, TypeOK
<1>5. TypeOK'
  BY <1>1, <1>2, <1>4 DEF TypeOK
<1>6. \A h \in held' : heap[h] = "alive"
  BY <1>2, <1>3 DEF NothingLeaks, Roots, TypeOK
<1>7. FreshInv'
  BY <1>1, <1>4, <1>6 DEF FreshInv
<1>8. PtrInv' /\ TargetInv' /\ RealmInv' /\ TrackedOnce'
  BY <1>1, <1>2, <1>3 DEF PtrInv, TargetInv, RealmInv, TrackedOnce
<1>9. NothingLeaks'
  BY <1>1, <1>4 DEF NothingLeaks
<1> QED BY <1>5, <1>7, <1>8, <1>9

\* Releasing any handles keeps what the rest of the invariant says.
LEMMA ReleaseIndInv ==
  ASSUME IndInv, NEW S, Release(S), UNCHANGED <<handleVars, child, held, realmHeld>>,
         heap' \in [Handle -> {"unused", "alive", "doomed", "finalized"}],
         \A h \in Handle : heap'[h] # heap[h] => heap[h] = "doomed" /\ heap'[h] = "finalized" /\ h \in S
  PROVE  /\ ptr' \in [Handle -> {"live", "null"}] /\ releases' \in [Handle -> 0 .. 1]
         /\ FreshInv' /\ PtrInv' /\ TargetInv' /\ NothingLeaks'
         /\ realmHeap' = "alive" /\ realmHeap = "alive" => TrackedOnce'
<1> USE DEF IndInv, handleVars
<1>1. /\ ptr' \in [Handle -> {"live", "null"}] /\ releases' \in [Handle -> 0 .. 1] /\ PtrInv'
      /\ \A h \in Handle : ptr'[h] = "live" => ptr[h] = "live" /\ h \notin S
  BY ReleaseKeeps
<1>2. Listening' \subseteq Listening
  BY <1>1 DEF Listening
<1>3. TargetInv'
  BY <1>2 DEF TargetInv
<1>4. FreshInv'
  <2> SUFFICES ASSUME NEW h \in Handle
               PROVE  /\ h >= next <=> heap'[h] = "unused"
                      /\ h >= next <=> kind[h] = "unused"
                      /\ h >= next => ptr'[h] = "null" /\ h \notin held /\ releases'[h] = 0
                      /\ \A i \in Handle : child[i] = h => h < next
    BY DEF FreshInv
  <2>1. h >= next => releases'[h] = 0
    BY DEF FreshInv, Release
  <2> QED BY <1>1, <2>1 DEF FreshInv
<1>5. NothingLeaks'
  <2>1. Roots' \subseteq Roots
    BY <1>2 DEF Roots
  <2>2. ASSUME NEW h \in Handle
        PROVE  /\ heap'[h] = "finalized" => ptr'[h] = "null"
               /\ h \in Roots' => heap'[h] = "alive"
    BY <1>1, <2>1 DEF NothingLeaks
  <2> QED BY <2>2 DEF NothingLeaks
<1>6. ASSUME realmHeap = "alive"
      PROVE  TrackedOnce'
  <2>1. \A h \in Handle : heap'[h] = "alive" <=> heap[h] = "alive"
    OBVIOUS
  <2>2. \A i \in Handle : child[i] # Nil => child[i] \in Handle
    BY DEF TypeOK
  <2> QED BY <1>1, <1>6, <2>1, <2>2 DEF TrackedOnce
<1> QED BY <1>1, <1>3, <1>4, <1>5, <1>6

LEMMA CloseIndInv == ASSUME IndInv, Close PROVE IndInv'
<1> USE DEF IndInv, handleVars
<1>1. /\ realmHeld /\ Release(Visited) /\ realmPtr' = "null" /\ closed' = TRUE
      /\ UNCHANGED <<handleVars, heap, child, held, realmHeld, realmHeap>>
  BY DEF Close
<1>2. realmHeap = "alive"
  BY <1>1 DEF RealmInv
<1>3. /\ ptr' \in [Handle -> {"live", "null"}] /\ releases' \in [Handle -> 0 .. 1]
      /\ FreshInv' /\ PtrInv' /\ TargetInv' /\ NothingLeaks' /\ TrackedOnce'
  <2>1. heap' \in [Handle -> {"unused", "alive", "doomed", "finalized"}]
    BY <1>1 DEF TypeOK
  <2> QED BY <1>1, <1>2, <2>1, ReleaseIndInv
<1>4. TypeOK' /\ RealmInv'
  BY <1>1, <1>2, <1>3 DEF TypeOK, RealmInv
<1> QED BY <1>3, <1>4
-----------------------------------------------------------------------------
(* The collector's steps                                                   *)

\* Condemning any garbage leaves the reachable handles and, unless the realm
\* goes with them, a table of the handles that are left.
LEMMA CondemnIndInv ==
  ASSUME IndInv, NEW D \in SUBSET Handle, NEW r \in BOOLEAN, Condemn(D, r)
  PROVE  IndInv'
<1> USE DEF IndInv, handleVars
<1>1. /\ D \subseteq Garbage
      /\ \A h \in Handle : heap'[h] = IF h \in D THEN "doomed" ELSE heap[h]
      /\ heap' \in [Handle -> {"unused", "alive", "doomed", "finalized"}]
      /\ UNCHANGED <<handleVars, ptr, held, realmHeld, realmPtr, closed, releases>>
  BY DEF Condemn, TypeOK
<1>2. \A h \in D : heap[h] = "alive" /\ h \notin Roots
  BY <1>1 DEF Garbage
<1>3. Listening' = Listening /\ Roots' = Roots
  BY <1>1 DEF Listening, Roots
<1>4. /\ child' \in [Handle -> Handle \cup {Nil}]
      /\ \A i \in Handle : child'[i] # Nil => child'[i] = child[i]
  <2>1. CASE r
    BY <2>1 DEF Condemn, TypeOK
  <2>2. CASE ~r
    BY <2>2 DEF Condemn, TypeOK
  <2> QED BY <2>1, <2>2
<1>5. r => ~RealmReachable /\ {h \in Garbage : kind[h] = "data"} \subseteq D
  BY DEF Condemn
<1>6. realmHeap' = IF r THEN "doomed" ELSE realmHeap
  BY DEF Condemn
<1>7. TypeOK'
  BY <1>1, <1>4, <1>6 DEF TypeOK
<1>8. FreshInv'
  <2>1. \A h \in Handle : heap'[h] = "unused" <=> heap[h] = "unused"
    BY <1>1, <1>2
  <2>2. \A i, h \in Handle : child'[i] = h => child[i] = h
    BY <1>4, HandlesAssumption DEF Handle, Nil
  <2> QED BY <1>1, <2>1, <2>2 DEF FreshInv
<1>9. PtrInv' /\ TargetInv'
  BY <1>1, <1>3 DEF PtrInv, TargetInv
<1>10. RealmInv'
  <2>1. ASSUME NEW h \in Handle, kind[h] = "data", realmHeap' # "alive"
        PROVE  heap'[h] # "alive" /\ ~realmHeld
    <3>1. CASE r
      <4>1. ~realmHeld /\ h \notin Roots
        BY <1>5, <2>1, <3>1 DEF RealmReachable
      <4>2. heap[h] = "alive" => h \in D
        BY <1>5, <2>1, <3>1, <4>1 DEF Garbage
      <4> QED BY <1>1, <4>1, <4>2
    <3>2. CASE ~r
      BY <1>1, <1>2, <1>6, <2>1, <3>2 DEF RealmInv
    <3> QED BY <3>1, <3>2
  <2>2. realmHeap' # "alive" => ~realmHeld
    BY <1>5, <1>6 DEF RealmInv, RealmReachable
  <2>3. realmPtr = "null" => closed \/ realmHeap' = "finalized"
    BY <1>6 DEF RealmInv, Condemn
  <2> QED BY <1>1, <2>1, <2>2, <2>3 DEF RealmInv
<1>11. NothingLeaks'
  BY <1>1, <1>2, <1>3 DEF NothingLeaks
<1>12. TrackedOnce'
  <2> SUFFICES ASSUME realmHeap' = "alive"  PROVE TrackedOnce'
    BY DEF TrackedOnce
  <2>1. ~r /\ realmHeap = "alive"
    BY <1>6
  <2>2. \A i \in Handle : child'[i] = IF child[i] \in D THEN Nil ELSE child[i]
    BY <2>1 DEF Condemn
  <2>3. ASSUME NEW h \in Handle, heap'[h] = "alive", ptr'[h] = "live"
        PROVE  \E i \in Handle : child'[i] = h
    <3>1. heap[h] = "alive" /\ ptr[h] = "live" /\ h \notin D
      BY <1>1, <2>3
    <3>2. PICK i \in Handle : child[i] = h
      BY <2>1, <3>1 DEF TrackedOnce
    <3> QED BY <2>2, <3>1, <3>2
  <2>4. ASSUME NEW i \in Handle, NEW j \in Handle, child'[i] # Nil, child'[i] = child'[j]
        PROVE  i = j
    BY <1>4, <2>1, <2>4 DEF TrackedOnce
  <2>5. ASSUME NEW i \in Handle, child'[i] # Nil
        PROVE  heap'[child'[i]] = "alive"
    <3>1. child'[i] = child[i] /\ child[i] \notin D /\ child[i] \in Handle
      BY <2>2, <2>5 DEF TypeOK
    <3> QED BY <1>1, <2>1, <2>5, <3>1 DEF TrackedOnce
  <2> QED BY <2>3, <2>4, <2>5 DEF TrackedOnce
<1> QED BY <1>7, <1>8, <1>9, <1>10, <1>11, <1>12

LEMMA FinalizeIndInv ==
  ASSUME IndInv, NEW h \in Handle, Finalize(h) PROVE IndInv'
<1> USE DEF IndInv, handleVars, realmVars
<1>1. /\ heap[h] = "doomed" /\ heap' = [heap EXCEPT ![h] = "finalized"] /\ Release({h})
      /\ UNCHANGED <<handleVars, child, held, realmVars>>
  BY DEF Finalize
<1>2. heap' \in [Handle -> {"unused", "alive", "doomed", "finalized"}]
  BY <1>1 DEF TypeOK
<1>3. \A g \in Handle : heap'[g] # heap[g] => heap[g] = "doomed" /\ heap'[g] = "finalized" /\ g \in {h}
  BY <1>1 DEF TypeOK
<1>4. /\ ptr' \in [Handle -> {"live", "null"}] /\ releases' \in [Handle -> 0 .. 1]
      /\ FreshInv' /\ PtrInv' /\ TargetInv' /\ NothingLeaks'
      /\ realmHeap' = "alive" /\ realmHeap = "alive" => TrackedOnce'
  BY <1>1, <1>2, <1>3, ReleaseIndInv
<1>5. TypeOK'
  BY <1>1, <1>2, <1>4 DEF TypeOK
<1>6. RealmInv'
  BY <1>1, <1>3 DEF RealmInv
<1>7. TrackedOnce'
  BY <1>1, <1>4 DEF TrackedOnce
<1> QED BY <1>4, <1>5, <1>6, <1>7

LEMMA FinalizeRealmIndInv == ASSUME IndInv, FinalizeRealm PROVE IndInv'
<1> USE DEF IndInv, handleVars
<1>1. /\ realmHeap = "doomed" /\ realmHeap' = "finalized" /\ realmPtr' = "null" /\ Release(Visited)
      /\ UNCHANGED <<handleVars, heap, child, held, realmHeld, closed>>
  BY DEF FinalizeRealm
<1>2. heap' \in [Handle -> {"unused", "alive", "doomed", "finalized"}]
  BY <1>1 DEF TypeOK
<1>3. /\ ptr' \in [Handle -> {"live", "null"}] /\ releases' \in [Handle -> 0 .. 1]
      /\ FreshInv' /\ PtrInv' /\ TargetInv' /\ NothingLeaks'
  BY <1>1, <1>2, ReleaseIndInv
<1>4. TypeOK'
  BY <1>1, <1>3 DEF TypeOK
<1>5. RealmInv' /\ TrackedOnce'
  BY <1>1 DEF RealmInv, TrackedOnce
<1> QED BY <1>3, <1>4, <1>5

-----------------------------------------------------------------------------
LEMMA NextIndInv == ASSUME IndInv, [Next]_vars PROVE IndInv'
<1>1. CASE UNCHANGED vars
  <2>1. /\ UNCHANGED <<next, kind, target, ptr, heap, child, held, realmHeld, realmPtr>>
        /\ UNCHANGED <<realmHeap, closed, releases>>
    BY <1>1 DEF vars, handleVars, realmVars
  <2>2. Listening' = Listening /\ Roots' = Roots
    BY <2>1 DEF Listening, Roots
  <2> QED BY <2>1, <2>2 DEF IndInv, TypeOK, FreshInv, PtrInv, TargetInv, RealmInv,
                            NothingLeaks, TrackedOnce
<1>2. CASE Program
  BY <1>2, NewDataIndInv, AddListenerIndInv, AddListenerFailsIndInv, ReferencesIndInv,
     CloseIndInv DEF Program
<1>3. CASE Collector
  BY <1>3, CondemnIndInv, FinalizeIndInv, FinalizeRealmIndInv DEF Collector
<1> QED BY <1>1, <1>2, <1>3 DEF Next, Finished

LEMMA Inductive == Spec => []IndInv
<1>1. IndInv /\ [Next]_vars => IndInv'
  BY NextIndInv
<1> QED BY <1>1, InitIndInv, PTL DEF Spec

-----------------------------------------------------------------------------
(* Theorems                                                                *)

\* Every variable keeps its type; no native pointer is released twice.
THEOREM TypeCorrect == Spec => []TypeOK
<1>1. IndInv => TypeOK
  BY DEF IndInv
<1> QED BY <1>1, Inductive, PTL

\* A finalized handle has been released, and nothing the program or a
\* listener refers to is ever finalized.
THEOREM NoLeak == Spec => []NothingLeaks
<1>1. IndInv => NothingLeaks
  BY DEF IndInv
<1> QED BY <1>1, Inductive, PTL

\* Inserting at any border of the table the collector empties never
\* overwrites an entry, and the table never holds a dead handle.
THEOREM Tracked == Spec => []TrackedOnce
<1>1. IndInv => TrackedOnce
  BY DEF IndInv
<1> QED BY <1>1, Inductive, PTL

\* A listener that can be called has its `self`, and that its realm.
THEOREM ListenersAreWhole == Spec => []ListenerIsWhole
<1>1. IndInv => ListenerIsWhole
  <2> SUFFICES ASSUME IndInv, NEW k \in Listening
               PROVE  heap[target[k]] = "alive" /\ realmHeap = "alive"
    BY DEF ListenerIsWhole
  <2>1. target[k] \in Roots /\ target[k] \in Handle
    BY DEF Roots, IndInv, TargetInv
  <2> QED BY <2>1, CondemnedIsQuiet DEF IndInv, NothingLeaks
<1> QED BY <1>1, Inductive, PTL

\* The native realm goes by close() or after everything read from it.
THEOREM RealmOutlives == Spec => []RealmOutlivesItsHandles
<1>1. IndInv => RealmOutlivesItsHandles
  BY DEF IndInv, RealmInv, RealmOutlivesItsHandles
<1> QED BY <1>1, Inductive, PTL

\* close() on a table without holes releases every handle of the realm.
THEOREM CloseComplete == Spec => CloseCompleteWithoutHoles
<1>1. IndInv /\ [Next]_vars
        => [(closed' /\ ~closed /\ \A i \in Handle : child[i] # Nil => child[i] \in Visited)
              => \A h \in Handle : heap[h] = "alive" => ptr'[h] = "null"]_vars
  <2> SUFFICES ASSUME IndInv, Next, closed', ~closed,
                      \A i \in Handle : child[i] # Nil => child[i] \in Visited,
                      NEW h \in Handle, heap[h] = "alive"
               PROVE  ptr'[h] = "null"
    OBVIOUS
  <2>1. Close
    BY DEF Next, Program, Collector, Finished, NewData, DropRealm, AddListener, AddListenerFails,
           Drop, Notify, Condemn, Finalize, FinalizeRealm, realmVars, vars
  <2>2. realmHeap = "alive"
    BY <2>1 DEF Close, IndInv, RealmInv
  <2>3. ptr'[h] = IF h \in Visited THEN "null" ELSE ptr[h]
    BY <2>1 DEF Close, Release
  <2>4. CASE ptr[h] = "live"
    <3>1. PICK i \in Handle : child[i] = h
      BY <2>2, <2>4 DEF IndInv, TrackedOnce
    <3>2. h # Nil
      BY HandlesAssumption DEF Handle, Nil
    <3> QED BY <2>3, <3>1, <3>2
  <2>5. CASE ptr[h] = "null"
    BY <2>3, <2>5
  <2> QED BY <2>4, <2>5 DEF IndInv, TypeOK
<1> QED BY <1>1, Inductive, PTL DEF Spec, CloseCompleteWithoutHoles
=============================================================================
