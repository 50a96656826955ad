-------------------------- MODULE RealmWriteProofs --------------------------
(***************************************************************************)
(* Proofs about write transactions for any number of coroutines, threads,  *)
(* instances, keys, properties and calls, whichever of the errors outside  *)
(* the xpcall can happen.                                                  *)
(***************************************************************************)
EXTENDS RealmWrite, TLAPS

-----------------------------------------------------------------------------
(* Versions of the file                                                    *)

LEMMA CellParts ==
  ASSUME NEW c \in Cells
  PROVE  c[1] \in Keys /\ c[2] \in Props \cup {"pk"} /\ c = <<c[1], c[2]>>
  BY DEF Cells

LEMMA PkCell == ASSUME NEW k \in Keys PROVE <<k, "pk">> \in Cells
  BY DEF Cells

\* Setting cells of one object, itself among them, keeps properties with
\* their objects; so does removing an object with all its properties.
LEMMA TouchWellFormed ==
  ASSUME TypeOK, NEW k \in Keys, NEW D \in SUBSET Cells, NEW s \in BOOLEAN,
         \A c \in D : c[1] = k,
         s => Exists(k) \/ <<k, "pk">> \in D,
         ~s => \A c \in Cells : c[1] = k => c \in D,
         Touch(D, s)
  PROVE  WellFormed(working')
<1> USE DEF Touch
<1>1. working' \in [Cells -> Version]
  BY DEF TypeOK, WellFormed, Version
<1>2. ASSUME NEW c \in Cells, working'[c].set  PROVE working'[<<c[1], "pk">>].set
  <2>1. c[1] \in Keys /\ <<c[1], "pk">> \in Cells
    BY CellParts, PkCell
  <2>2. <<c[1], "pk">> \in D => <<c[1], "pk">>[1] = k
    OBVIOUS
  <2>3. CASE c \in D
    <3>1. c[1] = k /\ s
      BY <1>2, <2>3
    <3> QED BY <2>1, <2>3, <3>1 DEF Exists
  <2>4. CASE c \notin D
    <3>1. working[c].set
      BY <1>2, <2>4
    <3>2. working[<<c[1], "pk">>].set
      BY <3>1 DEF TypeOK, WellFormed
    <3>3. <<c[1], "pk">> \in D => s
      BY <2>2, <2>4
    <3> QED BY <2>1, <3>2, <3>3
  <2> QED BY <2>3, <2>4
<1> QED BY <1>1, <1>2 DEF WellFormed

\* A change of the open transaction's copy carries its call.
LEMMA TouchCopyInv ==
  ASSUME TypeOK, CopyInv, NEW D \in SUBSET Cells, NEW s \in BOOLEAN,
         Touch(D, s), UNCHANGED <<store, cur>>
  PROVE  CopyInv'
  BY DEF TypeOK, WellFormed, CopyInv, Touch

-----------------------------------------------------------------------------
(* The inductive invariant                                                 *)

LEMMA InitIndInv == Init => IndInv
<1> SUFFICES ASSUME Init PROVE IndInv
  OBVIOUS
<1> USE DEF Init
<1>1. WellFormed(store) /\ WellFormed(working)
  BY DEF WellFormed, Version
<1>2. /\ cur \in Calls \cup {0} /\ next \in 1 .. MaxWrites + 1
      /\ state \in [Calls -> {"unused", "waiting", "open", "returned", "raised"}]
  BY WriteAssumption DEF Calls
<1>3. caller \in [Calls -> {<<>>} \cup (Fibers \X Instances)]
  OBVIOUS
<1>4. TypeOK
  BY <1>1, <1>2, <1>3 DEF TypeOK
<1>5. CallsInv
  BY DEF CallsInv, Calls
<1>6. RaisedLeavesNothing
  BY DEF RaisedLeavesNothing, Calls
<1> QED BY <1>4, <1>5, <1>6 DEF IndInv, CopyInv, OneCallPerTransaction, LeftOpen

\* What making call number next in state s does to the variables of the calls.
LEMMA CallKeeps ==
  ASSUME IndInv, NEW f \in Fibers, NEW i \in Instances,
         NEW s \in {"waiting", "open", "raised"}, Call(f, i, s)
  PROVE  /\ next \in Calls /\ state[next] = "unused" /\ next' = next + 1
         /\ next' \in 1 .. MaxWrites + 1
         /\ state' \in [Calls -> {"unused", "waiting", "open", "returned", "raised"}]
         /\ caller' \in [Calls -> {<<>>} \cup (Fibers \X Instances)]
         /\ state'[next] = s /\ caller'[next] = <<f, i>>
         /\ \A w \in Calls \ {next} : state'[w] = state[w] /\ caller'[w] = caller[w]
         /\ CallsInv'
<1> USE DEF IndInv, TypeOK, Call
<1>1. next \in Calls /\ next' = next + 1 /\ next' \in 1 .. MaxWrites + 1
  BY WriteAssumption DEF Calls
<1>2. state[next] = "unused"
  BY <1>1 DEF CallsInv, Calls
<1>3. state' \in [Calls -> {"unused", "waiting", "open", "returned", "raised"}]
  OBVIOUS
<1>4. <<f, i>> \in Fibers \X Instances
  OBVIOUS
<1>5. caller' \in [Calls -> {<<>>} \cup (Fibers \X Instances)]
  BY <1>4
<1>6. state'[next] = s /\ caller'[next] = <<f, i>>
  BY <1>1
<1>7. \A w \in Calls \ {next} : state'[w] = state[w] /\ caller'[w] = caller[w]
  OBVIOUS
<1>8. ASSUME NEW w \in Calls  PROVE /\ state'[w] = "unused" <=> w >= next'
                                    /\ state'[w] # "unused" => caller'[w] \in Fibers \X Instances
  <2>1. CASE w = next
    BY <1>1, <1>4, <1>6, <2>1 DEF Calls
  <2>2. CASE w # next
    <3>1. w >= next <=> w >= next + 1
      BY <1>1, <2>2 DEF Calls
    <3> QED BY <1>1, <1>7, <2>2, <3>1 DEF CallsInv
  <2> QED BY <2>1, <2>2
<1> QED BY <1>1, <1>2, <1>3, <1>5, <1>6, <1>7, <1>8 DEF CallsInv

\* Nothing of a call that has not returned is in the file, if the file stays
\* as it is and no call that had returned is something else now.
LEMMA FileKept ==
  ASSUME RaisedLeavesNothing, UNCHANGED store,
         \A w \in Calls : state[w] = "returned" => state'[w] = "returned"
  PROVE  RaisedLeavesNothing'
  BY DEF RaisedLeavesNothing

LEMMA BeginIndInv ==
  ASSUME IndInv, NEW f \in Fibers, NEW i \in Instances, Begin(f, i)
  PROVE  IndInv'
<1>1. Call(f, i, "open") /\ Start(next, i) /\ UNCHANGED <<store, err, failed, leaked>>
  BY DEF Begin
<1>2. writer = NoInstance /\ cur = 0
  BY WriteAssumption DEF Begin, IndInv, TypeOK, OneCallPerTransaction, InstanceOf, Calls, CallsInv
<1> USE CallKeeps, <1>1
<1>3. TypeOK'
  BY DEF IndInv, TypeOK, WellFormed, Start
<1>4. CopyInv'
  BY DEF CopyInv, Start
<1>5. OneCallPerTransaction'
  BY <1>2 DEF IndInv, OneCallPerTransaction, LeftOpen, Start, InstanceOf, Calls
<1>6. RaisedLeavesNothing'
  BY FileKept DEF IndInv
<1> QED BY <1>3, <1>4, <1>5, <1>6 DEF IndInv

LEMMA BeginWaitsIndInv ==
  ASSUME IndInv, NEW f \in Fibers, NEW i \in Instances, BeginWaits(f, i)
  PROVE  IndInv'
<1>1. Call(f, i, "waiting") /\ UNCHANGED <<store, working, writer, cur, err, failed, leaked>>
  BY DEF BeginWaits
<1> USE CallKeeps, <1>1
<1>2. TypeOK'
  BY DEF IndInv, TypeOK, WellFormed
<1>3. CopyInv'
  BY DEF IndInv, CopyInv
<1>4. OneCallPerTransaction'
  BY DEF IndInv, OneCallPerTransaction, LeftOpen, InstanceOf, TypeOK
<1>5. RaisedLeavesNothing'
  BY FileKept DEF IndInv
<1> QED BY <1>2, <1>3, <1>4, <1>5 DEF IndInv

LEMMA BeginRaisesIndInv ==
  ASSUME IndInv, NEW f \in Fibers, NEW i \in Instances, BeginRaises(f, i)
  PROVE  IndInv'
<1>1. /\ Call(f, i, "raised") /\ UNCHANGED <<store, working, writer, cur, leaked>>
      /\ err' = (err \/ InCallback(f))
      /\ failed' = IF InCallback(f) THEN failed \cup {cur} ELSE failed
  BY DEF BeginRaises
<1> USE CallKeeps, <1>1
<1>2. InCallback(f) => cur \in Calls /\ cur # 0
  BY DEF InCallback, IndInv, TypeOK
<1>3. TypeOK'
  BY <1>2 DEF IndInv, TypeOK, WellFormed
<1>4. CopyInv'
  BY DEF IndInv, CopyInv
<1>5. OneCallPerTransaction'
  BY <1>2 DEF IndInv, OneCallPerTransaction, LeftOpen, InstanceOf, TypeOK
<1>6. RaisedLeavesNothing'
  BY FileKept DEF IndInv
<1> QED BY <1>3, <1>4, <1>5, <1>6 DEF IndInv

LEMMA BeginLeaksIndInv ==
  ASSUME IndInv, NEW f \in Fibers, NEW i \in Instances, BeginLeaks(f, i)
  PROVE  IndInv'
<1>1. Call(f, i, "raised") /\ StartRaises(i) /\ writer = NoInstance
  BY DEF BeginLeaks
<1>2. cur = 0
  BY <1>1, WriteAssumption DEF IndInv, TypeOK, OneCallPerTransaction, InstanceOf, Calls, CallsInv
<1> USE CallKeeps, <1>1
<1>3. TypeOK'
  BY DEF IndInv, TypeOK, WellFormed, StartRaises
<1>4. CopyInv'
  BY <1>2 DEF CopyInv, StartRaises
<1>5. OneCallPerTransaction'
  BY <1>2 DEF IndInv, OneCallPerTransaction, LeftOpen, StartRaises, TypeOK
<1>6. RaisedLeavesNothing'
  BY FileKept DEF IndInv, StartRaises
<1> QED BY <1>3, <1>4, <1>5, <1>6 DEF IndInv

LEMMA AcquireIndInv ==
  ASSUME IndInv, NEW w \in Calls, Acquire(w) \/ AcquireLeaks(w)
  PROVE  IndInv'
<1>1. writer = NoInstance /\ state[w] = "waiting" /\ caller[w] \in Fibers \X Instances
  BY DEF Acquire, AcquireLeaks, IndInv, CallsInv
<1>2. cur = 0
  BY <1>1, WriteAssumption DEF IndInv, TypeOK, OneCallPerTransaction, InstanceOf, Calls, CallsInv
<1>3. InstanceOf(w) \in Instances /\ w # 0
  BY <1>1 DEF InstanceOf, Calls
<1>4. working' = store /\ writer' = InstanceOf(w) /\ UNCHANGED <<store, next, caller, err, failed>>
  BY DEF Acquire, AcquireLeaks, Start, StartRaises
<1>5. PICK s \in {"open", "raised"} :
        /\ state' = [state EXCEPT ![w] = s]
        /\ s = "open" => cur' = w /\ leaked' = leaked
        /\ s = "raised" => cur' = cur /\ leaked' = TRUE
  BY DEF Acquire, AcquireLeaks, Start, StartRaises
<1>6. TypeOK'
  BY <1>2, <1>3, <1>4, <1>5 DEF IndInv, TypeOK, WellFormed
<1>7. CallsInv'
  BY <1>1, <1>4, <1>5 DEF IndInv, TypeOK, CallsInv
<1>8. CopyInv'
  BY <1>4 DEF CopyInv
<1>9. OneCallPerTransaction'
  BY <1>2, <1>3, <1>4, <1>5
     DEF IndInv, TypeOK, OneCallPerTransaction, LeftOpen, InstanceOf
<1>10. RaisedLeavesNothing'
  BY <1>1, <1>4, <1>5, FileKept DEF IndInv, TypeOK
<1> QED BY <1>6, <1>7, <1>8, <1>9, <1>10 DEF IndInv

\* In a callback nothing but the copy, the error and the history changes.
LEMMA BodyKeeps ==
  ASSUME IndInv, UNCHANGED <<store, writer, cur, calls, leaked>>,
         WellFormed(working'), CopyInv', err' \in BOOLEAN, failed' \in SUBSET Calls,
         err' => cur # 0
  PROVE  IndInv'
<1>1. TypeOK' /\ CallsInv'
  BY DEF IndInv, TypeOK, WellFormed, CallsInv, calls
<1>2. OneCallPerTransaction'
  BY DEF IndInv, OneCallPerTransaction, LeftOpen, InstanceOf, calls
<1>3. RaisedLeavesNothing'
  BY FileKept DEF IndInv, calls
<1> QED BY <1>1, <1>2, <1>3 DEF IndInv

LEMMA BodyIndInv ==
  ASSUME IndInv, NEW f \in Fibers, BodyStep(f)
  PROVE  IndInv'
<1> DEFINE OtherVars == /\ UNCHANGED <<store, writer, cur, calls, leaked>>
                        /\ err' \in BOOLEAN
                        /\ failed' \in SUBSET Calls
                        /\ err' => cur # 0
<1>1. OtherVars
  <2> USE DEF IndInv, TypeOK, OpRaises, OpSucceeds, InCallback, OneCallPerTransaction
  <2>1. ASSUME OpRaises(f) \/ OpSucceeds  PROVE OtherVars
    <3>1. UNCHANGED <<store, writer, cur, calls, leaked>>
      BY <2>1
    <3>2. err' = (err \/ InCallback(f)) \/ err' = err
      BY <2>1
    <3>3. (failed' = failed \cup {cur} /\ cur # 0) \/ failed' = failed
      BY <2>1
    <3>4. err' \in BOOLEAN
      BY <3>2
    <3>5. failed' \in SUBSET Calls
      BY <3>3
    <3>6. err' => cur # 0
      BY <3>2
    <3> QED BY <3>1, <3>4, <3>5, <3>6
  <2>2. ASSUME Raise(f) \/ Catch(f)  PROVE OtherVars
    BY <2>2 DEF Raise, Catch
  <2>3. ASSUME NEW k \in Keys, NEW P \in SUBSET Props, Create(f, k, P)
        PROVE  OpRaises(f) \/ OpSucceeds
    BY <2>3 DEF Create
  <2>4. ASSUME NEW k \in Keys, NEW p \in Props, Set(f, k, p)  PROVE OpRaises(f) \/ OpSucceeds
    BY <2>4 DEF Set
  <2>5. ASSUME NEW k \in Keys, Delete(f, k)  PROVE OpRaises(f) \/ OpSucceeds
    BY <2>5 DEF Delete
  <2>6. CreateRaises(f) => OpRaises(f)
    BY DEF CreateRaises
  <2> QED BY <2>1, <2>2, <2>3, <2>4, <2>5, <2>6 DEF BodyStep
<1>2. WellFormed(working') /\ CopyInv'
  <2> USE DEF IndInv
  <2>1. UNCHANGED working => WellFormed(working') /\ CopyInv'
    BY <1>1 DEF TypeOK, WellFormed, CopyInv
  <2>2. ASSUME NEW k \in Keys, NEW P \in SUBSET Props, Create(f, k, P)
        PROVE  WellFormed(working') /\ CopyInv'
    <3>1. PICK D \in SUBSET P : Touch({<<k, p>> : p \in D \cup {"pk"}}, TRUE)
      BY <2>2 DEF Create
    <3> DEFINE C == {<<k, p>> : p \in D \cup {"pk"}}
    <3>2. C \in SUBSET Cells /\ <<k, "pk">> \in C /\ \A c \in C : c[1] = k
      BY DEF Cells
    <3> HIDE DEF C
    <3>3. Touch(C, TRUE)
      BY <3>1 DEF C
    <3> QED BY <1>1, <3>2, <3>3, TouchWellFormed, TouchCopyInv
  <2>3. ASSUME NEW k \in Keys, NEW p \in Props, Set(f, k, p), ~UNCHANGED working
        PROVE  WellFormed(working') /\ CopyInv'
    <3>1. Exists(k) /\ Touch({<<k, p>>}, TRUE)
      BY <2>3 DEF Set
    <3>2. {<<k, p>>} \in SUBSET Cells /\ \A c \in {<<k, p>>} : c[1] = k
      BY DEF Cells
    <3> QED BY <1>1, <3>1, <3>2, TouchWellFormed, TouchCopyInv
  <2>4. ASSUME NEW k \in Keys, Delete(f, k), ~UNCHANGED working
        PROVE  WellFormed(working') /\ CopyInv'
    <3> DEFINE C == {k} \X (Props \cup {"pk"})
    <3>1. Touch(C, FALSE)
      BY <2>4 DEF Delete
    <3>2. C \in SUBSET Cells /\ \A c \in C : c[1] = k
      BY DEF Cells
    <3>3. ASSUME NEW c \in Cells, c[1] = k  PROVE c \in C
      BY <3>3, CellParts
    <3> HIDE DEF C
    <3> QED BY <1>1, <3>1, <3>2, <3>3, TouchWellFormed, TouchCopyInv
  <2>5. CreateRaises(f) \/ Raise(f) \/ Catch(f) => UNCHANGED working
    BY DEF CreateRaises, Raise, Catch
  <2> QED BY <2>1, <2>2, <2>3, <2>4, <2>5 DEF BodyStep
<1> QED BY <1>1, <1>2, BodyKeeps

\* The end of the open call, in state s.  What the callback did may be in the
\* file from now on if s is "returned".
LEMMA EndKeeps ==
  ASSUME IndInv, cur # 0, NEW s \in {"returned", "raised"}, NEW free \in BOOLEAN,
         End(s, free), free \/ leaked', leaked' \in BOOLEAN,
         store' = store \/ (s = "returned" /\ store' = working)
  PROVE  IndInv'
<1> USE DEF End
<1>1. cur \in Calls /\ state[cur] = "open" /\ writer \in Instances \cup {NoInstance}
  BY DEF IndInv, TypeOK, OneCallPerTransaction
<1>2. /\ \A w \in Calls \ {cur} : state'[w] = state[w] /\ state'[w] # "open"
      /\ state'[cur] = s
  BY <1>1 DEF IndInv, TypeOK, OneCallPerTransaction
<1>3. TypeOK'
  BY <1>1 DEF IndInv, TypeOK, WellFormed
<1>4. CallsInv'
  BY <1>1, <1>2 DEF IndInv, CallsInv
<1>5. CopyInv'
  BY DEF CopyInv
<1>6. OneCallPerTransaction'
  BY <1>2 DEF OneCallPerTransaction, LeftOpen
<1>7. ASSUME NEW w \in Calls, state'[w] # "returned", NEW c \in Cells  PROVE store'[c].by # w
  <2>1. state[w] # "returned"
    BY <1>1, <1>2, <1>7
  <2>2. store[c].by # w
    BY <2>1 DEF IndInv, RaisedLeavesNothing
  <2>3. CASE s = "returned" /\ store' = working
    <3>1. w # cur
      BY <1>2, <1>7, <2>3
    <3>2. working[c] = store[c] \/ working[c].by = cur
      BY DEF IndInv, CopyInv
    <3> QED BY <2>2, <2>3, <3>1, <3>2
  <2> QED BY <2>2, <2>3
<1> QED BY <1>3, <1>4, <1>5, <1>6, <1>7 DEF IndInv, RaisedLeavesNothing

LEMMA EndIndInv ==
  ASSUME IndInv, EndStep
  PROVE  IndInv'
<1>1. leaked \in BOOLEAN
  BY DEF IndInv, TypeOK
<1>2. CASE Commit
  BY <1>1, <1>2, EndKeeps DEF Commit
<1>3. CASE CommitRaises
  BY <1>1, <1>3, EndKeeps DEF CommitRaises
<1>4. CASE Cancel
  BY <1>1, <1>4, EndKeeps DEF Cancel
<1>5. CASE CancelRaises
  BY <1>1, <1>5, EndKeeps DEF CancelRaises
<1>6. ASSUME NEW i \in Instances, CloseRealm(i)  PROVE IndInv'
  <2> USE <1>6 DEF CloseRealm, calls
  <2>1. TypeOK' /\ CallsInv' /\ CopyInv'
    BY DEF IndInv, TypeOK, WellFormed, CallsInv, CopyInv
  <2>2. OneCallPerTransaction'
    BY DEF IndInv, OneCallPerTransaction, LeftOpen
  <2>3. RaisedLeavesNothing'
    BY FileKept DEF IndInv
  <2> QED BY <2>1, <2>2, <2>3 DEF IndInv
<1> QED BY <1>2, <1>3, <1>4, <1>5, <1>6 DEF EndStep

LEMMA NextIndInv == IndInv /\ [Next]_vars => IndInv'
<1> SUFFICES ASSUME IndInv, [Next]_vars  PROVE IndInv'
  OBVIOUS
<1>1. CASE UNCHANGED vars
  BY <1>1 DEF vars, calls, IndInv, TypeOK, WellFormed, CallsInv, CopyInv,
              OneCallPerTransaction, LeftOpen, InstanceOf, RaisedLeavesNothing
<1>2. CASE BeginStep
  BY <1>2, BeginIndInv, BeginWaitsIndInv, BeginRaisesIndInv, BeginLeaksIndInv, AcquireIndInv
     DEF BeginStep
<1> QED BY <1>1, <1>2, BodyIndInv, EndIndInv DEF Next, Finished

LEMMA Inductive == Spec => []IndInv
<1> QED BY InitIndInv, NextIndInv, PTL DEF Spec

-----------------------------------------------------------------------------
(* Theorems                                                                *)

\* Every variable keeps its type, and no property is ever stored without its
\* object, whichever operation fails half way.
THEOREM TypeCorrect == Spec => []TypeOK
<1>1. IndInv => TypeOK
  BY DEF IndInv
<1> QED BY <1>1, Inductive, PTL

\* A transaction has one callback, that of its instance, and is left open only
\* by an error outside the xpcall.
THEOREM OneCall == Spec => []OneCallPerTransaction
<1>1. IndInv => OneCallPerTransaction
  BY DEF IndInv
<1> QED BY <1>1, Inductive, PTL

\* A call of write that raised, or has not ended, has left nothing in the file.
THEOREM NothingOfARaisedCall == Spec => []RaisedLeavesNothing
<1>1. IndInv => RaisedLeavesNothing
  BY DEF IndInv
<1> QED BY <1>1, Inductive, PTL

-----------------------------------------------------------------------------
(* Callbacks that catch nothing                                            *)

\* A call that has returned failed nowhere; one in which an operation fails
\* is on its way out, by an error, or out; a call not begun has not failed.
UncaughtInv == \A w \in failed : /\ state[w] \in {"open", "raised"}
                                 /\ w = cur => err

\* Steps of users who never catch the error of an operation in a callback.
UncaughtNext == Next /\ \A f \in Fibers : ~Catch(f)

LEMMA UncaughtStep == IndInv /\ UncaughtInv /\ [UncaughtNext]_vars => UncaughtInv'
<1> SUFFICES ASSUME IndInv, UncaughtInv, [UncaughtNext]_vars  PROVE UncaughtInv'
  OBVIOUS
<1>1. cur # 0 => cur \in Calls /\ state[cur] = "open"
  BY DEF IndInv, TypeOK, OneCallPerTransaction
<1>2. failed \in SUBSET Calls /\ state \in [Calls -> {"unused", "waiting", "open", "returned", "raised"}]
  BY DEF IndInv, TypeOK
<1>3. CASE UNCHANGED vars
  BY <1>3 DEF vars, calls, UncaughtInv
<1>4. ASSUME NEW f \in Fibers, NEW i \in Instances, NEW s \in {"waiting", "open", "raised"},
             Call(f, i, s), failed' = failed, err' = err, cur' \in {cur, next}
      PROVE  UncaughtInv'
  <2>1. ASSUME NEW w \in failed  PROVE w # next /\ state'[w] = state[w]
    BY <1>2, <1>4, CallKeeps DEF UncaughtInv
  <2> QED BY <1>4, <2>1 DEF UncaughtInv
<1>5. ASSUME NEW f \in Fibers, NEW i \in Instances, BeginRaises(f, i)  PROVE UncaughtInv'
  <2>1. Call(f, i, "raised") /\ cur' = cur
    BY <1>5 DEF BeginRaises
  <2>2. state'[cur] = state[cur] \/ cur = 0
    BY <1>1, <2>1, CallKeeps
  <2>3. ASSUME NEW w \in failed  PROVE state'[w] = state[w]
    BY <1>2, <2>1, CallKeeps DEF UncaughtInv
  <2>4. (failed' = failed /\ (err => err')) \/ (failed' = failed \cup {cur} /\ cur # 0 /\ err')
    BY <1>5 DEF BeginRaises, InCallback
  <2> QED BY <1>1, <2>1, <2>2, <2>3, <2>4 DEF UncaughtInv
<1>6. ASSUME NEW w \in Calls, Acquire(w) \/ AcquireLeaks(w)  PROVE UncaughtInv'
  <2>1. w \notin failed /\ failed' = failed /\ err' = err /\ cur' \in {cur, w}
    BY <1>6 DEF Acquire, AcquireLeaks, Start, StartRaises, UncaughtInv
  <2>2. \A v \in Calls \ {w} : state'[v] = state[v]
    BY <1>2, <1>6 DEF Acquire, AcquireLeaks
  <2> QED BY <1>2, <2>1, <2>2 DEF UncaughtInv
<1>7. ASSUME NEW f \in Fibers, BodyStep(f), ~Catch(f)  PROVE UncaughtInv'
  <2>1. ASSUME OpRaises(f)  PROVE UncaughtInv'
    <3>1. state' = state /\ cur' = cur
      BY <2>1 DEF OpRaises, calls
    <3>2. (failed' = failed /\ (err => err')) \/ (failed' = failed \cup {cur} /\ cur # 0 /\ err')
      BY <2>1 DEF OpRaises, InCallback
    <3> QED BY <1>1, <3>1, <3>2 DEF UncaughtInv
  <2>2. OpSucceeds => UncaughtInv'
    BY DEF OpSucceeds, calls, UncaughtInv
  <2>3. Raise(f) => UncaughtInv'
    BY DEF Raise, calls, UncaughtInv
  <2> QED BY <1>7, <2>1, <2>2, <2>3 DEF BodyStep, Create, Set, Delete, CreateRaises
<1>8. ASSUME NEW s \in {"returned", "raised"}, NEW free \in BOOLEAN, cur # 0, End(s, free),
             s = "returned" => ~err
      PROVE  UncaughtInv'
  <2>1. failed' = failed /\ cur' = 0 /\ state'[cur] = s
        /\ \A w \in Calls \ {cur} : state'[w] = state[w]
    BY <1>1, <1>2, <1>8 DEF End
  <2>2. 0 \notin Calls
    BY DEF Calls
  <2>3. cur \in failed => s = "raised"
    BY <1>8 DEF UncaughtInv
  <2> QED BY <1>2, <2>1, <2>2, <2>3 DEF UncaughtInv
<1>9. CASE EndStep
  <2>1. Commit \/ CommitRaises \/ Cancel \/ CancelRaises => UncaughtInv'
    BY <1>8 DEF Commit, CommitRaises, Cancel, CancelRaises
  <2>2. ASSUME NEW i \in Instances, CloseRealm(i)  PROVE UncaughtInv'
    BY <2>2 DEF CloseRealm, calls, UncaughtInv
  <2> QED BY <1>9, <2>1, <2>2 DEF EndStep
<1>10. CASE BeginStep
  <2>1. ASSUME NEW f \in Fibers, NEW i \in Instances,
               Begin(f, i) \/ BeginWaits(f, i) \/ BeginLeaks(f, i)
        PROVE  UncaughtInv'
    BY <1>4, <2>1 DEF Begin, BeginWaits, BeginLeaks, Start, StartRaises
  <2> QED BY <1>5, <1>6, <1>10, <2>1 DEF BeginStep
<1> QED BY <1>3, <1>7, <1>9, <1>10 DEF UncaughtNext, Next, Finished

\* The documented all-or-nothing of a write holds for every user who catches
\* nothing in a callback: a call of write that returns has had no operation
\* fail.  A caught error is thus the only way to the half-done write.
THEOREM UncaughtIsAllOrNothing == Init /\ [][UncaughtNext]_vars => []AllOrNothing
<1>1. Init => IndInv /\ UncaughtInv
  BY InitIndInv DEF Init, UncaughtInv
<1>2. IndInv /\ UncaughtInv /\ [UncaughtNext]_vars => (IndInv /\ UncaughtInv)'
  <2>1. [UncaughtNext]_vars => [Next]_vars
    BY DEF UncaughtNext
  <2> QED BY <2>1, NextIndInv, UncaughtStep
<1>3. IndInv /\ UncaughtInv => AllOrNothing
  BY DEF UncaughtInv, AllOrNothing
<1> QED BY <1>1, <1>2, <1>3, PTL

-----------------------------------------------------------------------------
(* Write calls are atomic                                                  *)

LEMMA ResultOf ==
  ASSUME NEW w \in Calls
  PROVE  /\ Results[w] = "returned" <=> state[w] = "returned"
         /\ Results[w] = "raised" <=> state[w] = "raised"
         /\ Results[w] = "pending" <=> state[w] \notin {"returned", "raised"}
  BY DEF Results

\* If call w, which had not ended, is the one call whose result changes.
LEMMA ResultsExcept ==
  ASSUME NEW w \in Calls, state[w] \notin {"returned", "raised"},
         NEW s \in {"returned", "raised"}, state'[w] = s,
         \A v \in Calls \ {w} : state'[v] = state[v]
  PROVE  Results[w] = "pending" /\ Results' = [Results EXCEPT ![w] = s]
  BY DEF Results

LEMMA ResultsSame ==
  ASSUME \A w \in Calls : \/ state'[w] = state[w]
                          \/ /\ state[w] \notin {"returned", "raised"}
                             /\ state'[w] \notin {"returned", "raised"}
  PROVE  Results' = Results
  BY DEF Results

LEMMA FailStep ==
  ASSUME NEW w \in Calls, state[w] \notin {"returned", "raised"}, state'[w] = "raised",
         \A v \in Calls \ {w} : state'[v] = state[v], UNCHANGED store
  PROVE  Atomic!Next
  BY ResultsExcept DEF Atomic!Next, Atomic!Fail

LEMMA StepIsAtomic == IndInv /\ [Next]_vars => [Atomic!Next]_(Atomic!vars)
<1> SUFFICES ASSUME IndInv, [Next]_vars  PROVE Atomic!Next \/ UNCHANGED Atomic!vars
  OBVIOUS
<1>1. UNCHANGED <<store, state>> => UNCHANGED Atomic!vars
  BY ResultsSame DEF Atomic!vars
<1>2. ASSUME NEW f \in Fibers, NEW i \in Instances, Begin(f, i) \/ BeginWaits(f, i)
      PROVE  UNCHANGED Atomic!vars
  <2>1. PICK s \in {"open", "waiting"} : Call(f, i, s) /\ UNCHANGED store
    BY <1>2 DEF Begin, BeginWaits
  <2> QED BY <2>1, CallKeeps, ResultsSame DEF Atomic!vars
<1>3. ASSUME NEW f \in Fibers, NEW i \in Instances, BeginRaises(f, i) \/ BeginLeaks(f, i)
      PROVE  Atomic!Next
  <2>1. Call(f, i, "raised") /\ UNCHANGED store
    BY <1>3 DEF BeginRaises, BeginLeaks, StartRaises
  <2> QED BY <2>1, CallKeeps, FailStep
<1>4. ASSUME NEW w \in Calls, Acquire(w)  PROVE UNCHANGED Atomic!vars
  BY <1>4, ResultsSame DEF Acquire, Atomic!vars, IndInv, TypeOK
<1>5. ASSUME NEW w \in Calls, AcquireLeaks(w)  PROVE Atomic!Next
  BY <1>5, FailStep DEF AcquireLeaks, StartRaises, IndInv, TypeOK
<1>6. ASSUME NEW f \in Fibers, BodyStep(f)  PROVE UNCHANGED <<store, state>>
  BY <1>6 DEF BodyStep, Create, Set, Delete, CreateRaises, Raise, Catch,
              OpRaises, OpSucceeds, calls
<1>7. cur # 0 => cur \in Calls /\ state[cur] = "open"
  BY DEF IndInv, TypeOK, OneCallPerTransaction
<1>8. CASE Commit
  <2>1. store' = working /\ state' = [state EXCEPT ![cur] = "returned"] /\ cur # 0
    BY <1>8 DEF Commit, End
  <2>2. Results[cur] = "pending" /\ Results' = [Results EXCEPT ![cur] = "returned"]
    BY <1>7, <2>1, ResultsExcept DEF IndInv, TypeOK
  <2>3. store' \in [Cells -> Atomic!Version]
    BY <2>1 DEF IndInv, TypeOK, WellFormed, Version, Atomic!Version
  <2>4. \A c \in Cells : store'[c] = store[c] \/ store'[c].by = cur
    BY <2>1 DEF IndInv, CopyInv
  <2> QED BY <1>7, <2>1, <2>2, <2>3, <2>4 DEF Atomic!Next, Atomic!Succeed
<1>9. CASE CommitRaises \/ Cancel \/ CancelRaises
  <2>1. UNCHANGED store /\ state' = [state EXCEPT ![cur] = "raised"] /\ cur # 0
    BY <1>9 DEF CommitRaises, Cancel, CancelRaises, End
  <2> QED BY <1>7, <2>1, FailStep DEF IndInv, TypeOK
<1>10. ASSUME NEW i \in Instances, CloseRealm(i)  PROVE UNCHANGED <<store, state>>
  BY <1>10 DEF CloseRealm, calls
<1>11. Finished \/ UNCHANGED vars => UNCHANGED <<store, state>>
  BY DEF Finished, vars, calls
<1> QED BY <1>1, <1>2, <1>3, <1>4, <1>5, <1>6, <1>8, <1>9, <1>10, <1>11
        DEF Next, BeginStep, EndStep

\* Realm:write implements the abstract store: calls take effect one at a time,
\* whole or not at all, over whatever the file holds when they do.
THEOREM WritesAreAtomic == Spec => AtomicSpec
<1>1. Init => Atomic!Init
  BY DEF Init, Atomic!Init, Results
<1>2. IndInv /\ [Next]_vars => [Atomic!Next]_(Atomic!vars)
  BY StepIsAtomic
<1> QED BY <1>1, <1>2, Inductive, PTL DEF Spec, AtomicSpec, Atomic!Spec
=============================================================================
