----------------------------- MODULE RealmResults -----------------------------
(***************************************************************************)
(* Results and notifications: live collections read by index, the change   *)
(* tables that realm_notifications.cpp makes of core's change sets, and a  *)
(* program that uses them as the documentation says (README.md:268-321) to *)
(* keep a copy of a collection, and one of an object.  One realm instance  *)
(* reads version `seen` of the file; it and others commit new versions,    *)
(* and several can be told of in one call.                                 *)
(***************************************************************************)
EXTENDS Integers, Sequences, FiniteSets

CONSTANTS
  Objects,      \* numbers: the order of a class's objects in its results
  Watched,      \* the objects that the program listens to
  Values,
  Match,        \* the values that the filter lets through
  Unborn, Gone, \* the state of an object that is yet to be made, of a deleted one
  MaxVersions   \* bound: versions of the file since the last delivery, and with it

VARIABLES
  file,         \* the versions from the last delivery on: file[v][o] is object o's
                \* value in version v
  seen,         \* the version that the instance reads
  listener,     \* the program's listener, on a collection or on an object
  mirror,       \* what the program made of a collection listener's calls
  paired,       \* history: the objects before and after, of each modification
                \* in its last call
  copy          \* what the program made of an object listener's calls

vars == <<file, seen, listener, mirror, paired, copy>>

None == [kind |-> "none"]
Listeners == [kind : {"all", "filtered"}, told : BOOLEAN]
               \cup [kind : {"object"}, of : Watched, told : BOOLEAN]
States == Values \cup {Unborn, Gone}
Latest == Len(file)

ASSUME ResultsAssumption ==
  /\ Objects \subseteq Nat \ {0} /\ IsFiniteSet(Objects) /\ Watched \subseteq Objects
  /\ Match \subseteq Values
  /\ Unborn # Gone /\ Unborn \notin Values /\ Gone \notin Values
  /\ MaxVersions \in Nat \ {0}

Init == /\ file \in {<<f>> : f \in [Objects -> Values \cup {Unborn}]}
        /\ seen = 1
        /\ listener = None
        /\ mirror = <<>> /\ paired = {} /\ copy = Unborn

-----------------------------------------------------------------------------
(* realm-core: results in the order of their objects, and change sets      *)

Before(S, o)  == Cardinality({m \in S : m < o})
Sorted(S)     == [i \in 1 .. Cardinality(S) |-> CHOOSE o \in S : Before(S, o) = i - 1]
Members(v)    == {o \in Objects : file[v][o] \in IF listener.kind = "all" THEN Values ELSE Match}

Changed(v) == {o \in Objects : \E w \in 2 .. v : file[w][o] # file[w - 1][o]}

\* What changed since the last delivery.  Positions start at 0.
ChangeSet(v) ==
  LET old == Members(1)
      new == Members(v)
      modified == old \cap new \cap Changed(v)
      Places(S, T) == LET s == Sorted(T) IN [i \in DOMAIN s |-> Before(S, s[i])]
  IN  [deletions        |-> Places(old, old \ new),
       insertions       |-> Places(new, new \ old),
       modificationsOld |-> Places(old, modified),
       modificationsNew |-> Places(new, modified)]

\* realm_results_get_object, with no object past the end.
Nothing == <<0, 0>>
ObjectAt(v, i) ==
  LET s == Sorted(Members(v))
  IN  IF i + 1 \in DOMAIN s THEN <<s[i + 1], file[v][s[i + 1]]>> ELSE Nothing

-----------------------------------------------------------------------------
(* The library                                                             *)

\* Mutated: the index is passed on as it is.
IndexAsIs(v, i) == ObjectAt(v, i)

\* RealmResults.__index and lib_realm_results_get
Index(v, i) == ObjectAt(v, i - 1)

\* RealmResults.__len
Length(v) == Cardinality(Members(v))

\* Mutated: positions are not made Lua's.
PopulateZeroBased(s) == s

\* populate_lua_collection_changes_table
Populate(s) == [i \in DOMAIN s |-> s[i] + 1]

\* on_collection_change: the table that the listener gets.
CollectionChanges(c) ==
  [deletions        |-> Populate(c.deletions),
   insertions       |-> Populate(c.insertions),
   modificationsOld |-> Populate(c.modificationsOld),
   modificationsNew |-> Populate(c.modificationsNew)]

\* Mutated: the object is taken to be there.
ObjectChangesUnchecked(deleted, n) == [isDeleted |-> FALSE, modified |-> n]

\* on_object_change: the listener gets as many properties as core counts.  Which
\* ones is left undefined if the object was deleted.
ObjectChanges(deleted, n) == [isDeleted |-> deleted, modified |-> n]

-----------------------------------------------------------------------------
(* The program, as documented: deletions first                             *)

\* Entries are taken out at the deletions, put in at the insertions, and read
\* again at the modifications.
OnCollectionChange(v, c) ==
  LET In(indices)  == {indices[i] : i \in DOMAIN indices}
      kept         == Sorted(DOMAIN mirror \ In(c.deletions))
      inserted     == In(c.insertions)
      read         == inserted \cup In(c.modificationsNew)
      Old(i)       == i - Before(inserted, i)
  IN  [i \in 1 .. Len(kept) + Cardinality(inserted) |->
         IF i \in read THEN Index(v, i)
         ELSE IF Old(i) \in DOMAIN kept THEN mirror[kept[Old(i)]] ELSE Nothing]

Whole(v) == [i \in 1 .. Length(v) |-> Index(v, i)]

Pairs(v, c) ==
  {<<IF c.modificationsOld[i] \in DOMAIN mirror THEN mirror[c.modificationsOld[i]][1] ELSE 0,
     Index(v, c.modificationsNew[i])[1]>> : i \in DOMAIN c.modificationsOld}

OnObjectChange(v, c) ==
  IF c.isDeleted THEN Gone ELSE IF c.modified > 0 THEN file[v][listener.of] ELSE copy

-----------------------------------------------------------------------------
(* Actions                                                                 *)

\* What a transaction does to an object.
Becomes(x) == CASE x = Unborn -> Values \cup {Unborn}
                [] x \in Values -> Values \cup {Gone}
                [] x = Gone -> {Gone}

Commit == \E f \in [Objects -> States] :
  /\ \A o \in Objects : f[o] \in Becomes(file[Latest][o])
  /\ f # file[Latest]
  /\ file' = Append(file, f)

\* Another instance, of any thread or process, commits a transaction.
WriteOther == /\ Latest < MaxVersions
              /\ Commit
              /\ UNCHANGED <<seen, listener, mirror, paired, copy>>

\* Realm:write.  begin_write tells a listener of everything before (Deliver); the
\* commit is told of later.
WriteOwn == /\ Latest < MaxVersions
            /\ listener # None => listener.told /\ Latest = 1
            /\ Commit
            /\ seen' = Latest + 1
            /\ UNCHANGED <<listener, mirror, paired, copy>>

\* lib_realm_results_add_listener, lib_realm_object_add_listener: core calls a
\* new listener soon.
AddListener ==
  /\ listener = None
  /\ listener' \in {l \in Listeners : ~l.told}
  /\ listener'.kind = "object" => file[seen][listener'.of] \in Values
  /\ UNCHANGED <<file, seen, mirror, paired, copy>>

\* The token is released, by close or by the collector.
Stop == /\ listener # None
        /\ listener' = None
        /\ mirror' = <<>> /\ paired' = {} /\ copy' = Unborn
        /\ UNCHANGED <<file, seen>>

\* The call of a collection's listener: the first time there are no changes.
TellResults(v) ==
  /\ listener.kind \in {"all", "filtered"}
  /\ LET c == CollectionChanges(ChangeSet(v))
     IN  /\ mirror' = IF listener.told THEN OnCollectionChange(v, c) ELSE Whole(v)
         /\ paired' = IF listener.told THEN Pairs(v, c) ELSE {}
  /\ UNCHANGED copy

\* The call of an object's.  For a deleted object core may or may not count
\* properties that were modified before; the first call reads what is there.
TellObject(v) ==
  /\ listener.kind = "object"
  /\ LET deleted == file[v][listener.of] = Gone /\ file[1][listener.of] # Gone
     IN  \E n \in IF listener.of \notin Changed(v) THEN {0} ELSE IF deleted THEN {0, 1} ELSE {1} :
           copy' = IF listener.told THEN OnObjectChange(v, ObjectChanges(deleted, n))
                   ELSE file[v][listener.of]
  /\ UNCHANGED <<mirror, paired>>

Tell(v) == \/ TellResults(v)
           \/ TellObject(v)
           \/ listener = None /\ UNCHANGED <<mirror, paired, copy>>

\* Mutated: a commit of the instance's own is taken for known.
AdvanceForeign(v) ==
  /\ v > seen \/ (listener # None /\ ~listener.told)
  /\ listener' = IF listener = None THEN None ELSE [listener EXCEPT !.told = TRUE]
  /\ file' = SubSeq(file, v, Latest)
  /\ seen' = 1

\* The instance advances to a version for which core has change sets.
Advance(v) ==
  /\ v > 1 \/ (listener # None /\ ~listener.told)
  /\ listener' = IF listener = None THEN None ELSE [listener EXCEPT !.told = TRUE]
  /\ file' = SubSeq(file, v, Latest)
  /\ seen' = 1

\* It then calls the listener: in the event loop, or at the start of a transaction.
Deliver == \E v \in seen .. Latest : Advance(v) /\ Tell(v)

Next == WriteOther \/ WriteOwn \/ AddListener \/ Stop \/ Deliver

\* The run loop runs (Scheduler) and delivers.  Only Deliver makes a step that is an
\* Advance, and Tell is always possible.
Spec == Init /\ [][Next]_vars
        /\ WF_<<file, seen, listener>>(\E v \in seen .. Latest : Advance(v))

-----------------------------------------------------------------------------
(* Properties                                                              *)

Listening == listener # None
Told(kinds) == Listening /\ listener.told /\ listener.kind \in kinds

\* The variables' types.  Only a listener that was called has left anything, and it
\* never read past the end of its collection.
TypeOK ==
  /\ Latest \in 1 .. MaxVersions /\ \A v \in 1 .. Latest : file[v] \in [Objects -> States]
  /\ seen \in 1 .. Latest
  /\ listener \in Listeners \cup {None}
  /\ mirror \in Seq(Objects \X Values)
  /\ copy \in States
  /\ mirror # <<>> => Told({"all", "filtered"})
  /\ copy # Unborn => Told({"object"})

\* A program that follows the change tables has the collection as it is in the
\* version told of: each position and each value, and modificationsOld and
\* modificationsNew speak of the same objects.
MirrorExact ==
  Told({"all", "filtered"}) =>
    /\ Len(mirror) = Cardinality(Members(1))
    /\ \A o \in Members(1) : mirror[Before(Members(1), o) + 1] = <<o, file[1][o]>>
    /\ \A p \in paired : p[1] = p[2]

\* A program that follows the object's change tables knows when it was deleted,
\* and its values until then.
CopyExact == Told({"object"}) => copy = file[1][listener.of]

\* A listener that stays is told of every commit, its own instance's included, and
\* is called after it was added, unless commits never stop.
ToldInTheEnd ==
  \/ []<>(Listening => listener.told /\ Latest = 1)
  \/ []<><<WriteOther \/ WriteOwn>>_vars
=============================================================================
