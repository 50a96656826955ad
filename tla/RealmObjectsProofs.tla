-------------------------- MODULE RealmObjectsProofs --------------------------
(***************************************************************************)
(* Proofs about RealmObjects, for any tables, classes, properties, types   *)
(* and values, and without the bound on the objects:                       *)
(*   - TypeCorrect: nothing is stored where the core would not take it;    *)
(*   - OnlyOneObject: a table makes one object of a class with a primary   *)
(*     key;                                                                *)
(*   - CreationIsMirrored: when Realm:create returns, what it has made     *)
(*     reads as its tables do.                                             *)
(***************************************************************************)
EXTENDS RealmObjects, SequenceTheorems, TLAPS

Vals        == {v.val : v \in Values} \cup Nat \cup {None}
RealmValues == [type : RealmTypes \cup {"null", "absent"}, val : Vals]
ObjRecs     == [table : Tables, class : Classes, props : [Props -> RealmValues]]
FrameRecs   == [object : Nat, table : Tables, into : {None} \cup (Nat \X Props),
                class : Classes, todo : SUBSET (Props \cup {"_id", "1"})]

\* A stack of calls whose objects are among the first n, each made later than
\* the one below it.
Stack(s, n) ==
  /\ s \in Seq(FrameRecs)
  /\ \A k \in 1 .. Len(s) :
       /\ s[k].object \in 1 .. n
       /\ s[k].into = None \/ (s[k].into[1] \in 1 .. n /\ s[k].into[2] \in Props)
       /\ k > 1 => s[k - 1].object < s[k].object

\* What one object's properties hold.
Sound(i) == \A p \in Props :
  /\ obj[i].props[p] \in Stored(Type[p]) \cup {Null}
  /\ obj[i].props[p].type = "link" /\ Type[p] = "link" =>
       obj[obj[i].props[p].val].class = Target[p]

Typed ==
  /\ obj \in Seq(ObjRecs)
  /\ \A i \in 1 .. Len(obj) : Sound(i)
  /\ dict \in [Keys -> RealmValues]
  /\ \A k \in Keys : dict[k] \in Stored(DictType) \cup {Absent}
  /\ set \subseteq Stored(SetType)
  /\ keyLeft \subseteq WithKey
  /\ Stack(frames, Len(obj))
  /\ raised \in BOOLEAN

\* The primary key has gone from the tables of the objects that have one.
KeysGone == \A i \in 1 .. Len(obj) : obj[i].class \in Keyed => obj[i].table \notin keyLeft

IndInv == Typed /\ KeysGone /\ OnceEach

LuaValues == Assigned \cup {Nil}

USE ObjectsAssumption DEF ObjectsAssumption

-----------------------------------------------------------------------------
(* Values                                                                  *)

\* What is converted has a value's type, and is among what could be stored.
LEMMA Converted ==
  ASSUME NEW v \in LuaValues, Convertible(v), obj \in Seq(ObjRecs)
  PROVE  /\ v \in Assigned
         /\ ToRealm(v) \in RealmValues
         /\ ToRealm(v).type = "link" => v.kind = "object"
         /\ ToRealm(v).val = v.val
<1>1. v \in Assigned
  BY DEF LuaValues, Convertible, Nil
<1>2. v.val \in Vals
  BY <1>1 DEF Assigned, Object, Vals
<1>3. CASE v.kind = "integer"
  BY <1>1, <1>2, <1>3 DEF ToRealm, RealmValues, RealmTypes
<1>4. CASE v.kind = "float"
  BY <1>1, <1>2, <1>4 DEF ToRealm, RealmValues, RealmTypes
<1>5. CASE v.kind = "string"
  BY <1>1, <1>2, <1>5 DEF ToRealm, RealmValues, RealmTypes
<1>6. CASE v.kind = "boolean"
  BY <1>1, <1>2, <1>6 DEF ToRealm, RealmValues, RealmTypes
<1>7. CASE v.kind = "object"
  BY <1>1, <1>2, <1>7 DEF ToRealm, RealmValues, RealmTypes
<1>8. QED
  BY <1>3, <1>4, <1>5, <1>6, <1>7 DEF Convertible

\* What a place takes is in Stored.
LEMMA StorableIsStored ==
  ASSUME NEW type, NEW v \in LuaValues, Storable(type, v), obj \in Seq(ObjRecs)
  PROVE  ToRealm(v) \in Stored(type)
BY Converted DEF Storable, Stored

\* A stored link leads to an object.
LEMMA LinkInRange ==
  ASSUME NEW type, NEW w \in Stored(type), w.type = "link", obj \in Seq(ObjRecs)
  PROVE  w.val \in 1 .. Len(obj)
<1>1. PICK u \in Assigned : Convertible(u) /\ w = ToRealm(u)
  BY DEF Stored
<1>2. u.kind = "object" /\ w.val = u.val
  BY <1>1, Converted DEF LuaValues
<1>3. QED
  BY <1>1, <1>2 DEF Assigned, Object

\* More objects, more values.
LEMMA StoredGrows ==
  ASSUME Len(obj) \in Nat, Len(obj)' \in Nat, Len(obj) <= Len(obj)', NEW type
  PROVE  Stored(type) \subseteq Stored(type)'
<1>1. Assigned \subseteq Assigned'
  BY DEF Assigned
<1>2. QED
  BY <1>1 DEF Stored

-----------------------------------------------------------------------------
(* Stacks                                                                  *)

LEMMA StackGrows ==
  ASSUME NEW m \in Nat, NEW n \in Nat, m <= n, NEW s, Stack(s, m)
  PROVE  Stack(s, n)
BY DEF Stack

LEMMA StackPushed ==
  ASSUME NEW n \in Nat, NEW s, Stack(s, n), NEW f \in FrameRecs,
         f.object = n + 1, f.into = None \/ (f.into[1] \in 1 .. n /\ f.into[2] \in Props)
  PROVE  Stack(Append(s, f), n + 1)
<1> DEFINE r == Append(s, f)
<1>1. r \in Seq(FrameRecs) /\ Len(s) \in Nat /\ Len(r) = Len(s) + 1
  BY DEF Stack
<1>2. \A k \in 1 .. Len(s) : r[k] = s[k]
  BY DEF Stack
<1>3. r[Len(s) + 1] = f
  BY DEF Stack
<1> HIDE DEF r
<1>4. ASSUME NEW k \in 1 .. Len(r)
      PROVE  /\ r[k].object \in 1 .. (n + 1)
             /\ r[k].into = None \/ (r[k].into[1] \in 1 .. (n + 1) /\ r[k].into[2] \in Props)
             /\ k > 1 => r[k - 1].object < r[k].object
  <2>1. CASE k \in 1 .. Len(s)
    <3>1. k > 1 => k - 1 \in 1 .. Len(s)
      BY <1>1, <2>1
    <3>2. r[k] = s[k] /\ (k > 1 => r[k - 1] = s[k - 1])
      BY <1>2, <2>1, <3>1
    <3>3. QED
      BY <2>1, <3>2 DEF Stack
  <2>2. CASE k = Len(s) + 1
    <3>1. k > 1 => r[k - 1] = s[Len(s)] /\ s[Len(s)].object \in 1 .. n
      BY <1>1, <1>2, <2>2, SMTT(30) DEF Stack
    <3>2. QED
      BY <1>3, <2>2, <3>1
  <2>3. QED
    BY <1>1, <2>1, <2>2
<1>5. QED
  BY <1>1, <1>4 DEF Stack, r

\* The calls below the last one, and the last one with less to do.
LEMMA StackPopped ==
  ASSUME NEW n \in Nat, Stack(frames, n), Running
  PROVE  /\ Top \in FrameRecs /\ Top.object \in 1 .. n
         /\ Top.into = None \/ (Top.into[1] \in 1 .. n /\ Top.into[2] \in Props)
         /\ Stack(Below, n)
         /\ \A p : Stack(Append(Below, [Top EXCEPT !.todo = @ \ {p}]), n)
<1> DEFINE l == Len(frames)
<1>1. frames \in Seq(FrameRecs) /\ l \in Nat /\ l >= 1
  BY EmptySeq, SeqDef DEF Stack, Running
<1>2. frames[l] \in FrameRecs
  BY <1>1
<1>3. /\ Top \in FrameRecs /\ Top.object \in 1 .. n
      /\ Top.into = None \/ (Top.into[1] \in 1 .. n /\ Top.into[2] \in Props)
  BY <1>1, <1>2 DEF Top, Stack
<1>4. Below \in Seq(FrameRecs) /\ Len(Below) = l - 1 /\ \A k \in 1 .. l - 1 : Below[k] = frames[k]
  <2>1. Below = [k \in 1 .. l - 1 |-> frames[k]]
    BY <1>1 DEF Below
  <2>2. \A k \in 1 .. l - 1 : frames[k] \in FrameRecs
    BY <1>1
  <2>3. QED
    BY <1>1, <2>1, <2>2
<1>5. Stack(Below, n)
  <2>1. ASSUME NEW k \in 1 .. Len(Below)
        PROVE  /\ Below[k].object \in 1 .. n
               /\ Below[k].into = None \/ (Below[k].into[1] \in 1 .. n /\ Below[k].into[2] \in Props)
               /\ k > 1 => Below[k - 1].object < Below[k].object
    <3>1. k \in 1 .. l /\ Below[k] = frames[k] /\ (k > 1 => Below[k - 1] = frames[k - 1])
      BY <1>1, <1>4
    <3>2. QED
      BY <3>1 DEF Stack
  <2>2. QED
    BY <1>4, <2>1 DEF Stack
<1>6. ASSUME NEW p
      PROVE  Stack(Append(Below, [Top EXCEPT !.todo = @ \ {p}]), n)
  <2>1. PICK f : f = [Top EXCEPT !.todo = @ \ {p}]
    OBVIOUS
  <2>2. f \in FrameRecs /\ f.object = Top.object /\ f.into = Top.into
    BY <1>3, <2>1 DEF FrameRecs
  <2>3. PICK r : r = Append(Below, f)
    OBVIOUS
  <2>4. r \in Seq(FrameRecs) /\ Len(r) = l /\ r[l] = f /\ \A k \in 1 .. l - 1 : r[k] = frames[k]
    BY <1>1, <1>4, <2>2, <2>3
  <2>5. ASSUME NEW k \in 1 .. Len(r)
        PROVE  /\ r[k].object \in 1 .. n
               /\ r[k].into = None \/ (r[k].into[1] \in 1 .. n /\ r[k].into[2] \in Props)
               /\ k > 1 => r[k - 1].object < r[k].object
    <3>1. r[k].object = frames[k].object /\ r[k].into = frames[k].into
      BY <1>1, <2>2, <2>4 DEF Top
    <3>2. k > 1 => r[k - 1] = frames[k - 1]
      BY <1>1, <2>4
    <3>3. QED
      BY <2>4, <3>1, <3>2, <1>1 DEF Stack
  <2>6. QED
    BY <2>1, <2>3, <2>4, <2>5 DEF Stack
<1>7. QED
  BY <1>3, <1>5, <1>6

-----------------------------------------------------------------------------
(* The steps                                                               *)

LEMMA InitSatisfiesInv == Init => IndInv
<1> SUFFICES ASSUME Init PROVE IndInv
  OBVIOUS
<1>1. obj \in Seq(ObjRecs) /\ Len(obj) = 0
  BY DEF Init
<1>2. Absent \in RealmValues
  BY DEF Absent, RealmValues, Vals
<1>3. Stack(frames, Len(obj))
  BY DEF Init, Stack
<1>4. dict \in [Keys -> RealmValues] /\ \A k \in Keys : dict[k] = Absent
  BY <1>2 DEF Init
<1>5. set = {} /\ keyLeft = WithKey /\ raised \in BOOLEAN
  BY DEF Init
<1>6. Typed
  BY <1>1, <1>3, <1>4, <1>5 DEF Typed
<1>7. QED
  BY <1>1, <1>6 DEF IndInv, KeysGone, OnceEach

\* A step that makes no object and changes none.
LEMMA ObjectsSame ==
  ASSUME IndInv, obj' = obj, keyLeft' = keyLeft, Stack(frames, Len(obj))', raised' \in BOOLEAN,
         dict' \in [Keys -> RealmValues], \A k \in Keys : dict'[k] \in Stored(DictType) \cup {Absent},
         set' \subseteq Stored(SetType)
  PROVE  IndInv'
<1>1. \A type : Stored(type)' = Stored(type)
  BY DEF Stored, Assigned
<1>2. \A i \in 1 .. Len(obj) : Sound(i)'
  BY <1>1 DEF Sound, IndInv, Typed
<1>3. Typed'
  BY <1>1, <1>2 DEF Typed, IndInv
<1>4. QED
  BY <1>3 DEF IndInv, KeysGone, OnceEach

\* An error drops all the calls.
LEMMA RaiseKeeps == ASSUME IndInv, Raise PROVE IndInv'
<1>1. Stack(frames, Len(obj))'
  BY DEF Raise, Stack
<1>2. QED
  BY <1>1, ObjectsSame DEF Raise, IndInv, Typed

\* Setting a value: lib_realm_set_value.
LEMMA SetValueKeeps ==
  ASSUME IndInv, NEW o \in 1 .. Len(obj), NEW p \in Props, NEW v \in LuaValues,
         NEW s, Stack(s, Len(obj)), SetValue(o, p, v, s)
  PROVE  IndInv'
<1>1. CASE ~Assignable(p, v) /\ Raise
  BY <1>1, RaiseKeeps
<1>2. CASE /\ Assignable(p, v)
           /\ obj' = [obj EXCEPT ![o].props[p] = ToRealm(v)]
           /\ frames' = s
           /\ raised' = FALSE
           /\ UNCHANGED <<dict, set, keyLeft>>
  <2>1. PICK r : r = ToRealm(v)
    OBVIOUS
  <2>2. obj \in Seq(ObjRecs) /\ Len(obj) \in Nat
    BY DEF IndInv, Typed
  <2>3. r \in RealmValues /\ r \in Stored(Type[p]) /\ r.val = v.val
    BY <1>2, <2>1, <2>2, Converted, StorableIsStored DEF Assignable, Storable
  <2>4. obj' = [obj EXCEPT ![o] = [obj[o] EXCEPT !.props = [obj[o].props EXCEPT ![p] = r]]]
    BY <1>2, <2>1
  <2>5. obj[o] \in ObjRecs
    BY <2>2
  <2>6. PICK x : x = [obj[o] EXCEPT !.props = [obj[o].props EXCEPT ![p] = r]]
    OBVIOUS
  <2>7. /\ x \in ObjRecs /\ x.table = obj[o].table /\ x.class = obj[o].class
        /\ x.props[p] = r /\ \A q \in Props \ {p} : x.props[q] = obj[o].props[q]
    BY <2>3, <2>5, <2>6 DEF ObjRecs
  <2>8. obj' \in Seq(ObjRecs) /\ Len(obj') = Len(obj)
    BY <2>2, <2>4, <2>6, <2>7
  <2>9. \A i \in 1 .. Len(obj) : obj'[i] = IF i = o THEN x ELSE obj[i]
    BY <2>2, <2>4, <2>6
  <2>10. \A i \in 1 .. Len(obj) : obj'[i].class = obj[i].class /\ obj'[i].table = obj[i].table
    BY <2>7, <2>9
  <2>11. \A type : Stored(type)' = Stored(type)
    BY <2>8 DEF Stored, Assigned
  <2>12. ASSUME NEW i \in 1 .. Len(obj), NEW q \in Props
         PROVE  /\ obj'[i].props[q] \in Stored(Type[q]) \cup {Null}
                /\ obj'[i].props[q].type = "link" /\ Type[q] = "link" =>
                     obj'[obj'[i].props[q].val].class = Target[q]
    <3>1. CASE i = o /\ q = p
      <4>1. obj'[i].props[q] = r
        BY <2>7, <2>9, <3>1
      <4>2. r.type = "link" => v.kind = "object" /\ v \in Assigned
        BY <1>2, <2>1, <2>2, Converted DEF Assignable, Storable
      <4>3. r.type = "link" => v.val \in 1 .. Len(obj)
        BY <4>2 DEF Assigned, Object
      <4>4. r.type = "link" /\ Type[p] = "link" => obj[v.val].class = Target[p]
        BY <1>2 DEF Assignable
      <4>5. QED
        BY <2>3, <2>10, <3>1, <4>1, <4>3, <4>4
    <3>2. CASE ~(i = o /\ q = p)
      <4>1. obj'[i].props[q] = obj[i].props[q]
        BY <2>7, <2>9, <3>2
      <4>2. PICK w : w = obj[i].props[q]
        OBVIOUS
      <4>3. /\ w \in Stored(Type[q]) \cup {Null}
            /\ w.type = "link" /\ Type[q] = "link" => obj[w.val].class = Target[q]
        BY <4>2 DEF IndInv, Typed, Sound
      <4>4. w.type = "link" => w.val \in 1 .. Len(obj)
        BY <2>2, <4>3, LinkInRange DEF Null
      <4>5. QED
        BY <2>10, <4>1, <4>2, <4>3, <4>4
    <3>3. QED
      BY <3>1, <3>2
  <2>13. \A i \in 1 .. Len(obj') : Sound(i)'
    BY <2>8, <2>11, <2>12 DEF Sound
  <2>14. Typed'
    BY <1>2, <2>8, <2>11, <2>13 DEF Typed, IndInv
  <2>15. KeysGone' /\ OnceEach'
    BY <1>2, <2>8, <2>10 DEF IndInv, KeysGone, OnceEach
  <2>16. QED
    BY <2>14, <2>15 DEF IndInv
<1>3. QED
  BY <1>1, <1>2 DEF SetValue

\* Making an object: RealmObject._new.
LEMMA NewKeeps ==
  ASSUME IndInv, NEW t \in Tables, NEW class \in Classes \cup {None}, NEW into,
         into = None \/ into \in (1 .. Len(obj)) \X Props,
         NEW s, Stack(s, Len(obj)), New(t, class, into, s)
  PROVE  IndInv'
<1>1. CASE (class = None \/ class \in Keyed \/ Len(s) >= MaxDepth) /\ Raise
  BY <1>1, RaiseKeeps
<1>2. CASE /\ class # None
           /\ class \in Keyed => t \in keyLeft
           /\ obj' = Append(obj, NewObject(t, class))
           /\ keyLeft' = IF class \in Keyed THEN keyLeft \ {t} ELSE keyLeft
           /\ frames' = Append(s, Frame(t, class, into))
           /\ raised' = FALSE
           /\ UNCHANGED <<dict, set>>
  <2> DEFINE n == Len(obj)
  <2>1. obj \in Seq(ObjRecs) /\ n \in Nat
    BY DEF IndInv, Typed
  <2>2. PICK x : x = NewObject(t, class)
    OBVIOUS
  <2>3. Null \in RealmValues
    BY DEF Null, RealmValues, Vals
  <2>4. x \in ObjRecs /\ x.table = t /\ x.class = class /\ \A p \in Props : x.props[p] = Null
    BY <1>2, <2>2, <2>3 DEF NewObject, ObjRecs
  <2>5. /\ obj' \in Seq(ObjRecs) /\ Len(obj') = n + 1 /\ obj'[n + 1] = x
        /\ \A i \in 1 .. n : obj'[i] = obj[i]
    BY <1>2, <2>1, <2>2, <2>4
  <2>6. \A type : Stored(type) \subseteq Stored(type)'
    BY <2>1, <2>5, StoredGrows
  <2>7. ASSUME NEW i \in 1 .. n, NEW q \in Props
        PROVE  /\ obj'[i].props[q] \in Stored(Type[q])' \cup {Null}
               /\ obj'[i].props[q].type = "link" /\ Type[q] = "link" =>
                    obj'[obj'[i].props[q].val].class = Target[q]
    <3>1. PICK w : w = obj[i].props[q]
      OBVIOUS
    <3>2. /\ w \in Stored(Type[q]) \cup {Null}
          /\ w.type = "link" /\ Type[q] = "link" => obj[w.val].class = Target[q]
      BY <3>1 DEF IndInv, Typed, Sound
    <3>3. w.type = "link" => w.val \in 1 .. n
      BY <2>1, <3>2, LinkInRange DEF Null
    <3>4. QED
      BY <2>5, <2>6, <3>1, <3>2, <3>3
  <2>8. ASSUME NEW i \in 1 .. Len(obj') PROVE Sound(i)'
    <3>1. CASE i \in 1 .. n
      BY <2>7, <3>1 DEF Sound
    <3>2. CASE i = n + 1
      BY <2>4, <2>5, <3>2 DEF Sound, Null
    <3>3. QED
      BY <2>1, <2>5, <3>1, <3>2
  <2>9. Stack(frames', n + 1)
    <3>1. PICK f : f = Frame(t, class, into)
      OBVIOUS
    <3>2. Given(t) \cup Unknown(t, class) \in SUBSET (Props \cup {"_id", "1"})
      BY DEF Given, Unknown
    <3>3. into \in {None} \cup (Nat \X Props)
      BY <2>1
    <3>4. f \in FrameRecs /\ f.object = n + 1 /\ f.into = into
      BY <1>2, <2>1, <3>1, <3>2, <3>3 DEF Frame, FrameRecs
    <3>5. into = None \/ (into[1] \in 1 .. n /\ into[2] \in Props)
      OBVIOUS
    <3>6. QED
      BY <1>2, <2>1, <3>1, <3>4, <3>5, StackPushed
  <2>10. /\ dict' = dict /\ set' = set /\ raised' \in BOOLEAN
         /\ keyLeft' \subseteq keyLeft /\ (class \in Keyed => t \in keyLeft /\ t \notin keyLeft')
    BY <1>2
  <2>11. Stack(frames, Len(obj))'
    BY <2>5, <2>9
  <2>12. /\ dict' \in [Keys -> RealmValues]
         /\ \A k \in Keys : dict'[k] \in Stored(DictType)' \cup {Absent}
         /\ set' \subseteq Stored(SetType)'
         /\ keyLeft' \subseteq WithKey
    BY <2>6, <2>10 DEF IndInv, Typed
  <2>13. Typed'
    BY <2>5, <2>8, <2>10, <2>11, <2>12 DEF Typed
  <2>14. KeysGone'
    BY <2>1, <2>4, <2>5, <2>10 DEF IndInv, KeysGone
  <2>15. ASSUME NEW i \in 1 .. Len(obj'), NEW j \in 1 .. Len(obj'),
                obj'[i].class \in Keyed, obj'[j].class \in Keyed, obj'[i].table = obj'[j].table
         PROVE  i = j
    <3>1. \A k \in 1 .. n : obj[k].class \in Keyed => obj[k].table \notin keyLeft
      BY DEF IndInv, KeysGone
    <3>2. CASE i \in 1 .. n /\ j \in 1 .. n
      BY <2>5, <2>15, <3>2 DEF IndInv, OnceEach
    <3>3. CASE i = n + 1 /\ j \in 1 .. n
      BY <2>4, <2>5, <2>10, <2>15, <3>1, <3>3
    <3>4. CASE i \in 1 .. n /\ j = n + 1
      BY <2>4, <2>5, <2>10, <2>15, <3>1, <3>4
    <3>5. QED
      BY <2>1, <2>5, <3>2, <3>3, <3>4
  <2>16. QED
    BY <2>13, <2>14, <2>15 DEF IndInv, OnceEach
<1>3. QED
  BY <1>1, <1>2 DEF New

\* object[p] = v: RealmObject.__newindex.
LEMMA NewIndexKeeps ==
  ASSUME IndInv, NEW o \in 1 .. Len(obj), NEW p, NEW v \in LuaValues,
         NEW s, Stack(s, Len(obj)), NewIndex(o, p, v, s)
  PROVE  IndInv'
<1>1. CASE p \notin Props /\ Raise
  BY <1>1, RaiseKeeps
<1>2. CASE p \in Props /\ v.kind = "table" /\ New(v.val, Target[p], <<o, p>>, s)
  <2>1. v.val \in Tables
    BY <1>2 DEF LuaValues, Assigned, Object, Nil
  <2>2. Target[p] \in Classes \cup {None} /\ <<o, p>> \in (1 .. Len(obj)) \X Props
    BY <1>2
  <2>3. QED
    BY <1>2, <2>1, <2>2, NewKeeps
<1>3. CASE p \in Props /\ v.kind # "table" /\ SetValue(o, p, v, s)
  BY <1>3, SetValueKeeps
<1>4. QED
  BY <1>1, <1>2, <1>3 DEF NewIndex

\* Outside a call, the stack is empty.
LEMMA NoCall ==
  ASSUME IndInv, frames' = <<>> \/ frames' = frames, obj' = obj
  PROVE  Stack(<<>>, Len(obj)) /\ Stack(frames, Len(obj))'
<1>1. Stack(<<>>, Len(obj))
  BY DEF Stack
<1>2. QED
  BY <1>1 DEF IndInv, Typed, Stack

LEMMA HandleIsValue ==
  ASSUME NEW v \in LuaValues
  PROVE  Handle(v) \in LuaValues
BY DEF Handle, LuaValues

\* dictionary[k] = v
LEMMA SetKeyKeeps ==
  ASSUME IndInv, NEW k \in Keys, NEW v \in LuaValues, SetKey(k, v)
  PROVE  IndInv'
<1>1. CASE Raise
  BY <1>1, RaiseKeeps
<1>2. ASSUME NEW r \in RealmValues, r \in Stored(DictType) \cup {Absent},
             dict' = [dict EXCEPT ![k] = r], raised' = FALSE,
             UNCHANGED <<obj, set, keyLeft, frames>>
      PROVE  IndInv'
  <2>1. dict' \in [Keys -> RealmValues] /\ \A j \in Keys : dict'[j] \in Stored(DictType) \cup {Absent}
    BY <1>2 DEF IndInv, Typed
  <2>2. Stack(frames, Len(obj))'
    BY <1>2, NoCall
  <2>3. set' \subseteq Stored(SetType)
    BY <1>2 DEF IndInv, Typed
  <2>4. QED
    BY <1>2, <2>1, <2>2, <2>3, ObjectsSame
<1>3. Absent \in RealmValues
  BY DEF Absent, RealmValues, Vals
<1>4. CASE EraseKey(k)
  BY <1>2, <1>3, <1>4 DEF EraseKey
<1>5. CASE InsertKey(k, Handle(v))
  <2>1. Handle(v) \in LuaValues
    BY HandleIsValue
  <2>2. Storable(DictType, Handle(v)) =>
          ToRealm(Handle(v)) \in RealmValues /\ ToRealm(Handle(v)) \in Stored(DictType)
    BY <2>1, Converted, StorableIsStored DEF Storable, IndInv, Typed
  <2>3. QED
    BY <1>1, <1>2, <1>5, <2>2 DEF InsertKey
<1>6. QED
  BY <1>4, <1>5 DEF SetKey

\* set[e] = v
LEMMA SetEntryKeeps ==
  ASSUME IndInv, NEW e \in LuaValues, NEW v, SetEntry(e, v)
  PROVE  IndInv'
<1>1. CASE Raise
  BY <1>1, RaiseKeeps
<1>2. ASSUME set' \subseteq Stored(SetType), raised' = FALSE,
             UNCHANGED <<obj, dict, keyLeft, frames>>
      PROVE  IndInv'
  <2>1. Stack(frames, Len(obj))'
    BY <1>2, NoCall
  <2>2. dict' \in [Keys -> RealmValues] /\ \A j \in Keys : dict'[j] \in Stored(DictType) \cup {Absent}
    BY <1>2 DEF IndInv, Typed
  <2>3. QED
    BY <1>2, <2>1, <2>2, ObjectsSame
<1>3. Storable(SetType, Handle(e)) => ToRealm(Handle(e)) \in Stored(SetType)
  BY HandleIsValue, StorableIsStored DEF IndInv, Typed
<1>4. set \subseteq Stored(SetType)
  BY DEF IndInv, Typed
<1>5. QED
  BY <1>1, <1>2, <1>3, <1>4 DEF SetEntry, InsertEntry, EraseEntry

LEMMA NextKeepsInv == IndInv /\ [Next]_vars => IndInv'
<1> SUFFICES ASSUME IndInv, [Next]_vars PROVE IndInv'
  OBVIOUS
<1>1. obj \in Seq(ObjRecs) /\ Len(obj) \in Nat /\ Stack(frames, Len(obj))
  BY DEF IndInv, Typed
<1>2. Stack(<<>>, Len(obj))
  BY DEF Stack
<1>3. ASSUME NEW t \in Tables, NEW c \in Classes, Create(t, c) PROVE IndInv'
  BY <1>2, <1>3, NewKeeps DEF Create
<1>4. ASSUME NEW v \in Assigned, NEW o \in 1 .. Len(obj), NEW p, Assign(o, p, v) PROVE IndInv'
  BY <1>2, <1>4, NewIndexKeeps DEF Assign, LuaValues
<1>5. ASSUME NEW v \in Assigned, NEW k \in Keys, SetKey(k, v) PROVE IndInv'
  BY <1>5, SetKeyKeeps DEF LuaValues
<1>6. ASSUME NEW v \in Assigned, NEW e \in Assigned, SetEntry(e, v) PROVE IndInv'
  BY <1>6, SetEntryKeeps DEF LuaValues
<1>7. CASE SetNext
  <2>1. Running /\ Top \in FrameRecs /\ Top.object \in 1 .. Len(obj)
    BY <1>1, <1>7, StackPopped DEF SetNext
  <2>2. PICK p \in Top.todo :
          NewIndex(Top.object, p, IF p \in Props THEN Content[Top.table][p] ELSE Nil,
                   Append(Below, [Top EXCEPT !.todo = @ \ {p}]))
    BY <1>7 DEF SetNext
  <2>3. Top.table \in Tables
    BY <2>1 DEF FrameRecs
  <2>4. (IF p \in Props THEN Content[Top.table][p] ELSE Nil) \in LuaValues
    BY <2>3 DEF LuaValues, Assigned
  <2>5. Stack(Append(Below, [Top EXCEPT !.todo = @ \ {p}]), Len(obj))
    BY <1>1, <2>1, StackPopped
  <2>6. QED
    BY <2>1, <2>2, <2>4, <2>5, NewIndexKeeps
<1>8. CASE Return
  <2>1. /\ Running /\ Top.object \in 1 .. Len(obj) /\ Stack(Below, Len(obj))
        /\ Top.into = None \/ (Top.into[1] \in 1 .. Len(obj) /\ Top.into[2] \in Props)
    BY <1>1, <1>8, StackPopped DEF Return
  <2>2. CASE Top.into = None /\ frames' = Below /\ UNCHANGED <<obj, dict, set, keyLeft, raised>>
    <3>1. Stack(frames, Len(obj))'
      BY <2>1, <2>2
    <3>2. QED
      BY <2>2, <3>1, ObjectsSame DEF IndInv, Typed
  <2>3. CASE Top.into # None /\ SetValue(Top.into[1], Top.into[2], Object(Top.object), Below)
    <3>1. Object(Top.object) \in LuaValues
      BY <2>1 DEF LuaValues, Assigned
    <3>2. QED
      BY <2>1, <2>3, <3>1, SetValueKeeps
  <2>4. QED
    BY <1>8, <2>2, <2>3 DEF Return
<1>9. CASE UNCHANGED vars
  <2>1. Stack(frames, Len(obj))'
    BY <1>1, <1>9 DEF vars
  <2>2. QED
    BY <1>9, <2>1, ObjectsSame DEF vars, IndInv, Typed
<1>10. QED
  BY <1>3, <1>4, <1>5, <1>6, <1>7, <1>8, <1>9 DEF Next

LEMMA InvHolds == Spec => []IndInv
BY InitSatisfiesInv, NextKeepsInv, PTL DEF Spec

-----------------------------------------------------------------------------
(* Creation                                                                *)

\* No string of the program has a zero byte.
WholeStrings == \A v \in Values : v.kind = "string" => Cut[v.val] = v.val

\* What a place can hold reads as it was written.
LEMMA ReadsBack ==
  ASSUME WholeStrings, NEW v \in Values, Convertible(v)
  PROVE  ToLua(ToRealm(v)) = v
<1>1. v = [kind |-> v.kind, val |-> v.val] /\ v.kind # "object"
  OBVIOUS
<1>2. CASE v.kind = "integer"
  BY <1>1, <1>2 DEF ToRealm, ToLua
<1>3. CASE v.kind = "float"
  BY <1>1, <1>3 DEF ToRealm, ToLua
<1>4. CASE v.kind = "string"
  BY <1>1, <1>4 DEF ToRealm, ToLua, WholeStrings
<1>5. CASE v.kind = "boolean"
  BY <1>1, <1>5 DEF ToRealm, ToLua
<1> QED BY <1>1, <1>2, <1>3, <1>4, <1>5 DEF Convertible

LEMMA LinkReadsBack ==
  ASSUME NEW i
  PROVE  ToLua(ToRealm(Object(i))) = Object(i)
BY DEF ToRealm, ToLua, Object

\* A value that reads as an object leads to an object.
LEMMA ReadsInRange ==
  ASSUME IndInv, NEW i \in 1 .. Len(obj), NEW p \in Props, ToLua(obj[i].props[p]).kind = "object"
  PROVE  ToLua(obj[i].props[p]).val \in 1 .. Len(obj)
<1> DEFINE r == obj[i].props[p]
<1>1. r \in Stored(Type[p]) \cup {Null} /\ obj \in Seq(ObjRecs)
  BY DEF IndInv, Typed, Sound
<1>2. r \in RealmValues
  <2>1. obj[i] \in ObjRecs
    BY <1>1
  <2>2. QED
    BY <2>1 DEF ObjRecs
<1> HIDE DEF r
<1>3. r.type = "link" /\ ToLua(r) = Object(r.val)
  BY <1>2 DEF ToLua, RealmValues, RealmTypes, Object, Nil, r
<1>4. r \in Stored(Type[p])
  BY <1>1, <1>3 DEF Null
<1>5. r.val \in 1 .. Len(obj)
  BY <1>1, <1>3, <1>4, LinkInRange
<1> QED BY <1>3, <1>5 DEF Object, r

\* Where a value stays and no table changes, what is mirrored stays so.
LEMMA MirrorsStay ==
  ASSUME IndInv, NEW i \in 1 .. Len(obj), NEW p \in Props, Mirrors(i, p),
         obj'[i].props[p] = obj[i].props[p],
         \A j \in 1 .. Len(obj) : obj'[j].table = obj[j].table
  PROVE  Mirrors(i, p)'
BY ReadsInRange DEF Mirrors

WithValue(o, p, v) == [obj EXCEPT ![o].props[p] = ToRealm(v)]

\* What SetValue does to the objects, if it does not raise.
LEMMA OneValueSet ==
  ASSUME IndInv, NEW o \in 1 .. Len(obj), NEW p \in Props, NEW v \in LuaValues,
         Assignable(p, v), obj' = WithValue(o, p, v)
  PROVE  /\ Len(obj') = Len(obj)
         /\ \A i \in 1 .. Len(obj) : obj'[i].table = obj[i].table
         /\ obj'[o].props[p] = ToRealm(v)
         /\ \A i \in 1 .. Len(obj), q \in Props :
              i # o \/ q # p => obj'[i].props[q] = obj[i].props[q]
<1>1. PICK r : r = ToRealm(v)
  OBVIOUS
<1>2. obj \in Seq(ObjRecs) /\ obj[o] \in ObjRecs
  BY DEF IndInv, Typed
<1>3. PICK x : x = [obj[o] EXCEPT !.props = [obj[o].props EXCEPT ![p] = r]]
  OBVIOUS
<1>4. obj' = [obj EXCEPT ![o] = x]
  BY <1>1, <1>3 DEF WithValue
<1>5. /\ x.table = obj[o].table /\ x.props[p] = r
      /\ \A q \in Props \ {p} : x.props[q] = obj[o].props[q]
  BY <1>2, <1>3 DEF ObjRecs
<1>6. Len(obj') = Len(obj) /\ \A i \in 1 .. Len(obj) : obj'[i] = IF i = o THEN x ELSE obj[i]
  BY <1>2, <1>4
<1>7. obj'[o].props[p] = ToRealm(v)
  BY <1>1, <1>5, <1>6
<1>8. Len(obj') = Len(obj) /\ \A i \in 1 .. Len(obj) : obj'[i].table = obj[i].table
  BY <1>5, <1>6
<1>9. \A i \in 1 .. Len(obj), q \in Props : i # o \/ q # p => obj'[i].props[q] = obj[i].props[q]
  BY <1>5, <1>6
<1> QED BY <1>7, <1>8, <1>9

\* The last call, and those below it.
LEMMA TopParts ==
  ASSUME IndInv, Running
  PROVE  /\ Top \in FrameRecs /\ Top.object \in 1 .. Len(obj) /\ Below \in Seq(FrameRecs)
         /\ Top.into = None \/ (Top.into[1] \in 1 .. Len(obj) /\ Top.into[2] \in Props)
<1>1. Stack(frames, Len(obj)) /\ Len(obj) \in Nat
  BY DEF IndInv, Typed
<1> QED BY <1>1, StackPopped DEF Stack

\* The stack without its last frame, and with another last frame.
LEMMA StackParts ==
  ASSUME IndInv, Running
  PROVE  /\ frames \in Seq(FrameRecs) /\ Len(frames) \in Nat /\ Len(frames) >= 1
         /\ Len(Below) = Len(frames) - 1
         /\ \A k \in 1 .. Len(frames) - 1 : Below[k] = frames[k]
         /\ \A f \in FrameRecs :
              /\ Append(Below, f) \in Seq(FrameRecs)
              /\ Len(Append(Below, f)) = Len(frames)
              /\ Append(Below, f)[Len(frames)] = f
              /\ \A k \in 1 .. Len(frames) - 1 : Append(Below, f)[k] = frames[k]
<1>1. Stack(frames, Len(obj))
  BY DEF IndInv, Typed
<1>2. frames \in Seq(FrameRecs) /\ Len(frames) \in Nat /\ Len(frames) >= 1
  BY <1>1, EmptySeq DEF Stack, Running
<1>3. Below \in Seq(FrameRecs)
  BY TopParts
<1>4. Len(Below) = Len(frames) - 1 /\ \A k \in 1 .. Len(frames) - 1 : Below[k] = frames[k]
  <2>1. Below = [k \in 1 .. Len(frames) - 1 |-> frames[k]]
    BY <1>2 DEF Below
  <2>2. QED
    BY <1>2, <2>1
<1>5. ASSUME NEW f \in FrameRecs
      PROVE  /\ Append(Below, f) \in Seq(FrameRecs)
             /\ Len(Append(Below, f)) = Len(frames)
             /\ Append(Below, f)[Len(frames)] = f
             /\ \A k \in 1 .. Len(frames) - 1 : Append(Below, f)[k] = frames[k]
  <2>1. PICK b \in Seq(FrameRecs) : b = Below
    BY <1>3
  <2>2. /\ Append(b, f) \in Seq(FrameRecs) /\ Len(Append(b, f)) = Len(b) + 1
        /\ Append(b, f)[Len(b) + 1] = f
        /\ \A k \in 1 .. Len(b) : Append(b, f)[k] = b[k]
    OBVIOUS
  <2>3. QED
    BY <1>2, <1>4, <2>1, <2>2
<1> QED BY <1>2, <1>3, <1>4, <1>5

\* Every call but the lowest is to link its object where its table stands in
\* the table of the call below.
Linked == \A k \in 1 .. Len(frames) :
  /\ obj[frames[k].object].table = frames[k].table
  /\ k > 1 => LET into == frames[k].into
              IN  /\ into # None /\ into[1] = frames[k - 1].object /\ into[2] \in Props
                  /\ Content[frames[k - 1].table][into[2]].kind = "table"
                  /\ Content[frames[k - 1].table][into[2]].val = frames[k].table

MirrorInv == Linked /\ MirrorsSoFar

\* No call, nothing to show.
LEMMA NoneMirror == ASSUME frames' = <<>> PROVE MirrorInv'
BY DEF MirrorInv, Linked, MirrorsSoFar, Running

LEMMA RaiseMirrors == ASSUME Raise PROVE MirrorInv'
BY NoneMirror DEF Raise

\* A value is set during a call, and nothing but that stops to be pending.
LEMMA SettledMirrors ==
  ASSUME IndInv, MirrorInv, Running, NEW o \in 1 .. Len(obj), NEW p \in Props, NEW v \in LuaValues,
         Assignable(p, v), obj' = WithValue(o, p, v),
         Len(frames') \in Nat, 1 <= Len(frames'), Len(frames') <= Len(frames),
         \A k \in 1 .. Len(frames') : /\ frames'[k].object = frames[k].object
                                      /\ frames'[k].table = frames[k].table
                                      /\ frames'[k].into = frames[k].into,
         \A i \in 1 .. Len(obj), q \in Props : Pending(i, q) => Pending(i, q)' \/ (i = o /\ q = p),
         o >= frames[1].object /\ p \in Given(obj[o].table) => Mirrors(o, p)'
  PROVE  MirrorInv'
<1>1. /\ Len(obj') = Len(obj)
      /\ \A i \in 1 .. Len(obj) : obj'[i].table = obj[i].table
      /\ \A i \in 1 .. Len(obj), q \in Props :
           i # o \/ q # p => obj'[i].props[q] = obj[i].props[q]
  BY OneValueSet
<1>2. Stack(frames, Len(obj)) /\ Len(obj) \in Nat /\ Len(frames) \in Nat
  BY DEF IndInv, Typed, Stack
<1>3. Linked'
  <2>1. ASSUME NEW k \in 1 .. Len(frames')
        PROVE  /\ obj'[frames'[k].object].table = frames'[k].table
               /\ k > 1 => LET into == frames'[k].into
                           IN  /\ into # None /\ into[1] = frames'[k - 1].object /\ into[2] \in Props
                               /\ Content[frames'[k - 1].table][into[2]].kind = "table"
                               /\ Content[frames'[k - 1].table][into[2]].val = frames'[k].table
    <3>1. k \in 1 .. Len(frames) /\ (k > 1 => k - 1 \in 1 .. Len(frames'))
      BY <1>2
    <3>2. frames[k].object \in 1 .. Len(obj)
      BY <1>2, <3>1 DEF Stack
    <3>3. obj'[frames'[k].object].table = frames'[k].table
      BY <1>1, <3>1, <3>2, SMTT(20) DEF MirrorInv, Linked
    <3>4. QED
      BY <3>1, <3>3 DEF MirrorInv, Linked
  <2>2. QED
    BY <2>1 DEF Linked
<1>4. ASSUME NEW i \in frames'[1].object .. Len(obj'), NEW q \in Given(obj'[i].table)
      PROVE  Pending(i, q)' \/ Mirrors(i, q)'
  <2>1. 1 \in 1 .. Len(frames') /\ 1 \in 1 .. Len(frames)
    BY <1>2
  <2>2. frames'[1].object = frames[1].object /\ frames[1].object \in 1 .. Len(obj)
    BY <1>2, <2>1 DEF Stack
  <2>3. i \in 1 .. Len(obj) /\ i >= frames[1].object /\ obj'[i].table = obj[i].table /\ q \in Props
    BY <1>1, <1>2, <2>2 DEF Given
  <2>4. Pending(i, q) \/ Mirrors(i, q)
    BY <1>1, <2>2, <2>3 DEF MirrorInv, MirrorsSoFar
  <2>5. CASE i = o /\ q = p
    BY <2>3, <2>5
  <2>6. CASE ~(i = o /\ q = p)
    <3>1. obj'[i].props[q] = obj[i].props[q]
      BY <1>1, <2>3, <2>6
    <3>2. Mirrors(i, q) => Mirrors(i, q)'
      BY <1>1, <2>3, <3>1, MirrorsStay
    <3>3. QED
      BY <2>3, <2>4, <2>6, <3>2
  <2> QED BY <2>5, <2>6
<1> QED BY <1>3, <1>4 DEF MirrorInv, MirrorsSoFar, Given

\* The program calls RealmObject._new.
LEMMA FirstNewMirrors ==
  ASSUME IndInv, NEW t \in Tables, NEW class \in Classes \cup {None}, NEW into, New(t, class, into, <<>>)
  PROVE  MirrorInv'
<1>1. CASE Raise
  BY <1>1, RaiseMirrors
<1>2. CASE obj' = Append(obj, NewObject(t, class)) /\ frames' = Append(<<>>, Frame(t, class, into))
  <2>1. PICK n \in Nat : n = Len(obj) /\ obj \in Seq(ObjRecs)
    BY DEF IndInv, Typed
  <2>2. Len(obj') = n + 1 /\ obj'[n + 1].table = t
    BY <1>2, <2>1 DEF NewObject
  <2>3. PICK f : f = Frame(t, class, into)
    OBVIOUS
  <2>4. Len(frames') = 1 /\ frames'[1] = f
    BY <1>2, <2>3
  <2>5. f.object = n + 1 /\ f.table = t /\ Given(t) \subseteq f.todo
    BY <2>1, <2>3 DEF Frame
  <2>6. Linked'
    BY <2>2, <2>4, <2>5 DEF Linked
  <2>7. ASSUME NEW i \in frames'[1].object .. Len(obj'), NEW q \in Given(obj'[i].table)
        PROVE  Pending(i, q)'
    <3>1. i = n + 1 /\ q \in Given(t)
      BY <2>1, <2>2, <2>4, <2>5
    <3>2. 1 \in 1 .. Len(frames') /\ frames'[1].object = i /\ q \in frames'[1].todo
      BY <2>4, <2>5, <3>1
    <3> QED BY <3>2 DEF Pending
  <2> QED BY <2>6, <2>7 DEF MirrorInv, MirrorsSoFar, Given
<1> QED BY <1>1, <1>2 DEF New

LEMMA FirstCallMirrors ==
  ASSUME IndInv, NEW o, NEW p, NEW v \in LuaValues, NewIndex(o, p, v, <<>>)
  PROVE  MirrorInv'
<1>1. CASE p \notin Props /\ Raise
  BY <1>1, RaiseMirrors
<1>2. CASE p \in Props /\ v.kind = "table" /\ New(v.val, Target[p], <<o, p>>, <<>>)
  <2>1. v.val \in Tables
    BY <1>2 DEF LuaValues, Assigned, Object, Nil
  <2> QED BY <1>2, <2>1, FirstNewMirrors
<1>3. CASE p \in Props /\ v.kind # "table" /\ SetValue(o, p, v, <<>>)
  BY <1>3, RaiseMirrors, NoneMirror DEF SetValue
<1> QED BY <1>1, <1>2, <1>3 DEF NewIndex

\* The last call with one property less to set.
Less(p) == [Top EXCEPT !.todo = @ \ {p}]

LEMMA LessParts ==
  ASSUME IndInv, Running, NEW p
  PROVE  /\ Less(p) \in FrameRecs /\ Less(p).object = Top.object /\ Less(p).table = Top.table
         /\ Less(p).into = Top.into /\ Less(p).todo = Top.todo \ {p}
<1>1. Top \in FrameRecs
  BY TopParts
<1> QED BY <1>1 DEF Less, FrameRecs

\* The next property holds a table: its object is made, and its call is the
\* last one.
LEMMA NextNewMirrors ==
  ASSUME IndInv, MirrorInv, Running, NEW p \in Top.todo, p \in Props,
         NEW t \in Tables, Content[Top.table][p].kind = "table", Content[Top.table][p].val = t,
         NEW class \in Classes \cup {None},
         New(t, class, <<Top.object, p>>, Append(Below, Less(p)))
  PROVE  MirrorInv'
<1>1. CASE Raise
  BY <1>1, RaiseMirrors
<1>2. CASE /\ obj' = Append(obj, NewObject(t, class))
           /\ frames' = Append(Append(Below, Less(p)), Frame(t, class, <<Top.object, p>>))
  <2> DEFINE l == Len(frames)
  <2>1. PICK n \in Nat : n = Len(obj) /\ obj \in Seq(ObjRecs) /\ Stack(frames, n)
    BY DEF IndInv, Typed
  <2>2. Len(obj') = n + 1 /\ obj'[n + 1].table = t /\ \A i \in 1 .. n : obj'[i] = obj[i]
    BY <1>2, <2>1 DEF NewObject
  <2>3. PICK f : f = Frame(t, class, <<Top.object, p>>)
    OBVIOUS
  <2>4. /\ f.object = n + 1 /\ f.table = t /\ Given(t) \subseteq f.todo
        /\ f.into = <<Top.object, p>>
    BY <2>1, <2>3 DEF Frame
  <2>5. PICK s : s = Append(Below, Less(p))
    OBVIOUS
  <2>6. /\ s \in Seq(FrameRecs) /\ Len(s) = l /\ s[l] = Less(p) /\ l \in Nat /\ l >= 1
        /\ \A k \in 1 .. l - 1 : s[k] = frames[k]
    BY <2>5, StackParts, LessParts
  <2>7. frames' = Append(s, f)
    BY <1>2, <2>3, <2>5
  <2>8. Len(frames') = l + 1 /\ frames'[l + 1] = f /\ \A k \in 1 .. l : frames'[k] = s[k]
    BY <2>6, <2>7
  <2>9. \A k \in 1 .. l : /\ s[k].object = frames[k].object /\ s[k].table = frames[k].table
                          /\ s[k].into = frames[k].into
    <3>1. Top = frames[l]
      BY DEF Top
    <3> QED BY <2>6, <3>1, LessParts
  <2> HIDE DEF l
  <2>10. \A k \in 1 .. l : frames[k].object \in 1 .. n
    BY <2>1 DEF Stack, l
  <2>11. Linked'
    <3>1. ASSUME NEW k \in 1 .. Len(frames')
          PROVE  /\ obj'[frames'[k].object].table = frames'[k].table
                 /\ k > 1 => LET into == frames'[k].into
                             IN  /\ into # None /\ into[1] = frames'[k - 1].object /\ into[2] \in Props
                                 /\ Content[frames'[k - 1].table][into[2]].kind = "table"
                                 /\ Content[frames'[k - 1].table][into[2]].val = frames'[k].table
      <4>1. CASE k \in 1 .. l
        <5>1. /\ obj[frames[k].object].table = frames[k].table
              /\ k > 1 => LET into == frames[k].into
                          IN  /\ into # None /\ into[1] = frames[k - 1].object /\ into[2] \in Props
                              /\ Content[frames[k - 1].table][into[2]].kind = "table"
                              /\ Content[frames[k - 1].table][into[2]].val = frames[k].table
          BY <4>1 DEF MirrorInv, Linked, l
        <5>2. k > 1 => k - 1 \in 1 .. l
          BY <2>6, <4>1
        <5>3. obj'[frames[k].object] = obj[frames[k].object]
          BY <2>2, <2>10, <4>1
        <5>4. /\ frames'[k].object = frames[k].object /\ frames'[k].table = frames[k].table
              /\ frames'[k].into = frames[k].into
              /\ k > 1 => /\ frames'[k - 1].object = frames[k - 1].object
                          /\ frames'[k - 1].table = frames[k - 1].table
          BY <2>8, <2>9, <4>1, <5>2
        <5> QED BY <5>1, <5>3, <5>4
      <4>2. CASE k = l + 1
        <5>1. /\ frames'[k] = f /\ k - 1 = l /\ frames'[k - 1].object = frames[l].object
              /\ frames'[k - 1].table = frames[l].table
          BY <2>6, <2>8, <2>9, <4>2
        <5>2. Top = frames[l]
          BY DEF Top, l
        <5>3. <<Top.object, p>> # None
          <6>1. <<Top.object, p>> \in Nat \X Props
            BY TopParts DEF FrameRecs
          <6> QED BY <6>1
        <5>4. f.into[1] = frames[l].object /\ f.into[2] = p /\ f.into # None
          BY <2>4, <5>2, <5>3
        <5> QED BY <2>2, <2>4, <5>1, <5>2, <5>4
      <4> QED BY <2>6, <2>8, <3>1, <4>1, <4>2, SMTT(20)
    <3> QED BY <3>1 DEF Linked
  <2>12. ASSUME NEW i \in frames'[1].object .. Len(obj'), NEW q \in Given(obj'[i].table)
         PROVE  Pending(i, q)' \/ Mirrors(i, q)'
    <3>1. frames'[1].object = frames[1].object /\ frames[1].object \in 1 .. n
      BY <2>6, <2>8, <2>9, <2>10
    <3>2. CASE i \in 1 .. n
      <4>1. obj'[i] = obj[i] /\ i >= frames[1].object /\ q \in Props
        BY <2>2, <3>1, <3>2 DEF Given
      <4>2. Pending(i, q) \/ Mirrors(i, q)
        BY <2>1, <3>1, <3>2, <4>1 DEF MirrorInv, MirrorsSoFar
      <4>3. CASE Mirrors(i, q)
        BY <2>1, <2>2, <3>2, <4>1, <4>3, MirrorsStay
      <4>4. CASE Pending(i, q)
        <5>1. PICK k \in 1 .. l : \/ frames[k].object = i /\ q \in frames[k].todo
                                  \/ frames[k].into = <<i, q>>
          BY <4>4 DEF Pending, l
        <5>2. k \in 1 .. Len(frames') /\ l + 1 \in 1 .. Len(frames')
          BY <2>6, <2>8
        <5>3. CASE frames[k].into = <<i, q>>
          BY <2>8, <2>9, <5>2, <5>3 DEF Pending
        <5>4. CASE k < l /\ frames[k].object = i /\ q \in frames[k].todo
          BY <2>6, <2>8, <5>2, <5>4 DEF Pending
        <5>5. CASE k = l /\ frames[k].object = i /\ q \in frames[k].todo /\ q # p
          <6>1. frames'[k].object = i /\ q \in frames'[k].todo
            BY <2>6, <2>8, <5>5, LessParts DEF Top, l
          <6> QED BY <5>2, <6>1 DEF Pending
        <5>6. CASE k = l /\ frames[k].object = i /\ q = p
          <6>1. frames'[l + 1].into = <<i, q>>
            BY <2>4, <2>8, <5>6 DEF Top, l
          <6> QED BY <5>2, <6>1 DEF Pending
        <5> QED BY <2>6, <5>1, <5>3, <5>4, <5>5, <5>6
      <4> QED BY <4>2, <4>3, <4>4
    <3>3. CASE i = n + 1
      <4>1. l + 1 \in 1 .. Len(frames') /\ frames'[l + 1].object = i /\ q \in frames'[l + 1].todo
        BY <2>2, <2>4, <2>6, <2>8, <3>3
      <4> QED BY <4>1 DEF Pending
    <3> QED BY <2>1, <2>2, <3>1, <3>2, <3>3
  <2> QED BY <2>11, <2>12 DEF MirrorInv, MirrorsSoFar, Given
<1> QED BY <1>1, <1>2 DEF New

\* The next property holds any other value: it is set.
LEMMA NextValueMirrors ==
  ASSUME WholeStrings, IndInv, MirrorInv, Running, NEW p \in Top.todo, p \in Props,
         Content[Top.table][p].kind # "table",
         SetValue(Top.object, p, Content[Top.table][p], Append(Below, Less(p)))
  PROVE  MirrorInv'
<1> DEFINE l == Len(frames)
<1>0. PICK o, v : o = Top.object /\ v = Content[Top.table][p]
  OBVIOUS
<1>1. CASE Raise
  BY <1>1, RaiseMirrors
<1>2. CASE /\ Assignable(p, v) /\ obj' = WithValue(o, p, v)
           /\ frames' = Append(Below, Less(p))
  <2>1. Top \in FrameRecs /\ o \in 1 .. Len(obj)
    BY <1>0, TopParts
  <2>2. v \in Values
    BY <1>0, <2>1 DEF FrameRecs
  <2>3. v \in LuaValues
    BY <2>2 DEF LuaValues, Assigned
  <2>4. /\ Len(frames') = l /\ l \in Nat /\ l >= 1 /\ frames'[l] = Less(p)
        /\ \A k \in 1 .. l - 1 : frames'[k] = frames[k]
    BY <1>2, StackParts, LessParts
  <2>5. Top = frames[l]
    BY DEF Top
  <2>6. obj[o].table = Top.table
    BY <1>0, <2>4, <2>5, SMTT(20) DEF MirrorInv, Linked
  <2>7. ToLua(ToRealm(v)) = v
    BY <1>2, <2>2, ReadsBack DEF Assignable, Storable
  <2>8. obj'[o].props[p] = ToRealm(v) /\ obj'[o].table = Top.table
    <3>1. obj'[o].props[p] = ToRealm(v) /\ obj'[o].table = obj[o].table
      BY <1>2, <2>1, <2>3, OneValueSet
    <3> QED BY <2>6, <3>1
  <2>9. Mirrors(o, p)'
    BY <1>0, <2>7, <2>8 DEF Mirrors
  <2>10. \A k \in 1 .. l : /\ frames'[k].object = frames[k].object
                           /\ frames'[k].table = frames[k].table
                           /\ frames'[k].into = frames[k].into
    BY <2>4, <2>5, LessParts
  <2>11. ASSUME NEW i \in 1 .. Len(obj), NEW q \in Props, Pending(i, q)
         PROVE  Pending(i, q)' \/ (i = o /\ q = p)
    <3>1. PICK k \in 1 .. l : \/ frames[k].object = i /\ q \in frames[k].todo
                              \/ frames[k].into = <<i, q>>
      BY <2>11 DEF Pending
    <3>2. CASE frames[k].into = <<i, q>>
      BY <2>4, <2>10, <3>2 DEF Pending
    <3>3. CASE k < l /\ frames[k].object = i /\ q \in frames[k].todo
      BY <2>4, <3>3 DEF Pending
    <3>4. CASE k = l /\ frames[k].object = i /\ q \in frames[k].todo /\ q # p
      <4>1. frames'[k].object = i /\ q \in frames'[k].todo
        BY <2>4, <2>5, <3>4, LessParts
      <4> QED BY <2>4, <4>1 DEF Pending
    <3> QED BY <1>0, <2>4, <2>5, <3>1, <3>2, <3>3, <3>4
  <2> HIDE DEF l
  <2> QED BY <1>2, <2>1, <2>3, <2>4, <2>9, <2>10, <2>11, SettledMirrors DEF l
<1> QED BY <1>0, <1>1, <1>2 DEF SetValue, WithValue

\* A call returns: its object is linked.
LEMMA ReturnMirrors ==
  ASSUME IndInv, MirrorInv, Return
  PROVE  MirrorInv'
<1> DEFINE l == Len(frames)
<1>0. PICK o, p, c, v : o = Top.into[1] /\ p = Top.into[2] /\ c = Top.object /\ v = Object(c)
  OBVIOUS
<1>1. Running /\ Top.todo = {} /\ Top = frames[l]
  BY DEF Return, Top
<1>2. /\ l \in Nat /\ l >= 1 /\ Len(Below) = l - 1 /\ Below \in Seq(FrameRecs)
      /\ \A k \in 1 .. l - 1 : Below[k] = frames[k]
  <2>1. Below \in Seq(FrameRecs)
    BY <1>1, TopParts
  <2> QED BY <1>1, <2>1, StackParts
<1>3. CASE l = 1
  <2>1. Below = <<>>
    BY <1>2, <1>3, EmptySeq
  <2>2. frames' = <<>>
    BY <2>1 DEF Return, SetValue, Raise
  <2> QED BY <2>2, NoneMirror
<1>4. CASE Raise
  BY <1>4, RaiseMirrors
<1>5. CASE l > 1 /\ ~Raise
  <2>1. /\ Top.into # None /\ o = frames[l - 1].object /\ p \in Props
        /\ Content[frames[l - 1].table][p].kind = "table"
        /\ Content[frames[l - 1].table][p].val = Top.table
    BY <1>0, <1>1, <1>2, <1>5, SMTT(20) DEF MirrorInv, Linked
  <2>2. /\ Assignable(p, v) /\ obj' = WithValue(o, p, v) /\ frames' = Below
    BY <1>0, <1>5, <2>1 DEF Return, SetValue, WithValue
  <2>3. c \in 1 .. Len(obj) /\ o \in 1 .. Len(obj)
    BY <1>0, <1>1, <2>1, TopParts
  <2>4. v \in LuaValues
    BY <1>0, <2>3 DEF LuaValues, Assigned
  <2>5. obj[o].table = frames[l - 1].table /\ obj[c].table = Top.table
    <3>1. l \in 1 .. Len(frames) /\ l - 1 \in 1 .. Len(frames)
      BY <1>2, <1>5
    <3>2. /\ obj[frames[l].object].table = frames[l].table
          /\ obj[frames[l - 1].object].table = frames[l - 1].table
      BY <3>1 DEF MirrorInv, Linked
    <3> QED BY <1>0, <1>1, <2>1, <3>2
  <2>6. /\ obj'[o].props[p] = ToRealm(v) /\ obj'[o].table = obj[o].table
        /\ obj'[c].table = Top.table
    <3>1. /\ obj'[o].props[p] = ToRealm(v)
          /\ \A i \in 1 .. Len(obj) : obj'[i].table = obj[i].table
      BY <2>1, <2>2, <2>3, <2>4, OneValueSet, SMTT(20)
    <3> QED BY <2>3, <2>5, <3>1
  <2>7. ToLua(ToRealm(v)) = v /\ v.kind = "object" /\ v.val = c
    BY <1>0, LinkReadsBack DEF Object
  <2>8. Mirrors(o, p)'
    BY <2>1, <2>5, <2>6, <2>7 DEF Mirrors
  <2>9. \A k \in 1 .. l - 1 : frames'[k] = frames[k]
    BY <1>2, <2>2
  <2>10. ASSUME NEW i \in 1 .. Len(obj), NEW q \in Props, Pending(i, q)
         PROVE  Pending(i, q)' \/ (i = o /\ q = p)
    <3>1. PICK k \in 1 .. l : \/ frames[k].object = i /\ q \in frames[k].todo
                              \/ frames[k].into = <<i, q>>
      BY <2>10 DEF Pending
    <3>2. CASE k < l
      <4>1. k \in 1 .. Len(frames') /\ frames'[k] = frames[k]
        BY <1>2, <2>2, <2>9, <3>2
      <4> QED BY <3>1, <4>1 DEF Pending
    <3>3. CASE k = l
      <4>1. Top.into = <<i, q>>
        BY <1>1, <3>1, <3>3
      <4> QED BY <1>0, <4>1
    <3> QED BY <1>2, <3>2, <3>3
  <2>11. Len(frames') = l - 1
    BY <1>2, <2>2
  <2>12. \A k \in 1 .. Len(frames') : /\ frames'[k].object = frames[k].object
                                      /\ frames'[k].table = frames[k].table
                                      /\ frames'[k].into = frames[k].into
    BY <2>9, <2>11
  <2>13. Len(frames') \in Nat /\ 1 <= Len(frames') /\ Len(frames') <= Len(frames)
    BY <1>2, <1>5, <2>11
  <2> HIDE DEF l
  <2> QED BY <1>1, <2>1, <2>2, <2>3, <2>4, <2>8, <2>10, <2>12, <2>13, SettledMirrors
<1> QED BY <1>2, <1>3, <1>4, <1>5

LEMMA NextKeepsMirror ==
  ASSUME WholeStrings, IndInv, MirrorInv, [Next]_vars
  PROVE  MirrorInv'
<1>1. ASSUME NEW t \in Tables, NEW c \in Classes, Create(t, c) PROVE MirrorInv'
  BY <1>1, FirstNewMirrors DEF Create
<1>2. ASSUME NEW v \in Assigned, NEW o \in 1 .. Len(obj), NEW p, Assign(o, p, v) PROVE MirrorInv'
  BY <1>2, FirstCallMirrors DEF Assign, LuaValues
<1>3. ASSUME NEW v \in Assigned, NEW k \in Keys, SetKey(k, v) PROVE MirrorInv'
  BY <1>3, NoneMirror DEF SetKey, Calls, EraseKey, InsertKey, Raise
<1>4. ASSUME NEW v \in Assigned, NEW e \in Assigned, SetEntry(e, v) PROVE MirrorInv'
  BY <1>4, NoneMirror DEF SetEntry, Calls, EraseEntry, InsertEntry, Raise
<1>5. CASE SetNext
  <2>1. Running /\ Top \in FrameRecs
    BY <1>5, TopParts DEF SetNext
  <2>2. PICK p \in Top.todo :
          NewIndex(Top.object, p, IF p \in Props THEN Content[Top.table][p] ELSE Nil,
                   Append(Below, Less(p)))
    BY <1>5 DEF SetNext, Less
  <2>3. CASE p \notin Props
    BY <2>2, <2>3, RaiseMirrors DEF NewIndex
  <2>4. CASE p \in Props
    <3>1. NewIndex(Top.object, p, Content[Top.table][p], Append(Below, Less(p)))
      BY <2>2, <2>4
    <3>2. Content[Top.table][p] \in Values /\ Target[p] \in Classes \cup {None}
      BY <2>1, <2>4 DEF FrameRecs
    <3>3. CASE Content[Top.table][p].kind = "table"
      <4>1. Content[Top.table][p].val \in Tables
        BY <3>2, <3>3
      <4>2. New(Content[Top.table][p].val, Target[p], <<Top.object, p>>, Append(Below, Less(p)))
        BY <2>4, <3>1, <3>3 DEF NewIndex
      <4> QED BY <2>1, <2>4, <3>2, <3>3, <4>1, <4>2, NextNewMirrors
    <3>4. CASE Content[Top.table][p].kind # "table"
      <4>1. SetValue(Top.object, p, Content[Top.table][p], Append(Below, Less(p)))
        BY <2>4, <3>1, <3>4 DEF NewIndex
      <4> QED BY <2>1, <2>4, <3>4, <4>1, NextValueMirrors
    <3> QED BY <3>3, <3>4
  <2> QED BY <2>3, <2>4
<1>6. CASE Return
  BY <1>6, ReturnMirrors
<1>7. CASE UNCHANGED vars
  <2>1. obj' = obj /\ frames' = frames
    BY <1>7 DEF vars
  <2>2. \A i, p : (Pending(i, p)' <=> Pending(i, p)) /\ (Mirrors(i, p)' <=> Mirrors(i, p))
    BY <2>1 DEF Pending, Mirrors
  <2>3. Linked' /\ (Running' <=> Running)
    BY <2>1 DEF MirrorInv, Linked, Running
  <2> QED BY <2>1, <2>2, <2>3 DEF MirrorInv, MirrorsSoFar, Given
<1> QED BY <1>1, <1>2, <1>3, <1>4, <1>5, <1>6, <1>7 DEF Next

-----------------------------------------------------------------------------
(* Creation returns                                                        *)

\* While a call is under way, an array among the tables has its numbers left to
\* be set; the object that the first call is for is younger than the one it is
\* to be linked to.
NumberLeft(i) == \E k \in 1 .. Len(frames) : frames[k].object = i /\ "1" \in frames[k].todo
NumbersLeft == Running =>
  /\ frames[1].into = None \/ frames[1].into[1] < frames[1].object
  /\ \A i \in frames[1].object .. Len(obj) : obj[i].table \in Arrays => NumberLeft(i)

LEMMA NoneLeft == ASSUME frames' = <<>> PROVE NumbersLeft'
BY DEF NumbersLeft, Running

\* No object made, and no number set.
LEMMA NumbersStay ==
  ASSUME IndInv, NumbersLeft, Running,
         frames'[1].object = frames[1].object, frames'[1].into = frames[1].into,
         Len(obj') = Len(obj), \A i \in 1 .. Len(obj) : obj'[i].table = obj[i].table,
         \A i \in 1 .. Len(obj) : NumberLeft(i) => NumberLeft(i)'
  PROVE  NumbersLeft'
<1>1. frames[1].object \in 1 .. Len(obj) /\ Len(obj) \in Nat
  BY StackParts DEF IndInv, Typed, Stack
<1>2. ASSUME NEW i \in frames'[1].object .. Len(obj'), obj'[i].table \in Arrays
      PROVE  NumberLeft(i)'
  <2>1. i \in 1 .. Len(obj) /\ i \in frames[1].object .. Len(obj) /\ obj[i].table \in Arrays
    BY <1>1, <1>2
  <2> QED BY <2>1 DEF NumbersLeft
<1> QED BY <1>2 DEF NumbersLeft

\* The program calls RealmObject._new.
LEMMA FirstNewLeft ==
  ASSUME IndInv, NEW t \in Tables, NEW class, NEW into,
         into = None \/ into \in (1 .. Len(obj)) \X Props,
         New(t, class, into, <<>>)
  PROVE  NumbersLeft'
<1>1. CASE Raise
  BY <1>1, NoneLeft DEF Raise
<1>2. CASE obj' = Append(obj, NewObject(t, class)) /\ frames' = Append(<<>>, Frame(t, class, into))
  <2>1. PICK n \in Nat : n = Len(obj) /\ obj \in Seq(ObjRecs)
    BY DEF IndInv, Typed
  <2>2. Len(obj') = n + 1 /\ obj'[n + 1].table = t
    BY <1>2, <2>1 DEF NewObject
  <2>3. PICK f : f = Frame(t, class, into)
    OBVIOUS
  <2>4. Len(frames') = 1 /\ frames'[1] = f
    BY <1>2, <2>3
  <2>5. f.object = n + 1 /\ f.into = into /\ (t \in Arrays => "1" \in f.todo)
    BY <2>1, <2>3 DEF Frame, Unknown
  <2>6. frames'[1].into = None \/ frames'[1].into[1] < frames'[1].object
    BY <2>1, <2>4, <2>5
  <2>7. ASSUME NEW i \in frames'[1].object .. Len(obj'), obj'[i].table \in Arrays
        PROVE  NumberLeft(i)'
    <3>1. i = n + 1 /\ 1 \in 1 .. Len(frames')
      BY <2>1, <2>2, <2>4, <2>5
    <3> QED BY <2>2, <2>4, <2>5, <2>7, <3>1 DEF NumberLeft
  <2> QED BY <2>6, <2>7 DEF NumbersLeft
<1> QED BY <1>1, <1>2 DEF New

\* A number is no property: to set one raises.
LEMMA NextLeft ==
  ASSUME IndInv, NumbersLeft, SetNext
  PROVE  NumbersLeft' /\ (frames' = <<>> => raised')
<1> DEFINE l == Len(frames)
<1>1. PICK p \in Top.todo :
        NewIndex(Top.object, p, IF p \in Props THEN Content[Top.table][p] ELSE Nil,
                 Append(Below, Less(p)))
  BY DEF SetNext, Less
<1>2. Running /\ Top \in FrameRecs
  BY TopParts DEF SetNext
<1>3. PICK s : s = Append(Below, Less(p))
  OBVIOUS
<1>4. /\ s \in Seq(FrameRecs) /\ Len(s) = l /\ s[l] = Less(p) /\ l \in Nat /\ l >= 1
      /\ \A k \in 1 .. l - 1 : s[k] = frames[k]
  BY <1>2, <1>3, StackParts, LessParts
<1>5. Top = frames[l]
  BY DEF Top
<1>6. \A k \in 1 .. l : /\ s[k].object = frames[k].object /\ s[k].into = frames[k].into
                        /\ s[k].todo = frames[k].todo \/ s[k].todo = frames[k].todo \ {p}
  BY <1>2, <1>4, <1>5, LessParts
<1>7. PICK n \in Nat : n = Len(obj) /\ obj \in Seq(ObjRecs)
  BY DEF IndInv, Typed
<1>8. CASE Raise
  BY <1>8, NoneLeft DEF Raise
<1>9. CASE ~Raise /\ p \in Props
  <2>1. p # "1"
    BY <1>9
  <2>2. CASE New(Content[Top.table][p].val, Target[p], <<Top.object, p>>, s)
    <3>1. PICK t, c, f : /\ t = Content[Top.table][p].val /\ c = Target[p]
                         /\ f = Frame(t, c, <<Top.object, p>>)
      OBVIOUS
    <3>2. obj' = Append(obj, NewObject(t, c)) /\ frames' = Append(s, f)
      BY <1>9, <2>2, <3>1 DEF New
    <3>3. /\ Len(obj') = n + 1 /\ obj'[n + 1].table = t
          /\ \A i \in 1 .. n : obj'[i].table = obj[i].table
      BY <1>7, <3>2 DEF NewObject
    <3>4. /\ Len(frames') = l + 1 /\ frames'[l + 1] = f
          /\ \A k \in 1 .. l : frames'[k] = s[k]
      BY <1>4, <3>2
    <3>5. f.object = n + 1 /\ (t \in Arrays => "1" \in f.todo)
      BY <1>7, <3>1 DEF Frame, Unknown
    <3>6. frames'[1].object = frames[1].object /\ frames'[1].into = frames[1].into
      BY <1>4, <1>6, <3>4
    <3>7. ASSUME NEW i, NumberLeft(i) PROVE NumberLeft(i)'
      <4>1. PICK k \in 1 .. l : frames[k].object = i /\ "1" \in frames[k].todo
        BY <3>7 DEF NumberLeft
      <4>2. k \in 1 .. Len(frames') /\ frames'[k].object = i /\ "1" \in frames'[k].todo
        BY <1>4, <1>6, <2>1, <3>4, <4>1
      <4> QED BY <4>2 DEF NumberLeft
    <3>8. ASSUME NEW i \in frames'[1].object .. Len(obj'), obj'[i].table \in Arrays
          PROVE  NumberLeft(i)'
      <4>1. frames[1].object \in 1 .. n
        BY <1>4, <1>7 DEF IndInv, Typed, Stack
      <4>2. CASE i = n + 1
        <5>1. l + 1 \in 1 .. Len(frames') /\ frames'[l + 1].object = i /\ "1" \in frames'[l + 1].todo
          BY <1>4, <3>3, <3>4, <3>5, <3>8, <4>2
        <5> QED BY <5>1 DEF NumberLeft
      <4>3. CASE i # n + 1
        <5>1. i \in frames[1].object .. n /\ obj[i].table \in Arrays
          BY <1>7, <3>3, <3>6, <3>8, <4>1, <4>3
        <5> QED BY <1>2, <1>7, <3>7, <5>1 DEF NumbersLeft
      <4> QED BY <4>2, <4>3
    <3>9. NumbersLeft'
      BY <1>2, <3>6, <3>8 DEF NumbersLeft
    <3>10. frames' # <<>>
      BY <1>4, <3>4
    <3> QED BY <3>9, <3>10
  <2>3. CASE SetValue(Top.object, p, Content[Top.table][p], s)
    <3>1. PICK o, v : o = Top.object /\ v = Content[Top.table][p]
      OBVIOUS
    <3>2. Assignable(p, v) /\ obj' = WithValue(o, p, v) /\ frames' = s
      BY <1>9, <2>3, <3>1 DEF SetValue, WithValue
    <3>3. v \in LuaValues /\ o \in 1 .. Len(obj)
      BY <1>2, <1>9, <3>1, TopParts DEF FrameRecs, LuaValues, Assigned
    <3>4. Len(obj') = Len(obj) /\ \A i \in 1 .. Len(obj) : obj'[i].table = obj[i].table
      BY <1>9, <3>2, <3>3, OneValueSet
    <3>5. frames'[1].object = frames[1].object /\ frames'[1].into = frames[1].into
      BY <1>4, <1>6, <3>2
    <3>6. ASSUME NEW i, NumberLeft(i) PROVE NumberLeft(i)'
      <4>1. PICK k \in 1 .. l : frames[k].object = i /\ "1" \in frames[k].todo
        BY <3>6 DEF NumberLeft
      <4>2. k \in 1 .. Len(frames') /\ frames'[k].object = i /\ "1" \in frames'[k].todo
        BY <1>4, <1>6, <2>1, <3>2, <4>1
      <4> QED BY <4>2 DEF NumberLeft
    <3>7. NumbersLeft'
      BY <1>2, <3>4, <3>5, <3>6, NumbersStay
    <3>8. frames' # <<>>
      BY <1>4, <3>2
    <3> QED BY <3>7, <3>8
  <2> QED BY <1>1, <1>3, <1>9, <2>2, <2>3 DEF NewIndex
<1> QED BY <1>1, <1>8, <1>9 DEF NewIndex

\* What one return does: it ends in an error, or changes one value at most.
LEMMA ReturnParts ==
  ASSUME IndInv, Return, ~Raise
  PROVE  /\ Running /\ Top.todo = {} /\ frames' = Below
         /\ Len(obj') = Len(obj) /\ \A i \in 1 .. Len(obj) : obj'[i].table = obj[i].table
         /\ \A i \in 1 .. Len(obj), q \in Props :
              Top.into = None \/ i # Top.into[1] => obj'[i].props[q] = obj[i].props[q]
<1>1. Running /\ Top.todo = {} /\ frames' = Below
  BY DEF Return, SetValue
<1>2. CASE Top.into = None /\ obj' = obj
  BY <1>1, <1>2
<1>3. CASE Top.into # None /\ SetValue(Top.into[1], Top.into[2], Object(Top.object), Below)
  <2>1. PICK o, p, v : o = Top.into[1] /\ p = Top.into[2] /\ v = Object(Top.object)
    OBVIOUS
  <2>2. Assignable(p, v) /\ obj' = WithValue(o, p, v)
    BY <1>3, <2>1 DEF SetValue, WithValue
  <2>3. o \in 1 .. Len(obj) /\ p \in Props /\ v \in LuaValues
    BY <1>1, <1>3, <2>1, TopParts DEF LuaValues, Assigned
  <2>4. /\ Len(obj') = Len(obj) /\ \A i \in 1 .. Len(obj) : obj'[i].table = obj[i].table
        /\ \A i \in 1 .. Len(obj), q \in Props : i # o => obj'[i].props[q] = obj[i].props[q]
    BY <2>2, <2>3, OneValueSet
  <2> QED BY <1>1, <1>3, <2>1, <2>4
<1> QED BY <1>1, <1>2, <1>3 DEF Return

LEMMA ReturnLeft ==
  ASSUME IndInv, NumbersLeft, Return
  PROVE  NumbersLeft'
<1> DEFINE l == Len(frames)
<1>1. CASE Raise
  BY <1>1, NoneLeft DEF Raise
<1>2. CASE ~Raise
  <2>1. /\ Running /\ Top.todo = {} /\ frames' = Below
        /\ Len(obj') = Len(obj) /\ \A i \in 1 .. Len(obj) : obj'[i].table = obj[i].table
    BY <1>2, ReturnParts
  <2>2. /\ l \in Nat /\ l >= 1 /\ Len(Below) = l - 1 /\ Below \in Seq(FrameRecs)
        /\ \A k \in 1 .. l - 1 : Below[k] = frames[k]
    BY <2>1, TopParts, StackParts
  <2>3. CASE l = 1
    <3>1. frames' = <<>>
      BY <2>1, <2>2, <2>3, EmptySeq
    <3> QED BY <3>1, NoneLeft
  <2>4. CASE l > 1
    <3>1. frames'[1] = frames[1] /\ Top = frames[l]
      BY <2>1, <2>2, <2>4 DEF Top
    <3>2. ASSUME NEW i, NumberLeft(i) PROVE NumberLeft(i)'
      <4>1. PICK k \in 1 .. l : frames[k].object = i /\ "1" \in frames[k].todo
        BY <3>2 DEF NumberLeft
      <4>2. k \in 1 .. l - 1
        BY <2>1, <2>2, <3>1, <4>1
      <4>3. k \in 1 .. Len(frames') /\ frames'[k] = frames[k]
        BY <2>1, <2>2, <4>2
      <4> QED BY <4>1, <4>3 DEF NumberLeft
    <3> QED BY <2>1, <3>1, <3>2, NumbersStay
  <2> QED BY <2>2, <2>3, <2>4
<1> QED BY <1>1, <1>2

LEMMA NextKeepsLeft ==
  ASSUME IndInv, NumbersLeft, [Next]_vars
  PROVE  NumbersLeft'
<1>1. ASSUME NEW t \in Tables, NEW c \in Classes, Create(t, c) PROVE NumbersLeft'
  BY <1>1, FirstNewLeft DEF Create
<1>2. ASSUME NEW v \in Assigned, NEW o \in 1 .. Len(obj), NEW p, Assign(o, p, v) PROVE NumbersLeft'
  <2>1. NewIndex(o, p, v, <<>>)
    BY <1>2 DEF Assign
  <2>2. CASE Raise
    BY <2>2, NoneLeft DEF Raise
  <2>3. CASE p \in Props /\ v.kind = "table" /\ New(v.val, Target[p], <<o, p>>, <<>>)
    <3>1. v.val \in Tables /\ <<o, p>> \in (1 .. Len(obj)) \X Props
      BY <2>3 DEF Assigned, Object
    <3> QED BY <2>3, <3>1, FirstNewLeft
  <2>4. CASE SetValue(o, p, v, <<>>)
    BY <2>4, NoneLeft DEF SetValue, Raise
  <2> QED BY <2>1, <2>2, <2>3, <2>4 DEF NewIndex
<1>3. ASSUME NEW v \in Assigned, NEW k \in Keys, SetKey(k, v) PROVE NumbersLeft'
  BY <1>3, NoneLeft DEF SetKey, Calls, EraseKey, InsertKey, Raise
<1>4. ASSUME NEW v \in Assigned, NEW e \in Assigned, SetEntry(e, v) PROVE NumbersLeft'
  BY <1>4, NoneLeft DEF SetEntry, Calls, EraseEntry, InsertEntry, Raise
<1>5. CASE UNCHANGED vars
  <2>1. obj' = obj /\ frames' = frames
    BY <1>5 DEF vars
  <2> QED BY <2>1 DEF NumbersLeft, NumberLeft, Running
<1> QED BY <1>1, <1>2, <1>3, <1>4, <1>5, NextLeft, ReturnLeft DEF Next

\* Nothing reads as an object or as a value in the place of a list.
LEMMA NoListMirrored ==
  ASSUME IndInv, NEW i \in 1 .. Len(obj), NEW p \in Given(obj[i].table), Mirrors(i, p)
  PROVE  Type[p] # "list"
<1> SUFFICES ASSUME Type[p] = "list" PROVE FALSE
  OBVIOUS
<1>1. p \in Props /\ Content[obj[i].table][p] # Nil
  BY DEF Given
<1>2. obj \in Seq(ObjRecs) /\ obj[i].props[p] \in Stored("list") \cup {Null}
  BY <1>1 DEF IndInv, Typed, Sound
<1>3. ASSUME NEW r \in Stored("list") PROVE FALSE
  <2>1. PICK v \in Assigned : Convertible(v) /\ r = ToRealm(v) /\ Accepts("list", r)
    BY DEF Stored
  <2>2. r.type \in RealmTypes \cup {"null", "absent"}
    BY <1>2, <2>1, Converted DEF LuaValues, RealmValues
  <2> QED BY <2>1, <2>2 DEF Accepts, RealmTypes
<1>4. ToLua(obj[i].props[p]) = Nil
  BY <1>2, <1>3 DEF ToLua, Null
<1> QED BY <1>1, <1>4 DEF Mirrors, Nil

\* The last return: nothing is left to be set.
LEMMA LastReturn ==
  ASSUME IndInv, MirrorInv, NumbersLeft, Return, Returns,
         NEW i \in frames[1].object .. Len(obj)
  PROVE  /\ obj[i].table \notin Arrays
         /\ \A p \in Given(obj[i].table) : Type[p] # "list" /\ Mirrors(i, p)'
<1>1. Running /\ frames' = <<>> /\ ~Raise
  BY DEF Returns, Raise
<1>2. /\ Top.todo = {} /\ frames' = Below
      /\ \A j \in 1 .. Len(obj) : obj'[j].table = obj[j].table
      /\ \A j \in 1 .. Len(obj), q \in Props :
           Top.into = None \/ j # Top.into[1] => obj'[j].props[q] = obj[j].props[q]
  BY <1>1, ReturnParts
<1>3. Len(frames) = 1 /\ Top = frames[1]
  <2>1. Len(Below) = 0
    BY <1>1, <1>2
  <2> QED BY <1>1, <2>1, StackParts DEF Top
<1>4. i \in 1 .. Len(obj)
  <2>1. frames[1].object \in 1 .. Len(obj) /\ Len(obj) \in Nat
    BY <1>1, <1>3, TopParts DEF IndInv, Typed
  <2> QED BY <2>1
<1>5. obj[i].table \notin Arrays
  BY <1>1, <1>2, <1>3 DEF NumbersLeft, NumberLeft
<1>6. Top.into = None \/ i # Top.into[1]
  <2>1. Top.into = None \/ (Top.into[1] \in Nat /\ Top.into[1] < Top.object)
    BY <1>1, <1>3, TopParts DEF NumbersLeft
  <2>2. Top.object \in Nat /\ i >= Top.object /\ i \in Nat
    BY <1>1, <1>3, <1>4, TopParts
  <2> QED BY <2>1, <2>2
<1>7. ASSUME NEW p \in Given(obj[i].table) PROVE Type[p] # "list" /\ Mirrors(i, p)'
  <2>1. p \in Props
    BY DEF Given
  <2>2. ~Pending(i, p)
    <3>1. <<i, p>> # None
      <4>1. <<i, p>> \in Nat \X Props
        BY <1>4, <2>1
      <4> QED BY <4>1
    <3>2. ASSUME Top.into = <<i, p>> PROVE FALSE
      <4>1. PICK x : x = Top.into
        OBVIOUS
      <4>2. x[1] = i /\ x # None
        BY <3>1, <3>2, <4>1
      <4> QED BY <1>6, <4>1, <4>2
    <3> QED BY <1>2, <1>3, <3>2 DEF Pending
  <2>3. Mirrors(i, p)
    BY <1>1, <2>2 DEF MirrorInv, MirrorsSoFar
  <2>4. Mirrors(i, p)'
    BY <1>2, <1>4, <1>6, <2>1, <2>3, MirrorsStay
  <2> QED BY <1>4, <2>3, <2>4, NoListMirrored
<1> QED BY <1>5, <1>7

-----------------------------------------------------------------------------
(* Theorems                                                                *)

\* Every property, entry of the dictionary and member of the set holds a value
\* that the core takes there, a link leads to an object of its property's
\* class, and every call of _new that is under way has its own object.
THEOREM TypeCorrect == Spec => []TypeOK
<1>1. IndInv => TypeOK
  <2> SUFFICES ASSUME IndInv PROVE TypeOK
    OBVIOUS
  <2>1. ASSUME NEW i \in 1 .. Len(obj) PROVE obj[i].table \in Tables /\ obj[i].class \in Classes
    <3>1. obj[i] \in ObjRecs
      BY DEF IndInv, Typed
    <3>2. QED
      BY <3>1 DEF ObjRecs
  <2>2. ASSUME NEW n \in 1 .. Len(frames)
        PROVE  /\ frames[n].object \in 1 .. Len(obj)
               /\ frames[n].todo \subseteq Props \cup {"_id", "1"}
               /\ n > 1 => frames[n - 1].object < frames[n].object
    <3>1. Stack(frames, Len(obj))
      BY DEF IndInv, Typed
    <3>2. frames[n] \in FrameRecs
      BY <3>1 DEF Stack
    <3>3. QED
      BY <3>1, <3>2 DEF Stack, FrameRecs
  <2>3. QED
    BY <2>1, <2>2 DEF IndInv, Typed, TypeOK, Sound
<1>2. QED
  BY <1>1, InvHolds, PTL

\* A Lua table makes one object of a class with a primary key, in whatever
\* tables it stands and however its creation ends: RealmObject._new takes the
\* key out of it (object.lua:48).
THEOREM OnlyOneObject == Spec => []OnceEach
<1>1. IndInv => OnceEach
  BY DEF IndInv
<1>2. QED
  BY <1>1, InvHolds, PTL

\* When Realm:create, or an assignment of a table, returns, every object that it
\* has made reads as the Lua table it was made from, nested tables as the objects
\* made from them; none of them was an array or had a value for a list
\* (RealmObject._new and __newindex, object.lua).  Without zero bytes in
\* strings: what follows one is lost (realm_util.cpp:66).
THEOREM CreationIsMirrored == ASSUME WholeStrings PROVE Spec => CreationMirrors
<1> DEFINE Made == \A i \in frames[1].object .. Len(obj) :
      /\ obj[i].table \notin Arrays
      /\ \A p \in Given(obj[i].table) : Type[p] # "list" /\ Mirrors(i, p)'
<1>1. Init => MirrorInv /\ NumbersLeft
  BY DEF Init, MirrorInv, Linked, MirrorsSoFar, NumbersLeft, Running
<1>2. IndInv /\ MirrorInv /\ NumbersLeft /\ [Next]_vars => MirrorInv' /\ NumbersLeft'
  BY NextKeepsMirror, NextKeepsLeft
<1>3. ASSUME IndInv, MirrorInv, NumbersLeft, [Next]_vars, Returns
      PROVE  Made
  <2>1. frames # <<>> /\ frames' # frames /\ ~SetNext
    BY <1>3, NextLeft DEF Returns, Running
  <2>2. Return
    BY <1>3, <2>1 DEF Next, vars, Create, Assign, SetKey, SetEntry, Calls
  <2> QED BY <1>3, <2>2, LastReturn
<1>4. IndInv /\ MirrorInv /\ NumbersLeft /\ [Next]_vars => [Returns => Made]_vars
  BY <1>3
<1> QED BY <1>1, <1>2, <1>4, InvHolds, PTL DEF Spec, CreationMirrors
=============================================================================
