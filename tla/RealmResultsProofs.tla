-------------------------- MODULE RealmResultsProofs --------------------------
(***************************************************************************)
(* Proofs about RealmResults, for any objects, values and filter, and any  *)
(* number of versions between two calls of the listener:                   *)
(*   - TypeCorrect;                                                        *)
(*   - ChangesKeepMirror: following the change tables keeps a copy of a    *)
(*     collection exact;                                                   *)
(*   - ChangesKeepCopy: and one of an object.                              *)
(* The places of a set's members are counted, not constructed: that        *)
(* Sorted has every member, each at its place, follows from the rank's     *)
(* being an injection between finite sets of one size.                     *)
(***************************************************************************)
EXTENDS RealmResults, FiniteSetTheorems, FunctionTheorems, TLAPS

USE ResultsAssumption DEF ResultsAssumption

-----------------------------------------------------------------------------
(* Ranks: the places of numbers in a finite set of them                    *)

Finite(S) == S \subseteq Nat /\ IsFiniteSet(S)
Lower(S, o) == {m \in S : m < o}
Spot(S, o)  == Before(S, o) + 1

LEMMA BeforeIsNat ==
  ASSUME NEW S, Finite(S), NEW o
  PROVE  /\ IsFiniteSet(Lower(S, o)) /\ Before(S, o) = Cardinality(Lower(S, o))
         /\ Before(S, o) \in Nat /\ Cardinality(S) \in Nat
<1>1. Lower(S, o) \in SUBSET S
  BY DEF Lower
<1>2. IsFiniteSet(Lower(S, o))
  BY <1>1, FS_Subset DEF Finite
<1>3. Before(S, o) = Cardinality(Lower(S, o))
  BY DEF Before, Lower
<1> QED BY <1>2, <1>3, FS_CardinalityType DEF Finite

LEMMA PartIsFinite == ASSUME NEW S, Finite(S), NEW T \in SUBSET S PROVE Finite(T)
<1>1. IsFiniteSet(T)
  BY FS_Subset DEF Finite
<1> QED BY <1>1 DEF Finite

\* A larger number has more before it.
LEMMA BeforeGrows ==
  ASSUME NEW S, Finite(S), NEW o \in S, NEW p \in Nat, o < p
  PROVE  Before(S, o) < Before(S, p)
<1>1. \A m \in S : m \in Nat
  BY DEF Finite
<1>2. o \notin Lower(S, o) /\ Lower(S, o) \cup {o} \in SUBSET Lower(S, p)
  <2>1. \A m \in S : m < o => m < p
    BY <1>1
  <2>2. ~(o < o)
    BY <1>1
  <2> QED BY <2>1, <2>2 DEF Lower
<1>3. IsFiniteSet(Lower(S, o)) /\ IsFiniteSet(Lower(S, p))
  BY BeforeIsNat
<1>4. Cardinality(Lower(S, o) \cup {o}) = Cardinality(Lower(S, o)) + 1
  BY <1>2, <1>3, FS_AddElement
<1>5. Cardinality(Lower(S, o) \cup {o}) <= Cardinality(Lower(S, p))
  BY <1>2, <1>3, FS_Subset
<1> QED BY <1>4, <1>5, BeforeIsNat

\* Members have places of their own, in their order, in 1 .. the set's size.
LEMMA SpotsOfMembers ==
  ASSUME NEW S, Finite(S)
  PROVE  /\ Cardinality(S) \in Nat
         /\ \A o \in S : Spot(S, o) \in 1 .. Cardinality(S)
         /\ \A o, p \in S : (o < p <=> Spot(S, o) < Spot(S, p))
         /\ \A o, p \in S : (Spot(S, o) = Spot(S, p) => o = p)
<1>1. Cardinality(S) \in Nat
  BY BeforeIsNat
<1>2. ASSUME NEW o \in S PROVE Spot(S, o) \in 1 .. Cardinality(S)
  <2>1. o \notin Lower(S, o) /\ Lower(S, o) \in SUBSET S /\ o \in Nat
    BY DEF Lower, Finite
  <2>2. Lower(S, o) # S
    BY <2>1
  <2>3. Cardinality(Lower(S, o)) <= Cardinality(S) /\ Cardinality(S) # Cardinality(Lower(S, o))
    BY <2>1, <2>2, FS_Subset DEF Finite
  <2>4. Before(S, o) = Cardinality(Lower(S, o)) /\ Before(S, o) \in Nat
    BY BeforeIsNat
  <2> QED BY <1>1, <2>3, <2>4 DEF Spot
<1>3. \A o \in S : o \in Nat
  BY DEF Finite
<1>4. \A o \in S : Before(S, o) \in Nat
  BY BeforeIsNat
<1>5. \A o, p \in S : o < p => Spot(S, o) < Spot(S, p)
  BY <1>3, <1>4, BeforeGrows DEF Spot
<1>6. \A o \in S : Spot(S, o) \in Nat
  BY <1>4 DEF Spot
<1>7. \A o, p \in S : o < p \/ o = p \/ p < o
  BY <1>3
<1>8. \A o, p \in S : (o < p <=> Spot(S, o) < Spot(S, p))
  BY <1>3, <1>5, <1>6, <1>7
<1>9. \A o, p \in S : (Spot(S, o) = Spot(S, p) => o = p)
  BY <1>5, <1>6, <1>7
<1> QED BY <1>1, <1>2, <1>8, <1>9

\* Members of a part keep apart: as many places as members.
LEMMA SpotsOfPart ==
  ASSUME NEW S, Finite(S), NEW T \in SUBSET S
  PROVE  /\ Finite({Spot(S, o) : o \in T})
         /\ Cardinality({Spot(S, o) : o \in T}) = Cardinality(T)
<1> DEFINE R == {Spot(S, o) : o \in T}
           f == [o \in T |-> Spot(S, o)]
<1>1. IsFiniteSet(T)
  BY FS_Subset DEF Finite
<1>2. f \in [T -> R] /\ \A o \in T : f[o] = Spot(S, o)
  OBVIOUS
<1>3. \A o, p \in T : f[o] = f[p] => o = p
  BY <1>2, SpotsOfMembers
<1>4. \A r \in R : \E o \in T : f[o] = r
  BY <1>2
<1>5. R \subseteq Nat
  BY SpotsOfMembers
<1> HIDE DEF f, R
<1>6. f \in Injection(T, R)
  BY <1>2, <1>3, Fun_IsInj
<1>7. f \in Surjection(T, R)
  BY <1>2, <1>4, Fun_IsSurj
<1>8. f \in Bijection(T, R)
  BY <1>6, <1>7 DEF Bijection
<1>9. ExistsBijection(T, R)
  BY <1>8 DEF ExistsBijection
<1>10. IsFiniteSet(R) /\ Cardinality(R) = Cardinality(T)
  BY <1>1, <1>9, FS_Bijection
<1> QED BY <1>5, <1>10 DEF Finite, R

\* Every place has its member.
LEMMA SpotsAreTaken ==
  ASSUME NEW S, Finite(S)
  PROVE  {Spot(S, o) : o \in S} = 1 .. Cardinality(S)
<1> DEFINE R == {Spot(S, o) : o \in S}
<1>1. R \in SUBSET (1 .. Cardinality(S)) /\ Cardinality(S) \in Nat
  BY SpotsOfMembers
<1>2. Cardinality(R) = Cardinality(S)
  BY SpotsOfPart
<1>3. IsFiniteSet(1 .. Cardinality(S)) /\ Cardinality(1 .. Cardinality(S)) = Cardinality(S)
  <2>1. Cardinality(S) >= 0 /\ 1 \in Int /\ Cardinality(S) \in Int
    BY <1>1
  <2>2. IsFiniteSet(1 .. Cardinality(S))
    BY <2>1, FS_Interval
  <2>3. Cardinality(1 .. Cardinality(S)) = IF 1 > Cardinality(S) THEN 0 ELSE Cardinality(S) - 1 + 1
    BY <2>1, FS_Interval
  <2> QED BY <2>1, <2>2, <2>3
<1> HIDE DEF R
<1>4. 1 .. Cardinality(S) = R
  BY <1>1, <1>2, <1>3, FS_Subset
<1> QED BY <1>4 DEF R

\* Sorted puts every member at its place.
LEMMA SortedSpots ==
  ASSUME NEW S, Finite(S)
  PROVE  /\ DOMAIN Sorted(S) = 1 .. Cardinality(S) /\ Len(Sorted(S)) = Cardinality(S)
         /\ \A o \in S : Sorted(S)[Spot(S, o)] = o
         /\ \A i \in 1 .. Cardinality(S) : Sorted(S)[i] \in S /\ Spot(S, Sorted(S)[i]) = i
<1>1. Cardinality(S) \in Nat
  BY SpotsOfMembers
<1>2. DOMAIN Sorted(S) = 1 .. Cardinality(S)
  BY DEF Sorted
<1>3. Len(Sorted(S)) = Cardinality(S)
  BY <1>1 DEF Sorted
<1>4. ASSUME NEW i \in 1 .. Cardinality(S) PROVE Sorted(S)[i] \in S /\ Spot(S, Sorted(S)[i]) = i
  <2>1. PICK o \in S : i = Spot(S, o)
    BY SpotsAreTaken
  <2>2. Before(S, o) = i - 1
    BY <2>1, BeforeIsNat DEF Spot
  <2>3. Sorted(S)[i] = CHOOSE x \in S : Before(S, x) = i - 1
    BY DEF Sorted
  <2>4. Sorted(S)[i] \in S /\ Before(S, Sorted(S)[i]) = i - 1
    BY <2>2, <2>3
  <2> QED BY <2>4 DEF Spot
<1>5. ASSUME NEW o \in S PROVE Sorted(S)[Spot(S, o)] = o
  BY <1>4, SpotsOfMembers
<1> QED BY <1>2, <1>3, <1>4, <1>5

\* A member of the whole is as far among the places of a part as among the part.
LEMMA BeforeAmongSpots ==
  ASSUME NEW S, Finite(S), NEW T \in SUBSET S, NEW o \in S
  PROVE  Before({Spot(S, p) : p \in T}, Spot(S, o)) = Before(T, o)
<1> DEFINE R == {Spot(S, p) : p \in T}
<1>1. Lower(R, Spot(S, o)) = {Spot(S, p) : p \in Lower(T, o)}
  BY SpotsOfMembers DEF Lower
<1>2. Lower(T, o) \in SUBSET S
  BY DEF Lower
<1>3. Cardinality({Spot(S, p) : p \in Lower(T, o)}) = Cardinality(Lower(T, o))
  BY <1>2, SpotsOfPart
<1>4. Finite(R) /\ Finite(T)
  BY SpotsOfPart, PartIsFinite
<1> HIDE DEF R
<1>5. Before(R, Spot(S, o)) = Cardinality(Lower(R, Spot(S, o))) /\ Before(T, o) = Cardinality(Lower(T, o))
  BY <1>4, BeforeIsNat
<1> QED BY <1>1, <1>3, <1>5 DEF R

\* Two sets that share nothing.
LEMMA Disjoint ==
  ASSUME NEW S, NEW A, NEW B, IsFiniteSet(A), IsFiniteSet(B), A \cap B = {}, S = A \cup B
  PROVE  Cardinality(S) = Cardinality(A) + Cardinality(B)
<1>1. Cardinality(A \cup B) = Cardinality(A) + Cardinality(B) - Cardinality(A \cap B)
  BY FS_Union
<1>2. Cardinality(A \cap B) = 0
  BY FS_EmptySet
<1>3. Cardinality(A) \in Nat /\ Cardinality(B) \in Nat
  BY FS_CardinalityType
<1> QED BY <1>1, <1>2, <1>3

\* A set in two parts, and what is before a number in it: counted apart.
LEMMA SizeInParts ==
  ASSUME NEW S, Finite(S), NEW A \in SUBSET S, NEW B \in SUBSET S,
         A \cap B = {}, S = A \cup B
  PROVE  Cardinality(S) = Cardinality(A) + Cardinality(B)
<1>1. IsFiniteSet(A) /\ IsFiniteSet(B)
  BY PartIsFinite DEF Finite
<1>2. Cardinality(A \cup B) = Cardinality(A) + Cardinality(B)
  BY <1>1, Disjoint
<1> QED BY <1>2

LEMMA BeforeInParts ==
  ASSUME NEW S, Finite(S), NEW A \in SUBSET S, NEW B \in SUBSET S,
         A \cap B = {}, S = A \cup B, NEW o
  PROVE  Before(S, o) = Before(A, o) + Before(B, o)
<1>1. Finite(A) /\ Finite(B)
  BY PartIsFinite
<1>2. Lower(S, o) = Lower(A, o) \cup Lower(B, o) /\ Lower(A, o) \cap Lower(B, o) = {}
  BY DEF Lower
<1>3. IsFiniteSet(Lower(A, o)) /\ IsFiniteSet(Lower(B, o))
  BY <1>1, BeforeIsNat
<1>4. Cardinality(Lower(S, o)) = Cardinality(Lower(A, o)) + Cardinality(Lower(B, o))
  BY <1>2, <1>3, Disjoint
<1> QED BY <1>1, <1>4, BeforeIsNat

-----------------------------------------------------------------------------
(* Collections and the changes of one                                      *)

\* What is in a collection before a change and after it, and what was modified.
Was         == Members(1)
Modified(v) == Was \cap Members(v) \cap Changed(v)

\* The positions of a part, as core counts them.
PlacesIn(S, T) == LET s == Sorted(T) IN [i \in DOMAIN s |-> Before(S, s[i])]

\* A sequence that has every object at its place, with its value in version v.
Exact(m, v) ==
  /\ DOMAIN m = 1 .. Cardinality(Members(v)) /\ m = [i \in DOMAIN m |-> m[i]]
  /\ \A o \in Members(v) : m[Spot(Members(v), o)] = <<o, file[v][o]>>

LEMMA CollectionIsFinite == ASSUME NEW v PROVE Members(v) \subseteq Objects /\ Finite(Members(v))
<1>1. Members(v) \in SUBSET Objects /\ Objects \subseteq Nat
  BY DEF Members
<1> QED BY <1>1, PartIsFinite DEF Finite

\* RealmResults.__index
LEMMA IndexReads ==
  ASSUME NEW v, NEW o \in Members(v)
  PROVE  Index(v, Spot(Members(v), o)) = <<o, file[v][o]>>
<1> DEFINE s == Sorted(Members(v))
           i == Spot(Members(v), o)
<1>1. i \in DOMAIN s /\ s[i] = o
  BY CollectionIsFinite, SortedSpots, SpotsOfMembers
<1>2. i \in Nat
  BY CollectionIsFinite, SpotsOfMembers
<1>3. (i - 1) + 1 = i
  BY <1>2
<1> HIDE DEF i
<1> QED BY <1>1, <1>3 DEF Index, ObjectAt, i

LEMMA WholeIsExact == ASSUME NEW v PROVE Exact(Whole(v), v)
<1>1. \A o \in Members(v) : Spot(Members(v), o) \in 1 .. Cardinality(Members(v))
  BY CollectionIsFinite, SpotsOfMembers
<1> QED BY <1>1, IndexReads DEF Whole, Length, Exact

LEMMA ExactIsSequence ==
  ASSUME NEW m, NEW v, Exact(m, v), listener.kind \in {"all", "filtered"}
  PROVE  m \in Seq(Objects \X Values) /\ Len(m) = Cardinality(Members(v))
<1> DEFINE S == Members(v)
<1>1. S \subseteq Objects /\ Finite(S) /\ \A o \in S : file[v][o] \in Values
  BY CollectionIsFinite DEF Members
<1>2. Cardinality(S) \in Nat
  BY <1>1, SpotsOfMembers
<1>3. ASSUME NEW i \in DOMAIN m PROVE m[i] \in Objects \X Values
  <2>1. PICK o \in S : i = Spot(S, o)
    BY <1>1, SpotsAreTaken DEF Exact
  <2>2. m[i] = <<o, file[v][o]>>
    BY <2>1 DEF Exact
  <2>3. o \in Objects /\ file[v][o] \in Values
    BY <1>1
  <2> QED BY <2>2, <2>3
<1> QED BY <1>2, <1>3 DEF Exact

\* populate_lua_collection_changes_table: the positions from 1 on.
LEMMA LuaPlaces ==
  ASSUME NEW S, Finite(S), NEW T \in SUBSET S
  PROVE  /\ DOMAIN Populate(PlacesIn(S, T)) = 1 .. Cardinality(T)
         /\ \A i \in 1 .. Cardinality(T) : Populate(PlacesIn(S, T))[i] = Spot(S, Sorted(T)[i])
         /\ {Populate(PlacesIn(S, T))[i] : i \in DOMAIN Populate(PlacesIn(S, T))}
              = {Spot(S, o) : o \in T}
<1> DEFINE p == Populate(PlacesIn(S, T))
           n == Cardinality(T)
<1>1. /\ DOMAIN Sorted(T) = 1 .. n
      /\ \A o \in T : Sorted(T)[Spot(T, o)] = o
      /\ \A i \in 1 .. n : Sorted(T)[i] \in T
      /\ \A o \in T : Spot(T, o) \in 1 .. n
  BY PartIsFinite, SortedSpots, SpotsOfMembers
<1>2. DOMAIN p = 1 .. n /\ \A i \in 1 .. n : p[i] = Spot(S, Sorted(T)[i])
  BY <1>1 DEF Populate, PlacesIn, Spot
<1> HIDE DEF p, n
<1>3. {p[i] : i \in DOMAIN p} = {Spot(S, o) : o \in T}
  BY <1>1, <1>2
<1> QED BY <1>2, <1>3 DEF p, n

\* The table that a listener gets.
Table(v) == CollectionChanges(ChangeSet(v))

LEMMA ChangeTable ==
  ASSUME NEW v
  PROVE  /\ Table(v).deletions = Populate(PlacesIn(Was, Was \ Members(v)))
         /\ Table(v).insertions = Populate(PlacesIn(Members(v), Members(v) \ Was))
         /\ Table(v).modificationsOld = Populate(PlacesIn(Was, Modified(v)))
         /\ Table(v).modificationsNew = Populate(PlacesIn(Members(v), Modified(v)))
BY DEF Table, CollectionChanges, ChangeSet, PlacesIn, Modified, Was

\* The tables' positions, as sets.
LEMMA InTable ==
  ASSUME NEW v
  PROVE  /\ {Table(v).deletions[i] : i \in DOMAIN Table(v).deletions}
              = {Spot(Was, o) : o \in Was \ Members(v)}
         /\ {Table(v).insertions[i] : i \in DOMAIN Table(v).insertions}
              = {Spot(Members(v), o) : o \in Members(v) \ Was}
         /\ {Table(v).modificationsNew[i] : i \in DOMAIN Table(v).modificationsNew}
              = {Spot(Members(v), o) : o \in Modified(v)}
<1>1. Finite(Was) /\ Finite(Members(v))
  BY CollectionIsFinite DEF Was
<1>2. /\ Was \ Members(v) \in SUBSET Was /\ Members(v) \ Was \in SUBSET Members(v)
      /\ Modified(v) \in SUBSET Members(v)
  BY DEF Modified
<1> DEFINE In(p) == {p[i] : i \in DOMAIN p}
           Places(S, T) == Populate(PlacesIn(S, T))
<1>3. In(Places(Was, Was \ Members(v))) = {Spot(Was, o) : o \in Was \ Members(v)}
  BY <1>1, <1>2, LuaPlaces
<1>4. In(Places(Members(v), Members(v) \ Was)) = {Spot(Members(v), o) : o \in Members(v) \ Was}
  BY <1>1, <1>2, LuaPlaces
<1>5. In(Places(Members(v), Modified(v))) = {Spot(Members(v), o) : o \in Modified(v)}
  BY <1>1, <1>2, LuaPlaces
<1>6. /\ In(Table(v).deletions) = In(Places(Was, Was \ Members(v)))
      /\ In(Table(v).insertions) = In(Places(Members(v), Members(v) \ Was))
      /\ In(Table(v).modificationsNew) = In(Places(Members(v), Modified(v)))
  BY ChangeTable
<1> QED BY <1>3, <1>4, <1>5, <1>6

\* The positions left in what was, when the deleted ones are taken out.
LEMMA PlacesLeft ==
  ASSUME NEW v
  PROVE  (1 .. Cardinality(Was)) \ {Spot(Was, o) : o \in Was \ Members(v)}
           = {Spot(Was, o) : o \in Members(v) \cap Was}
<1>1. Finite(Was)
  BY CollectionIsFinite DEF Was
<1>2. 1 .. Cardinality(Was) = {Spot(Was, o) : o \in Was}
  BY <1>1, SpotsAreTaken
<1>3. \A o, p \in Was : (Spot(Was, o) = Spot(Was, p) => o = p)
  BY <1>1, SpotsOfMembers
<1> QED BY <1>2, <1>3

\* The program that takes out, puts in and reads again has the collection as it
\* is in version v, if it had it as it was and what did not change stays.
LEMMA ChangesAreFollowed ==
  ASSUME NEW v, Exact(mirror, 1), \A o \in Objects \ Changed(v) : file[v][o] = file[1][o]
  PROVE  Exact(OnCollectionChange(v, Table(v)), v)
<1> DEFINE S == Members(v)
           gone == Was \ S
           born == S \ Was
           stay == S \cap Was
           c == Table(v)
           K == {Spot(Was, o) : o \in stay}
           I == {Spot(S, o) : o \in born}
           kept == Sorted(K)
           read == {Spot(S, o) : o \in born \cup Modified(v)}
<1>1. Finite(Was) /\ Finite(S) /\ Was \subseteq Objects
  BY CollectionIsFinite DEF Was
<1>2. {c.deletions[i] : i \in DOMAIN c.deletions} = {Spot(Was, o) : o \in gone}
  BY InTable
<1>3. {c.insertions[i] : i \in DOMAIN c.insertions} = I
  BY InTable
<1>4. {c.modificationsNew[i] : i \in DOMAIN c.modificationsNew} = {Spot(S, o) : o \in Modified(v)}
  BY InTable
<1>5. DOMAIN mirror \ {c.deletions[i] : i \in DOMAIN c.deletions} = K
  BY <1>2, PlacesLeft DEF Exact, Was
<1>6. {c.insertions[i] : i \in DOMAIN c.insertions}
        \cup {c.modificationsNew[i] : i \in DOMAIN c.modificationsNew} = read
  BY <1>3, <1>4
<1>7. Finite(K) /\ Cardinality(K) = Cardinality(stay) /\ Finite(I) /\ Cardinality(I) = Cardinality(born)
  <2>1. stay \in SUBSET Was /\ born \in SUBSET S
    OBVIOUS
  <2> HIDE DEF S, stay, born
  <2>2. Finite(K) /\ Cardinality(K) = Cardinality(stay)
    BY <1>1, <2>1, SpotsOfPart, ZenonT(40)
  <2>3. Finite(I) /\ Cardinality(I) = Cardinality(born)
    BY <1>1, <2>1, SpotsOfPart
  <2> QED BY <2>2, <2>3
<1>8. DOMAIN kept = 1 .. Cardinality(stay) /\ Len(kept) = Cardinality(stay)
  BY <1>7, SortedSpots
<1>9. /\ Finite(stay) /\ Finite(born)
      /\ Cardinality(S) = Cardinality(stay) + Cardinality(born)
      /\ \A o : Before(S, o) = Before(stay, o) + Before(born, o)
  <2>1. stay \in SUBSET S /\ born \in SUBSET S /\ stay \cap born = {} /\ S = stay \cup born
    OBVIOUS
  <2> HIDE DEF S, stay, born
  <2>2. Finite(stay) /\ Finite(born)
    BY <1>1, <2>1, PartIsFinite
  <2>3. Cardinality(S) = Cardinality(stay) + Cardinality(born)
    BY <1>1, <2>1, SizeInParts
  <2>4. \A o : Before(S, o) = Before(stay, o) + Before(born, o)
    BY <1>1, <2>1, BeforeInParts
  <2> QED BY <2>2, <2>3, <2>4
<1> DEFINE m == [i \in 1 .. Cardinality(S) |->
                   IF i \in read THEN Index(v, i)
                   ELSE IF i - Before(I, i) \in DOMAIN kept
                        THEN mirror[kept[i - Before(I, i)]] ELSE Nothing]
<1>10. OnCollectionChange(v, c) = m
  <2> HIDE DEF c
  <2> QED BY <1>3, <1>5, <1>6, <1>7, <1>8, <1>9 DEF OnCollectionChange
<1>11. ASSUME NEW o \in S PROVE m[Spot(S, o)] = <<o, file[v][o]>>
  <2> DEFINE i == Spot(S, o)
  <2>1. i \in 1 .. Cardinality(S)
    BY <1>1, SpotsOfMembers
  <2>2. CASE i \in read
    BY <2>1, <2>2, IndexReads
  <2>3. CASE i \notin read
    <3>1. o \in stay /\ o \notin Changed(v)
      BY <2>3 DEF Modified
    <3>2. Before(I, i) = Before(born, o)
      BY <1>1, BeforeAmongSpots
    <3>3. Before(born, o) \in Nat /\ Before(stay, o) \in Nat /\ Before(S, o) = Before(stay, o) + Before(born, o)
      BY <1>9, BeforeIsNat
    <3>4. i - Before(I, i) = Spot(stay, o)
      BY <3>2, <3>3 DEF Spot
    <3>5. Before(K, Spot(Was, o)) = Before(stay, o)
      BY <1>1, <3>1, BeforeAmongSpots
    <3>6. Spot(K, Spot(Was, o)) = Spot(stay, o)
      BY <3>5 DEF Spot
    <3>7. kept[Spot(stay, o)] = Spot(Was, o)
      <4>1. Spot(Was, o) \in K
        BY <3>1
      <4> QED BY <1>7, <3>6, <4>1, SortedSpots
    <3>8. Spot(stay, o) \in DOMAIN kept
      BY <1>8, <1>9, <3>1, SpotsOfMembers
    <3>9. mirror[Spot(Was, o)] = <<o, file[1][o]>>
      BY <3>1 DEF Exact, Was
    <3>10. file[v][o] = file[1][o]
      BY <1>1, <3>1
    <3>11. m[i] = mirror[kept[i - Before(I, i)]]
      <4>1. i - Before(I, i) \in DOMAIN kept
        BY <3>4, <3>8
      <4> HIDE DEF i, read, I, kept
      <4> QED BY <2>1, <2>3, <4>1
    <3> HIDE DEF i, read, I, kept, m
    <3> QED BY <3>4, <3>7, <3>9, <3>10, <3>11 DEF i
  <2> QED BY <2>2, <2>3
<1>12. DOMAIN m = 1 .. Cardinality(S) /\ m = [i \in DOMAIN m |-> m[i]]
  OBVIOUS
<1> HIDE DEF m, c
<1> QED BY <1>10, <1>11, <1>12 DEF Exact, c

\* modificationsOld and modificationsNew name the same objects.
LEMMA PairsAreSame ==
  ASSUME NEW v, Exact(mirror, 1), NEW p \in Pairs(v, Table(v))
  PROVE  p[1] = p[2]
<1> DEFINE S == Members(v)
           c == Table(v)
           M == Modified(v)
<1>1. Finite(Was) /\ Finite(S) /\ M \in SUBSET Was /\ M \in SUBSET S
  BY CollectionIsFinite DEF Was, Modified
<1>0. c.modificationsOld = Populate(PlacesIn(Was, M)) /\ c.modificationsNew = Populate(PlacesIn(S, M))
  BY ChangeTable
<1> HIDE DEF c, M, S
<1>2. /\ DOMAIN c.modificationsOld = 1 .. Cardinality(M)
      /\ \A i \in 1 .. Cardinality(M) : c.modificationsOld[i] = Spot(Was, Sorted(M)[i])
  BY <1>0, <1>1, LuaPlaces
<1>3. \A i \in 1 .. Cardinality(M) : c.modificationsNew[i] = Spot(S, Sorted(M)[i])
  BY <1>0, <1>1, LuaPlaces
<1>4. PICK i \in DOMAIN c.modificationsOld :
        p = <<IF c.modificationsOld[i] \in DOMAIN mirror THEN mirror[c.modificationsOld[i]][1] ELSE 0,
              Index(v, c.modificationsNew[i])[1]>>
  BY DEF Pairs, c
<1>5. PICK o : o = Sorted(M)[i]
  OBVIOUS
<1>6. o \in M
  BY <1>1, <1>2, <1>5, PartIsFinite, SortedSpots
<1>7. c.modificationsOld[i] = Spot(Was, o) /\ c.modificationsNew[i] = Spot(S, o)
  BY <1>2, <1>3, <1>5
<1>8. Spot(Was, o) \in DOMAIN mirror /\ mirror[Spot(Was, o)] = <<o, file[1][o]>>
  BY <1>1, <1>6, SpotsOfMembers DEF Exact, Was
<1>9. Index(v, Spot(S, o)) = <<o, file[v][o]>>
  BY <1>1, <1>6, IndexReads DEF S
<1> QED BY <1>4, <1>7, <1>8, <1>9
-----------------------------------------------------------------------------
(* The steps                                                               *)

\* An object that no version on the way changed is as it was.
Unchanged(a, b, o) == \A w \in 2 .. b : w > a => file[w][o] = file[w - 1][o]
Segments == \A a, b \in 1 .. Latest : \A o \in Objects :
  a <= b /\ Unchanged(a, b, o) => file[a][o] = file[b][o]

MirrorInv == Told({"all", "filtered"}) => Exact(mirror, 1) /\ \A p \in paired : p[1] = p[2]

IndInv == file \in Seq([Objects -> States]) /\ TypeOK /\ Segments /\ MirrorInv /\ CopyExact

LEMMA FileIsSeq ==
  ASSUME IndInv
  PROVE  /\ file \in Seq([Objects -> States]) /\ Latest = Len(file) /\ Latest \in Nat
         /\ 1 \in 1 .. Latest /\ Latest <= MaxVersions /\ seen \in 1 .. Latest
BY DEF IndInv, TypeOK, Latest

\* What core does not count as changed between the deliveries is as it was.
LEMMA NotChanged ==
  ASSUME IndInv, NEW v \in 1 .. Latest, NEW o \in Objects \ Changed(v)
  PROVE  file[v][o] = file[1][o]
<1>1. Unchanged(1, v, o)
  BY DEF Unchanged, Changed
<1>2. 1 \in 1 .. Latest /\ 1 <= v
  BY FileIsSeq
<1> QED BY <1>1, <1>2 DEF IndInv, Segments

LEMMA InitSatisfiesInv == Init => IndInv
<1> SUFFICES ASSUME Init PROVE IndInv
  OBVIOUS
<1>1. PICK f \in [Objects -> Values \cup {Unborn}] : file = <<f>>
  BY DEF Init
<1>2. f \in [Objects -> States]
  BY <1>1 DEF States
<1>3. file \in Seq([Objects -> States]) /\ Latest = 1 /\ file[1] = f
  BY <1>1, <1>2 DEF Latest
<1>4. ~Listening
  BY DEF Init, Listening
<1>5. TypeOK
  BY <1>2, <1>3 DEF Init, TypeOK, States
<1>6. Segments
  BY <1>3 DEF Segments
<1>7. MirrorInv /\ CopyExact
  BY <1>4 DEF MirrorInv, CopyExact, Told
<1> QED BY <1>3, <1>5, <1>6, <1>7 DEF IndInv

\* What the listener has is left alone while the first version stays.
LEMMA ToldStays ==
  ASSUME IndInv, UNCHANGED <<listener, mirror, paired, copy>>, file'[1] = file[1]
  PROVE  MirrorInv' /\ CopyExact'
<1>1. Members(1)' = Members(1)
  BY DEF Members
<1>2. Exact(mirror, 1)' <=> Exact(mirror, 1)
  BY <1>1 DEF Exact
<1>3. \A k : Told(k)' <=> Told(k)
  BY DEF Told, Listening
<1> QED BY <1>2, <1>3 DEF IndInv, MirrorInv, CopyExact

\* A transaction adds a version.
LEMMA CommitKeeps ==
  ASSUME IndInv, Commit, Latest < MaxVersions, UNCHANGED <<listener, mirror, paired, copy>>,
         seen' \in {seen, Latest + 1}
  PROVE  IndInv'
<1>1. PICK f \in [Objects -> States] : file' = Append(file, f)
  BY DEF Commit
<1>2. PICK n \in Nat : n = Latest
  BY FileIsSeq
<1>3. /\ file' \in Seq([Objects -> States]) /\ Latest' = n + 1
      /\ file'[n + 1] = f /\ \A v \in 1 .. n : file'[v] = file[v]
  BY <1>1, <1>2, FileIsSeq DEF Latest
<1>4. \A v \in 1 .. n + 1 : file'[v] \in [Objects -> States]
  BY <1>3 DEF Latest
<1>5. 1 \in 1 .. n /\ n + 1 <= MaxVersions
  BY <1>2, FileIsSeq
<1>6. TypeOK'
  <2>1. seen' \in 1 .. n + 1
    BY <1>2, FileIsSeq
  <2>2. Latest' \in 1 .. MaxVersions
    BY <1>3, <1>5
  <2>3. \A k : Told(k)' <=> Told(k)
    BY DEF Told, Listening
  <2> QED BY <1>3, <1>4, <2>1, <2>2, <2>3 DEF IndInv, TypeOK
<1>7. Segments'
  <2>1. ASSUME NEW a \in 1 .. n + 1, NEW b \in 1 .. n + 1, NEW o \in Objects,
               a <= b, Unchanged(a, b, o)'
        PROVE  file'[a][o] = file'[b][o]
    <3>1. CASE b \in 1 .. n
      <4>1. a \in 1 .. n
        BY <2>1, <3>1
      <4>2. ASSUME NEW w \in 2 .. b, w > a PROVE file[w][o] = file[w - 1][o]
        <5>1. w \in 1 .. n /\ w - 1 \in 1 .. n
          BY <3>1, <4>2
        <5>2. file'[w][o] = file'[w - 1][o]
          BY <2>1, <4>2 DEF Unchanged
        <5> QED BY <1>3, <5>1, <5>2
      <4>3. Unchanged(a, b, o)
        BY <4>2 DEF Unchanged
      <4>4. file[a][o] = file[b][o]
        BY <1>2, <2>1, <3>1, <4>1, <4>3 DEF IndInv, Segments
      <4> QED BY <1>3, <3>1, <4>1, <4>4
    <3>2. CASE b = n + 1 /\ a = n + 1
      BY <3>2
    <3>3. CASE b = n + 1 /\ a \in 1 .. n
      <4>1. ASSUME NEW w \in 2 .. n, w > a PROVE file[w][o] = file[w - 1][o]
        <5>1. w \in 1 .. n /\ w - 1 \in 1 .. n /\ w \in 2 .. b
          BY <3>3, <4>1
        <5>2. file'[w][o] = file'[w - 1][o]
          BY <2>1, <4>1, <5>1 DEF Unchanged
        <5> QED BY <1>3, <5>1, <5>2
      <4>2. Unchanged(a, n, o) /\ n \in 1 .. Latest /\ a \in 1 .. Latest /\ a <= n
        BY <1>2, <1>5, <3>3, <4>1 DEF Unchanged
      <4>3. file[a][o] = file[n][o]
        BY <4>2 DEF IndInv, Segments
      <4>4. n + 1 \in 2 .. b /\ n + 1 > a /\ n + 1 - 1 = n
        BY <1>5, <3>3
      <4>5. file'[n + 1][o] = file'[n][o]
        BY <2>1, <4>4 DEF Unchanged
      <4> QED BY <1>2, <1>3, <3>3, <4>2, <4>3, <4>5
    <3> QED BY <3>1, <3>2, <3>3
  <2>2. ASSUME NEW a \in 1 .. Latest', NEW b \in 1 .. Latest', NEW o \in Objects,
               a <= b, Unchanged(a, b, o)'
        PROVE  file'[a][o] = file'[b][o]
    <3>1. a \in 1 .. n + 1 /\ b \in 1 .. n + 1
      BY <1>3
    <3> QED BY <2>1, <2>2, <3>1
  <2> QED BY <2>2, ZenonT(40) DEF Segments
<1>8. MirrorInv' /\ CopyExact'
  BY <1>3, <1>5, ToldStays
<1> QED BY <1>3, <1>6, <1>7, <1>8 DEF IndInv

\* Listeners come and go: none that is new was told anything.
LEMMA ListenersKeep ==
  ASSUME IndInv, AddListener \/ Stop
  PROVE  IndInv'
<1>1. file' = file /\ seen' = seen
  BY DEF AddListener, Stop
<1>2. Segments'
  <2>1. Latest' = Latest /\ \A a, b, o : Unchanged(a, b, o)' <=> Unchanged(a, b, o)
    BY <1>1 DEF Unchanged, Latest
  <2> QED BY <1>1, <2>1 DEF IndInv, Segments
<1>3. \A k : ~Told(k)'
  BY DEF AddListener, Stop, Told, Listening
<1>4. listener' \in Listeners \cup {None}
  BY DEF AddListener, Stop
<1>5. mirror' = <<>> /\ copy' = Unborn
  BY DEF AddListener, Stop, IndInv, TypeOK, Told, Listening
<1>6. TypeOK'
  BY <1>1, <1>4, <1>5 DEF IndInv, TypeOK, Latest, States
<1>7. MirrorInv' /\ CopyExact'
  BY <1>3 DEF MirrorInv, CopyExact
<1> QED BY <1>1, <1>2, <1>6, <1>7 DEF IndInv

\* The version told of is the first one then.
LEMMA AdvanceKeepsFile ==
  ASSUME IndInv, NEW v \in seen .. Latest, file' = SubSeq(file, v, Latest)
  PROVE  /\ v \in 1 .. Latest
         /\ file' \in Seq([Objects -> States]) /\ Latest' \in 1 .. MaxVersions
         /\ file'[1] = file[v] /\ \A w \in 1 .. Latest' : file'[w] \in [Objects -> States]
         /\ Segments'
<1>1. PICK n \in Nat : n = Latest /\ n >= 1 /\ n <= MaxVersions
  BY FileIsSeq
<1>2. v \in 1 .. n
  BY <1>1, FileIsSeq
<1>3. file' = [i \in 1 .. n - v + 1 |-> file[i + v - 1]]
  BY <1>1
<1>4. \A i \in 1 .. n - v + 1 : file[i + v - 1] \in [Objects -> States]
  BY <1>1, <1>2, FileIsSeq
<1>5. file' \in Seq([Objects -> States]) /\ Latest' = n - v + 1
  <2>1. PICK m \in Nat : m = n - v + 1
    BY <1>1, <1>2
  <2>2. file' = [i \in 1 .. m |-> file[i + v - 1]] /\ \A i \in 1 .. m : file[i + v - 1] \in [Objects -> States]
    BY <1>3, <1>4, <2>1
  <2>3. file' \in Seq([Objects -> States])
    <3>1. PICK T : T = [Objects -> States]
      OBVIOUS
    <3>2. PICK s \in [1 .. m -> T] : file' = s
      BY <2>2, <3>1
    <3>3. s \in Seq(T)
      BY <2>1, <3>2
    <3> QED BY <3>1, <3>2, <3>3
  <2>4. Len(file') = m
    BY <2>1, <2>2
  <2> QED BY <2>1, <2>3, <2>4 DEF Latest
<1>6. \A i \in 1 .. Latest' : file'[i] = file[i + v - 1]
  BY <1>3, <1>5
<1>7. 1 \in 1 .. Latest' /\ Latest' \in 1 .. MaxVersions
  BY <1>1, <1>2, <1>5
<1>8. file'[1] = file[v]
  <2>1. 1 + v - 1 = v
    BY <1>2
  <2>2. file'[1] = file[1 + v - 1]
    BY <1>6, <1>7
  <2> QED BY <2>1, <2>2
<1>9. ASSUME NEW a \in 1 .. Latest', NEW b \in 1 .. Latest', NEW o \in Objects,
             a <= b, Unchanged(a, b, o)'
      PROVE  file'[a][o] = file'[b][o]
  <2>1. PICK c, d : c = a + v - 1 /\ d = b + v - 1
    OBVIOUS
  <2>2. c \in 1 .. Latest /\ d \in 1 .. Latest /\ c <= d /\ c \in Nat /\ d \in Nat
    BY <1>1, <1>2, <1>5, <1>9, <2>1
  <2>3. ASSUME NEW w \in 2 .. d, w > c PROVE file[w][o] = file[w - 1][o]
    <3>1. PICK i : i = w - v + 1
      OBVIOUS
    <3>2. /\ i \in 2 .. b /\ i > a /\ i \in 1 .. Latest' /\ i - 1 \in 1 .. Latest'
          /\ i + v - 1 = w /\ (i - 1) + v - 1 = w - 1
      BY <1>1, <1>2, <1>5, <2>1, <2>3, <3>1
    <3>3. file'[i][o] = file'[i - 1][o]
      BY <1>9, <3>2 DEF Unchanged
    <3>4. file'[i] = file[w] /\ file'[i - 1] = file[w - 1]
      BY <1>6, <3>2
    <3> QED BY <3>3, <3>4
  <2>4. file[c][o] = file[d][o]
    BY <2>2, <2>3 DEF IndInv, Segments, Unchanged
  <2> QED BY <1>6, <2>1, <2>4
<1>10. Segments'
  BY <1>9, ZenonT(40) DEF Segments
<1> QED BY <1>1, <1>2, <1>4, <1>5, <1>6, <1>7, <1>8, <1>10
LEMMA AdvanceKeepsListener ==
  ASSUME IndInv, NEW v, Advance(v)
  PROVE  /\ listener' \in Listeners \cup {None} /\ (Listening' <=> Listening)
         /\ listener'.kind = listener.kind
         /\ Listening => listener'.told
         /\ listener.kind = "object" => listener'.of = listener.of /\ listener.of \in Watched
<1>1. listener \in Listeners \cup {None}
  BY DEF IndInv, TypeOK
<1>2. CASE listener = None
  BY <1>2 DEF Advance, Listening, None
<1>3. CASE listener # None /\ listener \in Listeners
  <2>1. listener' = [listener EXCEPT !.told = TRUE]
    BY <1>3 DEF Advance
  <2>2. listener' \in Listeners /\ listener'.kind = listener.kind /\ listener'.told
    BY <1>3, <2>1 DEF Listeners
  <2>3. listener.kind = "object" => listener'.of = listener.of /\ listener.of \in Watched
    BY <1>3, <2>1 DEF Listeners
  <2>4. listener' # None
    BY <2>2 DEF Listeners, None
  <2> QED BY <1>3, <2>2, <2>3, <2>4 DEF Listening
<1> QED BY <1>1, <1>2, <1>3

\* What is exact for the version told of is exact for the first one then.
LEMMA ExactThen ==
  ASSUME NEW v, file'[1] = file[v], listener'.kind = listener.kind, NEW m, Exact(m, v)
  PROVE  Exact(m, 1)'
<1>1. Members(1)' = Members(v)
  BY DEF Members
<1> QED BY <1>1 DEF Exact

LEMMA TellResultsExact ==
  ASSUME IndInv, NEW v \in 1 .. Latest, TellResults(v), Listening
  PROVE  Exact(mirror', v) /\ \A p \in paired' : p[1] = p[2]
<1>1. CASE ~listener.told
  BY <1>1, WholeIsExact DEF TellResults
<1>2. CASE listener.told
  <2>1. Exact(mirror, 1)
    BY <1>2 DEF IndInv, MirrorInv, Told, TellResults
  <2>2. mirror' = OnCollectionChange(v, Table(v)) /\ paired' = Pairs(v, Table(v))
    BY <1>2 DEF TellResults, Table
  <2>3. Exact(OnCollectionChange(v, Table(v)), v)
    BY <2>1, ChangesAreFollowed, NotChanged
  <2> QED BY <2>1, <2>2, <2>3, PairsAreSame
<1> QED BY <1>1, <1>2

LEMMA TellObjectExact ==
  ASSUME IndInv, NEW v \in 1 .. Latest, TellObject(v), Listening, listener.of \in Objects
  PROVE  copy' = file[v][listener.of]
<1>1. PICK o \in Objects : o = listener.of
  OBVIOUS
<1>2. CASE ~listener.told
  BY <1>2 DEF TellObject
<1>3. CASE listener.told
  <2> DEFINE deleted == file[v][o] = Gone /\ file[1][o] # Gone
  <2>1. copy = file[1][o]
    BY <1>1, <1>3 DEF IndInv, CopyExact, Told, TellObject
  <2>2. PICK n \in IF o \notin Changed(v) THEN {0} ELSE IF deleted THEN {0, 1} ELSE {1} :
          copy' = OnObjectChange(v, ObjectChanges(deleted, n))
    BY <1>1, <1>3 DEF TellObject
  <2>3. CASE deleted
    BY <1>1, <2>2, <2>3 DEF OnObjectChange, ObjectChanges
  <2>4. CASE ~deleted /\ o \in Changed(v)
    <3>1. n = 1
      BY <2>2, <2>4
    <3>2. ~ObjectChanges(deleted, n).isDeleted /\ ObjectChanges(deleted, n).modified = 1
      BY <2>4, <3>1 DEF ObjectChanges
    <3>3. copy' = OnObjectChange(v, ObjectChanges(deleted, n))
      BY <2>2
    <3> HIDE DEF deleted
    <3> QED BY <1>1, <3>2, <3>3 DEF OnObjectChange
  <2>5. CASE ~deleted /\ o \notin Changed(v)
    <3>1. n = 0 /\ file[v][o] = file[1][o]
      BY <2>2, <2>5, NotChanged
    <3> QED BY <1>1, <2>1, <2>2, <2>5, <3>1 DEF OnObjectChange, ObjectChanges
  <2> QED BY <2>3, <2>4, <2>5
<1> QED BY <1>2, <1>3

LEMMA DeliverKeeps == ASSUME IndInv, Deliver PROVE IndInv'
<1>1. PICK v \in seen .. Latest : Advance(v) /\ Tell(v)
  BY DEF Deliver
<1>2. /\ v \in 1 .. Latest
      /\ file' \in Seq([Objects -> States]) /\ Latest' \in 1 .. MaxVersions
      /\ file'[1] = file[v] /\ \A w \in 1 .. Latest' : file'[w] \in [Objects -> States]
      /\ Segments'
  BY <1>1, AdvanceKeepsFile DEF Advance
<1>3. /\ listener' \in Listeners \cup {None} /\ (Listening' <=> Listening)
      /\ listener'.kind = listener.kind
      /\ Listening => listener'.told
      /\ listener.kind = "object" => listener'.of = listener.of /\ listener.of \in Watched
  BY <1>1, AdvanceKeepsListener
<1>4. seen' \in 1 .. Latest'
  BY <1>1, <1>2 DEF Advance
<1>5. CASE ~Listening
  <2>1. \A k : ~Told(k) /\ ~Told(k)'
    BY <1>3, <1>5 DEF Told
  <2>2. UNCHANGED <<mirror, paired, copy>>
    <3>1. listener.kind = "none"
      BY <1>5 DEF Listening, None
    <3> QED BY <1>1, <3>1 DEF Tell, TellResults, TellObject
  <2>3. mirror = <<>> /\ copy = Unborn
    BY <2>1 DEF IndInv, TypeOK
  <2>4. TypeOK'
    BY <1>2, <1>3, <1>4, <2>2, <2>3 DEF TypeOK, States
  <2> QED BY <1>2, <2>1, <2>4 DEF IndInv, MirrorInv, CopyExact
<1>6. CASE Listening /\ TellResults(v)
  <2>1. PICK m : m = mirror'
    OBVIOUS
  <2>2. Exact(m, v) /\ \A p \in paired' : p[1] = p[2]
    BY <1>2, <1>6, <2>1, TellResultsExact
  <2>3. Exact(m, 1)'
    BY <1>2, <1>3, <2>2, ExactThen
  <2>4. listener.kind \in {"all", "filtered"} /\ copy' = copy
    BY <1>6 DEF TellResults
  <2>5. m \in Seq(Objects \X Values)
    BY <2>2, <2>4, ExactIsSequence
  <2>6. ~Told({"object"}) /\ ~Told({"object"})' /\ Told({"all", "filtered"})'
    BY <1>3, <1>6, <2>4 DEF Told
  <2>7. copy' = Unborn
    BY <2>4, <2>6 DEF IndInv, TypeOK
  <2>8. TypeOK'
    BY <1>2, <1>3, <1>4, <2>1, <2>5, <2>6, <2>7 DEF TypeOK, States
  <2>9. MirrorInv' /\ CopyExact'
    BY <2>1, <2>2, <2>3, <2>6 DEF MirrorInv, CopyExact, Exact
  <2> QED BY <1>2, <2>8, <2>9 DEF IndInv
<1>7. CASE Listening /\ TellObject(v)
  <2>1. listener.kind = "object" /\ mirror' = mirror
    BY <1>7 DEF TellObject
  <2>2. PICK o \in Objects : o = listener.of /\ o = listener'.of
    BY <1>3, <2>1
  <2>3. copy' = file'[1][o]
    BY <1>2, <1>7, <2>2, TellObjectExact
  <2>4. /\ ~Told({"all", "filtered"}) /\ ~Told({"all", "filtered"})' /\ Told({"object"})'
    BY <1>3, <1>7, <2>1 DEF Told
  <2>5. mirror' = <<>>
    BY <2>1, <2>4 DEF IndInv, TypeOK
  <2>6. copy' \in States
    <3>1. file'[1] \in [Objects -> States]
      BY <1>2, FileIsSeq
    <3> QED BY <2>2, <2>3, <3>1
  <2>7. TypeOK'
    BY <1>2, <1>3, <1>4, <2>4, <2>5, <2>6 DEF TypeOK
  <2>8. MirrorInv' /\ CopyExact'
    BY <2>2, <2>3, <2>4 DEF MirrorInv, CopyExact
  <2> QED BY <1>2, <2>7, <2>8 DEF IndInv
<1> QED BY <1>1, <1>5, <1>6, <1>7 DEF Tell, Listening

LEMMA NextKeepsInv == IndInv /\ [Next]_vars => IndInv'
<1> SUFFICES ASSUME IndInv, [Next]_vars PROVE IndInv'
  OBVIOUS
<1>1. CASE WriteOther
  BY <1>1, CommitKeeps DEF WriteOther
<1>2. CASE WriteOwn
  BY <1>2, CommitKeeps DEF WriteOwn
<1>3. CASE AddListener \/ Stop
  BY <1>3, ListenersKeep
<1>4. CASE Deliver
  BY <1>4, DeliverKeeps
<1>5. CASE UNCHANGED vars
  <2>1. MirrorInv' /\ CopyExact'
    BY <1>5, ToldStays DEF vars
  <2>2. Latest' = Latest /\ \A a, b, o : Unchanged(a, b, o)' <=> Unchanged(a, b, o)
    BY <1>5 DEF Unchanged, Latest, vars
  <2>3. Segments'
    <3>1. file' = file
      BY <1>5 DEF vars
    <3> QED BY <2>2, <3>1 DEF IndInv, Segments
  <2>4. \A k : Told(k)' <=> Told(k)
    BY <1>5 DEF Told, Listening, vars
  <2>5. TypeOK'
    BY <1>5, <2>2, <2>4 DEF IndInv, TypeOK, vars
  <2> QED BY <1>5, <2>1, <2>3, <2>5 DEF IndInv, vars
<1> QED BY <1>1, <1>2, <1>3, <1>4, <1>5 DEF Next

LEMMA InvHolds == Spec => []IndInv
BY InitSatisfiesInv, NextKeepsInv, PTL DEF Spec

-----------------------------------------------------------------------------
(* Theorems                                                                *)

\* Only a listener that was called has left anything, what it made of a
\* collection has no entry read past the collection's end, and what it made of
\* an object is a state of one.
THEOREM TypeCorrect == Spec => []TypeOK
<1>1. IndInv => TypeOK
  BY DEF IndInv
<1> QED BY <1>1, InvHolds, PTL

\* A program that takes entries out at the deletions, then puts in at the
\* insertions, then reads the modifications again, as documented, has the
\* collection as it is in the version told of, whatever the transactions since
\* the last call did and however many there were
\* (populate_lua_collection_changes_table, realm_notifications.cpp:64).
THEOREM ChangesKeepMirror == Spec => []MirrorExact
<1>1. IndInv => MirrorExact
  <2> SUFFICES ASSUME IndInv, Told({"all", "filtered"})
               PROVE  /\ Len(mirror) = Cardinality(Members(1))
                      /\ \A o \in Members(1) : mirror[Before(Members(1), o) + 1] = <<o, file[1][o]>>
                      /\ \A p \in paired : p[1] = p[2]
    BY DEF MirrorExact
  <2>1. Exact(mirror, 1) /\ \A p \in paired : p[1] = p[2]
    BY DEF IndInv, MirrorInv
  <2>2. listener.kind \in {"all", "filtered"}
    BY DEF Told
  <2> QED BY <2>1, <2>2, ExactIsSequence DEF Exact, Spot
<1> QED BY <1>1, InvHolds, PTL

\* A program that reads the object again when properties were modified, and
\* takes it for gone when the table says so, has the object as it is in the
\* version told of: what is undefined in the table of a deleted object, its
\* list of properties, is not needed (on_object_change, realm_notifications.cpp:31).
THEOREM ChangesKeepCopy == Spec => []CopyExact
<1>1. IndInv => CopyExact
  BY DEF IndInv
<1> QED BY <1>1, InvHolds, PTL
=============================================================================
