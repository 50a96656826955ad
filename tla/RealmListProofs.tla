--------------------------- MODULE RealmListProofs ---------------------------
(***************************************************************************)
(* Proofs about lists without nulls, of any element type and any length:   *)
(* the loops of the table library over list.lua make an array.             *)
(***************************************************************************)
EXTENDS RealmList, SequenceTheorems, TLAPS

NoNulls == Initial \subseteq {l \in Seq(Elements) : Len(l) <= MaxLength}

-----------------------------------------------------------------------------
(* Sequences                                                               *)

LEMMA SeqMonotone ==
  ASSUME NEW S, NEW T, S \subseteq T, NEW s \in Seq(S)
  PROVE  s \in Seq(T)
  OBVIOUS

\* t is s with e put in front of its element i, or without that element.
Inserted(S, s, i, e, t) ==
  /\ t \in Seq(S) /\ Len(t) = Len(s) + 1
  /\ \A j \in 1 .. i - 1 : t[j] = s[j]
  /\ t[i] = e
  /\ \A j \in i + 1 .. Len(s) + 1 : t[j] = s[j - 1]
Removed(S, s, i, t) ==
  /\ t \in Seq(S) /\ Len(t) = Len(s) - 1
  /\ \A j \in 1 .. i - 1 : t[j] = s[j]
  /\ \A j \in i .. Len(s) - 1 : t[j] = s[j + 1]

LEMMA InsertAtFacts ==
  ASSUME NEW S, NEW s \in Seq(S), NEW i \in 1 .. Len(s) + 1, NEW e \in S
  PROVE  Inserted(S, s, i, e, InsertAt(s, i, e))
<1> DEFINE l == SubSeq(s, 1, i - 1)  m == <<e>>  r == SubSeq(s, i, Len(s))
<1>1. /\ l \in Seq(S) /\ Len(l) = i - 1
      /\ \A j \in 1 .. i - 1 : l[j] = s[j]
  <2>1. \A j \in 1 .. i - 1 : s[j] \in S
    BY ElementOfSeq
  <2> QED BY <2>1, SubSeqProperties
<1>2. /\ r \in Seq(S) /\ Len(r) = Len(s) - i + 1
      /\ \A j \in 1 .. Len(s) - i + 1 : r[j] = s[i + j - 1]
  <2>1. \A j \in i .. Len(s) : s[j] \in S
    BY ElementOfSeq
  <2> QED BY <2>1, SubSeqProperties
<1>3. m \in Seq(S) /\ Len(m) = 1 /\ m[1] = e
  OBVIOUS
<1>4. /\ l \o m \in Seq(S) /\ Len(l \o m) = i
      /\ \A j \in 1 .. i : (l \o m)[j] = IF j < i THEN s[j] ELSE e
  <2> HIDE DEF l, m
  <2>1. /\ l \o m \in Seq(S) /\ Len(l \o m) = Len(l) + Len(m)
        /\ \A j \in 1 .. Len(l) + Len(m) : (l \o m)[j] =
             IF j <= Len(l) THEN l[j] ELSE m[j - Len(l)]
    BY <1>1, <1>3, ConcatProperties
  <2>2. i - (i - 1) = 1 /\ Len(l) + Len(m) = i
    BY <1>1, <1>3
  <2>3. (l \o m)[i] = e
    BY <1>1, <1>3, <2>1, <2>2
  <2>4. \A j \in 1 .. i - 1 : (l \o m)[j] = s[j]
    BY <1>1, <2>1, <2>2
  <2> QED BY <2>1, <2>2, <2>3, <2>4
<1>5. /\ (l \o m) \o r \in Seq(S) /\ Len((l \o m) \o r) = Len(s) + 1
      /\ \A j \in 1 .. i - 1 : ((l \o m) \o r)[j] = s[j]
      /\ ((l \o m) \o r)[i] = e
      /\ \A j \in i + 1 .. Len(s) + 1 : ((l \o m) \o r)[j] = s[j - 1]
  <2> DEFINE lm == l \o m
  <2>1. /\ lm \o r \in Seq(S) /\ Len(lm \o r) = Len(lm) + Len(r)
        /\ \A j \in 1 .. Len(lm) + Len(r) : (lm \o r)[j] =
             IF j <= Len(lm) THEN lm[j] ELSE r[j - Len(lm)]
    <3> HIDE DEF lm, r
    <3> QED BY <1>2, <1>4, ConcatProperties DEF lm
  <2>2. \A j \in i + 1 .. Len(s) + 1 : r[j - i] = s[j - 1]
    <3> HIDE DEF r
    <3> TAKE j \in i + 1 .. Len(s) + 1
    <3>1. j - i \in 1 .. Len(s) - i + 1 /\ i + (j - i) - 1 = j - 1
      OBVIOUS
    <3> QED BY <3>1, <1>2
  <2> HIDE DEF l, m, r
  <2> QED BY <1>2, <1>4, <2>1, <2>2
<1> QED BY <1>5 DEF InsertAt, Inserted

LEMMA RemoveAtFacts ==
  ASSUME NEW S, NEW s \in Seq(S), NEW i \in 1 .. Len(s)
  PROVE  Removed(S, s, i, RemoveAt(s, i))
<1> DEFINE l == SubSeq(s, 1, i - 1)  r == SubSeq(s, i + 1, Len(s))
<1>1. /\ l \in Seq(S) /\ Len(l) = i - 1
      /\ \A j \in 1 .. i - 1 : l[j] = s[j]
  <2>1. \A j \in 1 .. i - 1 : s[j] \in S
    BY ElementOfSeq
  <2> QED BY <2>1, SubSeqProperties
<1>2. /\ r \in Seq(S) /\ Len(r) = Len(s) - i
      /\ \A j \in 1 .. Len(s) - i : r[j] = s[i + 1 + j - 1]
  <2>1. \A j \in i + 1 .. Len(s) : s[j] \in S
    BY ElementOfSeq
  <2> QED BY <2>1, SubSeqProperties
<1>3. /\ l \o r \in Seq(S) /\ Len(l \o r) = Len(l) + Len(r)
      /\ \A j \in 1 .. Len(l) + Len(r) : (l \o r)[j] =
           IF j <= Len(l) THEN l[j] ELSE r[j - Len(l)]
  <2> HIDE DEF l, r
  <2> QED BY <1>1, <1>2, ConcatProperties
<1>4. \A j \in i .. Len(s) - 1 : r[j - (i - 1)] = s[j + 1]
  <2> HIDE DEF r
  <2> TAKE j \in i .. Len(s) - 1
  <2>1. j - (i - 1) \in 1 .. Len(s) - i /\ i + 1 + (j - (i - 1)) - 1 = j + 1
    OBVIOUS
  <2> QED BY <2>1, <1>2
<1> HIDE DEF l, r
<1>5. /\ l \o r \in Seq(S) /\ Len(l \o r) = Len(s) - 1
      /\ \A j \in 1 .. i - 1 : (l \o r)[j] = s[j]
      /\ \A j \in i .. Len(s) - 1 : (l \o r)[j] = s[j + 1]
  BY <1>1, <1>2, <1>3, <1>4
<1> QED BY <1>5 DEF RemoveAt, Removed, l, r

\* Two ways to the same sequence.
LEMMA InsertedOnce ==
  ASSUME NEW S, NEW s \in Seq(S), NEW i \in 1 .. Len(s) + 1, NEW e \in S,
         NEW t, Inserted(S, s, i, e, t)
  PROVE  t = InsertAt(s, i, e)
<1>1. PICK u : u = InsertAt(s, i, e)
  OBVIOUS
<1>2. Inserted(S, s, i, e, u)
  BY <1>1, InsertAtFacts
<1>3. ASSUME NEW j \in 1 .. Len(t)  PROVE t[j] = u[j]
  <2>1. j \in 1 .. i - 1 \/ j = i \/ j \in i + 1 .. Len(s) + 1
    BY DEF Inserted
  <2> QED BY <1>2, <2>1 DEF Inserted
<1>4. t \in Seq(S) /\ u \in Seq(S) /\ Len(t) = Len(u)
  BY <1>2 DEF Inserted
<1> QED BY <1>1, <1>3, <1>4, SeqEqual

LEMMA RemovedOnce ==
  ASSUME NEW S, NEW s \in Seq(S), NEW i \in 1 .. Len(s), NEW t, Removed(S, s, i, t)
  PROVE  t = RemoveAt(s, i)
<1>1. PICK u : u = RemoveAt(s, i)
  OBVIOUS
<1>2. Removed(S, s, i, u)
  BY <1>1, RemoveAtFacts
<1>3. ASSUME NEW j \in 1 .. Len(t)  PROVE t[j] = u[j]
  <2>1. j \in 1 .. i - 1 \/ j \in i .. Len(s) - 1
    BY DEF Removed
  <2> QED BY <1>2, <2>1 DEF Removed
<1>4. t \in Seq(S) /\ u \in Seq(S) /\ Len(t) = Len(u)
  BY <1>2 DEF Removed
<1> QED BY <1>1, <1>3, <1>4, SeqEqual

\* A sequence with room made at p by a second copy of the element there:
\* dropping that copy gives the old sequence back, overwriting it inserts.
LEMMA DropDoubled ==
  ASSUME NEW S, NEW old \in Seq(S), NEW p \in 1 .. Len(old)
  PROVE  RemoveAt(InsertAt(old, p, old[p]), p) = old
<1>1. p \in 1 .. Len(old) + 1 /\ old[p] \in S /\ Len(old) \in Nat
  BY ElementOfSeq
<1>2. PICK l : l = InsertAt(old, p, old[p])
  OBVIOUS
<1>3. Inserted(S, old, p, old[p], l)
  BY <1>1, <1>2, InsertAtFacts
<1>4. p \in 1 .. Len(l) /\ l \in Seq(S) /\ Len(l) = Len(old) + 1
  BY <1>3 DEF Inserted
<1>5. Removed(S, l, p, old)
  <2>1. old \in Seq(S) /\ Len(old) = Len(l) - 1
    BY <1>1, <1>4
  <2>2. \A j \in 1 .. p - 1 : old[j] = l[j]
    BY <1>3 DEF Inserted
  <2>3. ASSUME NEW j \in p .. Len(l) - 1  PROVE old[j] = l[j + 1]
    <3>1. j + 1 \in p + 1 .. Len(old) + 1 /\ j + 1 - 1 = j
      BY <1>1, <1>4
    <3> QED BY <1>3, <3>1 DEF Inserted
  <2> QED BY <2>1, <2>2, <2>3 DEF Removed
<1> QED BY <1>2, <1>4, <1>5, RemovedOnce

LEMMA FillDoubled ==
  ASSUME NEW S, NEW old \in Seq(S), NEW p \in 1 .. Len(old), NEW v \in S
  PROVE  [InsertAt(old, p, old[p]) EXCEPT ![p] = v] = InsertAt(old, p, v)
<1>1. p \in 1 .. Len(old) + 1 /\ old[p] \in S /\ Len(old) \in Nat
  BY ElementOfSeq
<1>2. PICK l : l = InsertAt(old, p, old[p])
  OBVIOUS
<1>3. Inserted(S, old, p, old[p], l)
  BY <1>1, <1>2, InsertAtFacts
<1>4. p \in 1 .. Len(l) /\ l \in Seq(S) /\ Len(l) = Len(old) + 1
  BY <1>3 DEF Inserted
<1>5. PICK t : t = [l EXCEPT ![p] = v]
  OBVIOUS
<1>6. t \in Seq(S) /\ Len(t) = Len(l) /\ t[p] = v
  BY <1>4, <1>5, ExceptSeq
<1>7. \A j \in 1 .. Len(l) : j # p => t[j] = l[j]
  BY <1>4, <1>5, ExceptSeq
<1>8. Inserted(S, old, p, v, t)
  <2>1. \A j \in 1 .. p - 1 : t[j] = old[j]
    BY <1>1, <1>3, <1>4, <1>7 DEF Inserted
  <2>2. ASSUME NEW j \in p + 1 .. Len(old) + 1  PROVE t[j] = old[j - 1]
    <3>1. j \in 1 .. Len(l) /\ j # p
      BY <1>1, <1>4
    <3>2. t[j] = l[j]
      BY <1>7, <3>1
    <3> QED BY <1>3, <3>2 DEF Inserted
  <2> QED BY <1>4, <1>6, <2>1, <2>2 DEF Inserted
<1>9. t = InsertAt(old, p, v)
  BY <1>1, <1>8, InsertedOnce
<1> QED BY <1>2, <1>5, <1>9

\* A sequence whose elements after p have moved down by one, its last one twice.
LEMMA DropLastShifted ==
  ASSUME NEW S, NEW old \in Seq(S), NEW p \in 1 .. Len(old), NEW l \in Seq(S),
         Len(l) = Len(old),
         \A j \in 1 .. p - 1 : l[j] = old[j],
         \A j \in p .. Len(old) - 1 : l[j] = old[j + 1]
  PROVE  RemoveAt(l, Len(l)) = RemoveAt(old, p)
<1>1. Len(l) \in 1 .. Len(l) /\ Len(l) \in Nat
  OBVIOUS
<1>2. PICK t : t = RemoveAt(l, Len(l))
  OBVIOUS
<1>3. Removed(S, l, Len(l), t)
  BY <1>1, <1>2, RemoveAtFacts
<1>4. Removed(S, old, p, t)
  <2>1. t \in Seq(S) /\ Len(t) = Len(old) - 1
    BY <1>3 DEF Removed
  <2>2. \A j \in 1 .. Len(l) - 1 : t[j] = l[j]
    BY <1>3 DEF Removed
  <2>3. ASSUME NEW j \in 1 .. p - 1  PROVE t[j] = old[j]
    <3>1. j \in 1 .. Len(l) - 1
      BY <1>1
    <3> QED BY <2>2, <3>1
  <2>4. ASSUME NEW j \in p .. Len(old) - 1  PROVE t[j] = old[j + 1]
    <3>1. j \in 1 .. Len(l) - 1
      BY <1>1
    <3> QED BY <2>2, <3>1
  <2> QED BY <2>1, <2>3, <2>4 DEF Removed
<1>5. t = RemoveAt(old, p)
  BY <1>4, RemovedOnce
<1> QED BY <1>2, <1>5

-----------------------------------------------------------------------------
(* The native calls                                                        *)

LEMMA EraseFacts ==
  ASSUME NullFree, NEW n \in Nat, Erase(n)
  PROVE  \/ /\ raised' = FALSE /\ n < Len(list)
            /\ list' = RemoveAt(list, n + 1) /\ list' \in Seq(Elements)
         \/ raised' = TRUE /\ n >= Len(list) /\ list' = list
<1>1. CASE n < Len(list) /\ list' = RemoveAt(list, n + 1) /\ raised' = FALSE
  <2>1. n + 1 \in 1 .. Len(list)
    BY <1>1 DEF NullFree
  <2>2. RemoveAt(list, n + 1) \in Seq(Elements)
    BY <2>1, RemoveAtFacts DEF NullFree, Removed
  <2> QED BY <1>1, <2>2
<1>2. CASE n >= Len(list) /\ Raise
  BY <1>2 DEF Raise
<1> QED BY <1>1, <1>2 DEF Erase

LEMMA PutFacts ==
  ASSUME NullFree, NEW n \in Nat, NEW v, Put(n, v)
  PROVE  \/ /\ raised' = FALSE /\ v \in Elements /\ n <= Len(list)
            /\ list' = IF n < Len(list) THEN [list EXCEPT ![n + 1] = v] ELSE Append(list, v)
            /\ list' \in Seq(Elements)
         \/ raised' = TRUE /\ (v \notin Elements \/ n > Len(list)) /\ list' = list
<1>1. CASE v \in Elements /\ n = Len(list) /\ list' = Append(list, v) /\ raised' = FALSE
  <2>1. Append(list, v) \in Seq(Elements)
    BY <1>1, AppendProperties DEF NullFree
  <2>2. ~(n < Len(list)) /\ n <= Len(list)
    BY <1>1
  <2> QED BY <1>1, <2>1, <2>2
<1>2. CASE v \in Elements /\ n < Len(list) /\ list' = [list EXCEPT ![n + 1] = v] /\ raised' = FALSE
  <2>1. n + 1 \in 1 .. Len(list) /\ n <= Len(list)
    BY <1>2 DEF NullFree
  <2>2. [list EXCEPT ![n + 1] = v] \in Seq(Elements)
    BY <1>2, <2>1, ExceptSeq DEF NullFree
  <2> QED BY <1>2, <2>1, <2>2
<1>3. CASE (v \notin Elements \/ n > Len(list)) /\ Raise
  BY <1>3 DEF Raise
<1> QED BY <1>1, <1>2, <1>3 DEF Put

\* The index 0 is as far out of bounds as a size_t can be.
LEMMA Index0Facts ==
  ASSUME NullFree, Len(list) <= MaxLength, NEW i \in 0 .. MaxLength + 2
  PROVE  /\ Index0(i) \in Nat
         /\ i # 0 => Index0(i) + 1 = i
         /\ i = 0 => Index0(i) > Len(list)
BY ListAssumption DEF Index0, NullFree

LEMMA NilFacts ==
  ASSUME NullFree, Len(list) <= MaxLength, NEW i \in 0 .. MaxLength + 2,
         NewIndex(i, Nil)
  PROVE  \/ /\ raised' = FALSE /\ i \in 1 .. Len(list)
            /\ list' = RemoveAt(list, i) /\ list' \in Seq(Elements)
         \/ raised' = TRUE /\ i \notin 1 .. Len(list) /\ list' = list
<1>1. Erase(Index0(i)) /\ Len(list) \in Nat
  BY DEF NewIndex, NullFree
<1>2. CASE /\ raised' = FALSE /\ Index0(i) < Len(list)
           /\ list' = RemoveAt(list, Index0(i) + 1) /\ list' \in Seq(Elements)
  <2>1. i \in 1 .. Len(list) /\ Index0(i) + 1 = i
    BY <1>1, <1>2, Index0Facts
  <2> QED BY <1>2, <2>1
<1>3. CASE raised' = TRUE /\ Index0(i) >= Len(list) /\ list' = list
  <2>1. i \notin 1 .. Len(list)
    BY <1>1, <1>3, Index0Facts
  <2> QED BY <1>3, <2>1
<1> QED BY <1>1, <1>2, <1>3, Index0Facts, EraseFacts

LEMMA ValueFacts ==
  ASSUME NullFree, Len(list) <= MaxLength, NEW i \in 0 .. MaxLength + 2,
         NEW v, v # Nil, NewIndex(i, v)
  PROVE  \/ /\ raised' = FALSE /\ v \in Elements /\ i \in 1 .. Len(list) + 1
            /\ list' = IF i <= Len(list) THEN [list EXCEPT ![i] = v] ELSE Append(list, v)
            /\ list' \in Seq(Elements)
         \/ /\ raised' = TRUE /\ list' = list
            /\ v \notin Elements \/ i \notin 1 .. Len(list) + 1
<1>1. Put(Index0(i), v) /\ Len(list) \in Nat
  BY DEF NewIndex, NullFree
<1> DEFINE n == Index0(i)
<1>2. CASE /\ raised' = FALSE /\ v \in Elements /\ n <= Len(list)
           /\ list' = IF n < Len(list) THEN [list EXCEPT ![n + 1] = v] ELSE Append(list, v)
           /\ list' \in Seq(Elements)
  <2>1. i \in 1 .. Len(list) + 1 /\ n + 1 = i /\ (n < Len(list) <=> i <= Len(list))
    BY <1>1, <1>2, Index0Facts
  <2> HIDE DEF n
  <2> QED BY <1>2, <2>1
<1>3. CASE raised' = TRUE /\ (v \notin Elements \/ n > Len(list)) /\ list' = list
  <2>1. n > Len(list) => i \notin 1 .. Len(list) + 1
    BY <1>1, Index0Facts
  <2> HIDE DEF n
  <2> QED BY <1>3, <2>1
<1>4. n \in Nat
  BY Index0Facts
<1> QED BY <1>1, <1>2, <1>3, <1>4, PutFacts

-----------------------------------------------------------------------------
(* The inductive invariant                                                 *)

InsertOps == [call : {"insert"}, pos : Nat, i : Nat, val : Values, old : Lists]
RemoveOps == [call : {"remove"}, pos : Nat, i : Nat, old : Lists]

LEMMA OpCases ==
  ASSUME op \in Ops
  PROVE  /\ op = Idle \/ op \in InsertOps \/ op \in RemoveOps
         /\ op = Idle => op.call # "insert" /\ op.call # "remove"
         /\ op.call = "insert" => op \in InsertOps /\ op # Idle
         /\ op.call = "remove" => op \in RemoveOps /\ op # Idle
BY DEF Ops, Idle, InsertOps, RemoveOps

\* A step that ends the call, or starts none, has only the list to answer for.
LEMMA IdleInv ==
  ASSUME IndInv, list' \in Seq(Elements), Len(list') <= MaxLength,
         raised' \in BOOLEAN, op' = Idle
  PROVE  IndInv'
<1>1. list' \in Lists
  BY SeqMonotone DEF Lists
<1>2. op'.call = "none"
  BY DEF Idle
<1>3. TypeOK'
  BY <1>1 DEF TypeOK, Ops
<1>4. NullFree'
  BY DEF NullFree
<1>5. InsertInv' /\ RemoveInv'
  BY <1>2 DEF InsertInv, RemoveInv
<1> QED BY <1>3, <1>4, <1>5 DEF IndInv

\* What an element is read as.
LEMMA ReadFacts ==
  ASSUME NullFree, NEW i \in 1 .. Len(list)
  PROVE  CanRead(i) /\ Read(i) = list[i] /\ list[i] \in Elements /\ list[i] # Nil
<1>1. list[i] \in Elements
  BY ElementOfSeq DEF NullFree
<1>2. list[i] # Null /\ list[i] # Nil
  BY <1>1, ListAssumption
<1>3. Index0(i) = i - 1 /\ Index0(i) + 1 = i /\ Index0(i) < Len(list)
  BY DEF Index0, NullFree
<1> QED BY <1>1, <1>2, <1>3 DEF CanRead, Read

\* The loops of a call never raise.
LEMMA MoveFacts ==
  ASSUME NullFree, Len(list) <= MaxLength, NEW to \in 1 .. Len(list) + 1,
         NEW from \in 1 .. Len(list), NEW next, Move(to, from, next)
  PROVE  /\ list' = IF to <= Len(list) THEN [list EXCEPT ![to] = list[from]]
                                       ELSE Append(list, list[from])
         /\ list' \in Seq(Elements) /\ raised' = FALSE /\ GoesOn(next)
<1>1. CanRead(from) /\ Read(from) = list[from] /\ list[from] \in Elements /\ list[from] # Nil
  BY ReadFacts
<1>2. NewIndex(to, list[from])
  BY <1>1 DEF Move
<1>3. to \in 0 .. MaxLength + 2
  BY ListAssumption DEF NullFree
<1>4. /\ raised' = FALSE
      /\ list' = IF to <= Len(list) THEN [list EXCEPT ![to] = list[from]]
                                    ELSE Append(list, list[from])
      /\ list' \in Seq(Elements)
  BY <1>1, <1>2, <1>3, ValueFacts
<1>5. GoesOn(next)
  BY <1>4 DEF Move
<1> QED BY <1>4, <1>5

LEMMA AssignStep ==
  ASSUME IndInv, NEW i \in 0 .. MaxLength + 2, NEW v \in Values, Assign(i, v)
  PROVE  IndInv' /\ (list' = list \/ Array!Next)
<1> DEFINE n == Len(list)
<1>1. NullFree /\ n <= MaxLength /\ n \in Nat
  BY DEF IndInv, TypeOK, NullFree
<1>2. op = Idle /\ op' = Idle /\ NewIndex(i, v) /\ (i <= n \/ n < MaxLength)
  BY DEF Assign
<1>3. SUFFICES /\ list' \in Seq(Elements) /\ Len(list') <= MaxLength /\ raised' \in BOOLEAN
               /\ list' = list \/ Array!Next
  BY <1>2, IdleInv
<1>4. CASE raised' = TRUE /\ list' = list
  BY <1>1, <1>4 DEF NullFree
<1>5. CASE v = Nil /\ i \in 1 .. n /\ list' = RemoveAt(list, i) /\ raised' = FALSE
  <2>1. list' \in Seq(Elements) /\ Len(list') = n - 1
    BY <1>1, <1>5, RemoveAtFacts DEF NullFree, Removed
  <2>2. Array!TakeOut(i)
    BY <1>2, <1>5 DEF Array!TakeOut, Array!RemoveAt, RemoveAt
  <2>3. i \in 1 .. Len(IF op = Idle THEN list ELSE op.old) + 1
    BY <1>1, <1>2, <1>5
  <2>4. Array!Next
    BY <2>2, <2>3 DEF Array!Next
  <2>5. Len(list') <= MaxLength
    BY <1>1, <2>1, ListAssumption
  <2> QED BY <1>5, <2>1, <2>4, <2>5
<1>6. CASE /\ v \in Elements /\ i \in 1 .. n + 1 /\ raised' = FALSE /\ list' \in Seq(Elements)
           /\ list' = IF i <= n THEN [list EXCEPT ![i] = v] ELSE Append(list, v)
  <2>1. Len(list') <= MaxLength
    <3>1. CASE i <= n
      <4>1. i \in 1 .. Len(list)
        BY <1>6, <3>1
      <4>2. Len(list') = n
        BY <1>1, <1>6, <3>1, <4>1, ExceptSeq DEF NullFree
      <4> QED BY <1>1, <4>2
    <3>2. CASE i > n
      <4>1. Len(list') = n + 1 /\ n < MaxLength
        BY <1>1, <1>2, <1>6, <3>2, AppendProperties DEF NullFree
      <4> QED BY <1>1, <4>1, ListAssumption
    <3> QED BY <1>1, <3>1, <3>2
  <2>2. Array!Assign(i, v) /\ i \in 1 .. Len(IF op = Idle THEN list ELSE op.old) + 1
    BY <1>2, <1>6 DEF Array!Assign
  <2>3. Array!Next
    BY <1>6, <2>2 DEF Array!Next
  <2> QED BY <1>6, <2>1, <2>3
<1>7. CASE v = Nil
  BY <1>1, <1>2, <1>4, <1>5, <1>7, NilFacts
<1>8. CASE v # Nil
  BY <1>1, <1>2, <1>4, <1>6, <1>8, ValueFacts
<1> QED BY <1>7, <1>8

LEMMA CallInsertStep ==
  ASSUME IndInv, NEW pos \in 0 .. MaxLength + 2, NEW v \in Values, CallInsert(pos, v)
  PROVE  IndInv' /\ op' # Idle /\ op'.old = list /\ op = Idle
<1>1. /\ op = Idle /\ Len(list) < MaxLength /\ pos \in 1 .. Len(list) + 1
      /\ op' = [call |-> "insert", pos |-> pos, i |-> Len(list) + 1, val |-> v, old |-> list]
      /\ list' = list /\ raised' = raised
  BY DEF CallInsert
<1>2. list \in Seq(Elements) /\ list \in Lists /\ Len(list) \in Nat
  BY DEF IndInv, TypeOK, NullFree
<1>3. /\ op' \in InsertOps /\ op' # Idle /\ op'.call = "insert" /\ op'.call # "remove"
      /\ op'.pos = pos /\ op'.i = Len(list) + 1 /\ op'.old = list
  BY <1>1, <1>2 DEF InsertOps, Idle
<1>4. TypeOK'
  BY <1>1, <1>2, <1>3 DEF IndInv, TypeOK, Ops, InsertOps
<1>5. NullFree'
  BY <1>1, <1>2, <1>3 DEF NullFree
<1>6. InsertInv'
  BY <1>1, <1>2, <1>3 DEF InsertInv
<1>7. RemoveInv'
  BY <1>3 DEF RemoveInv
<1> QED BY <1>1, <1>3, <1>4, <1>5, <1>6, <1>7 DEF IndInv

LEMMA CallRemoveStep ==
  ASSUME IndInv, NEW pos \in 0 .. MaxLength + 2, CallRemove(pos)
  PROVE  IndInv' /\ op' # Idle /\ op'.old = list /\ op = Idle
<1>1. /\ op = Idle /\ CanRead(pos)
      /\ op' = [call |-> "remove", pos |-> pos, i |-> pos, old |-> list]
      /\ list' = list /\ raised' = raised
  BY DEF CallRemove
<1>2. list \in Seq(Elements) /\ list \in Lists /\ Len(list) \in Nat /\ Len(list) <= MaxLength
  BY DEF IndInv, TypeOK, NullFree
<1>3. pos \in 1 .. Len(list)
  BY <1>1, <1>2, ListAssumption DEF CanRead, Index0
<1>4. /\ op' \in RemoveOps /\ op' # Idle /\ op'.call = "remove" /\ op'.call # "insert"
      /\ op'.pos = pos /\ op'.i = pos /\ op'.old = list
  BY <1>1, <1>2, <1>3 DEF RemoveOps, Idle
<1>5. TypeOK'
  BY <1>1, <1>2, <1>4 DEF IndInv, TypeOK, Ops, RemoveOps
<1>6. NullFree'
  BY <1>1, <1>2, <1>4 DEF NullFree
<1>7. RemoveInv'
  BY <1>1, <1>2, <1>3, <1>4 DEF RemoveInv
<1>8. InsertInv'
  BY <1>4 DEF InsertInv
<1> QED BY <1>1, <1>4, <1>5, <1>6, <1>7, <1>8 DEF IndInv

LEMMA ShiftUpStep ==
  ASSUME IndInv, ShiftUp
  PROVE  IndInv' /\ op' # Idle /\ op'.old = op.old /\ op # Idle
<1> DEFINE old == op.old  n == Len(op.old)  i == op.i
<1>1. /\ op \in InsertOps /\ op # Idle /\ op.call = "insert"
      /\ i > op.pos /\ Move(i, i - 1, i - 1)
      /\ list \in Seq(Elements) /\ old \in Seq(Elements) /\ NullFree
      /\ Len(list) <= MaxLength /\ raised \in BOOLEAN
  BY OpCases DEF IndInv, TypeOK, NullFree, ShiftUp
<1>2. /\ n \in Nat /\ Len(list) \in Nat /\ i \in Nat /\ op.pos \in 1 .. n + 1
      /\ i \in op.pos .. n + 1 /\ i - 1 \in op.pos .. n /\ n < MaxLength
  BY <1>1 DEF InsertOps, IndInv, InsertInv
<1>3. i \in 1 .. Len(list) + 1 /\ i - 1 \in 1 .. Len(list)
  BY <1>1, <1>2 DEF IndInv, InsertInv
<1>4. /\ list' = IF i <= Len(list) THEN [list EXCEPT ![i] = list[i - 1]]
                                   ELSE Append(list, list[i - 1])
      /\ list' \in Seq(Elements) /\ raised' = FALSE /\ op' = [op EXCEPT !.i = i - 1]
  BY <1>1, <1>3, MoveFacts DEF GoesOn
<1>5. /\ op' \in InsertOps /\ op' # Idle /\ op'.call = "insert" /\ op'.call # "remove"
      /\ op'.pos = op.pos /\ op'.i = i - 1 /\ op'.old = old
  <2>1. i - 1 \in Nat
    BY <1>2
  <2> QED BY <1>1, <1>4, <2>1 DEF InsertOps, Idle
<1>6. /\ Len(list') = n + 1
      /\ \A j \in 1 .. i - 1 : list'[j] = old[j]
      /\ \A j \in i .. n + 1 : list'[j] = old[j - 1]
  <2>1. CASE i = n + 1
    <3>1. list = old /\ list' = Append(old, old[n])
      BY <1>1, <1>2, <1>4, <2>1 DEF IndInv, InsertInv
    <3>2. old[n] \in Elements
      BY <1>1, <1>2, ElementOfSeq
    <3>3. /\ Len(list') = n + 1 /\ list'[n + 1] = old[n]
          /\ \A j \in 1 .. n : list'[j] = old[j]
      BY <1>1, <3>1, <3>2, AppendProperties
    <3> QED BY <1>2, <2>1, <3>3
  <2>2. CASE i <= n
    <3>1. /\ Len(list) = n + 1 /\ list' = [list EXCEPT ![i] = list[i - 1]]
          /\ \A j \in 1 .. i : list[j] = old[j]
          /\ \A j \in i + 1 .. n + 1 : list[j] = old[j - 1]
      BY <1>1, <1>2, <1>4, <2>2 DEF IndInv, InsertInv
    <3>2. i \in 1 .. Len(list) /\ list[i - 1] \in Elements
      BY <1>1, <1>2, <1>3, <3>1, ElementOfSeq
    <3>3. /\ Len(list') = n + 1
          /\ \A j \in 1 .. n + 1 : list'[j] = IF j = i THEN list[i - 1] ELSE list[j]
      BY <1>1, <3>1, <3>2, ExceptSeq
    <3> HIDE DEF i, n, old
    <3>4. \A j \in 1 .. i - 1 : list'[j] = old[j]
      BY <1>2, <2>2, <3>1, <3>3
    <3>5. list'[i] = old[i - 1]
      BY <1>2, <2>2, <3>1, <3>3
    <3>6. \A j \in i + 1 .. n + 1 : list'[j] = old[j - 1]
      BY <1>2, <2>2, <3>1, <3>3
    <3> QED BY <1>2, <2>2, <3>3, <3>4, <3>5, <3>6
  <2> QED BY <1>2, <2>1, <2>2
<1>7. TypeOK'
  <2>1. list' \in Lists
    BY <1>4, SeqMonotone DEF Lists
  <2>2. Len(list') <= MaxLength
    BY <1>2, <1>6, ListAssumption
  <2> QED BY <1>4, <1>5, <2>1, <2>2 DEF TypeOK, Ops, InsertOps
<1>8. NullFree'
  BY <1>1, <1>4, <1>5 DEF NullFree
<1>9. InsertInv'
  <2> HIDE DEF i, n, old
  <2>1. i - 1 \in op.pos .. n + 1 /\ i - 1 <= n
    BY <1>2
  <2> QED BY <1>2, <1>5, <1>6, <2>1 DEF InsertInv, n, old
<1>10. RemoveInv'
  BY <1>5 DEF RemoveInv
<1> QED BY <1>1, <1>5, <1>7, <1>8, <1>9, <1>10 DEF IndInv

\* At the end of its loop table.insert has made room in front of the element.
LEMMA RoomMade ==
  ASSUME IndInv, op.call = "insert", op.i = op.pos
  PROVE  /\ op.old \in Seq(Elements) /\ list \in Seq(Elements)
         /\ Len(op.old) \in Nat /\ op.pos \in 1 .. Len(op.old) + 1
         /\ op.pos = Len(op.old) + 1 => list = op.old
         /\ op.pos <= Len(op.old) => /\ list = InsertAt(op.old, op.pos, op.old[op.pos])
                                    /\ Len(list) = Len(op.old) + 1
<1> DEFINE old == op.old  i == op.i
<1>1. /\ op \in InsertOps /\ op # Idle
      /\ list \in Seq(Elements) /\ old \in Seq(Elements)
      /\ Len(old) \in Nat /\ i \in 1 .. Len(old) + 1
  BY OpCases DEF IndInv, TypeOK, NullFree, InsertInv
<1>2. i = Len(old) + 1 => list = old
  BY DEF IndInv, InsertInv
<1>3. ASSUME i <= Len(old)
      PROVE  list = InsertAt(old, i, old[i]) /\ Len(list) = Len(old) + 1
  <2>1. /\ Len(list) = Len(old) + 1
        /\ \A j \in 1 .. i : list[j] = old[j]
        /\ \A j \in i + 1 .. Len(list) : list[j] = old[j - 1]
    BY <1>3 DEF IndInv, InsertInv
  <2> HIDE DEF i, old
  <2>2. i \in 1 .. Len(old) /\ i \in 1 .. Len(old) + 1 /\ old[i] \in Elements
    BY <1>1, <1>3, ElementOfSeq
  <2>3. Inserted(Elements, old, i, old[i], list)
    BY <1>1, <2>1, <2>2 DEF Inserted
  <2> QED BY <1>1, <2>1, <2>2, <2>3, InsertedOnce
<1> QED BY <1>1, <1>2, <1>3

LEMMA StoreStep ==
  ASSUME IndInv, Store
  PROVE  IndInv' /\ op # Idle /\ op' = Idle /\ (list' = op.old \/ Array!Next)
<1> DEFINE old == op.old  p == op.pos  v == op.val
<1>1. /\ op \in InsertOps /\ op # Idle /\ op.call = "insert" /\ op.i = p /\ op' = Idle
      /\ NewIndex(p, v) /\ NullFree /\ Len(list) <= MaxLength /\ Len(old) < MaxLength
  BY OpCases DEF IndInv, TypeOK, Store, Ends, InsertInv
<1>2. /\ old \in Seq(Elements) /\ list \in Seq(Elements)
      /\ Len(old) \in Nat /\ Len(list) \in Nat /\ p \in 1 .. Len(old) + 1
      /\ p = Len(old) + 1 => list = old
      /\ p <= Len(old) => list = InsertAt(old, p, old[p]) /\ Len(list) = Len(old) + 1
  BY <1>1, RoomMade
<1>3. p \in 0 .. MaxLength + 2 /\ p \in 1 .. Len(list) + 1
  BY <1>1, <1>2, ListAssumption
<1>4. (IF op = Idle THEN list ELSE op.old) = old /\ (IF op = Idle THEN list ELSE op.old)' = list'
  BY <1>1
<1>5. SUFFICES /\ list' \in Seq(Elements) /\ Len(list') <= MaxLength /\ raised' \in BOOLEAN
               /\ list' = old \/ Array!Next
  BY <1>1, IdleInv
<1> HIDE DEF old, p, v
<1>6. CASE raised' = TRUE /\ list' = list
  <2>1. CASE p = Len(old) + 1
    BY <1>1, <1>2, <1>6, <2>1
  <2>2. CASE p <= Len(old)
    <3>1. list' = InsertAt(old, p, old[p]) /\ p \in 1 .. Len(old)
      BY <1>2, <1>6, <2>2
    <3>2. Array!InsertRaises(p)
      BY <1>4, <3>1 DEF Array!InsertRaises, Array!InsertAt, InsertAt
    <3>3. Array!Next
      BY <1>2, <1>4, <3>2 DEF Array!Next
    <3> QED BY <1>1, <1>2, <1>6, <3>3
  <2> QED BY <1>2, <2>1, <2>2
<1>7. CASE v = Nil /\ p \in 1 .. Len(list) /\ list' = RemoveAt(list, p) /\ raised' = FALSE
  <2>1. p \in 1 .. Len(old)
    BY <1>2, <1>7
  <2>2. list' = old
    BY <1>2, <1>7, <2>1, DropDoubled
  <2>3. Len(old) <= MaxLength
    BY <1>1, <1>2, ListAssumption
  <2> QED BY <1>2, <1>7, <2>2, <2>3
<1>8. CASE /\ v \in Elements /\ raised' = FALSE /\ list' \in Seq(Elements)
           /\ list' = IF p <= Len(list) THEN [list EXCEPT ![p] = v] ELSE Append(list, v)
  <2>1. CASE p = Len(old) + 1
    <3>1. list' = Append(old, v) /\ Len(list') = Len(old) + 1
      BY <1>2, <1>8, <2>1, AppendProperties
    <3>2. ~(p <= Len(old)) /\ p \in 1 .. Len(old) + 1
      BY <1>2, <2>1
    <3>3. Array!Assign(p, v)
      BY <1>4, <3>1, <3>2 DEF Array!Assign
    <3>4. Array!Next
      BY <1>2, <1>4, <1>8, <3>3 DEF Array!Next
    <3>5. Len(list') <= MaxLength
      BY <1>1, <1>2, <3>1, ListAssumption
    <3> QED BY <1>8, <3>4, <3>5
  <2>2. CASE p <= Len(old)
    <3>1. /\ p \in 1 .. Len(list) /\ p \in 1 .. Len(old) /\ p \in 1 .. Len(old) + 1
          /\ list' = [list EXCEPT ![p] = v] /\ Len(list) = Len(old) + 1
      BY <1>2, <1>8, <2>2
    <3>2. Len(list') = Len(list)
      BY <1>2, <1>8, <3>1, ExceptSeq
    <3>3. list' = InsertAt(old, p, v)
      BY <1>2, <1>8, <2>2, <3>1, FillDoubled
    <3>4. Array!Insert(p, v)
      BY <1>4, <3>1, <3>3 DEF Array!Insert, Array!InsertAt, InsertAt
    <3>5. Array!Next
      BY <1>4, <1>8, <3>1, <3>4 DEF Array!Next
    <3>6. Len(list') <= MaxLength
      BY <1>1, <3>2
    <3> QED BY <1>8, <3>5, <3>6
  <2> QED BY <1>2, <2>1, <2>2
<1>9. CASE v = Nil
  BY <1>1, <1>3, <1>6, <1>7, <1>9, NilFacts
<1>10. CASE v # Nil
  BY <1>1, <1>3, <1>6, <1>8, <1>10, ValueFacts
<1> QED BY <1>9, <1>10

LEMMA ShiftDownStep ==
  ASSUME IndInv, ShiftDown
  PROVE  IndInv' /\ op' # Idle /\ op'.old = op.old /\ op # Idle
<1> DEFINE old == op.old  i == op.i
<1>1. /\ op \in RemoveOps /\ op # Idle /\ op.call = "remove"
      /\ i < Len(old) /\ Move(i, i + 1, i + 1)
      /\ list \in Seq(Elements) /\ old \in Seq(Elements) /\ NullFree
      /\ Len(list) <= MaxLength /\ raised \in BOOLEAN
  BY OpCases DEF IndInv, TypeOK, NullFree, ShiftDown
<1>2. /\ op.pos \in 1 .. Len(old) /\ i \in op.pos .. Len(old)
      /\ Len(list) = Len(old) /\ Len(old) \in Nat
      /\ \A j \in 1 .. op.pos - 1 : list[j] = old[j]
      /\ \A j \in op.pos .. i - 1 : list[j] = old[j + 1]
      /\ \A j \in i .. Len(list) : list[j] = old[j]
  BY <1>1 DEF IndInv, RemoveInv
<1>3. /\ i \in 1 .. Len(list) /\ i + 1 \in 1 .. Len(list) /\ i \in 1 .. Len(list) + 1
      /\ i + 1 \in op.pos .. Len(old) /\ i + 1 \in Nat
  BY <1>1, <1>2
<1>4. /\ list' = [list EXCEPT ![i] = list[i + 1]]
      /\ list' \in Seq(Elements) /\ raised' = FALSE /\ op' = [op EXCEPT !.i = i + 1]
  <2>1. i <= Len(list) /\ Len(list) \in Nat
    BY <1>3
  <2>2. /\ list' = IF i <= Len(list) THEN [list EXCEPT ![i] = list[i + 1]]
                                     ELSE Append(list, list[i + 1])
        /\ list' \in Seq(Elements) /\ raised' = FALSE /\ GoesOn(i + 1)
    BY <1>1, <1>3, MoveFacts
  <2> QED BY <2>1, <2>2 DEF GoesOn
<1>5. /\ op' \in RemoveOps /\ op' # Idle /\ op'.call = "remove" /\ op'.call # "insert"
      /\ op'.pos = op.pos /\ op'.i = i + 1 /\ op'.old = old
  BY <1>1, <1>3, <1>4 DEF RemoveOps, Idle
<1> HIDE DEF i, old
<1>6. /\ Len(list') = Len(list)
      /\ \A j \in 1 .. Len(list) : list'[j] = IF j = i THEN list[i + 1] ELSE list[j]
  <2>1. list[i + 1] \in Elements
    BY <1>1, <1>3, ElementOfSeq
  <2> QED BY <1>1, <1>3, <1>4, <2>1, ExceptSeq
<1>7. /\ \A j \in 1 .. op.pos - 1 : list'[j] = old[j]
      /\ \A j \in op.pos .. i : list'[j] = old[j + 1]
      /\ \A j \in i + 1 .. Len(list) : list'[j] = old[j]
  <2>1. ASSUME NEW j \in 1 .. op.pos - 1  PROVE list'[j] = old[j]
    BY <1>2, <1>3, <1>6
  <2>2. ASSUME NEW j \in op.pos .. i  PROVE list'[j] = old[j + 1]
    BY <1>2, <1>3, <1>6
  <2>3. ASSUME NEW j \in i + 1 .. Len(list)  PROVE list'[j] = old[j]
    BY <1>2, <1>3, <1>6
  <2> QED BY <2>1, <2>2, <2>3
<1>8. TypeOK'
  <2>1. list' \in Lists
    BY <1>4, SeqMonotone DEF Lists
  <2> QED BY <1>1, <1>4, <1>5, <1>6, <2>1 DEF TypeOK, Ops, RemoveOps
<1>9. NullFree'
  BY <1>1, <1>4, <1>5 DEF NullFree
<1>10. RemoveInv'
  <2>1. op'.i - 1 = i
    BY <1>2, <1>5
  <2> QED BY <1>2, <1>3, <1>5, <1>6, <1>7, <2>1 DEF RemoveInv
<1>11. InsertInv'
  BY <1>5 DEF InsertInv
<1> QED BY <1>1, <1>5, <1>8, <1>9, <1>10, <1>11 DEF IndInv, old

LEMMA DropLastStep ==
  ASSUME IndInv, DropLast
  PROVE  IndInv' /\ op # Idle /\ op' = Idle /\ Array!Next
<1> DEFINE old == op.old  p == op.pos
<1>1. /\ op \in RemoveOps /\ op # Idle /\ op.call = "remove" /\ op.i = Len(old) /\ op' = Idle
      /\ NewIndex(Len(old), Nil) /\ NullFree /\ Len(list) <= MaxLength
      /\ list \in Seq(Elements) /\ old \in Seq(Elements)
  BY OpCases DEF IndInv, TypeOK, NullFree, DropLast, Ends
<1>2. /\ p \in 1 .. Len(old) /\ Len(list) = Len(old) /\ Len(old) \in Nat
      /\ \A j \in 1 .. p - 1 : list[j] = old[j]
      /\ \A j \in p .. Len(old) - 1 : list[j] = old[j + 1]
  BY <1>1 DEF IndInv, RemoveInv
<1>3. (IF op = Idle THEN list ELSE op.old) = old /\ (IF op = Idle THEN list ELSE op.old)' = list'
  BY <1>1
<1> HIDE DEF old, p
<1>4. Len(old) \in 1 .. Len(list) /\ Len(old) \in 0 .. MaxLength + 2
  BY <1>1, <1>2, ListAssumption
<1>5. list' = RemoveAt(list, Len(list)) /\ list' \in Seq(Elements) /\ raised' = FALSE
  BY <1>1, <1>2, <1>4, NilFacts
<1>6. list' = RemoveAt(old, p)
  BY <1>1, <1>2, <1>5, DropLastShifted
<1>7. Len(list') <= MaxLength
  <2>1. Removed(Elements, old, p, list')
    BY <1>1, <1>2, <1>6, RemoveAtFacts
  <2> QED BY <1>1, <1>2, <2>1, ListAssumption DEF Removed
<1>8. Array!TakeOut(p)
  BY <1>2, <1>3, <1>6 DEF Array!TakeOut, Array!RemoveAt, RemoveAt
<1>9. Array!Next
  <2>1. p \in 1 .. Len(old) + 1
    BY <1>2
  <2> QED BY <1>3, <1>8, <2>1 DEF Array!Next
<1>10. IndInv'
  BY <1>1, <1>5, <1>7, IdleInv
<1> QED BY <1>1, <1>9, <1>10

-----------------------------------------------------------------------------
(* The theorems                                                            *)

LEMMA Initially == NoNulls /\ Init => IndInv
<1> SUFFICES ASSUME NoNulls, Init  PROVE IndInv
  OBVIOUS
<1>1. list \in Seq(Elements) /\ Len(list) <= MaxLength /\ op = Idle /\ raised = FALSE
  BY DEF NoNulls, Init
<1>2. list \in Lists
  BY <1>1, SeqMonotone DEF Lists
<1>3. op.call # "insert" /\ op.call # "remove"
  BY <1>1 DEF Idle
<1>4. TypeOK
  BY <1>1, <1>2 DEF TypeOK, Ops
<1>5. NullFree
  BY <1>1 DEF NullFree
<1> QED BY <1>3, <1>4, <1>5 DEF IndInv, InsertInv, RemoveInv

\* The list that the abstract specification sees.
Seen == IF op = Idle THEN list ELSE op.old

LEMMA StepFacts == IndInv /\ [Next]_vars => IndInv' /\ (Array!Next \/ Seen' = Seen)
<1> SUFFICES ASSUME IndInv, [Next]_vars  PROVE IndInv' /\ (Array!Next \/ Seen' = Seen)
  OBVIOUS
<1>1. ASSUME NEW i \in 0 .. MaxLength + 2, NEW v \in Values, Assign(i, v)
      PROVE  IndInv' /\ (Array!Next \/ Seen' = Seen)
  <2>1. op = Idle /\ op' = Idle
    BY <1>1 DEF Assign
  <2> QED BY <1>1, <2>1, AssignStep DEF Seen
<1>2. ASSUME NEW i \in 0 .. MaxLength + 2, NEW v \in Values, CallInsert(i, v)
      PROVE  IndInv' /\ (Array!Next \/ Seen' = Seen)
  BY <1>2, CallInsertStep DEF Seen
<1>3. ASSUME NEW i \in 0 .. MaxLength + 2, CallRemove(i)
      PROVE  IndInv' /\ (Array!Next \/ Seen' = Seen)
  BY <1>3, CallRemoveStep DEF Seen
<1>4. CASE CallRaises
  <2>1. op' = Idle /\ list' = list /\ raised' \in BOOLEAN /\ op = Idle
    BY <1>4 DEF CallRaises, Raise
  <2> QED BY <2>1, IdleInv DEF IndInv, TypeOK, NullFree, Seen
<1>5. CASE ShiftUp
  BY <1>5, ShiftUpStep DEF Seen
<1>6. CASE Store
  BY <1>6, StoreStep DEF Seen
<1>7. CASE ShiftDown
  BY <1>7, ShiftDownStep DEF Seen
<1>8. CASE DropLast
  BY <1>8, DropLastStep
<1>9. CASE UNCHANGED vars
  BY <1>9 DEF vars, IndInv, TypeOK, NullFree, InsertInv, RemoveInv, Seen
<1> QED BY <1>1, <1>2, <1>3, <1>4, <1>5, <1>6, <1>7, <1>8, <1>9 DEF Next

\* A list without nulls never grows past what table.insert adds, and a call that
\* is under way holds a position inside it.
THEOREM TypeCorrect == NoNulls => (Spec => []TypeOK)
<1> SUFFICES ASSUME NoNulls  PROVE Spec => []TypeOK
  OBVIOUS
<1>1. Init => IndInv
  BY Initially
<1>2. IndInv /\ [Next]_vars => IndInv'
  BY StepFacts
<1>3. IndInv => TypeOK
  BY DEF IndInv
<1> QED BY <1>1, <1>2, <1>3, PTL DEF Spec

\* A list without nulls is an array to Lua's table library.
THEOREM ListIsArray == NoNulls => (Spec => ArraySpec)
<1> SUFFICES ASSUME NoNulls  PROVE Spec => ArraySpec
  OBVIOUS
<1>1. Init => IndInv
  BY Initially
<1>2. IndInv /\ [Next]_vars => IndInv'
  BY StepFacts
<1>3. Init => Array!Init
  BY DEF Init, Array!Init
<1>4. IndInv /\ [Next]_vars => [Array!Next]_Seen
  BY StepFacts
<1>5. Array!Spec <=> Array!Init /\ [][Array!Next]_Seen
  BY DEF Array!Spec, Seen
<1> QED BY <1>1, <1>2, <1>3, <1>4, <1>5, PTL DEF Spec, ArraySpec
=============================================================================
