------------------------------- MODULE LuaArray -------------------------------
(***************************************************************************)
(* What a realm list promises: a Lua array.  Assignment, table.insert and  *)
(* table.remove take effect at once.  A value the list cannot hold makes   *)
(* table.insert raise; the element it was to be put in front of may then   *)
(* be there twice, and no element is lost.                                 *)
(***************************************************************************)
EXTENDS Naturals, Sequences, SequencesExt

CONSTANTS Elements, Initial

VARIABLE list

Init == list \in Initial

Assign(i, v) == /\ i \in 1 .. Len(list) + 1
                /\ list' = IF i <= Len(list) THEN [list EXCEPT ![i] = v] ELSE Append(list, v)

Insert(i, v) == /\ i \in 1 .. Len(list) + 1
                /\ list' = InsertAt(list, i, v)

InsertRaises(i) == /\ i \in 1 .. Len(list)
                   /\ list' = InsertAt(list, i, list[i])

TakeOut(i) == /\ i \in 1 .. Len(list)
             /\ list' = RemoveAt(list, i)

Next == \E i \in 1 .. Len(list) + 1 :
          \/ \E v \in Elements : Assign(i, v) \/ Insert(i, v)
          \/ InsertRaises(i)
          \/ TakeOut(i)

Spec == Init /\ [][Next]_list
=============================================================================
