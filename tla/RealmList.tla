------------------------------ MODULE RealmList ------------------------------
(***************************************************************************)
(* A realm list in an open write transaction, as list.lua presents it to   *)
(* the program and to Lua's table library.  The list's metamethods turn an *)
(* index from 1 into a size_t from 0 and call one native function each;    *)
(* table.insert and table.remove are loops of these calls (Lua 5.4), of    *)
(* which any may raise.  A step is one native call that changes the list.  *)
(***************************************************************************)
EXTENDS Naturals, Sequences, SequencesExt

CONSTANTS
  Elements,    \* the values that the program can store in the list
  Null,        \* the null of a list of a nullable type, which lua reads as nil
  Initial,     \* the lists that the file may hold when the program gets it
  Nil,         \* Lua's nil
  Refused,     \* any value that cannot be stored: of a type the conversion or
               \* the core does not take, or an object that was deleted
  SizeMax,     \* the number of values of a size_t
  MaxLength    \* bound: the length up to which the program adds elements

ASSUME ListAssumption ==
  /\ {Nil, Refused, Null} \cap Elements = {} /\ Nil # Refused
  /\ Initial \subseteq Seq(Elements \cup {Null})
  /\ SizeMax \in Nat /\ MaxLength \in Nat /\ MaxLength + 2 < SizeMax

VARIABLES
  list,    \* the native list
  op,      \* the call of the table library that is under way: see Ops
  raised   \* the last call of the program ended in an error

vars == <<list, op, raised>>

\* i: the index the loop is at; old: the list when the call began.
Idle   == [call |-> "none"]
Values == Elements \cup {Nil, Refused}
Lists  == Seq(Elements \cup {Null})
Ops    == {Idle}
            \cup [call : {"insert"}, pos : Nat, i : Nat, val : Values, old : Lists]
            \cup [call : {"remove"}, pos : Nat, i : Nat, old : Lists]

\* Another client of a synced realm may have written nulls; this one cannot.
Init == list \in Initial /\ op = Idle /\ raised = FALSE

-----------------------------------------------------------------------------
(* The native calls                                                        *)

\* index - 1, as a size_t: that of 0 wraps round.
Index0(i) == IF i = 0 THEN SizeMax - 1 ELSE i - 1

Raise == list' = list /\ raised' = TRUE

\* lib_realm_list_erase
Erase(n) == \/ n < Len(list) /\ list' = RemoveAt(list, n + 1) /\ raised' = FALSE
            \/ n >= Len(list) /\ Raise

\* Mutated: an index inside the list inserts in front of it.
AlwaysInsert(n, v) ==
  \/ /\ v \in Elements /\ n <= Len(list)
     /\ list' = InsertAt(list, n + 1, v)
     /\ raised' = FALSE
  \/ (v \notin Elements \/ n > Len(list)) /\ Raise

\* lib_realm_list_insert: at the end it appends, before it overwrites.
Put(n, v) == \/ /\ v \in Elements /\ n = Len(list)
                /\ list' = Append(list, v)
                /\ raised' = FALSE
             \/ /\ v \in Elements /\ n < Len(list)
                /\ list' = [list EXCEPT ![n + 1] = v]
                /\ raised' = FALSE
             \/ (v \notin Elements \/ n > Len(list)) /\ Raise

\* Mutated: nil is left to the conversion, which refuses it.
PutAnything(i, v) == Put(Index0(i), v)

\* RealmList.__newindex: nil erases.
NewIndex(i, v) == \/ v = Nil /\ Erase(Index0(i))
                  \/ v # Nil /\ Put(Index0(i), v)

\* RealmList.__index: lib_realm_list_get raises outside the list.
CanRead(i) == Index0(i) < Len(list)
Read(i)    == LET v == list[Index0(i) + 1] IN IF v = Null THEN Nil ELSE v

-----------------------------------------------------------------------------
(* The program                                                             *)

\* list[i] = v
Assign(i, v) == /\ op = Idle
                /\ i <= Len(list) + 2
                /\ i <= Len(list) \/ Len(list) < MaxLength
                /\ NewIndex(i, v)
                /\ UNCHANGED op

\* table.insert(list, pos, v); table.insert(list, v) is pos = #list + 1.
CallInsert(pos, v) == /\ op = Idle
                      /\ Len(list) < MaxLength
                      /\ pos \in 1 .. Len(list) + 1
                      /\ op' = [call |-> "insert", pos |-> pos, i |-> Len(list) + 1,
                                val |-> v, old |-> list]
                      /\ UNCHANGED <<list, raised>>

\* table.remove(list, pos) reads list[pos] first, to return it.
CallRemove(pos) == /\ op = Idle
                   /\ CanRead(pos)
                   /\ op' = [call |-> "remove", pos |-> pos, i |-> pos, old |-> list]
                   /\ UNCHANGED <<list, raised>>

\* A position out of bounds raises; so does the read of list[#list + 1], and of
\* list[0] when table.remove(list) is called on an empty list.
CallRaises == op = Idle /\ Raise /\ UNCHANGED op

-----------------------------------------------------------------------------
(* The table library                                                       *)

Ends == op' = Idle
GoesOn(i) == op' = [op EXCEPT !.i = i]

\* list[to] = list[from]; the loop ends if either raises.
Move(to, from, next) ==
  /\ \/ CanRead(from) /\ NewIndex(to, Read(from))
     \/ ~CanRead(from) /\ Raise
  /\ IF raised' THEN Ends ELSE GoesOn(next)

\* table.insert moves an element up.
ShiftUp == /\ op.call = "insert" /\ op.i > op.pos
           /\ Move(op.i, op.i - 1, op.i - 1)

\* and stores the value: list[pos] = v.
Store == /\ op.call = "insert" /\ op.i = op.pos
         /\ NewIndex(op.pos, op.val)
         /\ Ends

\* table.remove moves an element down; it asked for the length at the start.
ShiftDown == /\ op.call = "remove" /\ op.i < Len(op.old)
             /\ Move(op.i, op.i + 1, op.i + 1)

\* and drops the last one: list[#list] = nil.
DropLast == /\ op.call = "remove" /\ op.i = Len(op.old)
            /\ NewIndex(op.i, Nil)
            /\ Ends

Next == \/ \E i \in 0 .. MaxLength + 2, v \in Values : Assign(i, v) \/ CallInsert(i, v)
        \/ \E i \in 0 .. MaxLength + 2 : CallRemove(i)
        \/ CallRaises
        \/ ShiftUp \/ Store \/ ShiftDown \/ DropLast

Spec == Init /\ [][Next]_vars

-----------------------------------------------------------------------------
(* Properties                                                              *)

\* The variables' types.  The list never grows past the element that a
\* table.insert adds, whatever its loop reads and writes.
TypeOK == /\ list \in Lists
          /\ op \in Ops
          /\ raised \in BOOLEAN
          /\ Len(list) <= MaxLength

\* Of a list without nulls: the loops of the table library over list.lua's
\* metamethods do what they do to a table.  The list is a LuaArray, in which a
\* call that is under way has not happened yet.
Array == INSTANCE LuaArray WITH list <- IF op = Idle THEN list ELSE op.old
ArraySpec == Array!Spec

\* What the documentation says of table.insert: a value that the list can hold
\* is put in, and all that was there is kept.  False of a list with a null in it:
\* moving the null up reads nil, and assigning nil erases.
InsertInserts ==
  [][op.call = "insert" /\ op.val \in Elements /\ op' = Idle /\ ~raised'
       => list' = InsertAt(op.old, op.pos, op.val)]_vars

\* The inductive invariant, of a list without nulls: where the elements of the
\* old list are while a loop runs.
InsertInv == op.call = "insert" =>
  /\ op.pos \in 1 .. Len(op.old) + 1
  /\ op.i \in op.pos .. Len(op.old) + 1
  /\ Len(op.old) < MaxLength
  /\ op.i = Len(op.old) + 1 => list = op.old
  /\ op.i <= Len(op.old) => /\ Len(list) = Len(op.old) + 1
                            /\ \A j \in 1 .. op.i : list[j] = op.old[j]
                            /\ \A j \in op.i + 1 .. Len(list) : list[j] = op.old[j - 1]
RemoveInv == op.call = "remove" =>
  /\ op.pos \in 1 .. Len(op.old)
  /\ op.i \in op.pos .. Len(op.old)
  /\ Len(list) = Len(op.old)
  /\ \A j \in 1 .. op.pos - 1 : list[j] = op.old[j]
  /\ \A j \in op.pos .. op.i - 1 : list[j] = op.old[j + 1]
  /\ \A j \in op.i .. Len(list) : list[j] = op.old[j]
NullFree == /\ list \in Seq(Elements)
            /\ op # Idle => op.old \in Seq(Elements)
IndInv == TypeOK /\ NullFree /\ InsertInv /\ RemoveInv
=============================================================================
