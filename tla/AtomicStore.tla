----------------------------- MODULE AtomicStore -----------------------------
(***************************************************************************)
(* What realm:write promises of the file: write calls take effect one at a *)
(* time, at once and whole, when they return, and not at all when they     *)
(* raise.  A call that returns changes the cells it writes, each of which  *)
(* then carries the call, and leaves every other cell as the file has it   *)
(* at that moment, whatever was committed while the call was under way.    *)
(***************************************************************************)
EXTENDS Naturals

CONSTANTS Cells,     \* what can be stored: one cell per object and field
          Calls      \* the write calls, numbered from 1

VARIABLES store,     \* per cell, whether it is set and which call wrote it
          result     \* per call: "pending", "returned" or "raised"

vars == <<store, result>>

Version == [by : Calls \cup {0}, set : BOOLEAN]

Init == /\ store = [c \in Cells |-> [by |-> 0, set |-> FALSE]]
        /\ result = [w \in Calls |-> "pending"]

Succeed(w) == /\ result[w] = "pending"
              /\ result' = [result EXCEPT ![w] = "returned"]
              /\ store' \in [Cells -> Version]
              /\ \A c \in Cells : store'[c] = store[c] \/ store'[c].by = w

Fail(w) == /\ result[w] = "pending"
           /\ result' = [result EXCEPT ![w] = "raised"]
           /\ UNCHANGED store

Next == \E w \in Calls : Succeed(w) \/ Fail(w)

Spec == Init /\ [][Next]_vars
=============================================================================
