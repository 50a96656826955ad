---------------------------- MODULE LoopExecutor ----------------------------
(***************************************************************************)
(* What realm-core asks of a scheduler, with no threads, locks or wake-ups *)
(* in sight: functions submitted from anywhere are run one at a time, each *)
(* at most once, in the order of their submission.  A stopped executor     *)
(* takes no new work and discards what it still has; a function that       *)
(* raises ends the process.                                                *)
(***************************************************************************)
EXTENDS Sequences, SequencesExt

CONSTANT Fns            \* the functions that may be submitted, each once

VARIABLES todo,         \* submitted and not yet run, oldest first
          log,          \* run, in the order they ran
          status        \* "open", "stopping", "stopped" or "crashed"

vars == <<todo, log, status>>

Init == todo = <<>> /\ log = <<>> /\ status = "open"

Submit(f) == /\ status = "open"
             /\ f \notin ToSet(todo) \cup ToSet(log)
             /\ todo' = Append(todo, f)
             /\ UNCHANGED <<log, status>>

Run == /\ status \in {"open", "stopping"}
       /\ todo # <<>>
       /\ log' = Append(log, Head(todo))
       /\ todo' = Tail(todo)
       /\ UNCHANGED status

Stop == status = "open" /\ status' = "stopping" /\ UNCHANGED <<todo, log>>

Discard == /\ status = "stopping"
           /\ status' = "stopped"
           /\ todo' = <<>>
           /\ UNCHANGED log

Crash == /\ status \in {"open", "stopping"}
         /\ todo # <<>>
         /\ status' = "crashed"
         /\ UNCHANGED <<todo, log>>

Next == (\E f \in Fns : Submit(f)) \/ Run \/ Stop \/ Discard \/ Crash

\* The loop keeps turning: work is run while there is some, and a stopped
\* executor is eventually torn down.
Fairness == WF_vars(Run) /\ WF_vars(Discard)

Spec == Init /\ [][Next]_vars /\ Fairness
=============================================================================
