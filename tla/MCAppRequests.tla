---------------------------- MODULE MCAppRequests ----------------------------
(* A registration takes one request; a log-in takes a second one, for the    *)
(* profile of the user.                                                      *)
EXTENDS AppRequests

MCRounds == [register |-> 1, logIn |-> 2]
=============================================================================
