----------------------------- MODULE MCRealmList -----------------------------
(* The lists that the runs of RealmList start from.                          *)
EXTENDS RealmList

CONSTANTS a, b

\* A new list.
Empty == {<<>>}

\* Lists of a nullable type, with a null that another client wrote.
WithNull == {<<Null>>, <<a, Null>>, <<Null, b>>, <<a, Null, b>>}
=============================================================================
