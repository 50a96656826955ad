---------------------------- MODULE MCRealmObjects ----------------------------
(* t1 refers to t2 and t3, and so does t2 to t3, which has no primary key.   *)
(* t4 refers to itself as an object with a primary key; t4 and t5 refer to   *)
(* each other as objects without, and t4 has a list, as in README.md:529:    *)
(* a table { t3 } for a property of type "part[]".                           *)
EXTENDS RealmObjects

CONSTANTS t1, t2, t3, t4, t5, array, keyed, keyless, string

Integer(n) == [kind |-> "integer", val |-> n]
Float(n)   == [kind |-> "float", val |-> n]
Text       == [kind |-> "string", val |-> string]
Table(t)   == [kind |-> "table", val |-> t]

\* A property of any type, a link to an object with a primary key, one to an
\* object without, and a list of objects.
MCType   == [any |-> "mixed", ref |-> "link", part |-> "link", parts |-> "list"]
MCTarget == [any |-> None, ref |-> keyed, part |-> keyless, parts |-> keyless]
Unset    == [p \in DOMAIN MCType |-> Nil]
MCContent ==
  [t \in {t1, t2, t3, t4, t5, array} |->
     CASE t = t1 -> [Unset EXCEPT !.any = Integer(1), !.ref = Table(t2), !.part = Table(t3)]
       [] t = t2 -> [Unset EXCEPT !.any = Float(1), !.part = Table(t3)]
       [] t = t3 -> [Unset EXCEPT !.any = Text]
       [] t = t4 -> [Unset EXCEPT !.ref = Table(t4), !.part = Table(t5), !.parts = Table(array)]
       [] t = t5 -> [Unset EXCEPT !.part = Table(t4)]
       [] t = array -> Unset]
MCCut    == [s \in {string} |-> s]
MCValues == {Nil, False, Integer(1), Float(1), Text}
              \cup {Table(t) : t \in {t1, t2, t3, t4, t5, array}}
=============================================================================
