----------------------------- MODULE MCRealmOpen -----------------------------
(* Small and large schemas for RealmOpen.  Properties are named after their *)
(* types.                                                                  *)
EXTENDS RealmOpen, TLC

CONSTANTS nobody, u1, u2

Text(base, suffixes) == [base |-> base, suffixes |-> suffixes]
Class(name, key, types) ==
  [name |-> name, primaryKey |-> key, properties |-> [t \in types |-> t], strings |-> TRUE]
Pet == Class("Pet", Text("string", <<>>), {Text("string", <<>>)})

\* A class with a property of every documented type but those that core refuses,
\* and one for each kind of those.
Types == [base : {"int", "Pet"}, suffixes : Written]
Person == Class("Person", nobody, {t \in Types : ~RefusedThough(t)})
One(base, suffixes) == <<Pet, Class("Person", nobody, {Text(base, suffixes)})>>

\* What is not documented: taken in some way, refused by core, or not read.
Odd == Class("Odd", nobody, {Text(NoBase, <<"{}">>), Text("int", <<"<>", "[]">>)})
Refused == Class("Refused", Text("id", <<>>), {Text("Pet", <<"[]", "?">>), Text("Cat", <<"?">>)})
Blank == Class("Blank", nobody, {Text(NoBase, <<>>)})

Many(n) == [i \in 1 .. n |-> Class(ToString(i), nobody, {Text("int", <<>>)})]

MCSchema ==
  <<<<Pet, Person>>, One("Pet", <<>>), One("Pet", <<"{}">>), One("Pet", <<"?", "[]">>),
    One("int", <<"?", "{}">>), <<Pet, Odd>>, <<Pet, Refused>>,
    <<Blank, [Pet EXCEPT !.strings = FALSE]>>, Many(0), Many(15)>>
=============================================================================
