---------------------------- MODULE PropertyTypes ----------------------------
(***************************************************************************)
(* The types of properties in a schema: how realm_schema.cpp reads them,   *)
(* what its schema information gives back to Lua, and what the             *)
(* documentation says they mean.  A type's text is a base, the name of a   *)
(* primitive type or of a class, followed by suffixes.                     *)
(***************************************************************************)
EXTENDS Naturals, Sequences

CONSTANTS
  Primitives,   \* "int", "string", ...
  NoBase,       \* the empty base, as in "{}"
  None          \* nothing: no link target, no primary key, no user

ASSUME TypesAssumption == "object" \notin Primitives

Collections == {"[]", "<>", "{}"}
Suffixes    == Collections \cup {"?"}

-----------------------------------------------------------------------------
(* The code                                                                *)

\* ends_with, and the substr that drops the end.
Strip(s, x) == IF s # <<>> /\ s[Len(s)] = x THEN SubSeq(s, 1, Len(s) - 1) ELSE s

\* Mutated: the question mark is looked for after the braces.
ParseBracesFirst(t) ==
  LET list  == Strip(t.suffixes, "[]")
      set   == Strip(list, "<>")
      braces == Strip(set, "{}")
      rest  == Strip(braces, "?")
      primitive == rest = <<>> /\ t.base \in Primitives
  IN  [collection |-> CASE braces # set -> "dictionary"
                        [] braces = set /\ set # list -> "set"
                        [] braces = set /\ set = list /\ list # t.suffixes -> "list"
                        [] OTHER -> "none",
       nullable   |-> rest # braces,
       type       |-> IF primitive THEN t.base ELSE "object",
       target     |-> IF primitive THEN None ELSE <<t.base, rest>>]

\* _parse_property_type: each suffix is looked for once, in this order, and
\* what is left is a primitive type or the name of a class.
ParsePropertyType(t) ==
  LET list  == Strip(t.suffixes, "[]")
      set   == Strip(list, "<>")
      null  == Strip(set, "?")
      rest  == Strip(null, "{}")
      any   == rest # null /\ rest = <<>> /\ t.base = NoBase
      primitive == rest = <<>> /\ t.base \in Primitives
  IN  [collection |-> CASE rest # null -> "dictionary"
                        [] rest = null /\ set # list -> "set"
                        [] rest = null /\ set = list /\ list # t.suffixes -> "list"
                        [] OTHER -> "none",
       nullable   |-> null # set \/ any,
       type       |-> IF any THEN "mixed" ELSE IF primitive THEN t.base ELSE "object",
       target     |-> IF any \/ primitive THEN None ELSE <<t.base, rest>>]

\* Mutated: objectType is given for links that are no collection.
InfoOfPlainLinks(p) ==
  [type |-> p.type, collectionType |-> p.collection,
   objectType |-> IF p.collection = "none" THEN p.target ELSE None]

\* _push_schema_info, of a property: what Lua learns of its type.
PropertyInfo(p) ==
  [type |-> p.type, collectionType |-> p.collection, objectType |-> p.target]

\* realm-core: which properties a schema of the classes named by N may have.  A
\* link is nullable unless it is in a list or in a set.
Valid(p, N) == /\ p.type = "object" => p.nullable = (p.collection \in {"none", "dictionary"})
               /\ p.type = "object" => p.target \in {<<c, <<>>>> : c \in N}

-----------------------------------------------------------------------------
(* The documentation                                                       *)

\* README.md:95-118, and "Pet{}?" of realm_spec.lua:75: a base, which is a
\* primitive type or a class, "?" and one of the collections.
Written == {<<>>, <<"?">>, <<"{}", "?">>}
             \cup {<<c>> : c \in Collections} \cup {<<"?", c>> : c \in Collections}

Has(t, x) == \E i \in DOMAIN t.suffixes : t.suffixes[i] = x

\* What they mean, in whatever order they stand.
Meaning(t) ==
  [collection |-> CASE Has(t, "[]") -> "list" [] Has(t, "<>") -> "set"
                    [] Has(t, "{}") -> "dictionary" [] OTHER -> "none",
   nullable   |-> Has(t, "?"),
   type       |-> IF t.base \in Primitives THEN t.base ELSE "object",
   target     |-> IF t.base \in Primitives THEN None ELSE <<t.base, <<>>>>]

\* Documented types that the code gets refused by core: a "?" before "{}" is read
\* as part of a class's name; a link to an object must have a "?", and so must a
\* dictionary of links, but not a list or a set of them.
RefusedThough(t) ==
  \/ t.suffixes = <<"?", "{}">>
  \/ t.base \notin Primitives /\ Has(t, "?") = (Has(t, "[]") \/ Has(t, "<>"))
=============================================================================
