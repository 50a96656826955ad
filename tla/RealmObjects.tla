----------------------------- MODULE RealmObjects -----------------------------
(***************************************************************************)
(* Objects made from Lua tables, and values put into the properties of     *)
(* objects, into a dictionary and into a set, in an open write             *)
(* transaction.  RealmObject._new sets the values of a table one by one;   *)
(* a value that is itself a table makes an object first (object.lua:122),  *)
(* and so on down: `frames` are the calls of _new that are under way, and  *)
(* Lua stops them with an error when they are nested too deep.             *)
(* An error in any of them leaves all of them (RealmWrite: the error may   *)
(* be caught, and what has been stored stays).                             *)
(***************************************************************************)
EXTENDS Naturals, Sequences, FiniteSets

CONSTANTS
  Tables,      \* Lua tables without the metatable of a realm object
  Props,       \* the properties that every class has, its primary key aside
  Keys,        \* the keys of the dictionary
  Classes,
  Keyed,       \* the classes with a primary key
  Type,        \* the type of a property
  Target,      \* the class of a property's objects: objectType
  None,        \* none
  DictType,    \* the type of the dictionary's values
  SetType,     \* the type of the set's entries
  Content,     \* the values of a table, its primary key aside
  WithKey,     \* the tables with a value for the primary key
  Arrays,      \* the tables with entries under 1, 2, ..., as for a list
  Values,      \* the values that the program assigns, realm objects aside
  Cut,         \* what is left of a string before its first zero byte
  MaxDepth,    \* how many calls of _new may be nested: Lua's limit
  MaxObjects   \* bound: the objects up to which the program calls again

VARIABLES
  obj,      \* the objects, in the order of their creation
  dict,     \* the dictionary
  set,      \* the set
  keyLeft,  \* the tables whose primary key is still in them
  frames,   \* the calls of RealmObject._new that are under way
  raised    \* the last call of the program ended in an error

vars == <<obj, dict, set, keyLeft, frames, raised>>

\* Lua's values.  An object's val is its place in obj, a boolean's is 0 or 1.
LuaKinds == {"nil", "integer", "float", "string", "boolean", "object", "table", "other"}
Nil   == [kind |-> "nil", val |-> None]
False == [kind |-> "boolean", val |-> 0]
Object(i) == [kind |-> "object", val |-> i]

\* realm_value_t, and the places that hold none.
RealmTypes == {"int", "double", "string", "bool", "link"}
Null   == [type |-> "null", val |-> None]
Absent == [type |-> "absent", val |-> None]

ASSUME ObjectsAssumption ==
  /\ Keyed \subseteq Classes /\ WithKey \subseteq Tables /\ Arrays \subseteq Tables
  /\ None \notin Classes /\ None \notin Nat \X Props
  /\ "_id" \notin Props /\ "1" \notin Props
  /\ Type \in [Props -> RealmTypes \cup {"mixed", "list"}]
  /\ Target \in [Props -> Classes \cup {None}]
  /\ \A v \in Values : /\ v = [kind |-> v.kind, val |-> v.val]
                        /\ v.kind \in LuaKinds \ {"object"} /\ (v.kind = "table" => v.val \in Tables)
  /\ DOMAIN Content = Tables
  /\ \A t \in Tables : DOMAIN Content[t] = Props /\ \A p \in Props : Content[t][p] \in Values
  /\ \A v \in Values : v.kind = "string" => Cut[v.val] \in {w.val : w \in Values}
  /\ MaxDepth \in Nat /\ MaxObjects \in Nat

-----------------------------------------------------------------------------
(* Conversions                                                             *)

\* Mutated: every number is a double.
ToDouble(v) ==
  [type |-> CASE v.kind \in {"integer", "float"} -> "double"
              [] v.kind = "string" -> "string"
              [] v.kind = "boolean" -> "bool"
              [] v.kind = "object" -> "link",
   val  |-> v.val]

\* lua_to_realm_value: nil, tables and the rest raise.
Convertible(v) == v.kind \in {"integer", "float", "string", "boolean", "object"}
ToRealm(v) ==
  [type |-> CASE v.kind = "integer" -> "int"
              [] v.kind = "float" -> "double"
              [] v.kind = "string" -> "string"
              [] v.kind = "boolean" -> "bool"
              [] v.kind = "object" -> "link",
   val  |-> v.val]

\* realm_to_lua_value: lua_pushstring stops at a zero byte.
ToLua(r) ==
  CASE r.type \in {"null", "absent"} -> Nil
    [] r.type = "int" -> [kind |-> "integer", val |-> r.val]
    [] r.type = "double" -> [kind |-> "float", val |-> r.val]
    [] r.type = "string" -> [kind |-> "string", val |-> Cut[r.val]]
    [] r.type = "bool" -> [kind |-> "boolean", val |-> r.val]
    [] r.type = "link" -> Object(r.val)

\* The core takes a value of the property's own type, or any if that is mixed.
Accepts(type, r) == type = "mixed" \/ type = r.type
Storable(type, v) == Convertible(v) /\ Accepts(type, ToRealm(v))

\* A link goes to objects of one class.
Assignable(p, v) ==
  /\ Storable(Type[p], v)
  /\ Type[p] = "link" => obj[v.val].class = Target[p]

\* table._handle
Handle(v) == IF v.kind = "table" THEN Nil ELSE v

-----------------------------------------------------------------------------
(* Calls                                                                   *)

Running == frames # <<>>
Top     == frames[Len(frames)]
Below   == SubSeq(frames, 1, Len(frames) - 1)

\* Mutated: the error is lost.
RaiseQuietly == /\ raised' = TRUE
                /\ UNCHANGED <<obj, dict, set, keyLeft, frames>>

\* An error leaves every call of _new.
Raise == /\ frames' = <<>> /\ raised' = TRUE
         /\ UNCHANGED <<obj, dict, set, keyLeft>>

Given(t) == {p \in Props : Content[t][p] # Nil}

\* The keys of a table that no class has as properties: a primary key where the
\* class has none, and the numbers of an array, of which the first stands for all.
Unknown(t, class) == (IF t \in keyLeft /\ class \notin Keyed THEN {"_id"} ELSE {})
                       \cup (IF t \in Arrays THEN {"1"} ELSE {})

\* A new object, and the frame that sets its values.
Frame(t, class, into) ==
  [object |-> Len(obj) + 1, table |-> t, into |-> into, class |-> class,
   todo |-> Given(t) \cup Unknown(t, class)]
NewObject(t, class) ==
  [table |-> t, class |-> class, props |-> [p \in Props |-> Null]]

\* Mutated: the primary key stays in the table.
NewKeepsKey(t, class, into, s) ==
  \/ /\ class # None
     /\ Len(s) < MaxDepth
     /\ obj' = Append(obj, NewObject(t, class))
     /\ frames' = Append(s, Frame(t, class, into))
     /\ raised' = FALSE
     /\ UNCHANGED <<dict, set, keyLeft>>
  \/ (class = None \/ Len(s) >= MaxDepth) /\ Raise

\* RealmObject._new, called in a stack s to link the object to `into`.  It
\* raises without a class, without a primary key in the table, when the core
\* knows that primary key already, and when Lua's limit is reached.
New(t, class, into, s) ==
  \/ /\ class # None
     /\ Len(s) < MaxDepth
     /\ class \in Keyed => t \in keyLeft
     /\ obj' = Append(obj, NewObject(t, class))
     /\ keyLeft' = IF class \in Keyed THEN keyLeft \ {t} ELSE keyLeft
     /\ frames' = Append(s, Frame(t, class, into))
     /\ raised' = FALSE
     /\ UNCHANGED <<dict, set>>
  \/ (class = None \/ class \in Keyed \/ Len(s) >= MaxDepth) /\ Raise

\* Mutated: the property's type is not looked at.
SetUntyped(o, p, v, s) ==
  \/ /\ Convertible(v)
     /\ obj' = [obj EXCEPT ![o].props[p] = ToRealm(v)]
     /\ frames' = s
     /\ raised' = FALSE
     /\ UNCHANGED <<dict, set, keyLeft>>
  \/ ~Convertible(v) /\ Raise

\* lib_realm_set_value
SetValue(o, p, v, s) ==
  \/ /\ Assignable(p, v)
     /\ obj' = [obj EXCEPT ![o].props[p] = ToRealm(v)]
     /\ frames' = s
     /\ raised' = FALSE
     /\ UNCHANGED <<dict, set, keyLeft>>
  \/ ~Assignable(p, v) /\ Raise

\* RealmObject.__newindex
NewIndex(o, p, v, s) ==
  \/ p \notin Props /\ Raise
  \/ p \in Props /\ v.kind = "table" /\ New(v.val, Target[p], <<o, p>>, s)
  \/ p \in Props /\ v.kind # "table" /\ SetValue(o, p, v, s)

-----------------------------------------------------------------------------
(* The program                                                             *)

Calls == frames = <<>> /\ Len(obj) < MaxObjects

Assigned == Values \cup {Object(i) : i \in 1 .. Len(obj)}

\* Realm:create
Create(t, class) == Calls /\ New(t, class, None, <<>>)

\* object.p = v
Assign(o, p, v) == Calls /\ NewIndex(o, p, v, <<>>)

\* lib_realm_dictionary_insert, lib_realm_dictionary_erase
InsertKey(k, v) ==
  \/ /\ Storable(DictType, v)
     /\ dict' = [dict EXCEPT ![k] = ToRealm(v)]
     /\ raised' = FALSE
     /\ UNCHANGED <<obj, set, keyLeft, frames>>
  \/ ~Storable(DictType, v) /\ Raise
EraseKey(k) == /\ dict' = [dict EXCEPT ![k] = Absent]
               /\ raised' = FALSE
               /\ UNCHANGED <<obj, set, keyLeft, frames>>

\* dictionary[k] = v: a table is looked up its handle before it is compared to nil.
SetKey(k, v) == /\ Calls
                /\ \/ Handle(v) = Nil /\ EraseKey(k)
                   \/ Handle(v) # Nil /\ InsertKey(k, Handle(v))

\* lib_realm_set_insert, lib_realm_set_erase
InsertEntry(e) ==
  \/ /\ Storable(SetType, e)
     /\ set' = set \cup {ToRealm(e)}
     /\ raised' = FALSE
     /\ UNCHANGED <<obj, dict, keyLeft, frames>>
  \/ ~Storable(SetType, e) /\ Raise
EraseEntry(e) ==
  \/ /\ Storable(SetType, e)
     /\ set' = set \ {ToRealm(e)}
     /\ raised' = FALSE
     /\ UNCHANGED <<obj, dict, keyLeft, frames>>
  \/ ~Storable(SetType, e) /\ Raise

\* set[e] = v: only false is refused as a value.
SetEntry(e, v) == /\ Calls
                  /\ \/ v = Nil /\ EraseEntry(Handle(e))
                     \/ v = False /\ Raise
                     \/ v \notin {Nil, False} /\ InsertEntry(Handle(e))

-----------------------------------------------------------------------------
(* RealmObject._new                                                        *)

\* object[prop] = value, in the order of pairs.
SetNext == /\ Running
           /\ \E p \in Top.todo :
                NewIndex(Top.object, p, IF p \in Props THEN Content[Top.table][p] ELSE Nil,
                         Append(Below, [Top EXCEPT !.todo = @ \ {p}]))

\* _new returns: to Realm:create, or to the __newindex that links the object.
Return == /\ Running
          /\ Top.todo = {}
          /\ \/ /\ Top.into = None
                /\ frames' = Below
                /\ UNCHANGED <<obj, dict, set, keyLeft, raised>>
             \/ /\ Top.into # None
                /\ SetValue(Top.into[1], Top.into[2], Object(Top.object), Below)

Init == /\ obj = <<>>
        /\ dict = [k \in Keys |-> Absent]
        /\ set = {}
        /\ keyLeft = WithKey
        /\ frames = <<>>
        /\ raised = FALSE

Next == \/ \E t \in Tables, c \in Classes : Create(t, c)
        \/ \E v \in Assigned :
             \/ \E o \in 1 .. Len(obj), p \in Props \cup {"_id"} : Assign(o, p, v)
             \/ \E k \in Keys : SetKey(k, v)
             \/ \E e \in Assigned : SetEntry(e, v)
        \/ SetNext
        \/ Return

\* The library's code runs on; the program need not call.
Spec == Init /\ [][Next]_vars /\ WF_vars(SetNext \/ Return)

-----------------------------------------------------------------------------
(* Properties                                                              *)

Stored(type) == {r \in {ToRealm(v) : v \in {w \in Assigned : Convertible(w)}} : Accepts(type, r)}

\* The variables' types: nothing is stored where the core would not take it, a
\* link leads to an object of its property's class, and every call of _new that
\* is under way has its own object.
TypeOK ==
  /\ \A i \in 1 .. Len(obj) :
       /\ obj[i].table \in Tables /\ obj[i].class \in Classes
       /\ \A p \in Props :
            /\ obj[i].props[p] \in Stored(Type[p]) \cup {Null}
            /\ obj[i].props[p].type = "link" /\ Type[p] = "link" =>
                 obj[obj[i].props[p].val].class = Target[p]
  /\ \A k \in Keys : dict[k] \in Stored(DictType) \cup {Absent}
  /\ set \subseteq Stored(SetType)
  /\ keyLeft \subseteq WithKey
  /\ \A n \in 1 .. Len(frames) :
       /\ frames[n].object \in 1 .. Len(obj)
       /\ frames[n].todo \subseteq Props \cup {"_id", "1"}
       /\ n > 1 => frames[n - 1].object < frames[n].object
  /\ raised \in BOOLEAN

\* A table makes one object of a class with a primary key, however often and
\* wherever in other tables it is used: the second time its key is gone.
OnceEach == \A i, j \in 1 .. Len(obj) :
  obj[i].class \in Keyed /\ obj[j].class \in Keyed /\ obj[i].table = obj[j].table => i = j

\* What an object made by the call that is under way reads as, but for what is
\* yet to be set: as its table does.
Pending(i, p) == \E n \in 1 .. Len(frames) :
  \/ frames[n].object = i /\ p \in frames[n].todo
  \/ frames[n].into = <<i, p>>
Mirrors(i, p) ==
  LET v == Content[obj[i].table][p]
      w == ToLua(obj[i].props[p])
  IN  IF v.kind = "table" THEN w.kind = "object" /\ obj[w.val].table = v.val ELSE w = v
MirrorsSoFar == Running =>
  \A i \in frames[1].object .. Len(obj) : \A p \in Given(obj[i].table) :
    Pending(i, p) \/ Mirrors(i, p)

\* The outermost call of _new returns to the program.
Returns == Running /\ frames' = <<>> /\ ~raised'

\* A creation that returns has made what its tables say: every object made on the
\* way has every value of its table, and for a nested table an object made of that
\* one.  Nothing was left out, so none of the tables was an array, and none gave a
\* value to a list: the creation of README.md:519-530, a Team with the table
\* `tasks = { syncedTask }`, never returns.  The code makes an object of the table
\* (object.lua:119-124) and raises.
CreationMirrors == [][Returns =>
  \A i \in frames[1].object .. Len(obj) :
    /\ obj[i].table \notin Arrays
    /\ \A p \in Given(obj[i].table) : Type[p] # "list" /\ Mirrors(i, p)']_vars

\* Creation ends, in an object or in an error, also for tables that refer to each
\* other in a circle: of classes with a primary key because the key is gone the
\* second time (object.lua:48), of others by Lua's limit.
CreationEnds == Running ~> ~Running
=============================================================================
