\* Tables in a circle, of classes with and without a primary key, nested up to
\* Lua's limit, an array for a list, and all the values.
SPECIFICATION Spec
CONSTANTS
  t1 = t1
  t2 = t2
  t3 = t3
  t4 = t4
  t5 = t5
  array = array
  keyed = keyed
  keyless = keyless
  string = string
  Tables = {t1, t2, t3, t4, t5, array}
  Props = {"any", "ref", "part", "parts"}
  Keys = {k}
  Classes = {keyed, keyless}
  Keyed = {keyed}
  Type <- MCType
  Target <- MCTarget
  None = None
  DictType = "string"
  SetType = "int"
  Content <- MCContent
  WithKey = {t1, t2, t4}
  Arrays = {array}
  Values <- MCValues
  Cut <- MCCut
  MaxDepth = 4
  MaxObjects = 2
INVARIANTS TypeOK OnceEach
PROPERTIES CreationMirrors CreationEnds
\* The program stops.
CHECK_DEADLOCK FALSE
