\* Lists of a nullable type in which a null is stored.
SPECIFICATION Spec
CONSTANTS
  a = a
  b = b
  Elements = {a, b, c}
  Null = Null
  Nil = Nil
  Refused = Refused
  Initial <- WithNull
  SizeMax = 16
  MaxLength = 4
PROPERTIES InsertInserts
