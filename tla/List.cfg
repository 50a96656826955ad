\* Three different elements in lists of up to four: every position of an insert
\* and of a removal, with elements on both sides.
SPECIFICATION Spec
CONSTANTS
  a = a
  b = b
  Elements = {a, b, c}
  Null = Null
  Nil = Nil
  Refused = Refused
  Initial <- Empty
  SizeMax = 16
  MaxLength = 4
INVARIANTS TypeOK
PROPERTIES ArraySpec
