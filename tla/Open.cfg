\* Two calls of open, every type of up to two suffixes, schemas of 0 to 15 classes.
SPECIFICATION Spec
CONSTANTS
  nobody = nobody
  u1 = u1
  u2 = u2
  None = nobody
  NoBase = ""
  Primitives = {"int", "string"}
  Users = {u1, u2}
  Schema <- MCSchema
  MinStack = 20
  MaxOpens = 2
  MaxHandles = 2
INVARIANTS TypeOK OwnersExact StackKept DocumentedIsAccepted InfoFaithful
PROPERTIES SchedulerLetGo
