\* Three calls on two threads, errors in every place where one can be raised.
SPECIFICATION Spec
CONSTANTS
  f1 = f1
  f2 = f2
  g = g
  i1 = i1
  i2 = i2
  luaThread = luaThread
  otherThread = otherThread
  Fibers <- MCFibers
  Instances <- MCInstances
  NoInstance = NoInstance
  Home <- MCHome
  Keys = {k1}
  Props = {"age"}
  MaxWrites = 3
  Faults = {"commit", "listener", "rollback"}
INVARIANTS TypeOK OneCallPerTransaction RaisedLeavesNothing
PROPERTIES WaiterGetsItsTurn AtomicSpec
