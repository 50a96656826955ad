\* Two workers, three calls.
SPECIFICATION Spec
CONSTANTS
  Loop = Loop
  Workers = {w1, w2}
  Fns = {f1, f2, f3}
  InitialCloseRequested = {FALSE}
  ClosedAfterDtor = {TRUE}
INVARIANTS TypeOK NoneLostInOrder NoLostWakeup HeldMeansAlive
PROPERTIES NothingRunsOnceClosing HeldSchedulerDelivers ClosedInTheEnd ExecutorSpec
