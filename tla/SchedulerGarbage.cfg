SPECIFICATION Spec
CONSTANTS
  Loop = Loop
  Workers = {w1}
  Fns = {f1, f2}
  InitialCloseRequested = {TRUE, FALSE}
  ClosedAfterDtor = {TRUE}
PROPERTY HeldSchedulerDelivers
