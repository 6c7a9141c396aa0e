CONSTANTS
  Svc = {s1, s2}
  NoSvc = NoSvc
  Thread = {c1}
  Boot = Boot
  OnFailure = {s1}
  HasStop = {s1}
  MaxRestarts = 1
  MaxSignals = 2
SPECIFICATION Spec
INVARIANTS LifecycleTypeOK BootKept CleanEnd RootOutlives
PROPERTIES LifecycleEnds
CHECK_DEADLOCK FALSE
