SPECIFICATION Spec
CONSTANTS
  Threads = {t1, t2}
  Libraries = {"connector"}
  NoPlatform = NoPlatform
  MaxCalls = 1
INVARIANT ReadyBeforeIsolate
