CONSTANTS
  t1 = t1
  t2 = t2
  c1 = c1
  Threads = {t1, t2}
  Jobs = {j1, j2}
  Clients = {c1}
  Sends <- OwnSession
  NoClient = NoClient
  NoJob = NoJob
  NoThread = NoThread
SPECIFICATION Spec
PROPERTY LockReleased
INVARIANTS TypeOK MutationsSerialized OneForeground PointerLive ProbeMatchesWrapper EndedJobHasNoProbe
CHECK_DEADLOCK FALSE
