CONSTANTS
  t1 = t1
  t2 = t2
  c1 = c1
  Threads = {t1, t2}
  Jobs = {j1, j2, j3}
  Clients = {c1}
  Sends <- MixedSession
  NoClient = NoClient
  NoJob = NoJob
  NoThread = NoThread
SPECIFICATION Spec
INVARIANT OneForeground
CHECK_DEADLOCK FALSE
