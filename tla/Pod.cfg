SPECIFICATION FairPod
CONSTANTS
  Client = {c1, c2}
  RetryCounts = 3
  Buffer = 1
  Key = {k1}
  Lifetime = 5
  RenewBefore = 4
  Interval = 2
  NoKey = NoKey
INVARIANTS
  PodTypeOK
  SignalsOpenChannel
  IdentityOnDisk
  ExpiresAfterFailures
PROPERTIES
  QuietAfterClose
  RefillGoroutinesEnd
  KeysRefilled
  InterruptEnds
  KeyFileKept
  StaysConnected
CHECK_DEADLOCK FALSE
