SPECIFICATION FairSpec
CONSTANT Duration = 3
INVARIANTS
  TypeOK
  AtMostOneStaleStop
PROPERTY EventuallySuspended
