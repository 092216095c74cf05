SPECIFICATION FairNotification
CONSTANTS
  Key = {k1, k2}
  Template = {t1, t2, bad}
  Ranged = {t1, t2}
  Nil = Nil
  Inputs = 2
  Addressed = {1}
INVARIANTS
  NotificationTypeOK
  WalletKeyIsStored
  SuccessMeansImported
  SentMeansBroadcast
  PostsWhole
PROPERTIES
  KeyNeverReplaced
  FirstImportStays
  EventuallyImported
  EventuallyBroadcast
