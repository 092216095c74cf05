SPECIFICATION Spec
CONSTANTS
  DID = {owner, alice, bob}
  Owner = owner
  Nonce = {n1, n2}
  Mode <- MCMode
  RPCMethod <- MCRPCMethod
  valueTrue = valueTrue
  Nil = Nil
INVARIANTS
  TypeOK
  OwnerFirst
  ReplyTellsStore
  ServedOnlyWhileEntitled
PROPERTIES
  BoundForever
  OnlyFullAccessChangesMembers
  FailureChangesNothing
  AccessSpec
