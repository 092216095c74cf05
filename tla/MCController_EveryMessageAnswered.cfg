SPECIFICATION Spec
CONSTANTS
  DID = {owner, alice}
  Owner = owner
  Nonce = {n1, n2}
  Mode <- MCMode
  RPCMethod <- MCRPCMethod
  valueTrue = valueTrue
  Nil = Nil
INVARIANT
  EveryMessageAnswered
