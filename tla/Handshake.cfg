SPECIFICATION FairHandshake
CONSTANTS
  DID = {owner, alice}
  Owner = owner
  Client = alice
  Nonce = {n1, n2}
  Mode = {0}
  RPCMethod = {"getbalances", "dumpwallet"}
  ToolCommand = {"bind", "bind_ack", "bitcoind", "get_bitcoind_status",
                 "set_member", "remove_member"}
  Buffer = 2
  valueTrue = valueTrue
  Nil = Nil
INVARIANTS
  HandshakeTypeOK
  OkMeansBound
  NotedIsPending
  AckMayBeRepeated
PROPERTIES
  EventuallyBound
