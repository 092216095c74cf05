-------------------------------- MODULE ACL --------------------------------
(***************************************************************************)
(* The access-control tables of the pod controller (acl.go): an access     *)
(* mode is an integer, and two allow lists say which commands and which    *)
(* bitcoind RPC methods a mode may use.                                    *)
(***************************************************************************)
EXTENDS Integers

AccessModeNotApplicant == -1
AccessModeFull         == 0
AccessModeLimited      == 1
AccessModeMinimal      == 2

fullAccessCommandAllowList ==
  {"bind", "bind_ack", "bitcoind", "create_wallet", "finish_psbt",
   "set_member", "remove_member",
   "start_bitcoind", "stop_bitcoind", "get_bitcoind_status"}

\* Mutation: the list of the minimal mode copied from the full one.
minimalAccessCopiedFromFull == fullAccessCommandAllowList

limitedAccessCommandAllowList ==
  {"bind", "bind_ack", "bitcoind", "get_bitcoind_status"}

minimalAccessCommandAllowList ==
  {"bind", "bind_ack", "bitcoind", "get_bitcoind_status"}

\* The keys of the two tables.
Levels == {AccessModeFull, AccessModeLimited, AccessModeMinimal}

\* A Go map indexed with a key it does not hold yields the zero value, here an
\* empty table: a mode outside the three below is allowed nothing.
commandAllowList(mode) ==
  CASE mode = AccessModeFull    -> fullAccessCommandAllowList
    [] mode = AccessModeLimited -> limitedAccessCommandAllowList
    [] mode = AccessModeMinimal -> minimalAccessCommandAllowList
    [] OTHER                    -> {}

fullAccessBitcoinRPCAllowList ==
  {"getbalances", "getblockchaininfo", "getmininginfo", "getnettotals",
   "getnetworkinfo", "getnewaddress", "getreceivedbyaddress",
   "gettransaction", "getwalletinfo", "listtransactions",
   "walletcreatefundedpsbt"}

\* The lists of the limited and the minimal mode are empty.
bitcoinRPCAllowList(mode) ==
  IF mode = AccessModeFull THEN fullAccessBitcoinRPCAllowList ELSE {}

HasCommandAccess(command, mode) == command \in commandAllowList(mode)

HasBitcoinRPCAccess(rpcCommand, mode) ==
  /\ mode # AccessModeNotApplicant
  /\ rpcCommand \in bitcoinRPCAllowList(mode)
=============================================================================
