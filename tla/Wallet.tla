------------------------------- MODULE Wallet -------------------------------
(***************************************************************************)
(* The command create_wallet (controller.go, gordian_key.go): one call is  *)
(* a sequence of requests to bitcoind with the master key file read or     *)
(* written in between.  Any request can fail, with or without its effect,  *)
(* and the process can die between any two steps; the client then calls    *)
(* again.  bitcoind keeps the wallet, and forgets across its own restart   *)
(* that the wallet was loaded, as createwallet is told load_on_startup =   *)
(* false.                                                                  *)
(***************************************************************************)
EXTENDS Integers

CONSTANTS
  Key,        \* the master keys that hdkeychain.NewMaster can draw
  Template,   \* the incomplete descriptors that clients send
  Ranged,     \* those that bitcoind imports; it rejects others (say, without
              \* "/*") in the result of importdescriptors, not by an error
  Nil

ASSUME WalletAssumption ==
  /\ Ranged \subseteq Template
  /\ Key \cap {"absent", "partial", Nil} = {}

VARIABLES
  wallet,     \* external: the wallet "gordian" of bitcoind
  imported,   \* external: its active descriptors, as key and template
  keyFile,    \* gordian_master_key: absent, not written to the end, or a key
  pc,         \* the next step of createWallet
  call,       \* its argument and its local variables
  reply       \* what the last call returned

vars == <<wallet, imported, keyFile, pc, call, reply>>

Local == [template : Template \cup {Nil}, create : BOOLEAN, import : BOOLEAN,
          key : Key \cup {Nil}]

Idle == [template |-> Nil, create |-> FALSE, import |-> FALSE, key |-> Nil]

TypeOK ==
  /\ wallet \in {"missing", "unloaded", "loaded"}
  /\ imported \in [key : Key \cup {Nil}, template : Template \cup {Nil}]
  /\ keyFile \in Key \cup {"absent", "partial"}
  /\ pc \in {"idle", "getwalletinfo", "getblockchaininfo", "masterkey",
             "writekey", "createwallet", "getdescriptorinfo",
             "importdescriptors", "return"}
  /\ call \in Local
  /\ reply \in [status : {"none", "ok", "error"},
                template : Template \cup {Nil},
                key : Key \cup {Nil}]

NoReply == [status |-> "none", template |-> Nil, key |-> Nil]

ErrorReply == [status |-> "error", template |-> Nil, key |-> Nil]

Init ==
  /\ wallet = "missing"
  /\ imported = [key |-> Nil, template |-> Nil]
  /\ keyFile = "absent"
  /\ pc = "idle"
  /\ call = Idle
  /\ reply = NoReply

Imported == imported.key # Nil

ReturnError ==
  /\ pc' = "idle"
  /\ call' = Idle
  /\ reply' = ErrorReply
-----------------------------------------------------------------------------
Call(template) ==
  /\ pc = "idle"
  /\ pc' = "getwalletinfo"
  /\ call' = [Idle EXCEPT !.template = template]
  /\ reply' = NoReply
  /\ UNCHANGED <<wallet, imported, keyFile>>

\* The descriptor has no derivation path for the pod's key, or a bad one.
Reject ==
  /\ pc = "idle"
  /\ ReturnError
  /\ UNCHANGED <<wallet, imported, keyFile>>

\* Mutation: a loaded wallet is taken for a complete one.
GetWalletInfoLoadedIsDone ==
  /\ pc = "getwalletinfo"
  /\ pc' = "getblockchaininfo"
  /\ call' = [call EXCEPT !.create = (wallet # "loaded"),
                          !.import = (wallet # "loaded")]
  /\ UNCHANGED <<wallet, imported, keyFile, reply>>

\* Mutation: the size of the key pool is not looked at.
GetWalletInfoImportAlways ==
  /\ pc = "getwalletinfo"
  /\ pc' = "getblockchaininfo"
  /\ call' = [call EXCEPT !.create = (wallet # "loaded"), !.import = TRUE]
  /\ UNCHANGED <<wallet, imported, keyFile, reply>>

\* The error ErrRPCWalletNotFound says that no wallet is loaded, not that none
\* exists.  Both key pools of a loaded wallet are empty until the descriptors
\* are imported.
GetWalletInfo ==
  /\ pc = "getwalletinfo"
  /\ pc' = "getblockchaininfo"
  /\ call' = [call EXCEPT !.create = (wallet # "loaded"),
                          !.import = (wallet # "loaded" \/ ~ Imported)]
  /\ UNCHANGED <<wallet, imported, keyFile, reply>>

GetBlockChainInfo ==
  /\ pc = "getblockchaininfo"
  /\ pc' = "masterkey"
  /\ UNCHANGED <<wallet, imported, keyFile, call, reply>>

AfterKey ==
  IF call.create THEN "createwallet"
  ELSE IF call.import THEN "getdescriptorinfo" ELSE "return"

\* Mutation: the key file is created anew, whether or not it exists.
CreateMasterKey ==
  /\ pc = "masterkey"
  /\ keyFile' = "partial"
  /\ pc' = "writekey"
  /\ UNCHANGED <<wallet, imported, call, reply>>

\* Mutation: what is in the file is used without parsing it.
LoadUnparsedKey ==
  /\ pc = "masterkey"
  /\ IF keyFile = "absent"
       THEN keyFile' = "partial" /\ pc' = "writekey" /\ UNCHANGED call
       ELSE pc' = AfterKey /\ call' = [call EXCEPT !.key = keyFile]
            /\ UNCHANGED keyFile
  /\ UNCHANGED <<wallet, imported, reply>>

\* createOrLoadMasterKey: read the file if there is one, and fail if it does
\* not hold a key; else create it, empty at first.
CreateOrLoadMasterKey ==
  /\ pc = "masterkey"
  /\ \/ /\ keyFile = "absent"
        /\ keyFile' = "partial"
        /\ pc' = "writekey"
        /\ UNCHANGED <<call, reply>>
     \/ /\ keyFile = "partial"
        /\ ReturnError
        /\ UNCHANGED keyFile
     \/ /\ keyFile \in Key
        /\ call' = [call EXCEPT !.key = keyFile]
        /\ pc' = AfterKey
        /\ UNCHANGED <<keyFile, reply>>
  /\ UNCHANGED <<wallet, imported>>

\* Mutation: an error of WriteString is ignored.
WriteMasterKeyUnchecked(key) ==
  /\ pc = "writekey"
  /\ keyFile' \in {key, keyFile}
  /\ call' = [call EXCEPT !.key = key]
  /\ pc' = AfterKey
  /\ UNCHANGED <<wallet, imported, reply>>

WriteMasterKey(key) ==
  /\ pc = "writekey"
  /\ keyFile' = key
  /\ call' = [call EXCEPT !.key = key]
  /\ pc' = AfterKey
  /\ UNCHANGED <<wallet, imported, reply>>

\* createwallet fails when the wallet exists, loaded or not.
CreateWallet ==
  /\ pc = "createwallet"
  /\ IF wallet = "missing"
       THEN /\ wallet' = "loaded"
            /\ pc' = IF call.import THEN "getdescriptorinfo" ELSE "return"
            /\ UNCHANGED <<call, reply>>
       ELSE ReturnError /\ UNCHANGED wallet
  /\ UNCHANGED <<imported, keyFile>>

\* Twice, for the external and the internal descriptor.
GetDescriptorInfo ==
  /\ pc = "getdescriptorinfo"
  /\ pc' = "importdescriptors"
  /\ UNCHANGED <<wallet, imported, keyFile, call, reply>>

\* What importdescriptors does to the wallet: each descriptor is imported, or
\* is reported as failed in a result that the code does not read.
Import ==
  imported' = IF call.template \in Ranged
              THEN [key |-> call.key, template |-> call.template] ELSE imported

ImportDescriptors ==
  /\ pc = "importdescriptors"
  /\ IF wallet = "loaded"
       THEN Import /\ pc' = "return" /\ UNCHANGED <<call, reply>>
       ELSE ReturnError /\ UNCHANGED imported
  /\ UNCHANGED <<wallet, keyFile>>

\* The reply is computed from the argument, not from the wallet.
Return ==
  /\ pc = "return"
  /\ pc' = "idle"
  /\ call' = Idle
  /\ reply' = [status |-> "ok", template |-> call.template, key |-> call.key]
  /\ UNCHANGED <<wallet, imported, keyFile>>

\* A request, or the creation or writing of the file, fails without effect.
Fail ==
  /\ pc \notin {"idle", "return"}
  /\ ReturnError
  /\ UNCHANGED <<wallet, imported, keyFile>>

\* A request has its effect and the answer is lost.
AnswerLost ==
  /\ \/ pc = "createwallet" /\ wallet = "missing" /\ wallet' = "loaded"
        /\ UNCHANGED imported
     \/ pc = "importdescriptors" /\ wallet = "loaded" /\ Import
        /\ UNCHANGED wallet
  /\ ReturnError
  /\ UNCHANGED keyFile

\* The process dies and is started again.
Crash ==
  /\ pc # "idle"
  /\ pc' = "idle"
  /\ call' = Idle
  /\ reply' = NoReply
  /\ UNCHANGED <<wallet, imported, keyFile>>

\* External: bitcoind is stopped and started, by the pod's own commands or the
\* suspender; its own configuration may still load the wallet.
BitcoindRestart ==
  /\ wallet = "loaded"
  /\ wallet' = "unloaded"
  /\ UNCHANGED <<imported, keyFile, pc, call, reply>>

\* External: an operator loads the wallet.
LoadWallet ==
  /\ wallet = "unloaded"
  /\ wallet' = "loaded"
  /\ UNCHANGED <<imported, keyFile, pc, call, reply>>

Step ==
  \/ GetWalletInfo
  \/ GetBlockChainInfo
  \/ CreateOrLoadMasterKey
  \/ \E key \in Key : WriteMasterKey(key)
  \/ CreateWallet
  \/ GetDescriptorInfo
  \/ ImportDescriptors
  \/ Return

Next ==
  \/ \E template \in Template : Call(template)
  \/ Reject
  \/ Step
  \/ Fail
  \/ AnswerLost
  \/ Crash
  \/ BitcoindRestart
  \/ LoadWallet

Spec == Init /\ [][Next]_vars

\* A call ends, one way or the other, which presumes that bitcoind answers or
\* breaks the connection, as the client of this command has no timeout; a user
\* goes on calling with a descriptor that bitcoind accepts; and of infinitely
\* many tries of a step in such calls some succeed.
Accepted == call.template \in Ranged

Fairness ==
  /\ WF_vars(Step \/ Fail)
  /\ SF_vars(\E template \in Ranged : Call(template))
  /\ SF_vars(GetWalletInfo /\ Accepted)
  /\ SF_vars(GetBlockChainInfo /\ Accepted)
  /\ SF_vars(CreateOrLoadMasterKey /\ Accepted)
  /\ SF_vars((\E key \in Key : WriteMasterKey(key)) /\ Accepted)
  /\ SF_vars(CreateWallet /\ Accepted)
  /\ SF_vars(GetDescriptorInfo /\ Accepted)
  /\ SF_vars(ImportDescriptors /\ Accepted)
-----------------------------------------------------------------------------
(* Properties.                                                             *)

\* The private key in the wallet is the one in the key file: the key is on
\* disk before bitcoind hears of it, so no crash can leave a wallet whose key
\* the pod has lost and would answer wrongly about.
WalletKeyIsStored == Imported => keyFile = imported.key

\* A key once written is never replaced, by a retry or after a crash.
KeyNeverReplaced == [][(keyFile \in Key) => (keyFile' = keyFile)]_vars

\* The first import decides: a repeated create_wallet, with whatever
\* descriptor, does not change a wallet that can receive coins already.
FirstImportStays == [][Imported => imported' = imported]_vars

\* A client that is told of success for a descriptor bitcoind accepts has a
\* wallet with descriptors, made with the key the reply names, however many
\* tries, crashes and lost answers came before.
SuccessMeansImported ==
  reply.status = "ok" /\ reply.template \in Ranged =>
    /\ wallet # "missing"
    /\ Imported
    /\ imported.key = reply.key

\* Interrupted anywhere, create_wallet is completed by a later call: if from
\* some time on the wallet is not left unloaded, and the key file is not left
\* half written, then the descriptors are imported.
EventuallyImported ==
  <>[](wallet # "unloaded" /\ keyFile # "partial") => <>Imported

\* controller.go:265 "createWallet creates a new descriptor wallet if it does
\* not exist": createwallet is requested only for a wallet that is missing.
CreatesOnlyIfMissing == pc = "createwallet" => wallet = "missing"
=============================================================================
