---------------------------- MODULE WalletProofs ----------------------------
(***************************************************************************)
(* Proofs about Wallet, for all sets of keys and templates.  The invariant *)
(* follows the key from the file into the call and from there into the     *)
(* wallet, and says at each step what the call knows about the wallet: the *)
(* flags it computed from getwalletinfo, whose answer may be old, agree    *)
(* with whether descriptors are imported.                                  *)
(***************************************************************************)
EXTENDS Wallet, TLAPS

KeyRead == {"createwallet", "getdescriptorinfo", "importdescriptors", "return"}

\* The key of the call is the one in the file, and that of the wallet too.
KeyInv ==
  /\ Imported => keyFile = imported.key
  /\ pc = "writekey" => keyFile = "partial"
  /\ pc \in KeyRead => call.key \in Key /\ keyFile = call.key

\* What the call has learnt of the wallet still holds.
FlagInv ==
  /\ Imported => wallet # "missing"
  /\ pc \in {"getblockchaininfo", "masterkey", "writekey", "createwallet"} =>
       /\ ~ call.import => Imported
       /\ call.create => call.import
       /\ call.import /\ ~ call.create => ~ Imported
  /\ pc = "createwallet" => call.create
  /\ pc \in {"getdescriptorinfo", "importdescriptors"} => ~ Imported
  /\ pc = "return" /\ call.template \in Ranged => Imported

IInv ==
  /\ TypeOK
  /\ KeyInv
  /\ FlagInv
  /\ SuccessMeansImported

USE WalletAssumption DEF Imported, KeyRead, Local

LEMMA InitIInv == Init => IInv
  BY DEF Init, Idle, NoReply, IInv, TypeOK, KeyInv, FlagInv,
     SuccessMeansImported

\* A step that ends the call and leaves wallet and key file alone.
LEMMA EndStep ==
  ASSUME IInv, UNCHANGED <<wallet, imported, keyFile>>, pc' = "idle",
         call' = Idle, reply' \in {ErrorReply, NoReply}
  PROVE  IInv'
  BY DEF IInv, TypeOK, KeyInv, FlagInv, SuccessMeansImported, Idle, ErrorReply,
     NoReply

LEMMA CallStep ==
  ASSUME IInv, NEW template \in Template, Call(template)
  PROVE  IInv'
<1>1. TypeOK'
  BY DEF Call, Idle, NoReply, IInv, TypeOK
<1>2. KeyInv'
  BY DEF Call, Idle, NoReply, IInv, TypeOK, KeyInv, FlagInv
<1>3. FlagInv'
  BY DEF Call, Idle, NoReply, IInv, TypeOK, KeyInv, FlagInv
<1>4. SuccessMeansImported'
  BY DEF Call, Idle, NoReply, IInv, TypeOK, KeyInv, FlagInv,
     SuccessMeansImported
<1>5. QED
  BY <1>1, <1>2, <1>3, <1>4 DEF IInv

LEMMA GetWalletInfoStep ==
  ASSUME IInv, GetWalletInfo
  PROVE  IInv'
<1>1. TypeOK'
  BY DEF GetWalletInfo, IInv, TypeOK
<1>2. KeyInv'
  BY DEF GetWalletInfo, IInv, TypeOK, KeyInv, FlagInv
<1>3. FlagInv'
  BY DEF GetWalletInfo, IInv, TypeOK, KeyInv, FlagInv
<1>4. SuccessMeansImported'
  BY DEF GetWalletInfo, IInv, TypeOK, KeyInv, FlagInv, SuccessMeansImported
<1>5. QED
  BY <1>1, <1>2, <1>3, <1>4 DEF IInv

LEMMA GetBlockChainInfoStep ==
  ASSUME IInv, GetBlockChainInfo
  PROVE  IInv'
<1>1. TypeOK'
  BY DEF GetBlockChainInfo, IInv, TypeOK
<1>2. KeyInv'
  BY DEF GetBlockChainInfo, IInv, TypeOK, KeyInv, FlagInv
<1>3. FlagInv'
  BY DEF GetBlockChainInfo, IInv, TypeOK, KeyInv, FlagInv
<1>4. SuccessMeansImported'
  BY DEF GetBlockChainInfo, IInv, TypeOK, KeyInv, FlagInv, SuccessMeansImported
<1>5. QED
  BY <1>1, <1>2, <1>3, <1>4 DEF IInv

\* The key is known, and the call goes on as its flags say.
LEMMA KeyKnownStep ==
  ASSUME IInv, pc \in {"masterkey", "writekey"},
         NEW key \in Key, keyFile' = key, Imported => keyFile = key,
         call' = [call EXCEPT !.key = key], pc' = AfterKey,
         UNCHANGED <<wallet, imported, reply>>
  PROVE  IInv'
<1>1. /\ call \in Local
      /\ call'.template = call.template
      /\ call'.create = call.create
      /\ call'.import = call.import
      /\ call'.key = key
      /\ call' \in Local
  BY DEF IInv, TypeOK
<1>2. /\ ~ call.import => Imported
      /\ call.create => call.import
      /\ call.import /\ ~ call.create => ~ Imported
  BY DEF IInv, FlagInv
<1>3. /\ call.create => pc' = "createwallet"
      /\ ~ call.create /\ call.import => pc' = "getdescriptorinfo"
      /\ ~ call.create /\ ~ call.import => pc' = "return"
      /\ pc' \in {"createwallet", "getdescriptorinfo", "return"}
  BY <1>1 DEF AfterKey
<1>4. TypeOK'
  BY <1>1, <1>3 DEF IInv, TypeOK
<1>5. KeyInv'
  BY <1>1, <1>3 DEF IInv, KeyInv
<1>6. FlagInv'
  BY <1>1, <1>2, <1>3 DEF IInv, FlagInv
<1>7. SuccessMeansImported'
  BY DEF IInv, SuccessMeansImported
<1>8. QED
  BY <1>4, <1>5, <1>6, <1>7 DEF IInv

LEMMA MasterKeyStep ==
  ASSUME IInv, CreateOrLoadMasterKey
  PROVE  IInv'
<1>1. CASE keyFile = "absent" /\ keyFile' = "partial" /\ pc' = "writekey"
           /\ UNCHANGED <<call, reply>>
  <2>1. UNCHANGED <<wallet, imported>> /\ pc = "masterkey" /\ ~ Imported
    BY <1>1 DEF CreateOrLoadMasterKey, IInv, TypeOK, KeyInv
  <2>2. QED
    BY <1>1, <2>1 DEF IInv, TypeOK, KeyInv, FlagInv, SuccessMeansImported
<1>2. CASE keyFile = "partial" /\ ReturnError /\ UNCHANGED keyFile
  BY <1>2, EndStep DEF CreateOrLoadMasterKey, ReturnError
<1>3. CASE keyFile \in Key /\ call' = [call EXCEPT !.key = keyFile]
           /\ pc' = AfterKey /\ UNCHANGED <<keyFile, reply>>
  BY <1>3, KeyKnownStep DEF CreateOrLoadMasterKey
<1>4. QED
  BY <1>1, <1>2, <1>3 DEF CreateOrLoadMasterKey

LEMMA WriteMasterKeyStep ==
  ASSUME IInv, NEW key \in Key, WriteMasterKey(key)
  PROVE  IInv'
<1>1. ~ Imported
  BY DEF WriteMasterKey, IInv, TypeOK, KeyInv
<1>2. QED
  BY <1>1, KeyKnownStep DEF WriteMasterKey

LEMMA CreateWalletStep ==
  ASSUME IInv, CreateWallet
  PROVE  IInv'
<1>1. CASE wallet = "missing"
  <2>1. /\ wallet' = "loaded"
        /\ pc = "createwallet"
        /\ pc' = "getdescriptorinfo"
        /\ ~ Imported
        /\ UNCHANGED <<imported, keyFile, call, reply>>
    BY <1>1 DEF CreateWallet, IInv, FlagInv
  <2>2. QED
    BY <2>1 DEF IInv, TypeOK, KeyInv, FlagInv, SuccessMeansImported
<1>2. CASE wallet # "missing"
  BY <1>2, EndStep DEF CreateWallet, ReturnError
<1>3. QED
  BY <1>1, <1>2

LEMMA GetDescriptorInfoStep ==
  ASSUME IInv, GetDescriptorInfo
  PROVE  IInv'
<1>1. TypeOK'
  BY DEF GetDescriptorInfo, IInv, TypeOK
<1>2. KeyInv'
  BY DEF GetDescriptorInfo, IInv, TypeOK, KeyInv, FlagInv
<1>3. FlagInv'
  BY DEF GetDescriptorInfo, IInv, TypeOK, KeyInv, FlagInv
<1>4. SuccessMeansImported'
  BY DEF GetDescriptorInfo, IInv, TypeOK, KeyInv, FlagInv, SuccessMeansImported
<1>5. QED
  BY <1>1, <1>2, <1>3, <1>4 DEF IInv

LEMMA ImportDescriptorsStep ==
  ASSUME IInv, ImportDescriptors
  PROVE  IInv'
<1>1. CASE wallet = "loaded"
  <2>1. /\ pc = "importdescriptors"
        /\ pc' = "return"
        /\ UNCHANGED <<wallet, keyFile, call, reply>>
        /\ Import
    BY <1>1 DEF ImportDescriptors
  <2>2. call.key \in Key /\ keyFile = call.key /\ ~ Imported
    BY <2>1 DEF IInv, KeyInv, FlagInv
  <2>3. CASE call.template \in Ranged
    <3>1. imported' = [key |-> call.key, template |-> call.template]
      BY <2>1, <2>3 DEF Import
    <3>2. QED
      BY <1>1, <2>1, <2>2, <2>3, <3>1
         DEF IInv, TypeOK, KeyInv, FlagInv, SuccessMeansImported
  <2>4. CASE call.template \notin Ranged
    <3>1. imported' = imported
      BY <2>1, <2>4 DEF Import
    <3>2. QED
      BY <1>1, <2>1, <2>2, <2>4, <3>1
         DEF IInv, TypeOK, KeyInv, FlagInv, SuccessMeansImported
  <2>5. QED
    BY <2>3, <2>4
<1>2. CASE wallet # "loaded"
  BY <1>2, EndStep DEF ImportDescriptors, ReturnError
<1>3. QED
  BY <1>1, <1>2

LEMMA ReturnStep ==
  ASSUME IInv, Return
  PROVE  IInv'
<1>1. TypeOK'
  BY DEF Return, Idle, IInv, TypeOK
<1>2. KeyInv'
  BY DEF Return, Idle, IInv, TypeOK, KeyInv, FlagInv
<1>3. FlagInv'
  BY DEF Return, Idle, IInv, TypeOK, KeyInv, FlagInv
<1>4. SuccessMeansImported'
  BY DEF Return, Idle, IInv, TypeOK, KeyInv, FlagInv, SuccessMeansImported
<1>5. QED
  BY <1>1, <1>2, <1>3, <1>4 DEF IInv

LEMMA AnswerLostStep ==
  ASSUME IInv, AnswerLost
  PROVE  IInv'
<1>1. TypeOK'
  BY DEF AnswerLost, Import, ReturnError, ErrorReply, Idle, IInv, TypeOK
<1>2. KeyInv'
  BY DEF AnswerLost, Import, ReturnError, ErrorReply, Idle, IInv, TypeOK,
     KeyInv, FlagInv
<1>3. FlagInv'
  BY DEF AnswerLost, Import, ReturnError, ErrorReply, Idle, IInv, TypeOK,
     KeyInv, FlagInv
<1>4. SuccessMeansImported'
  BY DEF AnswerLost, Import, ReturnError, ErrorReply, Idle, IInv, TypeOK,
     KeyInv, FlagInv, SuccessMeansImported
<1>5. QED
  BY <1>1, <1>2, <1>3, <1>4 DEF IInv

LEMMA BitcoindStep ==
  ASSUME IInv, BitcoindRestart \/ LoadWallet
  PROVE  IInv'
<1>1. TypeOK'
  BY DEF BitcoindRestart, LoadWallet, IInv, TypeOK
<1>2. KeyInv'
  BY DEF BitcoindRestart, LoadWallet, IInv, TypeOK, KeyInv, FlagInv
<1>3. FlagInv'
  BY DEF BitcoindRestart, LoadWallet, IInv, TypeOK, KeyInv, FlagInv
<1>4. SuccessMeansImported'
  BY DEF BitcoindRestart, LoadWallet, IInv, TypeOK, KeyInv, FlagInv,
     SuccessMeansImported
<1>5. QED
  BY <1>1, <1>2, <1>3, <1>4 DEF IInv

LEMMA StepIInv == IInv /\ [Next]_vars => IInv'
<1> SUFFICES ASSUME IInv, [Next]_vars PROVE IInv'
  OBVIOUS
<1>1. CASE UNCHANGED vars
  BY <1>1 DEF vars, IInv, TypeOK, KeyInv, FlagInv, SuccessMeansImported
<1>2. CASE Reject \/ Fail \/ Crash
  BY <1>2, EndStep DEF Reject, Fail, Crash, ReturnError
<1>3. CASE Step
  BY <1>3, GetWalletInfoStep, GetBlockChainInfoStep, MasterKeyStep,
     WriteMasterKeyStep, CreateWalletStep, GetDescriptorInfoStep,
     ImportDescriptorsStep, ReturnStep DEF Step
<1>4. CASE (\E template \in Template : Call(template)) \/ AnswerLost
           \/ BitcoindRestart \/ LoadWallet
  BY <1>4, CallStep, AnswerLostStep, BitcoindStep
<1>5. QED
  BY <1>1, <1>2, <1>3, <1>4 DEF Next

\* The state of the call, the wallet and the file stays of the right type.
THEOREM TypeCorrect == Spec => []TypeOK
<1>1. IInv => TypeOK
  BY DEF IInv
<1>2. QED
  BY <1>1, InitIInv, StepIInv, PTL DEF Spec

\* The key in the wallet is the key on disk, for any number of keys, retries
\* and crashes.
THEOREM KeyIsStored == Spec => []WalletKeyIsStored
<1>1. IInv => WalletKeyIsStored
  BY DEF IInv, KeyInv, WalletKeyIsStored
<1>2. QED
  BY <1>1, InitIInv, StepIInv, PTL DEF Spec

\* A success that is reported for an acceptable descriptor is one.
THEOREM WalletCorrect == Spec => []SuccessMeansImported
<1>1. IInv => SuccessMeansImported
  BY DEF IInv
<1>2. QED
  BY <1>1, InitIInv, StepIInv, PTL DEF Spec

\* A complete key file is never written again.
THEOREM KeyNeverReplacedHolds == Spec => KeyNeverReplaced
<1>1. IInv /\ [Next]_vars => ((keyFile \in Key) => (keyFile' = keyFile))
  BY DEF IInv, KeyInv, Next, vars, Step, Call, Reject, GetWalletInfo,
     GetBlockChainInfo, CreateOrLoadMasterKey, WriteMasterKey, CreateWallet,
     GetDescriptorInfo, ImportDescriptors, Return, Fail, AnswerLost, Crash,
     BitcoindRestart, LoadWallet
<1>2. QED
  BY <1>1, InitIInv, StepIInv, PTL DEF Spec, KeyNeverReplaced

LEMMA ImportStays ==
  ASSUME IInv, [Next]_vars, Imported
  PROVE  imported' = imported
  BY DEF IInv, FlagInv, Next, vars, Step, Call, Reject, GetWalletInfo,
     GetBlockChainInfo, CreateOrLoadMasterKey, WriteMasterKey, CreateWallet,
     GetDescriptorInfo, ImportDescriptors, Import, Return, Fail, AnswerLost,
     Crash, BitcoindRestart, LoadWallet

\* Descriptors that are imported stay: the answer of getwalletinfo that the
\* call acts on cannot be out of date in this respect.
THEOREM FirstImportStaysHolds == Spec => FirstImportStays
<1>1. IInv /\ [Next]_vars => (Imported => imported' = imported)
  BY ImportStays
<1>2. QED
  BY <1>1, InitIInv, StepIInv, PTL DEF Spec, FirstImportStays
=============================================================================
