------------------------- MODULE NotificationProofs -------------------------
(***************************************************************************)
(* Proofs about Notification, for any number of inputs, keys and           *)
(* descriptors.  Every behaviour of it is one of Wallet as far as the      *)
(* variables of Wallet go, so that the theorems of WalletProofs hold here  *)
(* too; on top of the invariant proved there, NInv follows the transaction *)
(* through the calls of finish_psbt and through the handler.               *)
(***************************************************************************)
EXTENDS Notification, WalletProofs

USE NotificationAssumption DEF Imported

\* What the steps of finish_psbt rely on: what is finalized and broadcast needed
\* no signature, or the wallet's, which there is none of before the import.
SpendInv ==
  /\ SentMeansBroadcast
  /\ spending \in {"finalizepsbt", "sendrawtransaction"} =>
       lacks = "nothing" \/ (lacks = "own" /\ Imported)

\* What the handler has collected: what it has seen may be old, but was so.
HandlerInv ==
  /\ handler # "idle" => tx # "unknown"
  /\ handler \in {"getrawtransaction", "prepare", "post"} =>
       seen \in {tx, "mempool"}
  /\ handler \in {"idle", "gettransaction"} => resolved = 0
  /\ vins = Addressed \cap 1..resolved
  /\ handler = "getrawtransaction" => resolved < Inputs
  /\ handler \in {"prepare", "post"} => resolved = Inputs
  /\ handler = "post" => details

NInv ==
  /\ IInv
  /\ NotificationTypeOK
  /\ SpendInv
  /\ HandlerInv

LEMMA InitNInv == NotificationInit => NInv
<1> SUFFICES ASSUME NotificationInit PROVE NInv
  OBVIOUS
<1>1. Init /\ IInv
  BY InitIInv DEF NotificationInit, SpendingInit
<1>2. resolved \in 0..Inputs /\ vins = {}
  BY DEF NotificationInit
<1>3. NotificationTypeOK
  BY <1>1, <1>2, Zenon DEF NotificationInit, SpendingInit, NotificationTypeOK,
     SpendingTypeOK, IInv
<1>4. SpendInv /\ HandlerInv
  <2>1. vins = Addressed \cap 1..resolved
    BY DEF NotificationInit
  <2>2. QED
    BY <2>1 DEF NotificationInit, SpendingInit, SpendInv, SentMeansBroadcast,
       HandlerInv
<1>5. QED
  BY <1>1, <1>3, <1>4 DEF NInv

\* finish_psbt and the handler do nothing to the wallet or the key.
LEMMA WalletImplemented == [NotificationNext]_allVars => [Next]_vars
<1> SUFFICES ASSUME [NotificationNext]_allVars PROVE [Next]_vars
  OBVIOUS
<1>1. CASE WalletStep
  BY <1>1 DEF WalletStep, Next
<1>2. CASE UNCHANGED vars
  BY <1>2
<1>3. QED
  BY <1>1, <1>2 DEF NotificationNext, SpendingNext, FinishPSBT, FinishStep,
     WalletProcessPsbt, FinalizePSBT, SendRawTransaction, FinishFails,
     BroadcastAnswerLost, FinishCrashes, Confirm, allVars

LEMMA WalletStepNInv ==
  ASSUME NInv, WalletStep, UNCHANGED notifyVars, IInv'
  PROVE  NInv'
<1>1. UNCHANGED <<spending, lacks, sent, tx>>
  BY DEF WalletStep, spendVars
<1>2. UNCHANGED <<handler, seen, details, resolved, vins>>
  BY DEF notifyVars
<1>3. pc' = "idle" \/ spending' = "idle"
  <2>1. CASE spending = "idle"
    BY <1>1, <2>1
  <2>2. CASE spending # "idle"
    <3>1. pc = "idle"
      BY <2>2 DEF NInv, NotificationTypeOK, SpendingTypeOK
    <3>2. BitcoindRestart \/ LoadWallet
      BY <2>2, <3>1 DEF WalletStep, Step, GetWalletInfo, GetBlockChainInfo,
         CreateOrLoadMasterKey, WriteMasterKey, CreateWallet,
         GetDescriptorInfo, ImportDescriptors, Return, Fail, AnswerLost, Crash
    <3>3. QED
      BY <3>1, <3>2 DEF BitcoindRestart, LoadWallet
  <2>3. QED
    BY <2>1, <2>2
<1>4. NotificationTypeOK'
  BY <1>1, <1>2, <1>3, Zenon
     DEF NInv, NotificationTypeOK, SpendingTypeOK, IInv
<1>5. Imported => imported' = imported
  <2>1. [Next]_vars
    BY DEF WalletStep, Next
  <2>2. QED
    BY <2>1, ImportStays DEF NInv
<1>6. Imported' => imported'.key = keyFile'
  BY DEF IInv, KeyInv
<1>7. SpendInv'
  BY <1>1, <1>5, <1>6 DEF NInv, SpendInv, SentMeansBroadcast
<1>8. HandlerInv'
  BY <1>1, <1>2 DEF NInv, HandlerInv
<1>9. QED
  BY <1>4, <1>7, <1>8 DEF NInv

\* The transaction only goes forward: unknown, mempool, confirmed.
LEMMA SpendingStepNInv ==
  ASSUME NInv, UNCHANGED <<vars, notifyVars>>, IInv',
         \/ \E missing \in {"nothing", "own", "others"} : FinishPSBT(missing)
         \/ FinishStep \/ FinishFails \/ BroadcastAnswerLost
         \/ FinishCrashes \/ Confirm
  PROVE  NInv'
<1>1. UNCHANGED <<wallet, imported, keyFile, pc, call, reply>>
  BY DEF vars
<1>2. UNCHANGED <<handler, seen, details, resolved, vins>>
  BY DEF notifyVars
<1>3. /\ spending' \in {"idle", "walletprocesspsbt", "finalizepsbt",
                        "sendrawtransaction"}
      /\ lacks' \in {"nothing", "own", "others"}
      /\ sent' \in {"none", "ok", "error"}
      /\ tx' \in {"unknown", "mempool", "confirmed"}
      /\ pc = "idle" \/ spending' = "idle"
  BY DEF NInv, NotificationTypeOK, SpendingTypeOK, FinishPSBT, FinishStep,
     WalletProcessPsbt, FinalizePSBT, SendRawTransaction, FinishFails,
     BroadcastAnswerLost, FinishCrashes, Confirm, EndSpending
<1>4. NotificationTypeOK'
  BY <1>1, <1>2, <1>3, Zenon
     DEF NInv, NotificationTypeOK, SpendingTypeOK, IInv
<1>5. \/ tx' = tx
      \/ tx = "unknown" /\ tx' = "mempool"
      \/ tx = "mempool" /\ tx' = "confirmed"
  BY DEF FinishPSBT, FinishStep, WalletProcessPsbt, FinalizePSBT,
     SendRawTransaction, FinishFails, BroadcastAnswerLost, FinishCrashes,
     Confirm
<1>6. /\ sent' = "ok" =>
           /\ tx' # "unknown"
           /\ lacks' = "nothing" \/ (lacks' = "own" /\ Imported)
      /\ spending' \in {"finalizepsbt", "sendrawtransaction"} =>
           lacks' = "nothing" \/ (lacks' = "own" /\ Imported)
  BY <1>5 DEF NInv, SpendInv, SentMeansBroadcast, NotificationTypeOK,
     SpendingTypeOK, FinishPSBT, FinishStep, WalletProcessPsbt, FinalizePSBT,
     SendRawTransaction, FinishFails, BroadcastAnswerLost, FinishCrashes,
     Confirm, EndSpending
<1>7. SpendInv'
  BY <1>1, <1>6 DEF NInv, IInv, KeyInv, SpendInv, SentMeansBroadcast
<1>8. HandlerInv'
  BY <1>2, <1>5 DEF NInv, HandlerInv
<1>9. QED
  BY <1>4, <1>7, <1>8 DEF NInv

LEMMA HandlerStepNInv ==
  ASSUME NInv, NotificationStep, UNCHANGED <<vars, spendVars>>, IInv'
  PROVE  NInv'
<1>1. UNCHANGED <<wallet, imported, keyFile, pc, call, reply>>
  BY DEF vars
<1>2. UNCHANGED <<spending, lacks, sent, tx>>
  BY DEF spendVars
<1>3. resolved' \in 0..Inputs
  <2>1. CASE GetVinAddresses
    <3>1. /\ resolved \in 0..Inputs
          /\ resolved < Inputs
          /\ resolved' = resolved + 1
      BY <2>1 DEF GetVinAddresses, NInv, NotificationTypeOK, HandlerInv
    <3>2. QED
      BY <3>1
  <2>2. CASE resolved' \in {0, resolved}
    BY <2>2 DEF NInv, NotificationTypeOK
  <2>3. QED
    BY <2>1, <2>2 DEF NotificationStep, TransactionNotify, GetTransaction,
       Prepare, Post, ReplyWithError, EndNotification
<1>4. /\ handler' \in {"idle", "gettransaction", "getrawtransaction",
                       "prepare", "post"}
      /\ seen' \in {"unknown", "mempool", "confirmed"}
      /\ details' \in BOOLEAN
  BY Zenon DEF NInv, NotificationTypeOK, SpendingTypeOK, NotificationStep,
     TransactionNotify, GetTransaction, GetVinAddresses, Prepare, Post,
     ReplyWithError, EndNotification
<1>5. vins' \subseteq 1..Inputs /\ vins' = Addressed \cap 1..resolved'
  <2>1. vins = Addressed \cap 1..resolved /\ resolved \in 0..Inputs
    BY DEF NInv, HandlerInv, NotificationTypeOK
  <2>2. vins' = Addressed \cap 1..resolved'
    <3>1. CASE GetVinAddresses
      <4>1. 1..(resolved + 1) = (1..resolved) \cup {resolved + 1}
        BY <2>1
      <4>2. QED
        BY <2>1, <3>1, <4>1 DEF GetVinAddresses
    <3>2. CASE TransactionNotify \/ GetTransaction
      BY <2>1, <3>2 DEF TransactionNotify, GetTransaction
    <3>3. CASE Prepare \/ Post \/ ReplyWithError
      BY <2>1, <3>3 DEF Prepare, Post, ReplyWithError, EndNotification
    <3>4. QED
      BY <3>1, <3>2, <3>3 DEF NotificationStep
  <2>3. QED
    BY <2>2
<1>6. NotificationTypeOK'
  BY <1>1, <1>2, <1>3, <1>4, <1>5, Zenon
     DEF NInv, NotificationTypeOK, SpendingTypeOK, IInv
<1>7. SpendInv'
  BY <1>1, <1>2 DEF NInv, SpendInv, SentMeansBroadcast
<1>8. /\ handler' \in {"idle", "gettransaction"} => resolved' = 0
      /\ handler' = "getrawtransaction" => resolved' < Inputs
      /\ handler' \in {"prepare", "post"} => resolved' = Inputs
  <2>1. CASE GetTransaction
    BY <2>1 DEF GetTransaction, NInv, HandlerInv, NotificationTypeOK
  <2>2. CASE GetVinAddresses
    BY <2>2 DEF GetVinAddresses, NInv, HandlerInv, NotificationTypeOK
  <2>3. CASE TransactionNotify \/ Prepare \/ Post \/ ReplyWithError
    BY <2>3 DEF TransactionNotify, Prepare, Post, ReplyWithError,
       EndNotification, NInv, HandlerInv
  <2>4. QED
    BY <2>1, <2>2, <2>3 DEF NotificationStep
<1>9. /\ handler' # "idle" => tx' # "unknown"
      /\ handler' \in {"getrawtransaction", "prepare", "post"} =>
           seen' \in {tx', "mempool"}
  BY <1>2 DEF NInv, HandlerInv, NotificationStep, TransactionNotify,
     GetTransaction, GetVinAddresses, Prepare, Post, ReplyWithError,
     EndNotification
<1>10. handler' = "post" => details'
  BY Zenon DEF NInv, HandlerInv, NotificationStep, TransactionNotify,
     GetTransaction, GetVinAddresses, Prepare, Post, ReplyWithError,
     EndNotification
<1>11. QED
  BY <1>5, <1>6, <1>7, <1>8, <1>9, <1>10 DEF NInv, HandlerInv

LEMMA StepNInv == NInv /\ [NotificationNext]_allVars => NInv'
<1> SUFFICES ASSUME NInv, [NotificationNext]_allVars PROVE NInv'
  OBVIOUS
<1>1. IInv'
  BY WalletImplemented, StepIInv DEF NInv
<1>2. CASE WalletStep /\ UNCHANGED notifyVars
  BY <1>1, <1>2, WalletStepNInv
<1>3. CASE UNCHANGED notifyVars /\
           \/ \E missing \in {"nothing", "own", "others"} : FinishPSBT(missing)
           \/ FinishStep \/ FinishFails \/ BroadcastAnswerLost
           \/ FinishCrashes \/ Confirm
  <2>1. UNCHANGED vars
    BY <1>3 DEF FinishPSBT, FinishStep, WalletProcessPsbt, FinalizePSBT,
       SendRawTransaction, FinishFails, BroadcastAnswerLost, FinishCrashes,
       Confirm
  <2>2. QED
    BY <1>1, <1>3, <2>1, SpendingStepNInv
<1>4. CASE NotificationStep /\ UNCHANGED <<vars, spendVars>>
  BY <1>1, <1>4, HandlerStepNInv
<1>5. CASE UNCHANGED allVars
  BY <1>1, <1>5 DEF NInv, NotificationTypeOK, SpendingTypeOK, SpendInv,
     SentMeansBroadcast, HandlerInv, allVars, vars, spendVars, notifyVars, IInv
<1>6. QED
  BY <1>2, <1>3, <1>4, <1>5 DEF NotificationNext, SpendingNext

\* Beside finish_psbt and the notifications, create_wallet behaves as it does
\* alone: every theorem about Spec is one about NotificationSpec.
THEOREM WalletBeside == NotificationSpec => Spec
<1>1. NotificationInit => Init
  BY DEF NotificationInit, SpendingInit
<1>2. QED
  BY <1>1, WalletImplemented, PTL DEF NotificationSpec, Spec

LEMMA NotificationInvariant == NotificationSpec => []NInv
  BY InitNInv, StepNInv, PTL DEF NotificationSpec

\* All of the state keeps its type, and no two commands overlap.
THEOREM NotificationTypeCorrect == NotificationSpec => []NotificationTypeOK
<1>1. NInv => NotificationTypeOK
  BY DEF NInv
<1>2. QED
  BY <1>1, NotificationInvariant, PTL

\* finish_psbt reports success only for a transaction that is broadcast and was
\* signed with the key on disk.
THEOREM SpendingCorrect == NotificationSpec => []SentMeansBroadcast
<1>1. NInv => SentMeansBroadcast
  BY DEF NInv, SpendInv
<1>2. QED
  BY <1>1, NotificationInvariant, PTL

\* What is posted is whole, however many inputs had to be asked for.
THEOREM PostsCorrect == NotificationSpec => []PostsWhole
<1>1. NInv => PostsWhole
  BY DEF NInv, HandlerInv, PostsWhole
<1>2. QED
  BY <1>1, NotificationInvariant, PTL
=============================================================================
