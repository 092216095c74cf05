------------------------------ MODULE Spending ------------------------------
(***************************************************************************)
(* The command finish_psbt (controller.go) beside create_wallet: three     *)
(* requests to bitcoind, which sign a PSBT with the wallet's key if that   *)
(* is still needed, finalize it and broadcast the transaction.  The        *)
(* message loop handles one command at a time, so the two never overlap,   *)
(* but bitcoind can be restarted, a request can fail or its answer be      *)
(* lost, and the process can die between any two steps.                    *)
(***************************************************************************)
EXTENDS Wallet

VARIABLES
  spending,   \* the next step of finishPSBT
  lacks,      \* what its PSBT is still to be signed by: no one, the wallet
              \* alone, or others
  sent,       \* what the last call returned: none, ok or error
  tx          \* external: the transaction, to the nodes of the network

spendVars == <<spending, lacks, sent, tx>>

SpendingTypeOK ==
  /\ TypeOK
  /\ spending \in {"idle", "walletprocesspsbt", "finalizepsbt",
                   "sendrawtransaction"}
  /\ lacks \in {"nothing", "own", "others"}
  /\ sent \in {"none", "ok", "error"}
  /\ tx \in {"unknown", "mempool", "confirmed"}
  /\ pc = "idle" \/ spending = "idle"

SpendingInit ==
  /\ Init
  /\ spending = "idle"
  /\ lacks = "others"
  /\ sent = "none"
  /\ tx = "unknown"

EndSpending(result) ==
  /\ spending' = "idle"
  /\ sent' = result
  /\ UNCHANGED lacks
-----------------------------------------------------------------------------
FinishPSBT(missing) ==
  /\ pc = "idle"
  /\ spending = "idle"
  /\ spending' = "walletprocesspsbt"
  /\ lacks' = missing
  /\ sent' = "none"
  /\ UNCHANGED <<vars, tx>>

\* Mutation: the PSBT is taken for complete whatever the answer says.
WalletProcessPsbtUnchecked ==
  /\ spending = "walletprocesspsbt"
  /\ IF wallet = "loaded"
       THEN spending' = "finalizepsbt" /\ UNCHANGED <<lacks, sent>>
       ELSE EndSpending("error")
  /\ UNCHANGED <<vars, tx>>

\* The wallet that is loaded adds its signature; it has no key to sign with
\* before the descriptors are imported.  Only whether the PSBT is complete then
\* is looked at: one that the cosigners have completed needs no key of the
\* pod, and one that is still incomplete is an error.
WalletProcessPsbt ==
  /\ spending = "walletprocesspsbt"
  /\ IF wallet = "loaded" /\ (lacks = "nothing" \/ (lacks = "own" /\ Imported))
       THEN spending' = "finalizepsbt" /\ UNCHANGED <<lacks, sent>>
       ELSE EndSpending("error")
  /\ UNCHANGED <<vars, tx>>

\* Mutation: the test whether the PSBT was finalized is turned round.
FinalizePSBTInverted ==
  /\ spending = "finalizepsbt"
  /\ EndSpending("error")
  /\ UNCHANGED <<vars, tx>>

FinalizePSBT ==
  /\ spending = "finalizepsbt"
  /\ spending' = "sendrawtransaction"
  /\ UNCHANGED <<vars, lacks, sent, tx>>

\* External: bitcoind accepts a transaction again while it waits in the memory
\* pool, and refuses it once it is confirmed.
SendRawTransaction ==
  /\ spending = "sendrawtransaction"
  /\ IF tx = "confirmed" THEN EndSpending("error") ELSE EndSpending("ok")
  /\ tx' = IF tx = "unknown" THEN "mempool" ELSE tx
  /\ UNCHANGED vars

FinishStep == WalletProcessPsbt \/ FinalizePSBT \/ SendRawTransaction

\* A request fails without effect.
FinishFails ==
  /\ spending # "idle"
  /\ EndSpending("error")
  /\ UNCHANGED <<vars, tx>>

\* The transaction is broadcast, and the client is told of an error.
BroadcastAnswerLost ==
  /\ spending = "sendrawtransaction"
  /\ tx = "unknown"
  /\ tx' = "mempool"
  /\ EndSpending("error")
  /\ UNCHANGED vars

\* The process dies in finishPSBT and is started again.
FinishCrashes ==
  /\ spending # "idle"
  /\ EndSpending("none")
  /\ UNCHANGED <<vars, tx>>

Confirm ==
  /\ tx = "mempool"
  /\ tx' = "confirmed"
  /\ UNCHANGED <<vars, spending, lacks, sent>>

\* create_wallet and what happens to bitcoind meanwhile.
WalletStep ==
  /\ \/ /\ spending = "idle"
        /\ Reject \/ \E template \in Template : Call(template)
     \/ Step \/ Fail \/ AnswerLost \/ Crash \/ BitcoindRestart \/ LoadWallet
  /\ UNCHANGED spendVars

SpendingNext ==
  \/ WalletStep
  \/ \E missing \in {"nothing", "own", "others"} : FinishPSBT(missing)
  \/ FinishStep
  \/ FinishFails
  \/ BroadcastAnswerLost
  \/ FinishCrashes
  \/ Confirm

\* As for create_wallet: a call ends, if bitcoind answers or breaks off; a user
\* goes on calling with a PSBT that the wallet has to complete; of infinitely
\* many tries of a step some succeed.
SpendingFairness ==
  /\ WF_spendVars(FinishStep \/ FinishFails)
  /\ SF_spendVars(FinishPSBT("own"))
  /\ SF_spendVars(WalletProcessPsbt /\ lacks = "own")
  /\ SF_spendVars(FinalizePSBT)
  /\ SF_spendVars(SendRawTransaction)
-----------------------------------------------------------------------------
(* Properties.                                                             *)

\* A client that is told of success has its transaction broadcast, and if its
\* PSBT lacked a signature, that was the wallet's, made with the key that is on
\* disk: no crash between signing, finalizing and broadcasting, and no repeated
\* call, reports what did not happen.
SentMeansBroadcast ==
  sent = "ok" =>
    /\ tx # "unknown"
    /\ lacks # "nothing" => /\ lacks = "own"
                           /\ Imported
                           /\ imported.key = keyFile

\* Interrupted anywhere, creating the wallet and spending from it are completed
\* by later calls: if from some time on bitcoind keeps the wallet loaded once
\* it exists, and the key file is not half written, the transaction is
\* broadcast.
EventuallyBroadcast ==
  <>[](wallet # "unloaded" /\ keyFile # "partial") => <>(tx # "unknown")
=============================================================================
