---------------------------- MODULE Notification ----------------------------
(***************************************************************************)
(* The transaction notification (notification.go): bitcoind calls the pod  *)
(* for a transaction of its wallet, a handler of the HTTP server asks      *)
(* bitcoind for the transaction and for the transaction of each of its     *)
(* inputs, and posts what it has found to the notification service.  It    *)
(* runs beside the commands, and bitcoind can lose the wallet, or the      *)
(* transaction be confirmed, between any two of its steps.  Handlers share *)
(* no state that they write, so one of them is modelled.                   *)
(***************************************************************************)
EXTENDS Spending

CONSTANTS
  Inputs,     \* the number of inputs of the transaction
  Addressed   \* external: those whose output has an address, as far as
              \* getrawtransaction tells

ASSUME NotificationAssumption ==
  /\ Inputs \in Nat \ {0}
  /\ Addressed \subseteq 1..Inputs

VARIABLES
  handler,    \* the next step of transactionNotify
  seen,       \* the transaction as gettransaction has told it
  details,    \* whether it lists a detail of the wallet's
  resolved,   \* the number of inputs that have been asked for
  vins        \* those of them whose address was found

notifyVars == <<handler, seen, details, resolved, vins>>
allVars == <<vars, spendVars, notifyVars>>

NotificationTypeOK ==
  /\ SpendingTypeOK
  /\ handler \in {"idle", "gettransaction", "getrawtransaction", "prepare",
                 "post"}
  /\ seen \in {"unknown", "mempool", "confirmed"}
  /\ details \in BOOLEAN
  /\ resolved \in 0..Inputs
  /\ vins \subseteq 1..Inputs

NotificationInit ==
  /\ SpendingInit
  /\ handler = "idle"
  /\ seen = "unknown"
  /\ details = FALSE
  /\ resolved = 0
  /\ vins = {}

EndNotification ==
  /\ handler' = "idle"
  /\ seen' = "unknown"
  /\ details' = FALSE
  /\ resolved' = 0
  /\ vins' = {}

\* External: bitcoind has seen the transaction, or its confirmation.
TransactionNotify ==
  /\ handler = "idle"
  /\ tx # "unknown"
  /\ handler' = "gettransaction"
  /\ UNCHANGED <<seen, details, resolved, vins>>

\* The wallet must be loaded, and knows a transaction by its descriptors.
GetTransaction ==
  /\ handler = "gettransaction"
  /\ wallet = "loaded"
  /\ Imported
  /\ handler' = "getrawtransaction"
  /\ seen' = tx
  /\ details' \in BOOLEAN
  /\ UNCHANGED <<resolved, vins>>

\* Mutation: an input for which the request fails is left out.
GetVinAddressesSkipsErrors ==
  /\ handler = "getrawtransaction"
  /\ resolved' = resolved + 1
  /\ vins' \in {vins, vins \cup ({resolved'} \cap Addressed)}
  /\ handler' = IF resolved' < Inputs THEN handler ELSE "prepare"
  /\ UNCHANGED <<seen, details>>

\* For each input in turn.  An output that is not in the answer, or has no
\* address there, adds nothing to the list, and is no error.
GetVinAddresses ==
  /\ handler = "getrawtransaction"
  /\ resolved' = resolved + 1
  /\ vins' = vins \cup ({resolved'} \cap Addressed)
  /\ handler' = IF resolved' < Inputs THEN handler ELSE "prepare"
  /\ UNCHANGED <<seen, details>>

\* The category is that of the first detail.  If there is none, the index out
\* of range panics, and the HTTP server drops the request.
Prepare ==
  /\ handler = "prepare"
  /\ IF details
       THEN handler' = "post" /\ UNCHANGED <<seen, details, resolved, vins>>
       ELSE EndNotification

\* Whatever the service answers, the handler ends; there is no other try.
Post ==
  /\ handler = "post"
  /\ EndNotification

\* A request fails, and bitcoind is answered with status 500.
ReplyWithError ==
  /\ handler # "idle"
  /\ EndNotification

NotificationStep ==
  \/ TransactionNotify
  \/ GetTransaction
  \/ GetVinAddresses
  \/ Prepare
  \/ Post
  \/ ReplyWithError

NotificationNext ==
  \/ SpendingNext /\ UNCHANGED notifyVars
  \/ NotificationStep /\ UNCHANGED <<vars, spendVars>>

NotificationSpec == NotificationInit /\ [][NotificationNext]_allVars

FairNotification == NotificationSpec /\ Fairness /\ SpendingFairness
-----------------------------------------------------------------------------
(* Properties.                                                             *)

\* What is posted has a category and every address of an input that bitcoind
\* tells: none is missing because its request failed, although some may be,
\* without a sign, because their outputs have none.  It says nothing that is
\* not so, although bitcoind and the network go on while it is put together.
PostsWhole ==
  handler = "post" =>
    /\ details
    /\ vins = Addressed
    /\ seen \in {tx, "mempool"}
    /\ tx # "unknown"
=============================================================================
