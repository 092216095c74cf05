-------------------------------- MODULE Pod --------------------------------
(***************************************************************************)
(* The process of the pod controller (main.go): its identity is loaded or  *)
(* created, then the connection loop and the goroutine that renews the     *)
(* token run side by side.  The connection loop reads the token when it    *)
(* makes a messaging client and keeps it through all retries, and the      *)
(* refill goroutine reads it anew for every registration of pre-keys.      *)
(***************************************************************************)
EXTENDS Connection, Identity

VARIABLE
  clientToken   \* the token of the messaging client that is connecting: how
                \* long it is valid, 0 also if it is none or none is connecting

podVars == <<vars, idVars, clientToken>>

PodTypeOK ==
  /\ TypeOK
  /\ IdentityTypeOK
  /\ clientToken \in 0..Lifetime
  /\ renewing # "off" => main \in Connecting \cup Connected

PodInit ==
  /\ Init
  /\ IdentityInit
  /\ clientToken = 0

Booted == identity \in Key

\* With the process, its identity and token are gone.
ProcessEnds ==
  /\ identity' = NoKey
  /\ authToken' = Empty
  /\ renewing' = "off"
  /\ wait' = 0
  /\ excused' = 0
  /\ clientToken' = 0
  /\ UNCHANGED keyFile

\* What a step of Connection that has to do with no token leaves of the rest.
Rest ==
  IF main' \in Ended THEN ProcessEnds ELSE UNCHANGED <<idVars, clientToken>>

Validity(token) == IF Valid(token) THEN token ELSE 0
-----------------------------------------------------------------------------
(* The start.                                                              *)

Boot ==
  /\ main = "auth"
  /\ OpenKeyFile \/ (\E key \in Key : SaveKey(key)) \/ LoadKey
  /\ UNCHANGED <<vars, clientToken>>

\* A file that cannot be created, written, read or parsed, or no random bytes.
BootFails ==
  /\ main = "auth"
  /\ ~ Booted
  /\ Exit("fatal")
  /\ UNCHANGED keysUsed
  /\ ProcessEnds

PodAuthSucceeds ==
  /\ Booted
  /\ AuthSucceeds
  /\ authToken' \in AuthAnswers
  /\ clientToken' = Validity(authToken')
  /\ renewing' = "check"
  /\ UNCHANGED <<keyFile, identity, wait, excused>>

AuthDoesNot == Booted /\ (AuthGivesUp \/ AuthFails) /\ Rest
-----------------------------------------------------------------------------
(* Requests carry a token.                                                 *)

Request(step) ==
  /\ Valid(clientToken)
  /\ step
  /\ UNCHANGED idVars
  /\ clientToken' = IF main' \in Connecting THEN clientToken ELSE 0

PodRetry == Retry /\ Rest

\* The loop starts over with the token of this moment.
PodReceiveNil ==
  /\ ReceiveNil
  /\ \E token \in AuthToken : clientToken' = Validity(token)
  /\ UNCHANGED idVars

PodReceiveInterrupt == ReceiveInterrupt /\ Rest

Handle ==
  /\ ReceiveMessage \/ Process \/ Signal
  /\ UNCHANGED <<idVars, clientToken>>

PodRefillKeys(c) ==
  /\ RefillKeys(c)
  /\ \E token \in AuthToken : Valid(token)
  /\ UNCHANGED <<idVars, clientToken>>

PodRefill(c) ==
  \/ PodRefillKeys(c)
  \/ RefillFails(c) /\ ProcessEnds
  \/ (Wake(c) \/ RefillEnds(c)) /\ UNCHANGED <<idVars, clientToken>>
-----------------------------------------------------------------------------
(* The renewing goroutine and the clock.                                   *)

RenewPanics ==
  /\ renewing = "check"
  /\ authToken = Garbage
  /\ Exit("fatal")
  /\ UNCHANGED keysUsed
  /\ ProcessEnds

Renewing == (Check \/ Renew \/ RenewFails) /\ UNCHANGED <<vars, clientToken>>

PodTick ==
  /\ Tick
  /\ clientToken' = Older(clientToken)
  /\ UNCHANGED vars

Environment == (Deliver \/ ServerCloses \/ Interrupt \/ Restart) /\ Rest

PodMain ==
  \/ Boot
  \/ BootFails
  \/ PodAuthSucceeds
  \/ AuthDoesNot
  \/ Request(RegisterAccount)
  \/ Request(RegisterKeys)
  \/ Request(NewWSClient)
  \/ PodRetry
  \/ PodReceiveNil
  \/ PodReceiveInterrupt
  \/ Handle

PodNext ==
  \/ PodMain
  \/ \E c \in Client : PodRefill(c)
  \/ RenewPanics
  \/ Renewing
  \/ PodTick
  \/ Environment

PodSpec == PodInit /\ [][PodNext]_podVars

\* The main goroutine waits for the answer of Auth.
Authenticating == main = "auth" /\ Booted /\ tries < RetryCounts - 1

\* Every goroutine that can run is run, the requests of a messaging client end
\* by their timeout of ten seconds and sleeps by themselves, a dead process is
\* restarted.  The request of Auth and those of two commands to bitcoind have
\* no timeout and may never end.  select takes any of its ready cases with the
\* same probability, so an interrupt is not passed over for ever.
PodFairness ==
  /\ WF_podVars(PodMain /\ ~ Authenticating /\ main # "process")
  /\ SF_podVars(PodReceiveInterrupt)
  /\ \A c \in Client : WF_podVars(PodRefill(c))
  /\ WF_podVars(RenewPanics \/ (Renewing /\ renewing = "check"))
  /\ WF_podVars(Restart /\ Rest)

FairPod == PodSpec /\ PodFairness
-----------------------------------------------------------------------------
(* Properties.                                                             *)

\* No step of the start or of connecting fails for ever.
Succeeds ==
  /\ SF_podVars(Boot)
  /\ SF_podVars(PodAuthSucceeds /\ Valid(authToken'))
  /\ SF_podVars(Request(RegisterAccount))
  /\ SF_podVars(Request(RegisterKeys))
  /\ SF_podVars(Request(NewWSClient))

\* If nothing fails for ever, commands return, and the key file is not left half
\* written, a pod that is not interrupted is connected again and again, through
\* retries, closed connections, restarts, tokens that expire while it connects,
\* and answers that leave the renewing goroutine without a token.
StaysConnected ==
  /\ Succeeds
  /\ ProcessReturns
  /\ []~ interrupted
  /\ <>[](keyFile # "partial")
  => []<>(ws = "open")
=============================================================================
