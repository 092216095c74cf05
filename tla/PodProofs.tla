----------------------------- MODULE PodProofs -----------------------------
(***************************************************************************)
(* Proofs about Pod, for any number of keys and of clients alive at once,  *)
(* any retry count, and any times of validity and renewal of a token.  The *)
(* connection loop keeps the invariant proved in ConnectionProofs; beside  *)
(* it, IdInv ties the identity to the key file, and the age of the token   *)
(* to the time that failing and slow renewals have cost.                   *)
(***************************************************************************)
EXTENDS Pod, ConnectionProofs

USE IdentityAssumption DEF Empty, Garbage, tokenVars, idVars

\* What is missing of the reserve of a token was excused, or slept away since
\* a check that found the token not due or got it: one interval at most.
RenewalInv ==
  /\ renewing = "off" => authToken = Empty
  /\ authToken >= 0 /\ renewing \in {"check", "auth"} =>
       authToken + excused + Interval >= Reserve
  /\ authToken >= 0 /\ renewing = "sleep" =>
       authToken + excused + Interval >= Reserve + wait

IdInv ==
  /\ IdentityTypeOK
  /\ IdentityOnDisk
  /\ identity = "saving" => keyFile = "partial"
  /\ RenewalInv

PInv ==
  /\ IInv
  /\ IdInv
  /\ clientToken \in 0..Lifetime
  /\ renewing # "off" => main \in Connecting \cup Connected
-----------------------------------------------------------------------------
(* The identity and its token.                                             *)

LEMMA NoIdentityInv ==
  ASSUME NoIdentity, keyFile \in Key \cup {"absent", "partial"}
  PROVE  IdInv
  BY DEF NoIdentity, IdInv, IdentityTypeOK, IdentityOnDisk, RenewalInv, Token,
     Reserve

LEMMA ProcessEndsStep ==
  ASSUME IdInv, ProcessEnds
  PROVE  IdInv' /\ renewing' = "off" /\ clientToken' \in 0..Lifetime
  BY DEF ProcessEnds, IdInv, IdentityTypeOK, IdentityOnDisk, RenewalInv, Token,
     Reserve

LEMMA UnchangedIdStep ==
  ASSUME IdInv, UNCHANGED idVars
  PROVE  IdInv'
  BY DEF IdInv, IdentityTypeOK, IdentityOnDisk, RenewalInv, Token, Reserve

LEMMA BootStep ==
  ASSUME IdInv, OpenKeyFile \/ (\E key \in Key : SaveKey(key)) \/ LoadKey
  PROVE  IdInv' /\ UNCHANGED renewing
<1>1. UNCHANGED <<authToken, renewing, wait, excused>>
  BY DEF OpenKeyFile, SaveKey, LoadKey
<1>2. RenewalInv'
  BY <1>1 DEF IdInv, RenewalInv
<1>3. CASE OpenKeyFile
  BY <1>1, <1>2, <1>3 DEF OpenKeyFile, IdInv, IdentityTypeOK, IdentityOnDisk
<1>4. ASSUME NEW key \in Key, SaveKey(key)
      PROVE  IdInv'
  BY <1>1, <1>2, <1>4 DEF SaveKey, IdInv, IdentityTypeOK, IdentityOnDisk
<1>5. CASE LoadKey
  BY <1>1, <1>2, <1>5 DEF LoadKey, IdInv, IdentityTypeOK, IdentityOnDisk
<1>6. QED
  BY <1>1, <1>3, <1>4, <1>5

LEMMA LifetimeLasts ==
  ASSUME NEW n \in Nat, NEW w \in 0..Interval
  PROVE  /\ Lifetime + n + Interval >= Reserve
         /\ Lifetime + n + Interval >= Reserve + w
  BY DEF Reserve

\* A new token makes up for all renewals that failed before.
LEMMA NewTokenStep ==
  ASSUME IdInv, authToken' \in AuthAnswers,
         \/ renewing' = "check" /\ wait' = 0
         \/ renewing' = "sleep" /\ wait' = Interval,
         excused' \in {0, excused}, UNCHANGED <<keyFile, identity>>
  PROVE  IdInv'
<1>1. authToken' = Lifetime \/ authToken' < 0
  BY DEF AuthAnswers
<1>2. /\ authToken' \in Token
      /\ excused' \in 0..Reserve
      /\ wait' \in 0..Interval
      /\ renewing' = "sleep" <=> wait' > 0
  BY DEF AuthAnswers, Token, Reserve, IdInv, IdentityTypeOK
<1>3. RenewalInv'
  <2>1. /\ authToken' \in Int
        /\ excused' \in Nat
    BY <1>2 DEF Token, Reserve
  <2>2. CASE authToken' = Lifetime
    <3>1. /\ authToken' + excused' + Interval >= Reserve
          /\ authToken' + excused' + Interval >= Reserve + wait'
      BY <1>2, <2>1, <2>2, LifetimeLasts
    <3>2. QED
      BY <3>1 DEF RenewalInv
  <2>3. CASE authToken' < 0
    <3>1. ~ (authToken' >= 0)
      BY <2>1, <2>3
    <3>2. QED
      BY <3>1 DEF RenewalInv
  <2>4. QED
    BY <1>1, <2>2, <2>3
<1>4. QED
  BY <1>2, <1>3 DEF IdInv, IdentityTypeOK, IdentityOnDisk

LEMMA RenewingStep ==
  ASSUME IdInv, Check \/ RenewFails \/ Tick
  PROVE  IdInv' /\ (renewing' # "off" => renewing # "off")
<1>1. /\ authToken \in Token
      /\ renewing \in {"off", "check", "auth", "sleep"}
      /\ wait \in 0..Interval
      /\ renewing = "sleep" <=> wait > 0
      /\ excused \in 0..Reserve
      /\ Reserve \in Nat
      /\ RenewalInv
  BY DEF IdInv, IdentityTypeOK, Reserve
<1>2. /\ authToken' \in Token
      /\ renewing' \in {"check", "auth", "sleep"}
      /\ renewing # "off"
      /\ wait' \in 0..Interval
      /\ renewing' = "sleep" <=> wait' > 0
      /\ excused' \in 0..Reserve
  <2>1. CASE Check
    BY <1>1, <2>1 DEF Check, CheckAgainst, Token
  <2>2. CASE RenewFails
    BY <1>1, <2>2 DEF RenewFails, Excuse, Token
  <2>3. CASE Tick
    BY <1>1, <2>3 DEF Tick, Excuse, Older, Token
  <2>4. QED
    BY <2>1, <2>2, <2>3
<1>3. RenewalInv'
  <2>1. CASE Check
    BY <1>1, <2>1 DEF Check, CheckAgainst, RenewalInv, Reserve, Token
  <2>2. CASE RenewFails
    BY <1>1, <2>2 DEF RenewFails, Excuse, RenewalInv, Token
  <2>3. CASE Tick
    BY <1>1, <2>3 DEF Tick, Excuse, Older, RenewalInv, Token
  <2>4. QED
    BY <2>1, <2>2, <2>3
<1>4. UNCHANGED <<keyFile, identity>>
  BY DEF Check, CheckAgainst, RenewFails, Tick
<1>5. QED
  BY <1>2, <1>3, <1>4 DEF IdInv, IdentityTypeOK, IdentityOnDisk
-----------------------------------------------------------------------------
(* The process.                                                            *)

\* What Pod adds to the connection loop is that the start or the renewing
\* goroutine may end the process.
LEMMA LoopStep ==
  ASSUME [PodNext]_podVars
  PROVE  [Next]_vars \/ (Exit("fatal") /\ keysUsed' = keysUsed)
<1>1. CASE PodMain
  BY <1>1 DEF PodMain, Boot, BootFails, PodAuthSucceeds, AuthDoesNot, Request,
     PodRetry, PodReceiveNil, PodReceiveInterrupt, Handle, Next, Main
<1>2. CASE \E c \in Client : PodRefill(c)
  BY <1>2 DEF PodRefill, PodRefillKeys, Next, Refill
<1>3. CASE RenewPanics \/ Renewing \/ PodTick \/ UNCHANGED podVars
  BY <1>3 DEF RenewPanics, Renewing, PodTick, podVars
<1>4. CASE Environment
  BY <1>4 DEF Environment, Next
<1>5. QED
  BY <1>1, <1>2, <1>3, <1>4 DEF PodNext

LEMMA LoopInv ==
  ASSUME IInv, [PodNext]_podVars
  PROVE  IInv'
  BY LoopStep, NextIInv, ExitStep DEF Ended

LEMMA InitPInv == PodInit => PInv
<1>1. SUFFICES ASSUME PodInit PROVE PInv
  OBVIOUS
<1>2. IInv
  BY <1>1, InitIInv DEF PodInit
<1>3. IdInv /\ renewing = "off"
  BY <1>1, NoIdentityInv DEF PodInit, IdentityInit, NoIdentity
<1>4. clientToken \in 0..Lifetime
  BY <1>1 DEF PodInit
<1>5. QED
  BY <1>2, <1>3, <1>4 DEF PInv

\* While identity and token stay, the process must not leave the loops.
LEMMA QuietStep ==
  ASSUME PInv, IInv', UNCHANGED idVars, clientToken' \in 0..Lifetime,
         renewing # "off" => main' \in Connecting \cup Connected
  PROVE  PInv'
  BY UnchangedIdStep DEF PInv

LEMMA EndStep ==
  ASSUME PInv, IInv', ProcessEnds
  PROVE  PInv'
  BY ProcessEndsStep DEF PInv

LEMMA RestStep ==
  ASSUME PInv, IInv', Rest, renewing # "off" => main' # "auth"
  PROVE  PInv'
<1>1. CASE main' \in Ended
  BY <1>1, EndStep DEF Rest
<1>2. CASE main' \notin Ended
  <2>1. renewing # "off" => main' \in Connecting \cup Connected
    BY <1>2 DEF IInv, TypeOK
  <2>2. QED
    BY <1>2, <2>1, QuietStep DEF Rest, PInv
<1>3. QED
  BY <1>1, <1>2

LEMMA MainStep ==
  ASSUME PInv, IInv', PodMain
  PROVE  PInv'
<1>1. CASE Boot
  BY <1>1, BootStep DEF Boot, PInv, vars
<1>2. CASE BootFails
  BY <1>2, EndStep DEF BootFails
<1>3. CASE PodAuthSucceeds
  <2>1. IdInv'
    <3>1. renewing = "off"
      BY <1>3 DEF PodAuthSucceeds, AuthSucceeds, Connecting, Connected, PInv
    <3>2. wait' = 0
      BY <1>3, <3>1 DEF PodAuthSucceeds, PInv, IdInv, IdentityTypeOK
    <3>3. QED
      BY <1>3, <3>2, NewTokenStep DEF PodAuthSucceeds, PInv
  <2>2. clientToken' \in 0..Lifetime
    BY <1>3 DEF PodAuthSucceeds, Validity, Valid
  <2>3. QED
    BY <1>3, <2>1, <2>2 DEF PodAuthSucceeds, AuthSucceeds, Connecting, PInv
<1>4. CASE AuthDoesNot
  BY <1>4, RestStep DEF AuthDoesNot, AuthGivesUp, AuthFails, PInv, Connecting,
     Connected
<1>5. CASE Request(RegisterAccount) \/ Request(RegisterKeys)
           \/ Request(NewWSClient)
  <2>1. main' \in Connecting \cup Connected
    BY <1>5 DEF Request, RegisterAccount, RegisterKeys, NewWSClient,
       Connecting, Connected
  <2>2. clientToken' \in 0..Lifetime
    BY <1>5 DEF Request, PInv
  <2>3. QED
    BY <1>5, <2>1, <2>2, QuietStep DEF Request
<1>6. CASE PodRetry
  BY <1>6, RestStep DEF PodRetry, Retry, Exit
<1>7. CASE PodReceiveNil
  <2>1. clientToken' \in 0..Lifetime
    BY <1>7 DEF PodReceiveNil, Validity, Valid
  <2>2. QED
    BY <1>7, <2>1, QuietStep DEF PodReceiveNil, ReceiveNil, Connecting
<1>8. CASE PodReceiveInterrupt
  BY <1>8, RestStep DEF PodReceiveInterrupt, ReceiveInterrupt, Exit
<1>9. CASE Handle
  BY <1>9, QuietStep DEF Handle, ReceiveMessage, Process, Signal, Connected,
     PInv
<1>10. QED
  BY <1>1, <1>2, <1>3, <1>4, <1>5, <1>6, <1>7, <1>8, <1>9 DEF PodMain

LEMMA OtherStep ==
  ASSUME PInv, IInv',
         \/ \E c \in Client : PodRefill(c)
         \/ RenewPanics \/ Renewing \/ PodTick \/ Environment
  PROVE  PInv'
<1>1. ASSUME NEW c \in Client, PodRefill(c)
      PROVE  PInv'
  BY <1>1, QuietStep, EndStep DEF PodRefill, PodRefillKeys, RefillKeys, Wake,
     RefillEnds, PInv
<1>2. CASE RenewPanics
  BY <1>2, EndStep DEF RenewPanics
<1>3. CASE Renewing
  <2>1. IdInv' /\ (renewing' # "off" => renewing # "off")
    BY <1>3, RenewingStep, NewTokenStep DEF Renewing, Renew, PInv
  <2>2. QED
    BY <1>3, <2>1 DEF Renewing, PInv, vars
<1>4. CASE PodTick
  <2>1. IdInv' /\ (renewing' # "off" => renewing # "off")
    BY <1>4, RenewingStep DEF PodTick, PInv
  <2>2. clientToken' \in 0..Lifetime
    BY <1>4 DEF PodTick, Older, PInv
  <2>3. QED
    BY <1>4, <2>1, <2>2 DEF PodTick, PInv, vars
<1>5. CASE Environment
  <2>1. renewing # "off" => main' # "auth"
    BY <1>5 DEF Environment, Deliver, ServerCloses, Interrupt, Restart, PInv,
       Connecting, Connected
  <2>2. QED
    BY <1>5, <2>1, RestStep DEF Environment
<1>6. QED
  BY <1>1, <1>2, <1>3, <1>4, <1>5

LEMMA StepPInv == PInv /\ [PodNext]_podVars => PInv'
<1>1. SUFFICES ASSUME PInv, [PodNext]_podVars PROVE PInv'
  OBVIOUS
<1>2. IInv'
  BY <1>1, LoopInv DEF PInv
<1>3. CASE UNCHANGED podVars
  BY <1>1, <1>2, <1>3, QuietStep DEF podVars, vars, PInv
<1>4. QED
  BY <1>1, <1>2, <1>3, MainStep, OtherStep DEF PodNext

LEMMA PodInvariant == PodSpec => []PInv
  BY InitPInv, StepPInv, PTL DEF PodSpec
-----------------------------------------------------------------------------
\* All of the process keeps its type, and the renewing goroutine runs only
\* between the authentication and the end of the process.
THEOREM PodTypeCorrect == PodSpec => []PodTypeOK
<1>1. PInv => PodTypeOK
  BY DEF PInv, IInv, IdInv, PodTypeOK
<1>2. QED
  BY <1>1, PodInvariant, PTL

\* The message loop never signals or closes a closed channel, although the
\* start and the renewing goroutine can end the process at any time.
THEOREM PodChannelsSafe == PodSpec => []SignalsOpenChannel
<1>1. PInv => SignalsOpenChannel
  BY DEF PInv, IInv
<1>2. QED
  BY <1>1, PodInvariant, PTL

\* The pod never serves under a key that is not on disk.
THEOREM IdentitySafe == PodSpec => []IdentityOnDisk
<1>1. PInv => IdentityOnDisk
  BY DEF PInv, IdInv
<1>2. QED
  BY <1>1, PodInvariant, PTL

\* For any times of validity, reserve and sleep, a token expires only if failing
\* and slow renewals have taken all but one interval of the time it was due.
THEOREM TokenRenewed == PodSpec => []ExpiresAfterFailures
<1>1. PInv => ExpiresAfterFailures
  BY DEF PInv, IdInv, IdentityTypeOK, RenewalInv, ExpiresAfterFailures, Reserve
<1>2. QED
  BY <1>1, PodInvariant, PTL

\* A refill goroutine whose channel is closed starts no further registration.
THEOREM PodQuietAfterClose == PodSpec => QuietAfterClose
<1>1. PInv /\ [PodNext]_podVars =>
        (\A c \in Client :
           addKey[c] = "closed" /\ refill[c] # "register"
             => refill'[c] # "register")
  <2>1. SUFFICES ASSUME PInv, [PodNext]_podVars, NEW c \in Client,
                        addKey[c] = "closed", refill[c] # "register"
                 PROVE  refill'[c] # "register"
    OBVIOUS
  <2>2. CASE [Next]_vars
    BY <2>1, <2>2, NoRegistrationAfterClose DEF PInv
  <2>3. CASE Exit("fatal")
    BY <2>1, <2>3 DEF Exit, NoGoroutine
  <2>4. QED
    BY <2>1, <2>2, <2>3, LoopStep
<1>2. QED
  BY <1>1, PodInvariant, PTL DEF PodSpec, QuietAfterClose

\* A key in the key file is never replaced.
THEOREM KeyFileKeptHolds == PodSpec => KeyFileKept
<1>1. PInv /\ [PodNext]_podVars => ((keyFile \in Key) => (keyFile' = keyFile))
  <2>1. SUFFICES ASSUME PInv, [PodNext]_podVars, keyFile \in Key
                 PROVE  keyFile' = keyFile
    OBVIOUS
  <2>2. CASE PodMain
    <3>1. CASE Boot
      BY <2>1, <3>1 DEF Boot, OpenKeyFile, SaveKey, LoadKey, PInv, IdInv
    <3>2. CASE ~ Boot
      BY <2>2, <3>2 DEF PodMain, BootFails, PodAuthSucceeds, AuthDoesNot,
         Request, PodRetry, PodReceiveNil, PodReceiveInterrupt, Handle, Rest,
         ProcessEnds
    <3>3. QED
      BY <3>1, <3>2
  <2>3. CASE \E c \in Client : PodRefill(c)
    BY <2>3 DEF PodRefill, PodRefillKeys, ProcessEnds
  <2>4. CASE RenewPanics \/ Renewing \/ PodTick \/ Environment
    BY <2>4 DEF RenewPanics, Renewing, Check, CheckAgainst, Renew, RenewFails,
       PodTick, Tick, Environment, Rest, ProcessEnds
  <2>5. QED
    BY <2>1, <2>2, <2>3, <2>4 DEF PodNext, podVars
<1>2. QED
  BY <1>1, PodInvariant, PTL DEF PodSpec, KeyFileKept
=============================================================================
