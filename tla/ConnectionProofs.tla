-------------------------- MODULE ConnectionProofs --------------------------
(***************************************************************************)
(* Proofs about Connection, for any number of clients alive at once and    *)
(* any retry count.  The message loop runs exactly from the creation of    *)
(* its channel to the closing of it, so the invariant relates the step of  *)
(* the main goroutine to the channel and the goroutine of its client.      *)
(***************************************************************************)
EXTENDS Connection, TLAPS

USE ConnectionAssumption DEF wsVars, connVars

IInv == TypeOK /\ SignalsOpenChannel

LEMMA InitIInv == Init => IInv
<1>1. SUFFICES ASSUME Init
               PROVE  IInv
  OBVIOUS
<1>2. TypeOK
  <2>1. tries \in 0..(RetryCounts - 1) /\ inbox \in 0..Buffer
    BY <1>1 DEF Init
  <2>2. QED
    BY <1>1, <2>1, Zenon DEF Init, TypeOK, NoGoroutine, NoChannel
<1>3. SignalsOpenChannel
  BY <1>1 DEF Init, SignalsOpenChannel, Connected
<1>4. QED
  BY <1>2, <1>3 DEF IInv

\* The end of the process leaves nothing that could be signalled.
LEMMA ExitStep ==
  ASSUME IInv, NEW how \in Ended, Exit(how), keysUsed' = keysUsed
  PROVE  IInv'
<1>1. TypeOK'
  BY DEF IInv, TypeOK, Exit, NoGoroutine, NoChannel, Ended
<1>2. SignalsOpenChannel'
  BY DEF Exit, SignalsOpenChannel, Ended, Connected
<1>3. QED
  BY <1>1, <1>2 DEF IInv

LEMMA ConnectStep ==
  ASSUME IInv,
         \/ AuthGivesUp \/ AuthFails \/ AuthSucceeds
         \/ Retry \/ RegisterAccount \/ RegisterKeys \/ NewWSClient
  PROVE  IInv'
<1>1. CASE AuthGivesUp
  BY <1>1, ExitStep DEF AuthGivesUp, Ended
<1>2. CASE AuthFails
  BY <1>2 DEF AuthFails, IInv, TypeOK, SignalsOpenChannel, Connected
<1>3. CASE AuthSucceeds
  <2>1. tries' \in 0..(RetryCounts - 1)
    <3>1. tries' = 0
      BY <1>3 DEF AuthSucceeds
    <3>2. QED
      BY <3>1
  <2>2. QED
    BY <1>3, <2>1, Zenon
       DEF AuthSucceeds, IInv, TypeOK, SignalsOpenChannel, Connected,
           Connecting
<1>4. CASE Retry
  <2>1. CASE tries + 1 < RetryCounts
    <3>1. tries' \in 0..(RetryCounts - 1)
      <4>1. tries' = tries + 1
        BY <1>4, <2>1 DEF Retry
      <4>2. tries \in Nat
        BY DEF IInv, TypeOK
      <4>3. QED
        BY <2>1, <4>1, <4>2
    <3>2. QED
      BY <1>4, <2>1, <3>1, Zenon
         DEF Retry, IInv, TypeOK, SignalsOpenChannel, Connected, Connecting
  <2>2. CASE ~ (tries + 1 < RetryCounts)
    BY <1>4, <2>2, ExitStep DEF Retry, Ended
  <2>3. QED
    BY <2>1, <2>2
<1>5. CASE RegisterAccount
  BY <1>5 DEF RegisterAccount, IInv, TypeOK, SignalsOpenChannel, Connected,
              Connecting
<1>6. CASE RegisterKeys
  BY <1>6 DEF RegisterKeys, IInv, TypeOK, SignalsOpenChannel, Connected,
              Connecting
<1>7. CASE NewWSClient
  <2>1. PICK c \in Client :
          /\ client' = c
          /\ refill' = [refill EXCEPT ![c] = "waiting"]
          /\ addKey' = [addKey EXCEPT ![c] = "open"]
    BY <1>7 DEF NewWSClient
  <2>2. TypeOK'
    BY <1>7, <2>1 DEF NewWSClient, IInv, TypeOK, Connected
  <2>3. SignalsOpenChannel'
    BY <2>1 DEF SignalsOpenChannel, IInv, TypeOK
  <2>4. QED
    BY <2>2, <2>3 DEF IInv
<1>8. QED
  BY <1>1, <1>2, <1>3, <1>4, <1>5, <1>6, <1>7

LEMMA MessageStep ==
  ASSUME IInv,
         ReceiveMessage \/ ReceiveNil \/ ReceiveInterrupt \/ Process \/ Signal
  PROVE  IInv'
<1>1. CASE ReceiveMessage
  BY <1>1 DEF ReceiveMessage, IInv, TypeOK, SignalsOpenChannel, Connected
<1>2. CASE ReceiveNil
  BY <1>2 DEF ReceiveNil, IInv, TypeOK, SignalsOpenChannel, Connected,
              Connecting
<1>3. CASE ReceiveInterrupt
  BY <1>3, ExitStep DEF ReceiveInterrupt, Ended
<1>4. CASE Process
  BY <1>4 DEF Process, IInv, TypeOK, SignalsOpenChannel, Connected
<1>5. CASE Signal
  BY <1>5 DEF Signal, IInv, TypeOK, SignalsOpenChannel, Connected
<1>6. QED
  BY <1>1, <1>2, <1>3, <1>4, <1>5

LEMMA RefillStep ==
  ASSUME IInv, NEW c \in Client, Refill(c)
  PROVE  IInv'
<1>1. CASE RefillKeys(c)
  BY <1>1 DEF RefillKeys, IInv, TypeOK, SignalsOpenChannel
<1>2. CASE RefillFails(c)
  BY <1>2, ExitStep DEF RefillFails, Ended
<1>3. CASE Wake(c)
  BY <1>3 DEF Wake, IInv, TypeOK, SignalsOpenChannel
<1>4. CASE RefillEnds(c)
  BY <1>4 DEF RefillEnds, IInv, TypeOK, SignalsOpenChannel
<1>5. QED
  BY <1>1, <1>2, <1>3, <1>4 DEF Refill

LEMMA EnvironmentStep ==
  ASSUME IInv, Deliver \/ ServerCloses \/ Interrupt \/ Restart
  PROVE  IInv'
<1>1. CASE Deliver
  BY <1>1 DEF Deliver, IInv, TypeOK, SignalsOpenChannel
<1>2. CASE ServerCloses
  BY <1>2 DEF ServerCloses, IInv, TypeOK, SignalsOpenChannel
<1>3. CASE Interrupt
  BY <1>3 DEF Interrupt, IInv, TypeOK, SignalsOpenChannel, Connected, Ended
<1>4. CASE Restart
  BY <1>4 DEF Restart, IInv, TypeOK, SignalsOpenChannel, Connected
<1>5. QED
  BY <1>1, <1>2, <1>3, <1>4

LEMMA NextIInv == IInv /\ [Next]_vars => IInv'
<1>1. SUFFICES ASSUME IInv, [Next]_vars
               PROVE  IInv'
  OBVIOUS
<1>2. CASE Main
  BY <1>1, <1>2, ConnectStep, MessageStep DEF Main
<1>3. CASE \E c \in Client : Refill(c)
  BY <1>1, <1>3, RefillStep
<1>4. CASE Deliver \/ ServerCloses \/ Interrupt \/ Restart
  BY <1>1, <1>4, EnvironmentStep
<1>5. CASE UNCHANGED vars
  BY <1>1, <1>5 DEF vars, IInv, TypeOK, SignalsOpenChannel
<1>6. QED
  BY <1>1, <1>2, <1>3, <1>4, <1>5 DEF Next

LEMMA Invariance == Spec => []IInv
  BY InitIInv, NextIInv, PTL DEF Spec

\* The variables of main.go's loops and channels keep their types: no retry
\* loop makes more than RetryCounts attempts.
THEOREM TypeCorrect == Spec => []TypeOK
<1>1. IInv => TypeOK
  BY DEF IInv
<1>2. QED
  BY <1>1, Invariance, PTL

\* The message loop (main.go:204) never signals or closes a closed channel.
THEOREM ChannelsSafe == Spec => []SignalsOpenChannel
<1>1. IInv => SignalsOpenChannel
  BY DEF IInv
<1>2. QED
  BY <1>1, Invariance, PTL

\* Only Signal makes a goroutine register keys, and the channel it uses is
\* open.
LEMMA NoRegistrationAfterClose ==
  ASSUME IInv, [Next]_vars, NEW c \in Client,
         addKey[c] = "closed", refill[c] # "register"
  PROVE  refill'[c] # "register"
<1>1. CASE refill' = refill
  BY <1>1
<1>2. CASE refill' = NoGoroutine
  BY <1>2 DEF NoGoroutine
<1>3. CASE NewWSClient
  BY <1>3 DEF NewWSClient, IInv, TypeOK
<1>4. CASE Signal
  <2>1. addKey[client] = "open"
    BY <1>4 DEF Signal, IInv, SignalsOpenChannel, Connected
  <2>2. QED
    BY <1>4, <2>1 DEF Signal, IInv, TypeOK
<1>5. ASSUME NEW d \in Client, Refill(d)
      PROVE  refill'[c] # "register"
  BY <1>2, <1>5 DEF Refill, RefillKeys, RefillFails, Exit, Wake, RefillEnds,
     IInv, TypeOK
<1>6. CASE Main
  BY <1>1, <1>2, <1>3, <1>4, <1>6
     DEF Main, AuthGivesUp, AuthFails, AuthSucceeds, Retry, RegisterAccount,
         RegisterKeys, ReceiveMessage, ReceiveNil, ReceiveInterrupt, Process,
         Exit
<1>7. CASE Deliver \/ ServerCloses \/ Interrupt \/ Restart
  BY <1>1, <1>7 DEF Deliver, ServerCloses, Interrupt, Restart
<1>8. CASE UNCHANGED vars
  BY <1>1, <1>8 DEF vars
<1>9. QED
  BY <1>5, <1>6, <1>7, <1>8 DEF Next

\* A refill goroutine whose channel is closed starts no further registration.
THEOREM QuietAfterCloseHolds == Spec => QuietAfterClose
<1>1. IInv /\ [Next]_vars =>
        (\A c \in Client :
           addKey[c] = "closed" /\ refill[c] # "register"
             => refill'[c] # "register")
  BY NoRegistrationAfterClose
<1>2. QED
  BY <1>1, Invariance, PTL DEF Spec, QuietAfterClose
=============================================================================
