-------------------------- MODULE SuspenderProofs --------------------------
(***************************************************************************)
(* Proofs about Suspender, for every suspending_duration.  A stop that is  *)
(* due while the client is active comes from a check made when it was not; *)
(* the next check finds it active.  So the invariant says that once such a *)
(* stop has happened, no second one is under way until the client has been *)
(* away again.                                                             *)
(***************************************************************************)
EXTENDS Suspender, TLAPS

IInv ==
  /\ TypeOK
  /\ staleStops <= 1
  /\ staleStops = 1 /\ ~ Inactive => suspender \notin {"status", "stop"}

LEMMA InitIInv == Init => IInv
  BY SuspenderAssumption DEF Init, IInv, TypeOK

\* The suspending goroutine: a step of it either leaves the count alone and
\* goes to status only when the client is inactive, or counts one stop.
LEMMA SuspenderStep ==
  ASSUME IInv, Check \/ Status \/ Stop \/ StopRejected \/ StopFails \/ Wake
  PROVE  IInv'
<1>1. CASE Check
  BY <1>1 DEF Check, IInv, TypeOK, Inactive
<1>2. CASE Status
  BY <1>2 DEF Status, GetStatus, IInv, TypeOK, Inactive
<1>3. CASE Stop
  BY <1>3 DEF Stop, CountStop, IInv, TypeOK, Inactive
<1>4. CASE StopRejected
  BY <1>4 DEF StopRejected, IInv, TypeOK, Inactive
<1>5. CASE StopFails
  <2>1. CASE bitcoind' = "down" /\ CountStop
    BY <1>5, <2>1 DEF StopFails, CountStop, IInv, TypeOK, Inactive
  <2>2. CASE UNCHANGED <<bitcoind, staleStops>>
    BY <1>5, <2>2 DEF StopFails, IInv, TypeOK, Inactive
  <2>3. QED
    BY <1>5, <2>1, <2>2 DEF StopFails
<1>6. CASE Wake
  BY <1>6 DEF Wake, IInv, TypeOK, Inactive
<1>7. QED
  BY <1>1, <1>2, <1>3, <1>4, <1>5, <1>6

\* The message loop: only Return and Restart touch the time and the count.
LEMMA MainStep ==
  ASSUME IInv,
         (\E command \in Command : Receive(command)) \/ Request \/ Return
  PROVE  IInv'
<1>1. ASSUME NEW command \in Command, Receive(command)
      PROVE  IInv'
  BY <1>1 DEF Receive, IInv, TypeOK, Inactive
<1>2. CASE Request
  <2>1. bitcoind' \in {"down", "starting", "up"}
    BY <1>2 DEF Request, Effect, Command, IInv, TypeOK
  <2>2. QED
    BY <1>2, <2>1 DEF Request, IInv, TypeOK, Inactive
<1>3. CASE Return
  BY <1>3, SuspenderAssumption DEF Return, IInv, TypeOK, Inactive
<1>4. QED
  BY <1>1, <1>2, <1>3

LEMMA EnvironmentStep ==
  ASSUME IInv, Tick \/ StartupDone \/ Restart
  PROVE  IInv'
<1>1. CASE Tick
  BY <1>1, SuspenderAssumption DEF Tick, IInv, TypeOK, Inactive
<1>2. CASE StartupDone
  BY <1>2 DEF StartupDone, IInv, TypeOK, Inactive
<1>3. CASE Restart
  BY <1>3, SuspenderAssumption DEF Restart, IInv, TypeOK, Inactive
<1>4. QED
  BY <1>1, <1>2, <1>3

LEMMA StepIInv == IInv /\ [Next]_vars => IInv'
<1> SUFFICES ASSUME IInv, [Next]_vars PROVE IInv'
  OBVIOUS
<1>1. CASE UNCHANGED vars
  BY <1>1 DEF vars, IInv, TypeOK, Inactive
<1>2. CASE Next
  BY <1>2, SuspenderStep, MainStep, EnvironmentStep DEF Next
<1>3. QED
  BY <1>1, <1>2

\* The state of both goroutines stays of the right type.
THEOREM TypeCorrect == Spec => []TypeOK
<1>1. IInv => TypeOK
  BY DEF IInv
<1>2. QED
  BY <1>1, InitIInv, StepIInv, PTL DEF Spec

\* A client that is active loses bitcoind to the suspending goroutine at most
\* once, whatever the duration and however its requests turn out.
THEOREM StaleStopsBounded == Spec => []AtMostOneStaleStop
<1>1. IInv => AtMostOneStaleStop
  BY DEF IInv, AtMostOneStaleStop
<1>2. QED
  BY <1>1, InitIInv, StepIInv, PTL DEF Spec
=============================================================================
