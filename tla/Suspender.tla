----------------------------- MODULE Suspender -----------------------------
(***************************************************************************)
(* The goroutine of main.go that stops bitcoind when the client has been   *)
(* away for suspending_duration minutes, against the goroutine that runs   *)
(* the client's commands and the external bitcoind-ctl service they share. *)
(*                                                                         *)
(* The goroutine reads LastActiveTime, asks for the status and stops       *)
(* bitcoind in three separate steps; Process sets LastActiveTime when it   *)
(* returns.  Time is counted in minutes since then.                        *)
(***************************************************************************)
EXTENDS Integers

CONSTANT
  Duration   \* suspending_duration; with 0 the goroutine is not started

ASSUME SuspenderAssumption == Duration \in Nat \ {0}

VARIABLES
  bitcoind,    \* external: what bitcoind-ctl runs
  idle,        \* minutes since LastActiveTime, counted up to Duration + 1
  main,        \* the message loop: waiting, at a command, returning, or dead
  suspender,   \* the next step of the suspending goroutine
  staleStops   \* history: stops of a running bitcoind by this goroutine while
               \* idle <= Duration, since the client was last away for longer

vars == <<bitcoind, idle, main, suspender, staleStops>>

Command == {"start_bitcoind", "stop_bitcoind", "other"}

TypeOK ==
  /\ bitcoind \in {"down", "starting", "up"}
  /\ idle \in 0..(Duration + 1)
  /\ main \in Command \cup {"waiting", "returning", "dead"}
  /\ suspender \in {"check", "status", "stop", "sleep", "dead"}
  /\ staleStops \in 0..2

Init ==
  /\ bitcoind \in {"down", "starting", "up"}
  /\ idle = 0
  /\ main = "waiting"
  /\ suspender = "check"
  /\ staleStops = 0

Inactive == idle > Duration
-----------------------------------------------------------------------------
(* The message loop: one command of the client at a time.                  *)

Receive(command) ==
  /\ main = "waiting"
  /\ main' = command
  /\ UNCHANGED <<bitcoind, idle, suspender, staleStops>>

\* What bitcoind-ctl makes of a request.
Effect(command) ==
  CASE command = "stop_bitcoind" -> "down"
    [] command = "start_bitcoind" /\ bitcoind = "down" -> "starting"
    [] OTHER -> bitcoind

\* The request has its effect or fails; that it had its effect and the answer
\* was lost looks the same from here.  The result is only passed on.
Request ==
  /\ main \in Command
  /\ bitcoind' \in {Effect(main), bitcoind}
  /\ main' = "returning"
  /\ UNCHANGED <<idle, suspender, staleStops>>

\* The deferred function of Process: LastActiveTime becomes now.
Return ==
  /\ main = "returning"
  /\ main' = "waiting"
  /\ idle' = 0
  /\ staleStops' = IF Inactive THEN 0 ELSE staleStops
  /\ UNCHANGED <<bitcoind, suspender>>
-----------------------------------------------------------------------------
(* The suspending goroutine.                                               *)

Check ==
  /\ suspender = "check"
  /\ suspender' = IF Inactive THEN "status" ELSE "sleep"
  /\ UNCHANGED <<bitcoind, idle, main, staleStops>>

\* Mutation: a failed status request ends the goroutine.
GetStatusOrGiveUp(reply) ==
  /\ suspender = "status"
  /\ suspender' = CASE reply = "unreachable" -> "dead"
                    [] reply \in {"starting", "down"} -> "sleep"
                    [] OTHER -> "stop"
  /\ UNCHANGED <<bitcoind, idle, main, staleStops>>

\* Only the two bodies of a bitcoind that is stopped or not ready are
\* recognised; any other answer leads to the stop request.
GetStatus(reply) ==
  /\ suspender = "status"
  /\ suspender' = IF reply \in {"unreachable", "starting", "down"}
                  THEN "sleep" ELSE "stop"
  /\ UNCHANGED <<bitcoind, idle, main, staleStops>>

\* bitcoind-ctl tells the state, answers something else, or not at all.
Status ==
  \E reply \in {bitcoind, "unexpected", "unreachable"} : GetStatus(reply)

CountStop ==
  staleStops' = IF bitcoind # "down" /\ ~ Inactive /\ staleStops < 2
                THEN staleStops + 1 ELSE staleStops

\* Mutation: the goroutine ends with the first stop.
StopAndEnd ==
  /\ suspender = "stop"
  /\ bitcoind' = "down"
  /\ suspender' = "ended"
  /\ CountStop
  /\ UNCHANGED <<idle, main>>

Stop ==
  /\ suspender = "stop"
  /\ bitcoind' = "down"
  /\ suspender' = "sleep"
  /\ CountStop
  /\ UNCHANGED <<idle, main>>

\* A status code other than 200 is logged.
StopRejected ==
  /\ suspender = "stop"
  /\ suspender' = "sleep"
  /\ UNCHANGED <<bitcoind, idle, main, staleStops>>

\* After an error resp is nil, and reading resp.StatusCode panics in a
\* goroutine that does not recover: the process ends, with all its goroutines.
\* The request may have been served all the same.
StopFails ==
  /\ suspender = "stop"
  /\ \/ bitcoind' = "down" /\ CountStop
     \/ UNCHANGED <<bitcoind, staleStops>>
  /\ suspender' = "dead"
  /\ main' = "dead"
  /\ UNCHANGED idle

\* Mutation: after its sleep the goroutine does not look at the time again.
WakeForStatus ==
  /\ suspender = "sleep"
  /\ suspender' = "status"
  /\ UNCHANGED <<bitcoind, idle, main, staleStops>>

\* The minute of sleep ends.
Wake ==
  /\ suspender = "sleep"
  /\ suspender' = "check"
  /\ UNCHANGED <<bitcoind, idle, main, staleStops>>
-----------------------------------------------------------------------------
(* The environment.                                                        *)

Tick ==
  /\ idle <= Duration
  /\ idle' = idle + 1
  /\ UNCHANGED <<bitcoind, main, suspender, staleStops>>

StartupDone ==
  /\ bitcoind = "starting"
  /\ bitcoind' = "up"
  /\ UNCHANGED <<idle, main, suspender, staleStops>>

\* Whoever runs the pod starts the process again; NewController sets
\* LastActiveTime to the current time.
Restart ==
  /\ main = "dead"
  /\ main' = "waiting"
  /\ suspender' = "check"
  /\ idle' = 0
  /\ staleStops' = IF Inactive THEN 0 ELSE staleStops
  /\ UNCHANGED bitcoind

Next ==
  \/ \E command \in Command : Receive(command)
  \/ Request
  \/ Return
  \/ Check
  \/ Status
  \/ Stop
  \/ StopRejected
  \/ StopFails
  \/ Wake
  \/ Tick
  \/ StartupDone
  \/ Restart

Spec == Init /\ [][Next]_vars

\* The scheduler runs both goroutines, HTTP requests end (the client has a
\* timeout), time passes, bitcoind starts up and a dead process is restarted.
\* bitcoind-ctl may fail, but not for ever: of infinitely many requests some
\* are answered, as the code's own retry every minute presumes.  Nothing makes
\* a client send commands.
Fairness ==
  /\ WF_vars(Request) /\ WF_vars(Return)
  /\ WF_vars(Check) /\ WF_vars(Status) /\ WF_vars(Wake)
  /\ SF_vars(GetStatus(bitcoind))
  /\ SF_vars(Stop)
  /\ WF_vars(Tick) /\ WF_vars(StartupDone) /\ WF_vars(Restart)

FairSpec == Spec /\ Fairness
-----------------------------------------------------------------------------
(* Properties.                                                             *)

\* The time between the check and the stop lets the goroutine stop a bitcoind
\* that the client has just used or started.  That can happen once: a client
\* that starts it again keeps it, as long as it is not away for more than
\* suspending_duration minutes.
AtMostOneStaleStop == staleStops <= 1

\* When the client sends nothing more, bitcoind is in the end stopped and stays
\* stopped, through failing status and stop requests, a bitcoind that is still
\* starting, and restarts of the process.
EventuallySuspended ==
  <>[](main \in {"waiting", "dead"}) => <>[](bitcoind = "down")

\* main.go:76 "auto close bitcoind if the client isn't active": when this
\* goroutine stops a running bitcoind, the client has been away long enough.
ClosedOnlyIfInactive ==
  [][suspender = "stop" /\ suspender' # "stop" /\ bitcoind # "down"
       /\ bitcoind' = "down"
     => Inactive]_vars

\* main.go:76 "The goroutine will continuously check bitcoind usage": the
\* goroutine, and the process with it, outlives every outcome of its requests.
ChecksContinuously == suspender # "dead"
=============================================================================
