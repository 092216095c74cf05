----------------------------- MODULE Connection -----------------------------
(***************************************************************************)
(* The connection of the pod to the API server (main.go): authentication,  *)
(* connecting with retries, the message loop, and the goroutine of each    *)
(* connection that refills the pre-keys, to which the message loop talks   *)
(* over the unbuffered channel addKey.  A goroutine may outlive its        *)
(* connection, so there can be several.                                    *)
(***************************************************************************)
EXTENDS Integers

CONSTANTS
  Client,        \* the messaging clients whose goroutine can be alive at once
  RetryCounts,   \* the flag -count
  Buffer         \* external: the messages a connection can hold

ASSUME ConnectionAssumption ==
  /\ Client # {}
  /\ RetryCounts \in Nat \ {0}
  /\ Buffer \in Nat \ {0}

VARIABLES
  main,          \* the next step of the main goroutine
  tries,         \* the failed attempts in the current retry loop
  client,        \* the client of the latest connection
  refill,        \* the refill goroutine of each client
  addKey,        \* the channel addKey of each client
  ws,            \* external: whether the server keeps the connection
  inbox,         \* external: the number of messages not yet received
  interrupted,   \* an interrupt has been sent
  keysUsed       \* external: pre-keys were used since the last registration

vars ==
  <<main, tries, client, refill, addKey, ws, inbox, interrupted, keysUsed>>

wsVars == <<ws, inbox>>
connVars == <<client, refill, addKey, wsVars>>

Connecting == {"register account", "register keys", "dial"}
Connected == {"receive", "process", "signal"}
Ended == {"exited", "fatal"}

TypeOK ==
  /\ main \in {"auth"} \cup Connecting \cup Connected \cup Ended
  /\ tries \in 0..(RetryCounts - 1)
  /\ client \in Client
  /\ refill \in [Client -> {"ended", "waiting", "register", "sleep"}]
  /\ addKey \in [Client -> {"open", "closed"}]
  /\ ws \in {"open", "closed"}
  /\ inbox \in 0..Buffer
  /\ interrupted \in BOOLEAN
  /\ keysUsed \in BOOLEAN

NoGoroutine == [c \in Client |-> "ended"]
NoChannel == [c \in Client |-> "closed"]

Init ==
  /\ main = "auth"
  /\ tries = 0
  /\ client \in Client
  /\ refill = NoGoroutine
  /\ addKey = NoChannel
  /\ ws = "closed"
  /\ inbox = 0
  /\ interrupted = FALSE
  /\ keysUsed = TRUE

\* The process ends, and with it all goroutines.
Exit(how) ==
  /\ main' = how
  /\ tries' = 0
  /\ refill' = NoGoroutine
  /\ addKey' = NoChannel
  /\ ws' = "closed"
  /\ inbox' = 0
  /\ UNCHANGED <<client, interrupted>>
-----------------------------------------------------------------------------
(* Authentication and connecting.                                          *)

\* The turn numbered RetryCounts - 1 ends the process before it asks again.
AuthGivesUp ==
  /\ main = "auth"
  /\ tries = RetryCounts - 1
  /\ Exit("fatal")
  /\ UNCHANGED keysUsed

AuthFails ==
  /\ main = "auth"
  /\ tries < RetryCounts - 1
  /\ tries' = tries + 1
  /\ UNCHANGED <<main, connVars, interrupted, keysUsed>>

AuthSucceeds ==
  /\ main = "auth"
  /\ tries < RetryCounts - 1
  /\ main' = "register account"
  /\ tries' = 0
  /\ UNCHANGED <<connVars, interrupted, keysUsed>>

\* Mutation: failed attempts are not counted.
RetryWithoutCounting ==
  /\ main \in Connecting
  /\ main' = "register account"
  /\ UNCHANGED <<tries, connVars, interrupted, keysUsed>>

\* Mutation: one attempt too many.
RetryOnceMore ==
  /\ main \in Connecting
  /\ IF tries < RetryCounts
       THEN /\ main' = "register account"
            /\ tries' = tries + 1
            /\ UNCHANGED <<connVars, interrupted>>
       ELSE Exit("fatal")
  /\ UNCHANGED keysUsed

\* RegisterAccount, RegisterKeys or NewWSClient returns an error.  Each attempt
\* begins with RegisterAccount again; after the last the process ends.
Retry ==
  /\ main \in Connecting
  /\ IF tries + 1 < RetryCounts
       THEN /\ main' = "register account"
            /\ tries' = tries + 1
            /\ UNCHANGED <<connVars, interrupted>>
       ELSE Exit("fatal")
  /\ UNCHANGED keysUsed

RegisterAccount ==
  /\ main = "register account"
  /\ main' = "register keys"
  /\ UNCHANGED <<tries, connVars, interrupted, keysUsed>>

RegisterKeys ==
  /\ main = "register keys"
  /\ main' = "dial"
  /\ keysUsed' = FALSE
  /\ UNCHANGED <<tries, connVars, interrupted>>

\* The connection is made; its channel and its goroutine are created.
NewWSClient ==
  /\ main = "dial"
  /\ main' = "receive"
  /\ tries' = 0
  /\ \E c \in Client :
       /\ refill[c] = "ended"
       /\ client' = c
       /\ refill' = [refill EXCEPT ![c] = "waiting"]
       /\ addKey' = [addKey EXCEPT ![c] = "open"]
  /\ ws' = "open"
  /\ inbox' = 0
  /\ UNCHANGED <<interrupted, keysUsed>>
-----------------------------------------------------------------------------
(* The message loop.                                                       *)

ReceiveMessage ==
  /\ main = "receive"
  /\ inbox > 0
  /\ inbox' = inbox - 1
  /\ main' = "process"
  /\ UNCHANGED <<tries, client, refill, addKey, ws, interrupted, keysUsed>>

\* Mutation: the break leaves the select and not the message loop.
ReceiveNilStays ==
  /\ main = "receive"
  /\ ws = "closed"
  /\ inbox = 0
  /\ addKey' = [addKey EXCEPT ![client] = "closed"]
  /\ UNCHANGED <<main, tries, client, refill, wsVars, interrupted, keysUsed>>

\* Mutation: the channel is not closed.
ReceiveNilForgetsChannel ==
  /\ main = "receive"
  /\ ws = "closed"
  /\ inbox = 0
  /\ main' = "register account"
  /\ UNCHANGED <<tries, connVars, interrupted, keysUsed>>

\* The nil message, the last one of a connection that the server has closed:
\* the channel is closed, and the connection loop starts over.
ReceiveNil ==
  /\ main = "receive"
  /\ ws = "closed"
  /\ inbox = 0
  /\ addKey' = [addKey EXCEPT ![client] = "closed"]
  /\ main' = "register account"
  /\ UNCHANGED <<tries, client, refill, ws, inbox, interrupted, keysUsed>>

\* Messages that wait in the connection are lost.
ReceiveInterrupt ==
  /\ main = "receive"
  /\ interrupted
  /\ Exit("exited")
  /\ UNCHANGED keysUsed

\* controller.Process, and the sending of its reply.
Process ==
  /\ main = "process"
  /\ main' = "signal"
  /\ UNCHANGED <<tries, connVars, interrupted, keysUsed>>

\* The send to addKey does not block: unless the goroutine waits at that
\* moment, the signal is dropped.
Signal ==
  /\ main = "signal"
  /\ main' = "receive"
  /\ refill' = [refill EXCEPT ![client] =
                             IF @ = "waiting" THEN "register" ELSE @]
  /\ UNCHANGED <<tries, client, addKey, wsVars, interrupted, keysUsed>>
-----------------------------------------------------------------------------
(* The refill goroutine of client c.                                       *)

RefillKeys(c) ==
  /\ refill[c] = "register"
  /\ refill' = [refill EXCEPT ![c] = "sleep"]
  /\ keysUsed' = FALSE
  /\ UNCHANGED <<main, tries, client, addKey, wsVars, interrupted>>

\* Any error of RegisterKeys, on a client that may be closed by now, ends the
\* process.
RefillFails(c) ==
  /\ refill[c] = "register"
  /\ Exit("fatal")
  /\ UNCHANGED keysUsed

\* Mutation: the goroutine refills at every turn without being asked.
WakeAndRefill(c) ==
  /\ refill[c] = "sleep"
  /\ refill' = [refill EXCEPT ![c] = "register"]
  /\ UNCHANGED <<main, tries, client, addKey, wsVars, interrupted, keysUsed>>

\* Mutation: the goroutine serves one signal only.
WakeAndEnd(c) ==
  /\ refill[c] = "sleep"
  /\ refill' = [refill EXCEPT ![c] = "ended"]
  /\ UNCHANGED <<main, tries, client, addKey, wsVars, interrupted, keysUsed>>

Wake(c) ==
  /\ refill[c] = "sleep"
  /\ refill' = [refill EXCEPT ![c] = "waiting"]
  /\ UNCHANGED <<main, tries, client, addKey, wsVars, interrupted, keysUsed>>

\* range ends when the channel is closed.
RefillEnds(c) ==
  /\ refill[c] = "waiting"
  /\ addKey[c] = "closed"
  /\ refill' = [refill EXCEPT ![c] = "ended"]
  /\ UNCHANGED <<main, tries, client, addKey, wsVars, interrupted, keysUsed>>
-----------------------------------------------------------------------------
(* The environment.                                                        *)

\* A client starts a session with one of the pod's pre-keys and writes to it.
Deliver ==
  /\ ws = "open"
  /\ inbox < Buffer
  /\ inbox' = inbox + 1
  /\ keysUsed' = TRUE
  /\ UNCHANGED <<main, tries, client, refill, addKey, ws, interrupted>>

ServerCloses ==
  /\ ws = "open"
  /\ ws' = "closed"
  /\ UNCHANGED <<main, tries, client, refill, addKey, inbox, interrupted,
                 keysUsed>>

\* Until signal.Notify is called, after the authentication, an interrupt ends
\* the process; then it waits in the channel interrupt.
Interrupt ==
  /\ main \notin Ended
  /\ ~ interrupted
  /\ interrupted' = TRUE
  /\ main' = IF main = "auth" THEN "exited" ELSE main
  /\ UNCHANGED <<tries, connVars, keysUsed>>

\* A process that died is started again, one that was interrupted is not.
Restart ==
  /\ main = "fatal"
  /\ main' = "auth"
  /\ interrupted' = FALSE
  /\ UNCHANGED <<tries, connVars, keysUsed>>

Main ==
  \/ AuthGivesUp
  \/ AuthFails
  \/ AuthSucceeds
  \/ Retry
  \/ RegisterAccount
  \/ RegisterKeys
  \/ NewWSClient
  \/ ReceiveMessage
  \/ ReceiveNil
  \/ ReceiveInterrupt
  \/ Process
  \/ Signal

Refill(c) ==
  \/ RefillKeys(c)
  \/ RefillFails(c)
  \/ Wake(c)
  \/ RefillEnds(c)

Next ==
  \/ Main
  \/ \E c \in Client : Refill(c)
  \/ Deliver
  \/ ServerCloses
  \/ Interrupt
  \/ Restart

Spec == Init /\ [][Next]_vars
-----------------------------------------------------------------------------
(* Properties.  Module Pod adds the token, without which no request         *)
(* succeeds, and the fairness under which those about the future are        *)
(* checked.                                                                *)

\* The message loop never signals, nor closes again, a channel that is closed,
\* which would panic: whoever closes addKey leaves the message loop with it.
SignalsOpenChannel == main \in Connected => addKey[client] = "open"

\* A goroutine that outlives its connection registers no keys but those it had
\* begun to register: nothing is left over in the channel.
QuietAfterClose ==
  [][\A c \in Client :
       addKey[c] = "closed" /\ refill[c] # "register"
         => refill'[c] # "register"]_vars

\* No goroutine is left behind by a reconnection: once the message loop of its
\* connection is over, it ends.
RefillGoroutinesEnd ==
  \A c \in Client :
    ~ (client = c /\ main \in Connected) ~> refill[c] = "ended"

\* Signals are dropped and goroutines replaced, but as long as messages come
\* in and are answered, the pre-keys are renewed again and again.
KeysRefilled == []<>(main = "signal") => []<>(~ keysUsed)

\* No command takes for ever, as create_wallet and finish_psbt do when bitcoind
\* does not answer: the client they use has no timeout.
ProcessReturns == []<>(main # "process")

\* An interrupt is not lost while messages keep coming, the connection is lost
\* again and again, or the server cannot be reached at all: only a command that
\* never returns keeps the process from hearing it.
InterruptEnds == ProcessReturns => (interrupted ~> main \in Ended)

\* CHANGELOG.md:40 "Prevent unnecessary restarts if the WebSocket connection is
\* closed or the API server is temporarily unavailable": the process ends only
\* after its last attempt to authenticate or to connect.
EndsOnlyAfterRetries ==
  [][main # "fatal" /\ main' = "fatal" => tries = RetryCounts - 1]_vars
=============================================================================
