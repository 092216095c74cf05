----------------------------- MODULE Handshake -----------------------------
(***************************************************************************)
(* The binding tool (commands/binding-tool/main.go) and the command        *)
(* handler of the pod, joined by the whisper messages between them.  One   *)
(* run of the tool sends one request and takes the next message for the    *)
(* answer: it compares no identifier, so a message left over from a run    *)
(* that was interrupted answers the next run.                              *)
(*                                                                         *)
(* Client, whose DID the tool uses, is appointed and removed by the owner, *)
(* who is bound already.                                                   *)
(***************************************************************************)
EXTENDS Controller, Sequences, FiniteSets
LOCAL INSTANCE SequencesExt

CONSTANTS
  Client,     \* the DID of the key auth_key
  ToolCommand,\* the commands the tool is run with
  Buffer      \* bound on the tool's messages in transit

ASSUME HandshakeAssumption ==
  /\ Client \in DID \ {Owner}
  /\ ToolCommand \subseteq Commands
  /\ Buffer \in Nat \ {0}
  /\ Nil \notin Response

VARIABLES
  toPod,      \* external: requests on their way, oldest first
  toTool,     \* external: answers on their way, oldest first
  tool,       \* the command whose answer the tool waits for, or Nil
  noted,      \* the nonce of the last "bind ok" the user has seen
  trusted,    \* history: it was of that very run, and bind was not run since
  result,     \* how the last run ended
  current     \* history: the newest message in transit is of this run

net == <<toPod, toTool>>
hsVars == <<vars, net, tool, noted, trusted, result, current>>

Request == [command : ToolCommand, nonce : Nonce \cup {Nil}]

NoResult == [command |-> Nil, ok |-> FALSE, fresh |-> FALSE]

Answering == IF response # Nil THEN response.to = Client ELSE FALSE

\* Requests and answers pass through the pod in order, so that of all messages
\* in transit the last request is the newest, and the first answer the oldest.
InTransit == Len(toPod) + Len(toTool) + (IF Answering THEN 1 ELSE 0)

HandshakeTypeOK ==
  /\ TypeOK
  /\ toPod \in Seq(Request)
  /\ toTool \in Seq(Response)
  /\ InTransit <= Buffer
  /\ tool \in ToolCommand \cup {Nil}
  /\ noted \in Nonce \cup {Nil}
  /\ trusted \in BOOLEAN
  /\ result \in [command : ToolCommand \cup {Nil}, ok : BOOLEAN,
                 fresh : BOOLEAN]
  /\ current \in BOOLEAN

HandshakeInit ==
  /\ bindings = [did \in DID |-> IF did = Owner THEN valueTrue ELSE Nil]
  /\ members = [did \in DID |-> Nil]
  /\ response = Nil
  /\ toPod = <<>>
  /\ toTool = <<>>
  /\ tool = Nil
  /\ noted = Nil
  /\ trusted = FALSE
  /\ result = NoResult
  /\ current = FALSE
-----------------------------------------------------------------------------
(* The tool.                                                               *)

\* bind_ack sends its argument, any text: one that is neither empty (Nil) nor a
\* nonce does what a wrong nonce does.
Argument(command) ==
  IF command = "bind_ack" THEN Nonce \cup {Nil} ELSE {Nil}

Run(command, argument) ==
  /\ tool = Nil
  /\ argument \in Argument(command)
  /\ InTransit < Buffer
  /\ tool' = command
  /\ toPod' = Append(toPod, [command |-> command, nonce |-> argument])
  /\ trusted' = (trusted /\ command # "bind")
  /\ result' = NoResult
  /\ current' = TRUE
  /\ UNCHANGED <<vars, toTool, noted>>

\* Which answers the functions of the tool take for success, whatever request
\* they answer: bind wants a nonce with the pod's signature.
bindTakes(answer) == answer.body = "challenge"

\* Mutation: the error of the answer is not looked at.
bindACKTakesAll(answer) == TRUE

bindACKTakes(answer) == answer.body # "error"

\* bitcoinCommand prints the whole answer, be it an error.
bitcoinCommandTakes(answer) == TRUE

\* createWallet and any other command.
sendCommandTakes(answer) == answer.body # "error"

Accepts(command, answer) ==
  CASE command = "bind"     -> bindTakes(answer)
    [] command = "bind_ack" -> bindACKTakes(answer)
    [] command = "bitcoind" -> bitcoinCommandTakes(answer)
    [] OTHER                -> sendCommandTakes(answer)

\* Mutation: the user goes on with the nonce of the first bind.
NotesFirst(answer) ==
  noted' = IF tool = "bind" /\ noted = Nil /\ Accepts(tool, answer)
           THEN answer.nonce ELSE noted

Notes(answer) ==
  noted' = IF tool = "bind" /\ Accepts(tool, answer)
           THEN answer.nonce ELSE noted

Take ==
  /\ tool # Nil
  /\ toTool # <<>>
  /\ toTool' = Tail(toTool)
  /\ Notes(Head(toTool))
  /\ result' = [command |-> tool, ok |-> Accepts(tool, Head(toTool)),
                fresh |-> current /\ InTransit = 1]
  /\ trusted' = (trusted \/ (tool = "bind" /\ result'.ok /\ result'.fresh))
  /\ tool' = Nil
  /\ current' = FALSE
  /\ UNCHANGED <<vars, toPod>>

\* The user interrupts a run, or the server closes its connection and the nil
\* message that is then received makes the tool panic.
Kill ==
  /\ tool # Nil
  /\ tool' = Nil
  /\ current' = FALSE
  /\ UNCHANGED <<vars, net, noted, trusted, result>>
-----------------------------------------------------------------------------
(* The pod.                                                                *)

Handle ==
  /\ response = Nil
  /\ toPod # <<>>
  /\ toPod' = Tail(toPod)
  /\ LET m == Head(toPod) IN
       \/ Refuse(Client, m.command)
       \/ BadArguments(Client, m.command)
       \/ Fail(Client, m.command)
       \/ delegate(Client, m.command)
       \/ m.command = "bind" /\ \E nonce \in Nonce : bind(Client, nonce)
       \/ m.command = "bind_ack"
          /\ bindACK(Client, [key |-> Client, nonce |-> m.nonce])
       \/ m.command = "bitcoind"
          /\ \E method \in RPCMethod : bitcoinRPC(Client, method)
       \/ m.command = "set_member"
          /\ \E did \in DID, mode \in Mode : setMember(Client, did, mode)
       \/ m.command = "remove_member"
          /\ \E did \in DID : removeMember(Client, did)
  /\ UNCHANGED <<toTool, tool, noted, trusted, result, current>>

\* A message of the owner's, which is not modelled in transit.
OwnerCommand ==
  /\ response = Nil
  /\ \/ \E mode \in Mode : setMember(Owner, Client, mode)
     \/ removeMember(Owner, Client)
  /\ UNCHANGED <<net, tool, noted, trusted, result, current>>

\* Mutation: an answer is sent twice.
AnswerTwice ==
  /\ Send
  /\ toTool' = IF Answering /\ response.body # "none"
               THEN toTool \o <<response, response>> ELSE toTool
  /\ current' = (current /\ (Answering /\ response.body = "none" =>
                               toPod # <<>>))
  /\ UNCHANGED <<toPod, tool, noted, trusted, result>>

\* Process may have returned nil, which is not sent.
Answer ==
  /\ Send
  /\ toTool' = IF Answering /\ response.body # "none"
               THEN Append(toTool, response) ELSE toTool
  /\ current' = (current /\ (Answering /\ response.body = "none" =>
                               toPod # <<>>))
  /\ UNCHANGED <<toPod, tool, noted, trusted, result>>

\* Messages are lost on the way, with a process that ends before it has handled
\* or answered them, or by a call of SendWhisperMessages that fails.
Lose ==
  /\ \/ \E i \in DOMAIN toPod :
          /\ toPod' = RemoveAt(toPod, i)
          /\ current' = (current /\ i < Len(toPod))
          /\ UNCHANGED <<vars, toTool>>
     \/ /\ Send
        /\ current' = (current /\ (Answering => toPod # <<>>))
        /\ UNCHANGED net
     \/ \E i \in DOMAIN toTool :
          /\ toTool' = RemoveAt(toTool, i)
          /\ current' = (current /\ i < InTransit)
          /\ UNCHANGED <<vars, toPod>>
  /\ UNCHANGED <<tool, noted, trusted, result>>

HandshakeNext ==
  \/ \E command \in ToolCommand, argument \in Nonce \cup {Nil} :
       Run(command, argument)
  \/ Take
  \/ Kill
  \/ Handle
  \/ OwnerCommand
  \/ Answer
  \/ Lose

HandshakeSpec == HandshakeInit /\ [][HandshakeNext]_hsVars

\* What the user does after a "bind ok".
Sequel == result.command = "bind" /\ result.ok

\* The pod handles messages in the order they arrive, so that none is passed
\* over for ever; a user tries bind again and again, goes on with bind_ack when
\* a bind was ok, and gives up a run whose answer cannot come any more; of
\* infinitely many requests and answers of a kind some arrive, and some do not
\* fail.  That the pod handles them presumes that its commands end.
HandshakeFairness ==
  /\ SF_hsVars(Handle)
  /\ WF_hsVars(Answer)
  /\ WF_hsVars(Take)
  /\ WF_hsVars(Kill /\ InTransit = 0)
  /\ SF_hsVars(Run("bind", Nil))
  /\ SF_hsVars(Run("bind_ack", noted) /\ Sequel)
  /\ \A command \in {"bind", "bind_ack"} :
       /\ SF_hsVars(/\ Handle
                    /\ Head(toPod).command = command
                    /\ response'.body # "error")
       /\ SF_hsVars(/\ Answer
                    /\ Answering
                    /\ response.command = command
                    /\ response.body # "error")
       /\ SF_hsVars(Take /\ tool = command /\ Accepts(command, Head(toTool)))

FairHandshake == HandshakeSpec /\ HandshakeFairness
-----------------------------------------------------------------------------
(* Properties.                                                             *)

\* A "bind ack ok" that answers the request of this very run is true: Client is
\* bound, and remains so whatever is lost or repeated afterwards.
OkMeansBound ==
  result.command = "bind_ack" /\ result.ok /\ result.fresh =>
    HasBinding(Client)

\* The nonce of a "bind ok" that answers the request of this very run is the
\* one that the pod waits for, until the tool is run again: no older challenge
\* that was delayed or repeated has changed it.
NotedIsPending ==
  result.command = "bind" /\ result.ok /\ result.fresh =>
    BindingNonce(Client) = noted

\* After a "bind ok" that answered its run the ack can be sent again and again,
\* whatever other commands are run in between, until bind is run anew: an ack
\* that was lost, refused, sent with a wrong nonce or not answered leaves the
\* pod waiting for the same nonce, unless it has bound Client already.
AckMayBeRepeated ==
  trusted => HasBinding(Client) \/ BindingNonce(Client) = noted

\* Messages in transit that are not of the run in progress.
Leftover == InTransit > (IF current THEN 1 ELSE 0)

Settled ==
  /\ accessMode(Client) \in Levels
  /\ response = Nil \/ Answering
  /\ ~ Leftover

\* Through lost requests and answers, failing commands, and binds that void
\* each other's nonce, the tool gets Client bound, provided that the owner is
\* done with appointing Client, and that no run is given up while a message of
\* it is in transit: one that stays behind can leave every later run one answer
\* behind.
EventuallyBound == <>[]Settled => <>HasBinding(Client)
=============================================================================
