-------------------------- MODULE HandshakeProofs --------------------------
(***************************************************************************)
(* Proofs about Handshake, for any number of nonces and modes, any set of  *)
(* commands of the tool and any number of messages in transit.  The        *)
(* command handler keeps the invariant proved in ControllerProofs; on top  *)
(* of it, HInv says what the messages in transit have to do with the       *)
(* database and with the run in progress.                                  *)
(***************************************************************************)
EXTENDS Handshake, ControllerProofs, SequenceTheorems
LOCAL INSTANCE SequencesExt

\* Since the "bind ok" whose nonce is trusted no bind has been sent, and older
\* ones are no longer in transit: nothing can change the pending nonce.
TrustInv ==
  trusted =>
    /\ tool = Nil \/ tool # "bind"
    /\ \A i \in 1..Len(toPod) : toPod[i].command # "bind"
    /\ HasBinding(Client) \/ BindingNonce(Client) = noted

AckTrue(answer) ==
  answer.command = "bind_ack" /\ answer.body # "error" => HasBinding(Client)

\* However old a "bind ack ok" is, it is true.
AnswersInv ==
  /\ Answering => AckTrue(response)
  /\ \A i \in 1..Len(toTool) : AckTrue(toTool[i])

\* The newest message in transit, if it is of this run, is or will be answered
\* by what the tool waits for; a challenge among these is the pending one.
NewestInv ==
  current =>
    /\ toPod # <<>> => toPod[Len(toPod)].command = tool
    /\ toPod = <<>> /\ Answering => response.command = tool
    /\ toPod = <<>> /\ ~ Answering =>
         /\ toTool # <<>>
         /\ toTool[Len(toTool)].command = tool
         /\ toTool[Len(toTool)].body = "challenge" =>
              BindingNonce(Client) = toTool[Len(toTool)].nonce

\* After a run that got its own answer, nothing is in transit.
ResultInv ==
  result.fresh => toPod = <<>> /\ toTool = <<>> /\ ~ Answering

HInv ==
  /\ IInv
  /\ HandshakeTypeOK
  /\ TrustInv
  /\ AnswersInv
  /\ NewestInv
  /\ ResultInv
  /\ OkMeansBound
  /\ NotedIsPending
-----------------------------------------------------------------------------
(* Sequences and types.                                                    *)

LEMMA RemoveAtFacts ==
  ASSUME NEW S, NEW s \in Seq(S), NEW i \in 1..Len(s)
  PROVE  /\ RemoveAt(s, i) \in Seq(S)
         /\ Len(RemoveAt(s, i)) = Len(s) - 1
         /\ \A j \in 1..(Len(s) - 1) :
              RemoveAt(s, i)[j] = IF j < i THEN s[j] ELSE s[j + 1]
<1> DEFINE front == SubSeq(s, 1, i - 1)
           back == SubSeq(s, i + 1, Len(s))
<1>1. /\ front \in Seq(S)
      /\ Len(front) = i - 1
      /\ \A j \in 1..(i - 1) : front[j] = s[j]
  <2>1. \A j \in 1..(i - 1) : s[j] \in S
    BY ElementOfSeq
  <2>2. QED
    BY <2>1, SubSeqProperties
<1>2. /\ back \in Seq(S)
      /\ Len(back) = Len(s) - i
      /\ \A j \in 1..(Len(s) - i) : back[j] = s[i + j]
  <2>1. \A j \in (i + 1)..Len(s) : s[j] \in S
    BY ElementOfSeq
  <2>2. QED
    BY <2>1, SubSeqProperties
<1>3. /\ front \o back \in Seq(S)
      /\ Len(front \o back) = Len(s) - 1
      /\ \A j \in 1..(Len(s) - 1) :
           (front \o back)[j] = IF j < i THEN s[j] ELSE s[j + 1]
  <2> HIDE DEF front, back
  <2>1. /\ front \o back \in Seq(S)
        /\ Len(front \o back) = Len(front) + Len(back)
        /\ \A j \in 1..(Len(front) + Len(back)) : (front \o back)[j] =
             IF j <= Len(front) THEN front[j] ELSE back[j - Len(front)]
    BY <1>1, <1>2, ConcatProperties
  <2>2. QED
    BY <1>1, <1>2, <2>1
<1>4. QED
  BY <1>3 DEF RemoveAt

LEMMA TypeFacts ==
  ASSUME HInv
  PROVE  /\ toPod \in Seq(Request)
         /\ toTool \in Seq(Response)
         /\ Len(toPod) \in Nat
         /\ Len(toTool) \in Nat
         /\ Client \in DID
         /\ Client # Owner
         /\ ToolCommand \subseteq Commands
         /\ Nil \notin Nonce
  BY HandshakeAssumption, StoreAssumption, LenProperties
     DEF HInv, HandshakeTypeOK
-----------------------------------------------------------------------------
(* The first state.                                                        *)

LEMMA InitHInv == HandshakeInit => HInv
<1> SUFFICES ASSUME HandshakeInit PROVE HInv
  OBVIOUS
<1>1. /\ bindings = [did \in DID |-> IF did = Owner THEN valueTrue ELSE Nil]
      /\ members = [did \in DID |-> Nil]
      /\ response = Nil
      /\ toPod = <<>>
      /\ toTool = <<>>
      /\ tool = Nil
      /\ noted = Nil
      /\ trusted = FALSE
      /\ result = [command |-> Nil, ok |-> FALSE, fresh |-> FALSE]
      /\ current = FALSE
  BY DEF HandshakeInit, NoResult
<1>2. IInv
  <2>1. TypeOK
    BY <1>1 DEF TypeOK, StoreTypeOK
  <2>2. OwnerFirst
    BY <1>1, ControllerAssumption DEF OwnerFirst, HasBinding
  <2>3. ReplyTellsStore /\ ServedOnlyWhileEntitled
    BY <1>1 DEF ReplyTellsStore, ServedOnlyWhileEntitled
  <2>4. QED
    BY <2>1, <2>2, <2>3 DEF IInv
<1>3. ~ Answering
  BY <1>1 DEF Answering
<1>4. HandshakeTypeOK
  <2>1. InTransit = 0
    BY <1>1, <1>3 DEF InTransit
  <2>2. toPod \in Seq(Request) /\ toTool \in Seq(Response)
    BY <1>1
  <2>3. InTransit <= Buffer
    BY <2>1, HandshakeAssumption
  <2>4. QED
    BY <1>1, <1>2, <2>2, <2>3 DEF HandshakeTypeOK, IInv
<1>5. /\ TrustInv
      /\ AnswersInv
      /\ NewestInv
      /\ ResultInv
      /\ OkMeansBound
      /\ NotedIsPending
  BY <1>1, <1>3 DEF TrustInv, AnswersInv, NewestInv, ResultInv,
     OkMeansBound, NotedIsPending
<1>6. QED
  BY <1>2, <1>4, <1>5 DEF HInv
-----------------------------------------------------------------------------
(* The steps of the tool, which leave the pod alone.                       *)

LEMMA PodUntouched ==
  ASSUME IInv, UNCHANGED vars
  PROVE  /\ IInv'
         /\ Answering' = Answering
         /\ \A answer : AckTrue(answer)' <=> AckTrue(answer)
<1>1. IInv'
  BY StepIInv
<1>2. Answering' = Answering
  BY DEF vars, Answering
<1>3. QED
  BY <1>1, <1>2 DEF vars, AckTrue, HasBinding

LEMMA RunStep ==
  ASSUME HInv, NEW command \in ToolCommand, NEW argument \in Nonce \cup {Nil},
         Run(command, argument)
  PROVE  HInv'
<1> DEFINE request == [command |-> command, nonce |-> argument]
<1>1. /\ tool = Nil
      /\ InTransit < Buffer
      /\ tool' = command
      /\ toPod' = Append(toPod, request)
      /\ result' = [command |-> Nil, ok |-> FALSE, fresh |-> FALSE]
      /\ current' = TRUE
      /\ UNCHANGED vars
      /\ toTool' = toTool
      /\ noted' = noted
      /\ trusted' = (trusted /\ command # "bind")
  BY DEF Run, NoResult
<1>2. request \in Request
  BY DEF Request
<1>3. /\ toPod' \in Seq(Request)
      /\ Len(toPod') = Len(toPod) + 1
      /\ toPod' # <<>>
      /\ toPod'[Len(toPod) + 1] = request
      /\ \A i \in 1..Len(toPod) : toPod'[i] = toPod[i]
  <2> HIDE DEF request
  <2>1. toPod \in Seq(Request)
    BY TypeFacts
  <2>2. QED
    BY <1>1, <1>2, <2>1
<1>4. IInv' /\ Answering' = Answering
  BY <1>1, PodUntouched DEF HInv
<1>5. HandshakeTypeOK'
  <2>1. InTransit' = InTransit + 1
    BY <1>1, <1>3, <1>4, TypeFacts DEF InTransit
  <2>2. InTransit \in Nat
    BY TypeFacts DEF InTransit
  <2>3. InTransit' <= Buffer
    BY <1>1, <2>1, <2>2, HandshakeAssumption
  <2>4. TypeOK'
    BY <1>4 DEF IInv
  <2>5. QED
    BY <1>1, <1>3, <2>3, <2>4 DEF HInv, HandshakeTypeOK
<1>6. TrustInv'
  <2>1. SUFFICES ASSUME trusted, command # "bind" PROVE TrustInv'
    BY <1>1 DEF TrustInv
  <2>2. \A i \in 1..Len(toPod') : toPod'[i].command # "bind"
    <3>1. SUFFICES ASSUME NEW i \in 1..Len(toPod')
                   PROVE  toPod'[i].command # "bind"
      OBVIOUS
    <3>2. CASE i \in 1..Len(toPod)
      BY <1>3, <2>1, <3>2 DEF HInv, TrustInv
    <3>3. CASE i = Len(toPod) + 1
      BY <1>3, <2>1, <3>3
    <3>4. QED
      BY <1>3, <3>2, <3>3, TypeFacts
  <2>3. (HasBinding(Client) \/ BindingNonce(Client) = noted)'
    BY <1>1, <2>1 DEF HInv, TrustInv, vars, HasBinding, BindingNonce
  <2>4. QED
    BY <1>1, <2>1, <2>2, <2>3 DEF TrustInv
<1>7. AnswersInv'
  BY <1>1, <1>4, PodUntouched DEF HInv, AnswersInv, vars, AckTrue, HasBinding
<1>8. NewestInv'
  BY <1>1, <1>3 DEF NewestInv
<1>9. ResultInv' /\ OkMeansBound' /\ NotedIsPending'
  BY <1>1 DEF ResultInv, OkMeansBound, NotedIsPending
<1>10. QED
  BY <1>4, <1>5, <1>6, <1>7, <1>8, <1>9 DEF HInv

LEMMA TakeStep ==
  ASSUME HInv, Take
  PROVE  HInv'
<1> DEFINE answer == toTool[1]
<1>1. /\ tool # Nil
      /\ toTool # <<>>
      /\ toTool' = Tail(toTool)
      /\ noted' = IF tool = "bind" /\ Accepts(tool, answer)
                  THEN answer.nonce ELSE noted
      /\ result' = [command |-> tool, ok |-> Accepts(tool, answer),
                    fresh |-> current /\ InTransit = 1]
      /\ trusted' =
           (trusted \/ (tool = "bind" /\ result'.ok /\ result'.fresh))
      /\ tool' = Nil
      /\ current' = FALSE
      /\ UNCHANGED vars
      /\ toPod' = toPod
  BY DEF Take, Notes
<1>2. /\ answer \in Response
      /\ toTool' \in Seq(Response)
      /\ Len(toTool) > 0
      /\ Len(toTool') = Len(toTool) - 1
      /\ \A i \in 1..(Len(toTool) - 1) : toTool'[i] = toTool[i + 1]
  <2>1. toTool \in Seq(Response)
    BY TypeFacts
  <2>2. Len(toTool) > 0
    BY <1>1, <2>1
  <2>3. QED
    BY <1>1, <2>1, <2>2, HeadTailProperties, ElementOfSeq
<1>3. IInv' /\ Answering' = Answering
  BY <1>1, PodUntouched DEF HInv
<1>4. Accepts(tool, answer) \in BOOLEAN
  BY DEF Accepts, bindTakes, bindACKTakes, bitcoinCommandTakes,
     sendCommandTakes
<1>5. InTransit \in Nat /\ InTransit' = InTransit - 1
  BY <1>1, <1>2, <1>3, TypeFacts DEF InTransit
<1>6. HandshakeTypeOK'
  <2>1. InTransit' <= Buffer
    BY <1>5, HandshakeAssumption DEF HInv, HandshakeTypeOK
  <2>2. noted' \in Nonce \cup {Nil}
    BY <1>1, <1>2 DEF HInv, HandshakeTypeOK, Response
  <2>3. result' \in [command : ToolCommand \cup {Nil}, ok : BOOLEAN,
                     fresh : BOOLEAN]
    <3>1. (current /\ InTransit = 1) \in BOOLEAN
      OBVIOUS
    <3>2. tool \in ToolCommand \cup {Nil}
      BY DEF HInv, HandshakeTypeOK
    <3> HIDE DEF answer
    <3>3. QED
      BY <1>1, <1>4, <3>1, <3>2
  <2>4. TypeOK'
    BY <1>3 DEF IInv
  <2>5. QED
    BY <1>1, <1>2, <1>4, <2>1, <2>2, <2>3, <2>4 DEF HInv, HandshakeTypeOK
<1>7. trusted' \in BOOLEAN
  BY <1>1 DEF HInv, HandshakeTypeOK
<1>8. AnswersInv'
  BY <1>1, <1>2, <1>3, TypeFacts
     DEF HInv, AnswersInv, vars, AckTrue, HasBinding
<1>9. NewestInv'
  BY <1>1 DEF NewestInv
\* A fresh answer was the only message in transit.
<1>10. result'.fresh =>
         /\ current
         /\ toPod = <<>>
         /\ toTool' = <<>>
         /\ Len(toTool) = 1
         /\ ~ Answering
  <2>1. result'.fresh => current /\ InTransit = 1
    BY <1>1
  <2>2. InTransit = 1 => Len(toPod) = 0 /\ Len(toTool) = 1 /\ ~ Answering
    BY <1>2, TypeFacts DEF InTransit
  <2>3. /\ Len(toPod) = 0 => toPod = <<>>
        /\ Len(toTool') = 0 => toTool' = <<>>
    BY <1>2, TypeFacts, EmptySeq
  <2>4. QED
    BY <1>2, <2>1, <2>2, <2>3
<1>11. ResultInv'
  BY <1>1, <1>3, <1>10 DEF ResultInv
<1>12. result'.fresh =>
         /\ answer.command = tool
         /\ answer.body = "challenge" => BindingNonce(Client) = answer.nonce
  BY <1>10 DEF HInv, NewestInv
<1>13. OkMeansBound'
  <2>1. SUFFICES ASSUME tool = "bind_ack", Accepts(tool, answer),
                        result'.fresh
                 PROVE  HasBinding(Client)'
    BY <1>1 DEF OkMeansBound
  <2>2. answer.body # "error"
    BY <2>1 DEF Accepts, bindACKTakes
  <2>3. HasBinding(Client)
    BY <1>2, <1>12, <2>1, <2>2, TypeFacts DEF HInv, AnswersInv, AckTrue
  <2>4. QED
    BY <1>1, <2>3 DEF vars, HasBinding
<1>14. NotedIsPending'
  <2>1. SUFFICES ASSUME tool = "bind", Accepts(tool, answer), result'.fresh
                 PROVE  bindings'[Client] = noted'
    BY <1>1 DEF NotedIsPending, BindingNonce
  <2>2. answer.body = "challenge"
    BY <2>1 DEF Accepts, bindTakes
  <2>3. bindings[Client] = answer.nonce
    BY <1>12, <2>1, <2>2 DEF BindingNonce
  <2>4. QED
    BY <1>1, <2>1, <2>3 DEF vars
<1>15. TrustInv'
  <2>1. ASSUME trusted PROVE TrustInv'
    BY <1>1, <2>1 DEF HInv, TrustInv, vars, HasBinding, BindingNonce
  <2>2. ASSUME tool = "bind", result'.ok, result'.fresh PROVE TrustInv'
    <3>1. toPod' = <<>> /\ result'.command = "bind"
      BY <1>1, <1>10, <2>2
    <3>2. BindingNonce(Client)' = noted'
      BY <1>14, <2>2, <3>1 DEF NotedIsPending
    <3>3. QED
      BY <1>1, <3>1, <3>2 DEF TrustInv
  <2>3. ASSUME ~ trusted' PROVE TrustInv'
    BY <2>3 DEF TrustInv
  <2>4. QED
    BY <1>1, <2>1, <2>2, <2>3
<1>16. QED
  BY <1>3, <1>6, <1>8, <1>9, <1>11, <1>13, <1>14, <1>15 DEF HInv

LEMMA KillStep ==
  ASSUME HInv, Kill
  PROVE  HInv'
<1>1. /\ tool' = Nil
      /\ current' = FALSE
      /\ UNCHANGED vars
      /\ toPod' = toPod
      /\ toTool' = toTool
      /\ noted' = noted
      /\ trusted' = trusted
      /\ result' = result
  BY DEF Kill, net
<1>2. IInv' /\ Answering' = Answering
  BY <1>1, PodUntouched DEF HInv
<1>3. HandshakeTypeOK'
  BY <1>1, <1>2 DEF HInv, HandshakeTypeOK, InTransit, IInv
<1>4. TrustInv' /\ AnswersInv' /\ NewestInv' /\ ResultInv'
  BY <1>1, <1>2
     DEF HInv, TrustInv, AnswersInv, NewestInv, ResultInv, vars, AckTrue,
         HasBinding, BindingNonce
<1>5. OkMeansBound' /\ NotedIsPending'
  BY <1>1 DEF HInv, OkMeansBound, NotedIsPending, vars, HasBinding,
     BindingNonce
<1>6. QED
  BY <1>2, <1>3, <1>4, <1>5 DEF HInv
-----------------------------------------------------------------------------
(* The steps of the pod.                                                   *)

\* What Handle does is what Process does with the oldest request, and it
\* answers that request.
LEMMA HandleShape ==
  ASSUME HInv, Handle
  PROVE  /\ Process(Client)
         /\ response'.to = Client
         /\ response' # Nil
         /\ response'.command = toPod[1].command
         /\ response'.command = "bind_ack" =>
              response'.body = "error" \/ HasBinding(Client)'
         /\ toPod[1].command # "bind" =>
              bindings'[Client] = bindings[Client] \/ HasBinding(Client)'
<1> DEFINE m == toPod[1]
<1>1. m \in Request /\ m.command \in Commands /\ m.nonce \in Nonce \cup {Nil}
  <2>1. toPod # <<>>
    BY DEF Handle
  <2>2. m \in Request
    BY <2>1, TypeFacts, ElementOfSeq
  <2>3. QED
    BY <2>2, TypeFacts DEF Request
<1>2. \/ Refuse(Client, m.command)
      \/ BadArguments(Client, m.command)
      \/ Fail(Client, m.command)
      \/ delegate(Client, m.command)
      \/ m.command = "bind" /\ \E nonce \in Nonce : bind(Client, nonce)
      \/ m.command = "bind_ack"
         /\ bindACK(Client, [key |-> Client, nonce |-> m.nonce])
      \/ m.command = "bitcoind"
         /\ \E method \in RPCMethod : bitcoinRPC(Client, method)
      \/ m.command = "set_member"
         /\ \E did \in DID, mode \in Mode : setMember(Client, did, mode)
      \/ m.command = "remove_member"
         /\ \E did \in DID : removeMember(Client, did)
  BY DEF Handle
<1>3. Client \in DID
  BY TypeFacts
<1> HIDE DEF m
<1>4. Process(Client)
  <2>1. [key |-> Client, nonce |-> m.nonce] \in Signature
    BY <1>1, <1>3 DEF Signature
  <2>2. QED
    BY <1>1, <1>2, <2>1 DEF Process
<1> DEFINE answer(body, nonce) ==
             [to |-> Client, command |-> m.command, body |-> body,
              nonce |-> nonce]
           bodies == {"error", "challenge", "ok", "data", "none"}
           kept == bindings'[Client] = bindings[Client]
<1>5. \E body \in bodies, nonce \in Nonce \cup {Nil} :
        /\ response' = answer(body, nonce)
        /\ m.command = "bind_ack" => body = "error" \/ HasBinding(Client)'
        /\ m.command # "bind" => kept \/ HasBinding(Client)'
  <2>1. CASE \/ Refuse(Client, m.command)
             \/ BadArguments(Client, m.command)
             \/ Fail(Client, m.command)
    BY <2>1 DEF Refuse, BadArguments, Fail, Reply, storeVars
  <2>2. CASE delegate(Client, m.command)
    BY <2>2 DEF delegate, Delegated, CallResult, Reply, storeVars
  <2>3. ASSUME NEW nonce \in Nonce, bind(Client, nonce), m.command = "bind"
        PROVE  response' = answer("challenge", nonce)
    BY <2>3 DEF bind, Challenge
  <2>4. CASE /\ m.command = "bind_ack"
             /\ bindACK(Client, [key |-> Client, nonce |-> m.nonce])
    <3>1. \/ CompleteBinding(Client) /\ Reply(Client, "bind_ack", "ok")
          \/ Reply(Client, "bind_ack", "error") /\ kept
      BY <2>4 DEF bindACK, storeVars
    <3>2. CompleteBinding(Client) => HasBinding(Client)'
      BY <1>3 DEF CompleteBinding, HasBinding, HInv, IInv, TypeOK,
         StoreTypeOK
    <3>3. QED
      BY <2>4, <3>1, <3>2 DEF Reply
  <2>5. ASSUME NEW method \in RPCMethod, bitcoinRPC(Client, method),
               m.command = "bitcoind"
        PROVE  kept /\ \E body \in bodies : response' = answer(body, Nil)
    BY <2>5 DEF bitcoinRPC, CallResult, Reply, storeVars
  <2>6. ASSUME NEW did \in DID, NEW mode \in Mode,
               setMember(Client, did, mode), m.command = "set_member"
        PROVE  kept /\ response' = answer("ok", Nil)
    BY <2>6 DEF setMember, UpdateMemberAccessMode, Reply
  <2>7. ASSUME NEW did \in DID, removeMember(Client, did),
               m.command = "remove_member"
        PROVE  kept /\ response' = answer("ok", Nil)
    BY <2>7 DEF removeMember, RemoveMember, Reply
  <2>8. QED
    BY <1>2, <2>1, <2>2, <2>3, <2>4, <2>5, <2>6, <2>7
<1>6. PICK body \in bodies, nonce \in Nonce \cup {Nil} :
        /\ response' = answer(body, nonce)
        /\ m.command = "bind_ack" => body = "error" \/ HasBinding(Client)'
        /\ m.command # "bind" => kept \/ HasBinding(Client)'
  BY <1>5
<1>7. answer(body, nonce) \in Response
  BY <1>1, <1>3 DEF Response
<1>8. response' # Nil
  BY <1>6, <1>7, HandshakeAssumption
<1>9. QED
  BY <1>4, <1>6, <1>8 DEF m

LEMMA HandleStep ==
  ASSUME HInv, Handle
  PROVE  HInv'
<1>1. /\ response = Nil
      /\ toPod # <<>>
      /\ toPod' = Tail(toPod)
      /\ toTool' = toTool
      /\ tool' = tool
      /\ noted' = noted
      /\ trusted' = trusted
      /\ result' = result
      /\ current' = current
  BY DEF Handle
<1>2. [Next]_vars
  BY <1>1, HandleShape, TypeFacts DEF Next
<1>3. IInv' /\ (HasBinding(Client) => HasBinding(Client)')
  BY <1>2, StepIInv, BoundStays, TypeFacts DEF HInv
<1>4. ~ Answering /\ Answering'
  BY <1>1, HandleShape DEF Answering
<1>5. /\ toPod' \in Seq(Request)
      /\ Len(toPod) > 0
      /\ Len(toPod') = Len(toPod) - 1
      /\ \A i \in 1..(Len(toPod) - 1) : toPod'[i] = toPod[i + 1]
  <2>1. toPod \in Seq(Request)
    BY TypeFacts
  <2>2. Len(toPod) > 0
    BY <1>1, <2>1
  <2>3. QED
    BY <1>1, <2>1, <2>2, HeadTailProperties
<1>6. HandshakeTypeOK'
  <2>1. InTransit' = InTransit
    BY <1>1, <1>4, <1>5, TypeFacts DEF InTransit
  <2>2. TypeOK'
    BY <1>3 DEF IInv
  <2>3. QED
    BY <1>1, <1>5, <2>1, <2>2 DEF HInv, HandshakeTypeOK
<1>7. TrustInv'
  <2>1. SUFFICES ASSUME trusted PROVE TrustInv'
    BY <1>1 DEF TrustInv
  <2>2. bindings'[Client] = bindings[Client] \/ HasBinding(Client)'
    BY <1>5, <2>1, HandleShape, TypeFacts DEF HInv, TrustInv
  <2>3. (HasBinding(Client) \/ BindingNonce(Client) = noted)'
    BY <1>1, <1>3, <2>1, <2>2 DEF HInv, TrustInv, BindingNonce, HasBinding
  <2>4. \A i \in 1..Len(toPod') : toPod'[i].command # "bind"
    BY <1>5, <2>1, TypeFacts DEF HInv, TrustInv
  <2>5. QED
    BY <1>1, <2>1, <2>3, <2>4 DEF HInv, TrustInv
<1>8. AnswersInv'
  BY <1>1, <1>3, HandleShape DEF HInv, AnswersInv, AckTrue
<1>9. NewestInv'
  <2>1. CASE Len(toPod) = 1
    <3>1. toPod' = <<>>
      BY <1>5, <2>1
    <3>2. QED
      BY <1>1, <1>4, <2>1, <3>1, HandleShape DEF HInv, NewestInv
  <2>2. CASE Len(toPod) > 1
    <3>1. toPod' # <<>> /\ toPod'[Len(toPod')] = toPod[Len(toPod)]
      BY <1>5, <2>2, TypeFacts
    <3>2. QED
      BY <1>1, <3>1 DEF HInv, NewestInv
  <2>3. QED
    BY <1>5, <2>1, <2>2, TypeFacts
<1>10. ~ result.fresh
  BY <1>1 DEF HInv, ResultInv
<1>11. ResultInv' /\ OkMeansBound' /\ NotedIsPending'
  BY <1>1, <1>10 DEF ResultInv, OkMeansBound, NotedIsPending
<1>12. QED
  BY <1>3, <1>6, <1>7, <1>8, <1>9, <1>11 DEF HInv

\* The owner's commands leave the bindings alone, and are not answered to the
\* tool.
LEMMA OwnerCommandStep ==
  ASSUME HInv, OwnerCommand
  PROVE  HInv'
<1>1. /\ response = Nil
      /\ toPod' = toPod
      /\ toTool' = toTool
      /\ tool' = tool
      /\ noted' = noted
      /\ trusted' = trusted
      /\ result' = result
      /\ current' = current
  BY DEF OwnerCommand, net
<1>2. \/ \E mode \in Mode : setMember(Owner, Client, mode)
      \/ removeMember(Owner, Client)
  BY DEF OwnerCommand
<1>3. [Next]_vars
  BY <1>1, <1>2, TypeFacts, ControllerAssumption DEF Next, Process
<1>4. IInv'
  BY <1>3, StepIInv DEF HInv
<1>5. response'.to = Owner /\ bindings' = bindings
  BY <1>2 DEF setMember, removeMember, UpdateMemberAccessMode, RemoveMember,
     Reply
<1>6. ~ Answering /\ ~ Answering'
  BY <1>1, <1>5, TypeFacts DEF Answering
<1>7. HandshakeTypeOK'
  <2>1. InTransit' = InTransit
    BY <1>1, <1>6 DEF InTransit
  <2>2. TypeOK'
    BY <1>4 DEF IInv
  <2>3. QED
    BY <1>1, <2>1, <2>2 DEF HInv, HandshakeTypeOK
<1>8. TrustInv' /\ AnswersInv' /\ NewestInv' /\ ResultInv'
  BY <1>1, <1>5, <1>6 DEF HInv, TrustInv, AnswersInv, NewestInv, ResultInv,
     AckTrue, HasBinding, BindingNonce
<1>9. OkMeansBound' /\ NotedIsPending'
  BY <1>1, <1>5 DEF HInv, OkMeansBound, NotedIsPending, HasBinding,
     BindingNonce
<1>10. QED
  BY <1>4, <1>7, <1>8, <1>9 DEF HInv

\* What a step that sends or loses the reply of the pod has done.
LEMMA SendShape ==
  ASSUME HInv, Send
  PROVE  /\ IInv'
         /\ bindings' = bindings
         /\ ~ Answering'
         /\ response \in Response
<1>1. IInv'
  BY StepIInv DEF Next, HInv
<1>2. bindings' = bindings /\ response' = Nil /\ response # Nil
  BY DEF Send, storeVars
<1>3. QED
  BY <1>1, <1>2 DEF Answering, HInv, IInv, TypeOK

LEMMA AnswerStep ==
  ASSUME HInv, Answer
  PROVE  HInv'
<1>1. /\ Send
      /\ toTool' = IF Answering /\ response.body # "none"
                   THEN Append(toTool, response) ELSE toTool
      /\ current' = (current /\ (Answering /\ response.body = "none" =>
                                   toPod # <<>>))
      /\ toPod' = toPod
      /\ tool' = tool
      /\ noted' = noted
      /\ trusted' = trusted
      /\ result' = result
  BY DEF Answer
<1>2. IInv' /\ bindings' = bindings /\ ~ Answering' /\ response \in Response
  BY <1>1, SendShape
<1>3. TrustInv'
  BY <1>1, <1>2 DEF HInv, TrustInv, HasBinding, BindingNonce
<1>4. OkMeansBound' /\ NotedIsPending'
  BY <1>1, <1>2 DEF HInv, OkMeansBound, NotedIsPending, HasBinding,
     BindingNonce
<1>5. TypeOK' /\ current' \in BOOLEAN
  BY <1>1, <1>2 DEF IInv
<1>6. CASE Answering /\ response.body # "none"
  <2>1. /\ toTool' \in Seq(Response)
        /\ Len(toTool') = Len(toTool) + 1
        /\ toTool' # <<>>
        /\ toTool'[Len(toTool) + 1] = response
        /\ \A i \in 1..Len(toTool) : toTool'[i] = toTool[i]
    <3>1. toTool \in Seq(Response) /\ toTool' = Append(toTool, response)
      BY <1>1, <1>6, TypeFacts
    <3>2. QED
      BY <1>2, <3>1
  <2>2. InTransit' = InTransit
    BY <1>1, <1>2, <1>6, <2>1, TypeFacts DEF InTransit
  <2>3. HandshakeTypeOK'
    BY <1>1, <1>5, <2>1, <2>2 DEF HInv, HandshakeTypeOK
  <2>4. AnswersInv'
    <3>1. \A i \in 1..Len(toTool') : AckTrue(toTool'[i])
      BY <1>6, <2>1, TypeFacts DEF HInv, AnswersInv
    <3>2. QED
      BY <1>2, <3>1 DEF AnswersInv, AckTrue, HasBinding
  <2>5. NewestInv'
    <3>1. response.to = Client /\ response # Nil
      BY <1>6 DEF Answering
    <3>2. response.body = "challenge" => bindings[Client] = response.nonce
      BY <3>1 DEF HInv, IInv, ReplyTellsStore, BindingNonce
    <3>3. current' => current
      BY <1>1
    <3>4. QED
      BY <1>1, <1>2, <1>6, <2>1, <3>2, <3>3
         DEF HInv, NewestInv, BindingNonce
  <2>6. ResultInv'
    BY <1>1, <1>6 DEF HInv, ResultInv
  <2>7. QED
    BY <1>2, <1>3, <1>4, <2>3, <2>4, <2>5, <2>6 DEF HInv
<1>7. CASE ~ (Answering /\ response.body # "none")
  <2>1. toTool' = toTool
    BY <1>1, <1>7
  <2>2. InTransit \in Nat /\ InTransit' \in Nat /\ InTransit' <= InTransit
    BY <1>1, <1>2, <2>1, TypeFacts DEF InTransit
  <2>3. HandshakeTypeOK'
    <3>1. InTransit' <= Buffer
      BY <2>2, HandshakeAssumption DEF HInv, HandshakeTypeOK
    <3>2. QED
      BY <1>1, <1>5, <2>1, <3>1 DEF HInv, HandshakeTypeOK
  <2>4. AnswersInv' /\ ResultInv'
    BY <1>1, <1>2, <2>1 DEF HInv, AnswersInv, ResultInv, AckTrue, HasBinding
  <2>5. NewestInv'
    BY <1>1, <1>2, <1>7, <2>1 DEF HInv, NewestInv, BindingNonce
  <2>6. QED
    BY <1>2, <1>3, <1>4, <2>3, <2>4, <2>5 DEF HInv
<1>8. QED
  BY <1>6, <1>7
-----------------------------------------------------------------------------
(* The loss of a message.                                                  *)

LEMMA LoseRequestStep ==
  ASSUME HInv, NEW i \in DOMAIN toPod,
         toPod' = RemoveAt(toPod, i),
         current' = (current /\ i < Len(toPod)),
         UNCHANGED <<vars, toTool, tool, noted, trusted, result>>
  PROVE  HInv'
<1>1. IInv' /\ Answering' = Answering
  BY PodUntouched DEF HInv
<1>2. /\ i \in 1..Len(toPod)
      /\ toPod' \in Seq(Request)
      /\ Len(toPod') = Len(toPod) - 1
      /\ \A j \in 1..(Len(toPod) - 1) :
           toPod'[j] = IF j < i THEN toPod[j] ELSE toPod[j + 1]
  BY TypeFacts, LenProperties, RemoveAtFacts
<1>3. HandshakeTypeOK'
  <2>1. InTransit \in Nat /\ InTransit' \in Nat /\ InTransit' <= InTransit
    BY <1>1, <1>2, TypeFacts DEF InTransit
  <2>2. InTransit' <= Buffer
    BY <2>1, HandshakeAssumption DEF HInv, HandshakeTypeOK
  <2>3. QED
    BY <1>1, <1>2, <2>2 DEF HInv, HandshakeTypeOK, IInv
<1>4. TrustInv'
  BY <1>2, TypeFacts DEF HInv, TrustInv, vars, HasBinding, BindingNonce
<1>5. AnswersInv'
  BY <1>1 DEF HInv, AnswersInv, AckTrue, HasBinding, vars
<1>6. NewestInv'
  <2>1. SUFFICES ASSUME current, i < Len(toPod) PROVE NewestInv'
    BY DEF NewestInv
  <2>2. /\ toPod # <<>>
        /\ toPod' # <<>>
        /\ toPod'[Len(toPod')] = toPod[Len(toPod)]
    BY <1>2, <2>1, TypeFacts
  <2>3. QED
    BY <2>2 DEF HInv, NewestInv
<1>7. ~ result.fresh
  BY <1>2, TypeFacts DEF HInv, ResultInv
<1>8. ResultInv' /\ OkMeansBound' /\ NotedIsPending'
  BY <1>7 DEF ResultInv, OkMeansBound, NotedIsPending
<1>9. QED
  BY <1>1, <1>3, <1>4, <1>5, <1>6, <1>8 DEF HInv

LEMMA LoseReplyStep ==
  ASSUME HInv, Send,
         current' = (current /\ (Answering => toPod # <<>>)),
         UNCHANGED <<net, tool, noted, trusted, result>>
  PROVE  HInv'
<1>1. IInv' /\ bindings' = bindings /\ ~ Answering' /\ response \in Response
  BY SendShape
<1>2. toPod' = toPod /\ toTool' = toTool
  BY DEF net
<1>3. HandshakeTypeOK'
  <2>1. InTransit \in Nat /\ InTransit' \in Nat /\ InTransit' <= InTransit
    BY <1>1, <1>2, TypeFacts DEF InTransit
  <2>2. InTransit' <= Buffer
    BY <2>1, HandshakeAssumption DEF HInv, HandshakeTypeOK
  <2>3. QED
    BY <1>1, <1>2, <2>2 DEF HInv, HandshakeTypeOK, IInv
<1>4. TrustInv' /\ AnswersInv' /\ NewestInv' /\ ResultInv'
  BY <1>1, <1>2 DEF HInv, TrustInv, AnswersInv, NewestInv, ResultInv,
     AckTrue, HasBinding, BindingNonce
<1>5. OkMeansBound' /\ NotedIsPending'
  BY <1>1 DEF HInv, OkMeansBound, NotedIsPending, HasBinding, BindingNonce
<1>6. QED
  BY <1>1, <1>3, <1>4, <1>5 DEF HInv

LEMMA LoseAnswerStep ==
  ASSUME HInv, NEW i \in DOMAIN toTool,
         toTool' = RemoveAt(toTool, i),
         current' = (current /\ i < InTransit),
         UNCHANGED <<vars, toPod, tool, noted, trusted, result>>
  PROVE  HInv'
<1>1. IInv' /\ Answering' = Answering
  BY PodUntouched DEF HInv
<1>2. /\ i \in 1..Len(toTool)
      /\ toTool' \in Seq(Response)
      /\ Len(toTool') = Len(toTool) - 1
      /\ \A j \in 1..(Len(toTool) - 1) :
           toTool'[j] = IF j < i THEN toTool[j] ELSE toTool[j + 1]
  BY TypeFacts, LenProperties, RemoveAtFacts
<1>3. HandshakeTypeOK'
  <2>1. InTransit \in Nat /\ InTransit' \in Nat /\ InTransit' <= InTransit
    BY <1>1, <1>2, TypeFacts DEF InTransit
  <2>2. InTransit' <= Buffer
    BY <2>1, HandshakeAssumption DEF HInv, HandshakeTypeOK
  <2>3. QED
    BY <1>1, <1>2, <2>2 DEF HInv, HandshakeTypeOK, IInv
<1>4. TrustInv'
  BY DEF HInv, TrustInv, vars, HasBinding, BindingNonce
<1>5. AnswersInv'
  <2>1. \A j \in 1..Len(toTool') : AckTrue(toTool'[j])
    BY <1>2, TypeFacts DEF HInv, AnswersInv
  <2>2. QED
    BY <1>1, <2>1 DEF HInv, AnswersInv, AckTrue, HasBinding, vars
<1>6. NewestInv'
  <2>1. SUFFICES ASSUME current, i < InTransit, toPod = <<>>, ~ Answering
                 PROVE  /\ toTool' # <<>>
                        /\ toTool'[Len(toTool')] = toTool[Len(toTool)]
    BY <1>1 DEF HInv, NewestInv, vars, BindingNonce
  <2>2. i < Len(toTool)
    BY <1>2, <2>1, TypeFacts DEF InTransit
  <2>3. QED
    BY <1>2, <2>2, TypeFacts
<1>7. ~ result.fresh
  BY <1>2, TypeFacts DEF HInv, ResultInv
<1>8. ResultInv' /\ OkMeansBound' /\ NotedIsPending'
  BY <1>7 DEF ResultInv, OkMeansBound, NotedIsPending
<1>9. QED
  BY <1>1, <1>3, <1>4, <1>5, <1>6, <1>8 DEF HInv
-----------------------------------------------------------------------------
(* The theorems.                                                           *)

LEMMA StepHInv == HInv /\ [HandshakeNext]_hsVars => HInv'
<1> SUFFICES ASSUME HInv, [HandshakeNext]_hsVars PROVE HInv'
  OBVIOUS
<1>1. CASE UNCHANGED hsVars
  <2>1. /\ UNCHANGED <<vars, net, tool, noted, trusted, result>>
        /\ current' = current
        /\ toPod' = toPod
        /\ toTool' = toTool
    BY <1>1 DEF hsVars, net
  <2>2. IInv' /\ Answering' = Answering
    BY <2>1, PodUntouched DEF HInv
  <2>3. HandshakeTypeOK'
    BY <2>1, <2>2 DEF HInv, HandshakeTypeOK, InTransit, IInv
  <2>4. TrustInv' /\ AnswersInv' /\ NewestInv' /\ ResultInv'
    BY <2>1, <2>2
       DEF HInv, TrustInv, AnswersInv, NewestInv, ResultInv, vars,
           AckTrue, HasBinding, BindingNonce
  <2>5. OkMeansBound' /\ NotedIsPending'
    BY <2>1 DEF HInv, OkMeansBound, NotedIsPending, vars, HasBinding,
       BindingNonce
  <2>6. QED
    BY <2>2, <2>3, <2>4, <2>5 DEF HInv
<1>2. CASE Lose
  <2>1. ASSUME NEW i \in DOMAIN toPod,
               toPod' = RemoveAt(toPod, i),
               current' = (current /\ i < Len(toPod)),
               UNCHANGED <<vars, toTool>>
        PROVE  HInv'
    BY <1>2, <2>1, LoseRequestStep DEF Lose
  <2>2. CASE /\ Send
             /\ current' = (current /\ (Answering => toPod # <<>>))
             /\ UNCHANGED net
    BY <1>2, <2>2, LoseReplyStep DEF Lose
  <2>3. ASSUME NEW i \in DOMAIN toTool,
               toTool' = RemoveAt(toTool, i),
               current' = (current /\ i < InTransit),
               UNCHANGED <<vars, toPod>>
        PROVE  HInv'
    BY <1>2, <2>3, LoseAnswerStep DEF Lose
  <2>4. QED
    BY <1>2, <2>1, <2>2, <2>3 DEF Lose
<1>3. QED
  BY <1>1, <1>2, RunStep, TakeStep, KillStep, HandleStep, OwnerCommandStep,
     AnswerStep DEF HandshakeNext

LEMMA HandshakeInvariant == HandshakeSpec => []HInv
  BY InitHInv, StepHInv, PTL DEF HandshakeSpec

\* Tool, messages and pod keep their types, and no more messages are in
\* transit than Buffer.
THEOREM HandshakeTypeCorrect == HandshakeSpec => []HandshakeTypeOK
<1>1. HInv => HandshakeTypeOK
  BY DEF HInv
<1>2. QED
  BY <1>1, HandshakeInvariant, PTL

\* A "bind ack ok" that answers the request of this very run is true, whatever
\* was lost, delayed or given up before, for any number of messages in transit.
THEOREM OkIsTrue == HandshakeSpec => []OkMeansBound
<1>1. HInv => OkMeansBound
  BY DEF HInv
<1>2. QED
  BY <1>1, HandshakeInvariant, PTL

\* The nonce that a user is to go on with is the one the pod waits for.
THEOREM NoncePending == HandshakeSpec => []NotedIsPending
<1>1. HInv => NotedIsPending
  BY DEF HInv
<1>2. QED
  BY <1>1, HandshakeInvariant, PTL

\* Between a "bind ok" of this very run and the next bind, no answer, loss, or
\* command of tool or owner makes the pod wait for another nonce.
THEOREM AckRepeatable == HandshakeSpec => []AckMayBeRepeated
<1>1. HInv => AckMayBeRepeated
  BY DEF HInv, TrustInv, AckMayBeRepeated
<1>2. QED
  BY <1>1, HandshakeInvariant, PTL
=============================================================================
