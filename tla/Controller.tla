----------------------------- MODULE Controller -----------------------------
(***************************************************************************)
(* The message handler of the pod controller (controller.go).  Process     *)
(* decodes one whisper message, checks the sender's access mode and        *)
(* binding state and runs the command; main sends the reply and takes the  *)
(* next message.  One goroutine does all of this and nothing else touches  *)
(* the bolt database, so the handling of one message is one atomic step.   *)
(*                                                                         *)
(* The network is open: at any time, any DID's message with any command    *)
(* and arguments may be the next one.  That covers lost, duplicated,       *)
(* delayed and reordered messages and clients that retry.                  *)
(***************************************************************************)
EXTENDS Store

CONSTANTS
  Owner,      \* ownerDID, the owner_did of the configuration
  RPCMethod   \* the bitcoind methods that clients ask for

ASSUME ControllerAssumption == Owner \in DID

VARIABLE
  response    \* what the last call of Process returned and main has not sent

vars == <<bindings, members, response>>

Commands == fullAccessCommandAllowList

\* The text of a field that JSON decoding left empty, and any unknown command.
Unknown == "unknown"

\* Commands whose arguments are decoded, which may fail.
WithArguments ==
  {"bind_ack", "bitcoind", "create_wallet", "finish_psbt", "set_member",
   "remove_member"}

\* Commands that leave the database alone and ask bitcoind or bitcoind-ctl.
Delegated ==
  {"create_wallet", "finish_psbt",
   "start_bitcoind", "stop_bitcoind", "get_bitcoind_status"}

\* A reply: the error message of ErrorResponse, the challenge of bind, the
\* status "ok", any other data, or "none" when Process panicked and returned
\* nil, so that nothing is sent at all.
Response ==
  [to : DID,
   command : Commands \cup {Unknown},
   body : {"error", "challenge", "ok", "data", "none"},
   nonce : Nonce \cup {Nil}]

Reply(to, command, body) ==
  response' = [to |-> to, command |-> command, body |-> body, nonce |-> Nil]

Challenge(to, nonce) ==
  response' = [to |-> to, command |-> "bind", body |-> "challenge",
               nonce |-> nonce]

\* A signature over a nonce followed by the timestamp the ack carries.  With
\* Nil it covers the timestamp alone.
Signature == [key : DID, nonce : Nonce \cup {Nil}]

VerifySignature(did, nonce, signature) ==
  signature.key = did /\ signature.nonce = nonce

TypeOK ==
  /\ StoreTypeOK
  /\ response \in Response \cup {Nil}

Init ==
  /\ NewBoltStore
  /\ response = Nil
-----------------------------------------------------------------------------
(* The checks at the head of Process.                                      *)

\* Mutation: a completed binding is taken for a membership.
accessModeOfBound(did) ==
  IF did = Owner THEN AccessModeFull
  ELSE IF HasBinding(did) THEN AccessModeMinimal
  ELSE MemberAccessMode(did)

accessMode(did) ==
  IF did = Owner THEN AccessModeFull
  ELSE IF MemberAccessMode(did) > AccessModeMinimal THEN AccessModeNotApplicant
  ELSE MemberAccessMode(did)

\* Mutation: bind is accepted in either binding state.
hasCorrectBindingStateOrBind(did, command) ==
  command = "bind" \/ HasBinding(did) = (command # "bind_ack")

hasCorrectBindingState(did, command) ==
  HasBinding(did) = (command \notin {"bind", "bind_ack"})

Admitted(src, command) ==
  /\ HasCommandAccess(command, accessMode(src))
  /\ hasCorrectBindingState(src, command)

Refuse(src, command) ==
  /\ ~ Admitted(src, command)
  /\ Reply(src, command, "error")
  /\ UNCHANGED storeVars

BadArguments(src, command) ==
  /\ Admitted(src, command)
  /\ command \in WithArguments
  /\ Reply(src, command, "error")
  /\ UNCHANGED storeVars

\* The random source, the signing or the bolt transaction fails.
Fail(src, command) ==
  /\ Admitted(src, command)
  /\ command \in {"bind", "bind_ack", "set_member", "remove_member"}
  /\ Reply(src, command, "error")
  /\ UNCHANGED storeVars
-----------------------------------------------------------------------------
(* The commands.                                                           *)

bind(src, nonce) ==
  /\ Admitted(src, "bind")
  /\ SetBinding(src, nonce)
  /\ Challenge(src, nonce)

\* Mutation: a failed ack uses up the pending nonce.
bindACKUsesUpNonce(src, signature) ==
  /\ Admitted(src, "bind_ack")
  /\ IF VerifySignature(src, BindingNonce(src), signature)
       THEN CompleteBinding(src) /\ Reply(src, "bind_ack", "ok")
       ELSE SetBinding(src, Nil) /\ Reply(src, "bind_ack", "error")

\* Mutation: the access mode is checked at bind, but not at bind_ack.
bindACKOfAnyone(src, signature) ==
  /\ ~ HasBinding(src)
  /\ VerifySignature(src, BindingNonce(src), signature)
  /\ CompleteBinding(src)
  /\ Reply(src, "bind_ack", "ok")

\* The signature is checked with the key of the sender and the nonce of the
\* sender's record, which may be absent.
bindACK(src, signature) ==
  /\ Admitted(src, "bind_ack")
  /\ IF VerifySignature(src, BindingNonce(src), signature)
       THEN CompleteBinding(src) /\ Reply(src, "bind_ack", "ok")
       ELSE Reply(src, "bind_ack", "error") /\ UNCHANGED storeVars

setMember(src, memberDID, mode) ==
  /\ Admitted(src, "set_member")
  /\ UpdateMemberAccessMode(memberDID, mode)
  /\ Reply(src, "set_member", "ok")

removeMember(src, memberDID) ==
  /\ Admitted(src, "remove_member")
  /\ RemoveMember(memberDID)
  /\ Reply(src, "remove_member", "ok")

\* bitcoind answers JSON or 401 (data), cannot be reached (error), or answers
\* something else, an empty or a plain-text body, on which the encoding of the
\* reply panics (none).
CallResult == {"data", "error", "none"}

bitcoinRPC(src, method) ==
  /\ Admitted(src, "bitcoind")
  /\ IF HasBitcoinRPCAccess(method, accessMode(src))
       THEN \E body \in CallResult : Reply(src, "bitcoind", body)
       ELSE Reply(src, "bitcoind", "error")
  /\ UNCHANGED storeVars

\* create_wallet panics on a getwalletinfo without keypoolsize_hd_internal.
delegate(src, command) ==
  /\ Admitted(src, command)
  /\ command \in Delegated
  /\ \E body \in CallResult :
       /\ body = "none" => command = "create_wallet"
       /\ Reply(src, command, body)
  /\ UNCHANGED storeVars

Process(src) ==
  \/ \E method \in RPCMethod : bitcoinRPC(src, method)
  \/ \E command \in Commands \cup {Unknown} :
       \/ Refuse(src, command)
       \/ BadArguments(src, command)
       \/ Fail(src, command)
       \/ delegate(src, command)
  \/ \E nonce \in Nonce : bind(src, nonce)
  \/ \E signature \in Signature : bindACK(src, signature)
  \/ \E memberDID \in DID, mode \in Mode : setMember(src, memberDID, mode)
  \/ \E memberDID \in DID : removeMember(src, memberDID)

\* main sends the reply, whether or not it arrives.  A crash before this has
\* the same effect on what is modelled here: the reply is gone, the database
\* file is what it was.
Send ==
  /\ response # Nil
  /\ response' = Nil
  /\ UNCHANGED storeVars

Next ==
  \/ response = Nil /\ \E src \in DID : Process(src)
  \/ Send

Spec == Init /\ [][Next]_vars
-----------------------------------------------------------------------------
(* Properties.                                                             *)

Bound == {did \in DID : HasBinding(did)}

\* As long as the owner has not completed the binding, the pod is nobody's:
\* there is no member record and no other DID has even begun to bind.  Members
\* come from set_member, which takes a bound sender, and a sender without a
\* member record must be the owner (accessMode, hasCorrectBindingState).
OwnerFirst ==
  ((\E did \in DID : members[did] # Nil)
     \/ (\E did \in DID \ {Owner} : bindings[did] # Nil))
  => HasBinding(Owner)

\* A completed binding is never undone: neither a repeated bind, nor an ack
\* that comes late, nor a change of the member's access mode, nor its removal
\* puts a DID back to where a second handshake is possible.
BoundForever == [][\A did \in DID : HasBinding(did) => HasBinding(did)']_vars

\* A reply tells what is in the database when it leaves: a challenge carries
\* the pending nonce of the DID it goes to, and an accepted ack is a completed
\* binding.  Otherwise the client signs a nonce the pod no longer expects.
ReplyTellsStore ==
  response # Nil =>
    /\ response.body = "challenge"
         => BindingNonce(response.to) = response.nonce
    /\ response.command = "bind_ack" /\ response.body = "ok"
         => HasBinding(response.to)

\* Access is gone as soon as it is taken away: an answer other than an error
\* goes only to the owner or to a DID that has one of the three modes at this
\* very moment, unless the command was the one by which it demoted itself.
ServedOnlyWhileEntitled ==
  response # Nil /\ response.body # "error" =>
    \/ response.to = Owner
    \/ members[response.to] \in Levels
    \/ response.command \in {"set_member", "remove_member"}

\* Nobody promotes itself: a step changes the access of a DID only on behalf
\* of a DID that was bound and had full access before the step.
OnlyFullAccessChangesMembers ==
  [][members' # members =>
       /\ HasBinding(response'.to)
       /\ response'.to = Owner \/ members[response'.to] = AccessModeFull]_vars

\* A command that answers with an error, or dies on the way, has changed
\* nothing, so that the client may simply send it again.
FailureChangesNothing ==
  [][response' # Nil /\ response'.body \in {"error", "none"}
       => UNCHANGED storeVars]_vars

\* The handler implements the abstract access control.
Access == INSTANCE AccessControl WITH bound <- Bound, grant <- members
AccessSpec == Access!Spec
-----------------------------------------------------------------------------
(* What comments of controller.go say of the handshake and of Process, and *)
(* the code does not do.                                                   *)

\* controller.go:225 "It checks the nonce": a binding is completed only while
\* a nonce that a bind command drew is pending.
AckChecksNonce ==
  [][\A did \in DID :
       ~ HasBinding(did) /\ HasBinding(did)'
         => BindingNonce(did) \in Nonce]_vars

\* controller.go:84 "Process handles messages from clients and returns a
\* response message": no message is left without one.
EveryMessageAnswered == response # Nil => response.body # "none"
=============================================================================
