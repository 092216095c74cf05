-------------------------- MODULE ControllerProofs --------------------------
(***************************************************************************)
(* Proofs about Controller, for every set of DIDs, nonces and modes.  The  *)
(* inductive invariant is IInv: types, OwnerFirst, and what the pending    *)
(* reply says of the database.                                             *)
(***************************************************************************)
EXTENDS Controller, TLAPS

IInv ==
  /\ TypeOK
  /\ OwnerFirst
  /\ ReplyTellsStore
  /\ ServedOnlyWhileEntitled
-----------------------------------------------------------------------------
(* What the checks at the head of Process establish.                       *)

\* A sender that passes the access check is the owner or holds one of the
\* three modes: a stored mode outside them, and no record, allow nothing.
LEMMA AdmittedEntitled ==
  ASSUME TypeOK, NEW src \in DID, NEW command, Admitted(src, command)
  PROVE  src = Owner \/ members[src] \in Levels
<1>1. accessMode(src) \in Levels
  BY DEF Admitted, HasCommandAccess, commandAllowList, Levels
<1>2. CASE src = Owner
  BY <1>2
<1>3. CASE src # Owner
  <2>1. MemberAccessMode(src) \in Levels
    BY <1>1, <1>3 DEF accessMode, Levels, AccessModeNotApplicant,
       AccessModeFull, AccessModeLimited, AccessModeMinimal
  <2>2. QED
    BY <2>1, StoreAssumption
       DEF MemberAccessMode, Levels, AccessModeNotApplicant,
           AccessModeFull, AccessModeLimited, AccessModeMinimal
<1>4. QED
  BY <1>2, <1>3

\* A sender that passes both checks for set_member or remove_member is bound,
\* and is the owner or has full access.
LEMMA AdmittedAdministrator ==
  ASSUME TypeOK, NEW src \in DID,
         NEW command \in {"set_member", "remove_member"},
         Admitted(src, command)
  PROVE  /\ HasBinding(src)
         /\ src = Owner \/ members[src] = AccessModeFull
<1>1. HasBinding(src)
  BY DEF Admitted, hasCorrectBindingState
<1>2. accessMode(src) = AccessModeFull
  BY DEF Admitted, HasCommandAccess, commandAllowList,
     limitedAccessCommandAllowList, minimalAccessCommandAllowList
<1>3. src = Owner \/ MemberAccessMode(src) = AccessModeFull
  BY <1>2 DEF accessMode, AccessModeNotApplicant, AccessModeFull
<1>4. QED
  BY <1>1, <1>3 DEF MemberAccessMode, AccessModeNotApplicant, AccessModeFull

\* A sender that passes both checks of a handshake command is not bound yet.
LEMMA AdmittedHandshake ==
  ASSUME NEW src \in DID, NEW command \in {"bind", "bind_ack"},
         Admitted(src, command)
  PROVE  ~ HasBinding(src)
  BY DEF Admitted, hasCorrectBindingState
-----------------------------------------------------------------------------
(* The invariants.                                                         *)

LEMMA InitIInv == Init => IInv
<1>1. SUFFICES ASSUME Init PROVE IInv
  OBVIOUS
<1>2. TypeOK
  BY <1>1 DEF Init, NewBoltStore, TypeOK, StoreTypeOK
<1>3. OwnerFirst
  BY <1>1 DEF Init, NewBoltStore, OwnerFirst
<1>4. ReplyTellsStore /\ ServedOnlyWhileEntitled
  BY <1>1 DEF Init, ReplyTellsStore, ServedOnlyWhileEntitled
<1>5. QED
  BY <1>2, <1>3, <1>4 DEF IInv

\* A step that answers with an error, or with nothing, or answers an admitted
\* command that leaves the database alone, keeps the invariant.
LEMMA QuietStep ==
  ASSUME IInv, NEW src \in DID, NEW command \in Commands \cup {Unknown},
         NEW body \in {"error", "data", "none"},
         body = "error" \/ Admitted(src, command),
         Reply(src, command, body), UNCHANGED storeVars
  PROVE  IInv'
<1>1. /\ bindings' = bindings
      /\ members' = members
      /\ response' = [to |-> src, command |-> command, body |-> body,
                      nonce |-> Nil]
  BY DEF Reply, storeVars
<1>2. TypeOK'
  BY <1>1 DEF IInv, TypeOK, StoreTypeOK, Response
<1>3. OwnerFirst'
  BY <1>1 DEF IInv, OwnerFirst, HasBinding
<1>4. ReplyTellsStore'
  BY <1>1 DEF ReplyTellsStore
<1>5. ServedOnlyWhileEntitled'
  BY <1>1, AdmittedEntitled DEF IInv, ServedOnlyWhileEntitled
<1>6. QED
  BY <1>2, <1>3, <1>4, <1>5 DEF IInv

LEMMA BindStep ==
  ASSUME IInv, NEW src \in DID, NEW nonce \in Nonce, bind(src, nonce)
  PROVE  IInv'
<1>1. /\ bindings' = [bindings EXCEPT ![src] = nonce]
      /\ members' = members
      /\ response' = [to |-> src, command |-> "bind", body |-> "challenge",
                      nonce |-> nonce]
      /\ Admitted(src, "bind")
  BY DEF bind, SetBinding, Challenge
<1>2. ~ HasBinding(src) /\ (src = Owner \/ members[src] \in Levels)
  BY <1>1, AdmittedHandshake, AdmittedEntitled DEF IInv
<1>3. TypeOK'
  BY <1>1 DEF IInv, TypeOK, StoreTypeOK, Response, Commands,
     fullAccessCommandAllowList
<1>4. OwnerFirst'
  <2>1. CASE src = Owner
    BY <1>1, <1>2, <2>1 DEF IInv, OwnerFirst, HasBinding, TypeOK, StoreTypeOK
  <2>2. CASE src # Owner
    <3>1. members[src] # Nil
      BY <1>2, <2>2, StoreAssumption
         DEF Levels, AccessModeFull, AccessModeLimited, AccessModeMinimal
    <3>2. HasBinding(Owner)
      BY <3>1 DEF IInv, OwnerFirst
    <3>3. QED
      BY <1>1, <2>2, <3>2, ControllerAssumption
         DEF IInv, OwnerFirst, HasBinding, TypeOK, StoreTypeOK
  <2>3. QED
    BY <2>1, <2>2
<1>5. ReplyTellsStore'
  BY <1>1 DEF IInv, TypeOK, StoreTypeOK, ReplyTellsStore, BindingNonce
<1>6. ServedOnlyWhileEntitled'
  BY <1>1, <1>2 DEF ServedOnlyWhileEntitled
<1>7. QED
  BY <1>3, <1>4, <1>5, <1>6 DEF IInv

LEMMA CompleteStep ==
  ASSUME IInv, NEW src \in DID, Admitted(src, "bind_ack"),
         CompleteBinding(src), Reply(src, "bind_ack", "ok")
  PROVE  IInv'
<1>1. /\ bindings' = [bindings EXCEPT ![src] = valueTrue]
      /\ members' = members
      /\ response' = [to |-> src, command |-> "bind_ack", body |-> "ok",
                      nonce |-> Nil]
  BY DEF CompleteBinding, Reply
<1>2. ~ HasBinding(src) /\ (src = Owner \/ members[src] \in Levels)
  BY AdmittedHandshake, AdmittedEntitled DEF IInv
<1>3. TypeOK'
  BY <1>1 DEF IInv, TypeOK, StoreTypeOK, Response, Commands,
     fullAccessCommandAllowList
<1>4. OwnerFirst'
  <2>1. CASE src = Owner
    BY <1>1, <2>1, ControllerAssumption
       DEF IInv, OwnerFirst, HasBinding, TypeOK, StoreTypeOK
  <2>2. CASE src # Owner
    <3>1. members[src] # Nil
      BY <1>2, <2>2, StoreAssumption
         DEF Levels, AccessModeFull, AccessModeLimited, AccessModeMinimal
    <3>2. HasBinding(Owner)
      BY <3>1 DEF IInv, OwnerFirst
    <3>3. QED
      BY <1>1, <2>2, <3>2, ControllerAssumption
         DEF IInv, OwnerFirst, HasBinding, TypeOK, StoreTypeOK
  <2>3. QED
    BY <2>1, <2>2
<1>5. ReplyTellsStore'
  BY <1>1 DEF IInv, TypeOK, StoreTypeOK, ReplyTellsStore, HasBinding
<1>6. ServedOnlyWhileEntitled'
  BY <1>1, <1>2 DEF ServedOnlyWhileEntitled
<1>7. QED
  BY <1>3, <1>4, <1>5, <1>6 DEF IInv

\* set_member and remove_member: some member record is written or deleted.
LEMMA MemberStep ==
  ASSUME IInv, NEW src \in DID,
         NEW command \in {"set_member", "remove_member"},
         Admitted(src, command),
         NEW memberDID \in DID, NEW record \in Mode \cup {Nil},
         members' = [members EXCEPT ![memberDID] = record],
         UNCHANGED bindings,
         Reply(src, command, "ok")
  PROVE  IInv'
<1>1. response' = [to |-> src, command |-> command, body |-> "ok",
                   nonce |-> Nil]
  BY DEF Reply
<1>2. TypeOK'
  BY <1>1 DEF IInv, TypeOK, StoreTypeOK, Response, Commands,
     fullAccessCommandAllowList
<1>3. OwnerFirst'
  <2>1. HasBinding(src) /\ (src = Owner \/ members[src] = AccessModeFull)
    BY AdmittedAdministrator DEF IInv
  <2>2. HasBinding(Owner)
    BY <2>1, StoreAssumption DEF IInv, OwnerFirst, AccessModeFull
  <2>3. QED
    BY <2>2 DEF OwnerFirst, HasBinding
<1>4. ReplyTellsStore'
  BY <1>1 DEF ReplyTellsStore
<1>5. ServedOnlyWhileEntitled'
  BY <1>1 DEF ServedOnlyWhileEntitled
<1>6. QED
  BY <1>2, <1>3, <1>4, <1>5 DEF IInv

LEMMA ProcessStep ==
  ASSUME IInv, NEW src \in DID, Process(src)
  PROVE  IInv'
<1>1. ASSUME NEW command \in Commands \cup {Unknown},
             \/ Refuse(src, command)
             \/ BadArguments(src, command)
             \/ Fail(src, command)
      PROVE  IInv'
  <2>1. Reply(src, command, "error") /\ UNCHANGED storeVars
    BY <1>1 DEF Refuse, BadArguments, Fail
  <2>2. QED
    BY <2>1, QuietStep
<1>2. ASSUME NEW command \in Commands \cup {Unknown}, delegate(src, command)
      PROVE  IInv'
  <2>1. PICK body \in {"data", "error", "none"} : Reply(src, command, body)
    BY <1>2 DEF delegate, CallResult
  <2>2. Admitted(src, command) /\ UNCHANGED storeVars
    BY <1>2 DEF delegate
  <2>3. QED
    BY <2>1, <2>2, QuietStep
<1>3. ASSUME NEW nonce \in Nonce, bind(src, nonce)
      PROVE  IInv'
  BY <1>3, BindStep
<1>4. ASSUME NEW signature \in Signature, bindACK(src, signature)
      PROVE  IInv'
  <2>1. CASE VerifySignature(src, BindingNonce(src), signature)
    BY <1>4, <2>1, CompleteStep DEF bindACK
  <2>2. CASE ~ VerifySignature(src, BindingNonce(src), signature)
    <3>1. Reply(src, "bind_ack", "error") /\ UNCHANGED storeVars
      BY <1>4, <2>2 DEF bindACK
    <3>2. "bind_ack" \in Commands
      BY DEF Commands, fullAccessCommandAllowList
    <3>3. QED
      BY <3>1, <3>2, QuietStep
  <2>3. QED
    BY <2>1, <2>2
<1>5. ASSUME NEW memberDID \in DID, NEW mode \in Mode,
             setMember(src, memberDID, mode)
      PROVE  IInv'
  <2>1. /\ Admitted(src, "set_member")
        /\ members' = [members EXCEPT ![memberDID] = mode]
        /\ UNCHANGED bindings
        /\ Reply(src, "set_member", "ok")
    BY <1>5 DEF setMember, UpdateMemberAccessMode
  <2>2. QED
    BY <2>1, MemberStep
<1>6. ASSUME NEW memberDID \in DID, removeMember(src, memberDID)
      PROVE  IInv'
  <2>1. /\ Admitted(src, "remove_member")
        /\ members' = [members EXCEPT ![memberDID] = Nil]
        /\ UNCHANGED bindings
        /\ Reply(src, "remove_member", "ok")
    BY <1>6 DEF removeMember, RemoveMember
  <2>2. QED
    BY <2>1, MemberStep
<1>7. ASSUME NEW method \in RPCMethod, bitcoinRPC(src, method)
      PROVE  IInv'
  <2>1. PICK body \in {"data", "error", "none"} : Reply(src, "bitcoind", body)
    BY <1>7 DEF bitcoinRPC, CallResult
  <2>2. Admitted(src, "bitcoind") /\ UNCHANGED storeVars
    BY <1>7 DEF bitcoinRPC
  <2>3. "bitcoind" \in Commands
    BY DEF Commands, fullAccessCommandAllowList
  <2>4. QED
    BY <2>1, <2>2, <2>3, QuietStep
<1>8. QED
  BY <1>1, <1>2, <1>3, <1>4, <1>5, <1>6, <1>7 DEF Process

LEMMA StepIInv == IInv /\ [Next]_vars => IInv'
<1> SUFFICES ASSUME IInv, [Next]_vars PROVE IInv'
  OBVIOUS
<1>1. CASE UNCHANGED vars
  BY <1>1 DEF vars, IInv, TypeOK, StoreTypeOK, OwnerFirst, HasBinding,
     ReplyTellsStore, BindingNonce, ServedOnlyWhileEntitled
<1>2. CASE Send
  <2>1. /\ bindings' = bindings
        /\ members' = members
        /\ response' = Nil
    BY <1>2 DEF Send, storeVars
  <2>2. TypeOK' /\ OwnerFirst'
    BY <2>1 DEF IInv, TypeOK, StoreTypeOK, OwnerFirst, HasBinding
  <2>3. ReplyTellsStore' /\ ServedOnlyWhileEntitled'
    BY <2>1 DEF ReplyTellsStore, ServedOnlyWhileEntitled
  <2>4. QED
    BY <2>2, <2>3 DEF IInv
<1>3. ASSUME NEW src \in DID, Process(src)
      PROVE  IInv'
  BY <1>3, ProcessStep
<1>4. QED
  BY <1>1, <1>2, <1>3 DEF Next

\* The inductive invariant holds of every behaviour of the controller.
THEOREM InductiveInvariant == Spec => []IInv
  BY InitIInv, StepIInv, PTL DEF Spec

\* The database and the pending reply are of the right type.
THEOREM TypeCorrect == Spec => []TypeOK
<1>1. IInv => TypeOK
  BY DEF IInv
<1>2. QED
  BY <1>1, InductiveInvariant, PTL

\* Before the owner is bound no other DID has a member record or a binding
\* record, whatever messages arrive in whatever order.
THEOREM OwnerFirstHolds == Spec => []OwnerFirst
<1>1. IInv => OwnerFirst
  BY DEF IInv
<1>2. QED
  BY <1>1, InductiveInvariant, PTL

\* A reply tells what is in the database when it is sent.
THEOREM RepliesTrue == Spec => []ReplyTellsStore
<1>1. IInv => ReplyTellsStore
  BY DEF IInv
<1>2. QED
  BY <1>1, InductiveInvariant, PTL

\* Only a sender that still is entitled, or has just changed its own access,
\* gets more than an error.
THEOREM ServedEntitled == Spec => []ServedOnlyWhileEntitled
<1>1. IInv => ServedOnlyWhileEntitled
  BY DEF IInv
<1>2. QED
  BY <1>1, InductiveInvariant, PTL
-----------------------------------------------------------------------------
(* What a step can do to the database: one of four things.                 *)

Quiet == UNCHANGED storeVars

Begins(src) ==
  /\ ~ HasBinding(src)
  /\ \E nonce \in Nonce : bindings' = [bindings EXCEPT ![src] = nonce]
  /\ UNCHANGED members
  /\ response'.body = "challenge"

Completes(src) ==
  /\ ~ HasBinding(src)
  /\ src = Owner \/ members[src] \in Levels
  /\ CompleteBinding(src)
  /\ response'.body = "ok"

Administers(src) ==
  /\ HasBinding(src)
  /\ src = Owner \/ members[src] = AccessModeFull
  /\ \E did \in DID :
       \/ \E mode \in Mode : UpdateMemberAccessMode(did, mode)
       \/ RemoveMember(did)
  /\ response'.to = src
  /\ response'.body = "ok"

LEMMA StepShape ==
  ASSUME IInv, [Next]_vars
  PROVE  \/ Quiet
         \/ \E src \in DID : Begins(src) \/ Completes(src) \/ Administers(src)
<1>1. CASE UNCHANGED vars \/ Send
  BY <1>1 DEF vars, storeVars, Send, Quiet
<1>2. ASSUME NEW src \in DID, Process(src)
      PROVE  Quiet \/ Begins(src) \/ Completes(src) \/ Administers(src)
  <2>1. ASSUME NEW command \in Commands \cup {Unknown},
               \/ Refuse(src, command)
               \/ BadArguments(src, command)
               \/ Fail(src, command)
               \/ delegate(src, command)
        PROVE  Quiet
    BY <2>1 DEF Refuse, BadArguments, Fail, delegate, Quiet
  <2>2. ASSUME NEW nonce \in Nonce, bind(src, nonce)
        PROVE  Begins(src)
    BY <2>2, AdmittedHandshake DEF bind, SetBinding, Challenge, Begins
  <2>3. ASSUME NEW signature \in Signature, bindACK(src, signature)
        PROVE  Quiet \/ Completes(src)
    <3>1. CASE VerifySignature(src, BindingNonce(src), signature)
      <4>1. /\ Admitted(src, "bind_ack")
            /\ CompleteBinding(src)
            /\ Reply(src, "bind_ack", "ok")
        BY <2>3, <3>1 DEF bindACK
      <4>2. ~ HasBinding(src) /\ (src = Owner \/ members[src] \in Levels)
        BY <4>1, AdmittedHandshake, AdmittedEntitled DEF IInv
      <4>3. QED
        BY <4>1, <4>2 DEF Reply, Completes
    <3>2. CASE ~ VerifySignature(src, BindingNonce(src), signature)
      BY <2>3, <3>2 DEF bindACK, Quiet
    <3>3. QED
      BY <3>1, <3>2
  <2>4. ASSUME NEW memberDID \in DID, NEW mode \in Mode,
               setMember(src, memberDID, mode)
        PROVE  Administers(src)
    <3>1. HasBinding(src) /\ (src = Owner \/ members[src] = AccessModeFull)
      BY <2>4, AdmittedAdministrator DEF setMember, IInv
    <3>2. QED
      BY <2>4, <3>1 DEF setMember, Reply, Administers
  <2>5. ASSUME NEW memberDID \in DID, removeMember(src, memberDID)
        PROVE  Administers(src)
    <3>1. HasBinding(src) /\ (src = Owner \/ members[src] = AccessModeFull)
      BY <2>5, AdmittedAdministrator DEF removeMember, IInv
    <3>2. QED
      BY <2>5, <3>1 DEF removeMember, Reply, Administers
  <2>6. ASSUME NEW method \in RPCMethod, bitcoinRPC(src, method)
        PROVE  Quiet
    BY <2>6 DEF bitcoinRPC, Quiet
  <2>7. QED
    BY <1>2, <2>1, <2>2, <2>3, <2>4, <2>5, <2>6 DEF Process
<1>3. QED
  BY <1>1, <1>2 DEF Next

LEMMA BoundStays ==
  ASSUME IInv, [Next]_vars
  PROVE  \A did \in DID : HasBinding(did) => HasBinding(did)'
<1>1. CASE Quiet
  BY <1>1 DEF Quiet, storeVars, HasBinding
<1>2. ASSUME NEW src \in DID, Begins(src)
      PROVE  \A did \in DID : HasBinding(did) => HasBinding(did)'
  <2>1. PICK nonce \in Nonce : bindings' = [bindings EXCEPT ![src] = nonce]
    BY <1>2 DEF Begins
  <2>2. \A did \in DID : HasBinding(did) => did # src
    BY <1>2 DEF Begins
  <2>3. QED
    BY <2>1, <2>2 DEF IInv, TypeOK, StoreTypeOK, HasBinding
<1>3. ASSUME NEW src \in DID, Completes(src)
      PROVE  \A did \in DID : HasBinding(did) => HasBinding(did)'
  BY <1>3 DEF IInv, TypeOK, StoreTypeOK, Completes, CompleteBinding,
     HasBinding
<1>4. ASSUME NEW src \in DID, Administers(src)
      PROVE  \A did \in DID : HasBinding(did) => HasBinding(did)'
  BY <1>4 DEF Administers, UpdateMemberAccessMode, RemoveMember, HasBinding
<1>5. QED
  BY <1>1, <1>2, <1>3, <1>4, StepShape

\* A completed binding is never undone.
THEOREM BoundForeverHolds == Spec => BoundForever
<1>1. ASSUME IInv, [Next]_vars
      PROVE  \A did \in DID : HasBinding(did) => HasBinding(did)'
  BY <1>1, BoundStays
<1>2. QED
  BY <1>1, InductiveInvariant, PTL DEF Spec, BoundForever

\* A member record changes only on behalf of a bound owner or full member.
THEOREM NoSelfPromotion == Spec => OnlyFullAccessChangesMembers
<1>1. ASSUME IInv, [Next]_vars
      PROVE  members' # members =>
               /\ HasBinding(response'.to)
               /\ \/ response'.to = Owner
                  \/ members[response'.to] = AccessModeFull
  <2>1. CASE Quiet
    BY <2>1 DEF Quiet, storeVars
  <2>2. ASSUME NEW src \in DID, Begins(src) \/ Completes(src)
        PROVE  members' = members
    BY <2>2 DEF Begins, Completes, CompleteBinding
  <2>3. ASSUME NEW src \in DID, Administers(src)
        PROVE  /\ HasBinding(response'.to)
               /\ \/ response'.to = Owner
                  \/ members[response'.to] = AccessModeFull
    BY <2>3 DEF Administers
  <2>4. QED
    BY <1>1, <2>1, <2>2, <2>3, StepShape
<1>2. QED
  BY <1>1, InductiveInvariant, PTL DEF Spec, OnlyFullAccessChangesMembers

\* A command that fails has changed nothing in the database.
THEOREM FailureIsHarmless == Spec => FailureChangesNothing
<1>1. ASSUME IInv, [Next]_vars
      PROVE  response' # Nil /\ response'.body \in {"error", "none"}
               => UNCHANGED storeVars
  <2>1. ASSUME NEW src \in DID,
               Begins(src) \/ Completes(src) \/ Administers(src)
        PROVE  response'.body \notin {"error", "none"}
    BY <2>1 DEF Begins, Completes, Administers
  <2>2. QED
    BY <1>1, <2>1, StepShape DEF Quiet
<1>2. QED
  BY <1>1, InductiveInvariant, PTL DEF Spec, FailureChangesNothing
-----------------------------------------------------------------------------
(* Refinement.                                                             *)

LEMMA RefinementInit == Init => Access!Init
  BY StoreAssumption
     DEF Init, NewBoltStore, Access!Init, Bound, HasBinding

LEMMA RefinementStep ==
  ASSUME IInv, [Next]_vars
  PROVE  [Access!Next]_<<Bound, members>>
<1>1. CASE Quiet
  BY <1>1 DEF Quiet, storeVars, Bound, HasBinding
<1>2. ASSUME NEW src \in DID, Begins(src)
      PROVE  Bound' = Bound /\ members' = members
  BY <1>2, StoreAssumption
     DEF IInv, TypeOK, StoreTypeOK, Begins, Bound, HasBinding
<1>3. ASSUME NEW src \in DID, Completes(src)
      PROVE  Access!Complete(src)
  <2>1. Bound' = Bound \cup {src}
    BY <1>3 DEF IInv, TypeOK, StoreTypeOK, Completes, CompleteBinding, Bound,
       HasBinding
  <2>2. src \notin Bound
    BY <1>3 DEF Completes, Bound
  <2>3. Access!Entitled(src)
    BY <1>3 DEF Completes, Access!Entitled, Levels, Access!Levels,
       AccessModeFull, AccessModeLimited, AccessModeMinimal,
       Access!AccessModeFull, Access!AccessModeLimited,
       Access!AccessModeMinimal
  <2>4. QED
    BY <1>3, <2>1, <2>2, <2>3 DEF Completes, CompleteBinding, Access!Complete
<1>4. ASSUME NEW src \in DID, Administers(src)
      PROVE  \/ \E did \in DID, mode \in Mode : Access!Grant(src, did, mode)
             \/ \E did \in DID : Access!Revoke(src, did)
  <2>1. Access!Administrator(src)
    BY <1>4 DEF Administers, Access!Administrator, Bound, AccessModeFull,
       Access!AccessModeFull
  <2>2. Bound' = Bound
    BY <1>4 DEF Administers, UpdateMemberAccessMode, RemoveMember, Bound,
       HasBinding
  <2>3. PICK did \in DID :
               \/ \E mode \in Mode : UpdateMemberAccessMode(did, mode)
               \/ RemoveMember(did)
    BY <1>4 DEF Administers
  <2>4. QED
    BY <2>1, <2>2, <2>3 DEF UpdateMemberAccessMode, RemoveMember, Access!Grant,
       Access!Revoke
<1>5. QED
  BY <1>1, <1>2, <1>3, <1>4, StepShape DEF Access!Next

\* Every behaviour of the message handler is, as far as completed bindings and
\* member records go, a behaviour of the abstract access control.
THEOREM Refinement == Spec => AccessSpec
<1>1. ASSUME IInv, [Next]_vars
      PROVE  [Access!Next]_(Access!vars)
  BY <1>1, RefinementStep DEF Access!vars
<1>2. QED
  BY <1>1, RefinementInit, InductiveInvariant, PTL
     DEF Spec, AccessSpec, Access!Spec
=============================================================================
