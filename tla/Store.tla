------------------------------- MODULE Store -------------------------------
(***************************************************************************)
(* The bolt database of the pod controller (store.go): two buckets, from   *)
(* DIDs to binding records and from DIDs to access modes.  Every method of *)
(* BoltStore is one bolt transaction, so every operator below is atomic    *)
(* and what it writes survives a crash of the process.                     *)
(***************************************************************************)
EXTENDS ACL

CONSTANTS
  DID,        \* the DIDs that occur: the pod's owner, its members, strangers
  Nonce,      \* the nonces a bind command can draw: 4 random bytes, in hex
  Mode,       \* the integers that occur as access_mode in set_member
  valueTrue,  \* the record "true", which marks a completed binding
  Nil         \* what a lookup of an absent key returns

\* A nonce is eight hexadecimal digits, hence never the text "true".
ASSUME StoreAssumption ==
  /\ Mode \subseteq Int
  /\ Nil \notin Int
  /\ valueTrue \notin Nonce \cup {Nil}
  /\ Nil \notin Nonce

VARIABLES
  bindings,   \* bucket "bindings": no record, a pending nonce, or "true"
  members     \* bucket "members": no record, or an access mode

storeVars == <<bindings, members>>

StoreTypeOK ==
  /\ bindings \in [DID -> Nonce \cup {valueTrue, Nil}]
  /\ members \in [DID -> Mode \cup {Nil}]

\* The first start of a pod, on a new database file: both buckets are empty.
NewBoltStore ==
  /\ bindings = [did \in DID |-> Nil]
  /\ members = [did \in DID |-> Nil]

\* Mutation: the record goes to the wrong bucket.
SetBindingWrongBucket(did, nonce) ==
  /\ members' = [members EXCEPT ![did] = nonce]
  /\ UNCHANGED bindings

\* Mutation: a pending nonce is not replaced by a later one.
SetBindingOnce(did, nonce) ==
  /\ bindings' = [bindings EXCEPT ![did] = IF @ = Nil THEN nonce ELSE @]
  /\ UNCHANGED members

SetBinding(did, nonce) ==
  /\ bindings' = [bindings EXCEPT ![did] = nonce]
  /\ UNCHANGED members

\* Nil stands for the empty string that an absent record is read as.
BindingNonce(did) == bindings[did]

CompleteBinding(did) ==
  /\ bindings' = [bindings EXCEPT ![did] = valueTrue]
  /\ UNCHANGED members

HasBinding(did) == bindings[did] = valueTrue

\* The mode is stored as eight bytes and read back as the same integer,
\* whether or not it is one of the modes of the ACL.
UpdateMemberAccessMode(memberDID, accessMode) ==
  /\ members' = [members EXCEPT ![memberDID] = accessMode]
  /\ UNCHANGED bindings

RemoveMember(memberDID) ==
  /\ members' = [members EXCEPT ![memberDID] = Nil]
  /\ UNCHANGED bindings

\* Mutation: an absent record is read as eight zero bytes.
MemberAccessModeZeroValue(memberDID) ==
  IF members[memberDID] = Nil THEN 0 ELSE members[memberDID]

MemberAccessMode(memberDID) ==
  IF members[memberDID] = Nil THEN AccessModeNotApplicant
                              ELSE members[memberDID]
=============================================================================
