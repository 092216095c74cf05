--------------------------- MODULE AccessControl ---------------------------
(***************************************************************************)
(* What the pod controller promises about access, with neither messages,   *)
(* nonces nor replies: who becomes bound to the pod, and who may hand out  *)
(* and take back access.  Controller is shown to implement it.             *)
(***************************************************************************)
EXTENDS ACL

CONSTANTS
  DID,     \* the DIDs that occur
  Owner,   \* the owner named in the pod's configuration
  Mode,    \* the access modes that can be granted
  Nil      \* no grant

VARIABLES
  bound,   \* the DIDs whose binding is complete
  grant    \* the access mode granted to each DID, or Nil

\* The owner needs no grant; a grant that is not one of the three levels is
\* worth nothing.
Entitled(did) == did = Owner \/ grant[did] \in Levels

Administrator(did) ==
  /\ did \in bound
  /\ did = Owner \/ grant[did] = AccessModeFull

Init ==
  /\ bound = {}
  /\ grant = [did \in DID |-> Nil]

Complete(did) ==
  /\ did \notin bound
  /\ Entitled(did)
  /\ bound' = bound \cup {did}
  /\ UNCHANGED grant

Grant(by, did, mode) ==
  /\ Administrator(by)
  /\ grant' = [grant EXCEPT ![did] = mode]
  /\ UNCHANGED bound

Revoke(by, did) ==
  /\ Administrator(by)
  /\ grant' = [grant EXCEPT ![did] = Nil]
  /\ UNCHANGED bound

Next ==
  \/ \E did \in DID : Complete(did)
  \/ \E by, did \in DID, mode \in Mode : Grant(by, did, mode)
  \/ \E by, did \in DID : Revoke(by, did)

vars == <<bound, grant>>

Spec == Init /\ [][Next]_vars
=============================================================================
