---------------------------- MODULE MCController ----------------------------
(***************************************************************************)
(* Bounds for checking Controller: the owner and two other DIDs, so that a *)
(* member can appoint a member; two nonces, so that a second bind voids    *)
(* the first; and access modes inside and on both sides of the range of    *)
(* the ACL.                                                                *)
(***************************************************************************)
EXTENDS Controller

MCMode == {-2, 0, 2, 3}

MCRPCMethod == {"getbalances", "dumpwallet"}
=============================================================================
