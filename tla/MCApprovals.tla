---------------------------- MODULE MCApprovals ----------------------------
(* Small instances of Approvals: one family, one trainer. *)
EXTENDS Approvals

CONSTANTS mum, kid, coachy, l1, l2

MCParentOf == [p \in Profiles |-> mum]
MCOwnerOf == [l \in Links |-> coachy]
=============================================================================
