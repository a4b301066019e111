--------------------------- MODULE MCImpersonation ---------------------------
(* Small instances of Impersonation: two sessions of one admin, one of another. *)
EXTENDS Impersonation, TLC

CONSTANTS ada, bob, s1, s2, s3

MCOwnerOf == [s \in Sessions |-> IF s = s3 THEN bob ELSE ada]

Symmetry ==
    Permutations(Records) \cup Permutations(Requests) \cup Permutations({s1, s2} \cap Sessions)
=============================================================================
