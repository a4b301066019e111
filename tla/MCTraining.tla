------------------------------ MODULE MCTraining ------------------------------
(* A parent and a child who may be given a sign-in, and two trainers. *)
EXTENDS Training, TLC

CONSTANTS u, k, me, child

MCParentOf == [p \in Profiles |-> u]
MCProfileOf == [x \in Kids |-> child]

Symmetry == Permutations(Trainers)
=============================================================================
