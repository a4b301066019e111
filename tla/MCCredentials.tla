---------------------------- MODULE MCCredentials ----------------------------
(* Small instances of Credentials: one parent with one child. *)
EXTENDS Credentials, TLC

\* l1 is the parent's link, l2 and l3 the first child account's, any other the
\* second's; s1 is a session of the parent, any other the first child's.
CONSTANTS mum, kit, k1, k2, l1, l2, l3, s1

MCParentOf == [p \in Profiles |-> mum]
MCProfileOf == [k \in Kids |-> kit]
MCHolderOf == [l \in Links |-> IF l = l1 THEN mum ELSE IF l \in {l2, l3} THEN k1 ELSE k2]
MCUserOf == [s \in Sessions |-> IF s = s1 THEN mum ELSE k1]

Symmetry == Permutations(Links \cap {l2, l3})
=============================================================================
