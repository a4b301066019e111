------------------------- MODULE MCCoachInvitations -------------------------
(* Small instances of CoachInvitations: every account at one address. *)
EXTENDS CoachInvitations, TLC

CONSTANTS post, t1, t2, i1, i2, i3

\* i1 and i2 are of the first trainer, i3 of the second.
MCInviterOf == [i \in Invitations |-> IF i = i3 THEN t2 ELSE t1]
MCInvitedOf == [i \in Invitations |-> post]
MCAddressOf == [a \in Accounts |-> post]

Symmetry == Permutations(Accounts) \cup Permutations(Invitations \ {i3})
=============================================================================
