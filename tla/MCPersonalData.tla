---------------------------- MODULE MCPersonalData ----------------------------
(* A parent, a child with a sign-in, a coach and a trainer. *)
EXTENDS PersonalData, TLC

CONSTANTS u, k, c, t, p

MCParentOf == [x \in Profiles |-> u]
MCSignInOf == [x \in Profiles |-> k]

\* Weeks a client may submit: none; touching ranges up to midnight, unsorted;
\* overlapping, nested and equal ranges and two that start together, unsorted;
\* one too many; off the grid.
MCWeeks == {
    << >>, << <<4, 8>>, <<0, 4>> >>,
    << <<4, 8>>, <<0, 6>> >>, << <<2, 4>>, <<0, 8>> >>, << <<0, 4>>, <<0, 4>> >>,
    << <<0, 6>>, <<0, 4>> >>,
    << <<0, 2>>, <<2, 4>>, <<4, 6>> >>, << <<1, 4>> >>}

Symmetry == Permutations(Keys) \cup Permutations(Requests)
=============================================================================
