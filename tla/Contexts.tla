------------------------------- MODULE Contexts -------------------------------
(***************************************************************************)
(* What TrainingContextService promises each signed-in family member: the  *)
(* pair (player profile, trainer) a viewer looks at moves only when the    *)
(* viewer asks for a pair within reach, joins a trainer, or looks at a     *)
(* pair that is out of reach; and it rests on nothing only when there is   *)
(* nothing within reach, or the account is gone.                           *)
(***************************************************************************)
CONSTANTS Viewers, Pairs, None

VARIABLES
    present,    \* viewers whose account is in use
    reach,      \* viewer -> the pairs the viewer may look at
    asking,     \* viewers who ask for another pair
    shown       \* viewer -> the pair the viewer looks at, or None

vars == <<present, reach, asking, shown>>

Init == shown = [v \in Viewers |-> None]

Look(v, pair) == shown' = [shown EXCEPT ![v] = pair]

\* The viewer's own choice.
Choose(v) ==
    /\ v \in asking
    /\ reach' = reach
    /\ \E pair \in reach[v] : Look(v, pair)

\* A trainer joined is the trainer looked at.
Join(v) == \E pair \in Pairs :
    /\ pair \in reach'[v]
    /\ pair \notin reach[v]
    /\ Look(v, pair)

\* A new account starts at the pair it registered for, wherever that is by then.
Arrive(v) == v \in present' \ present /\ \E pair \in Pairs : Look(v, pair)

\* A pair out of reach gives way to one within reach, or to nothing.
Settle(v) ==
    /\ shown[v] \notin reach[v]
    /\ reach' = reach
    /\ \/ \E pair \in reach[v] : Look(v, pair)
       \/ reach[v] = {} /\ Look(v, None)

\* What the rest of the family and the trainers do moves nobody's context.
Elsewhere == shown' = shown

\* An account that is erased looks at nothing.
Forget ==
    shown' = [v \in Viewers |-> IF v \in present \ present' THEN None ELSE shown[v]]

Next ==
    \/ Elsewhere
    \/ \E v \in Viewers : Choose(v) \/ Join(v) \/ Arrive(v) \/ Settle(v)
    \/ Forget

Spec == Init /\ [][Next]_vars
=============================================================================
