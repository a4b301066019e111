------------------------------- MODULE Rosters -------------------------------
(***************************************************************************)
(* What coach invitations promise, without links, registrations, accounts' *)
(* standing or clocks: an offer is used up once, by one person, in the     *)
(* very step that puts that person, free until then, on the roster of the  *)
(* trainer who made it; and nothing closed is ever opened again.           *)
(***************************************************************************)
CONSTANTS
    Offers, Trainers, Coaches,
    MakerOf,        \* offer -> the trainer it is from
    MayTake,        \* offer -> the coaches it is addressed to
    Nobody

VARIABLES
    offer,      \* offer -> "unmade", "open", "taken", "withdrawn" or "replaced"
    taker,      \* offer -> who took it
    seat        \* coach -> the trainer whose roster the coach is on

vars == <<offer, taker, seat>>

Stages == {"unmade", "open", "taken", "withdrawn", "replaced"}

\* The states an offer may be in, who may take one, and where coaches sit.
TypeOK ==
    /\ offer \in [Offers -> Stages]
    /\ taker \in [Offers -> Coaches \cup {Nobody}]
    /\ seat \in [Coaches -> Trainers \cup {Nobody}]

Init ==
    /\ offer = [o \in Offers |-> "unmade"]
    /\ taker = [o \in Offers |-> Nobody]
    /\ seat = [c \in Coaches |-> Nobody]

Make(o) ==
    /\ offer[o] = "unmade"
    /\ offer' = [offer EXCEPT ![o] = "open"]
    /\ UNCHANGED <<taker, seat>>

Withdraw(o) ==
    /\ offer[o] = "open"
    /\ offer' = [offer EXCEPT ![o] = "withdrawn"]
    /\ UNCHANGED <<taker, seat>>

\* A fresh offer of the same trainer to the same people takes o's place.
Replace(o, p) ==
    /\ offer[o] = "open" /\ offer[p] = "unmade"
    /\ MakerOf[o] = MakerOf[p] /\ MayTake[o] = MayTake[p]
    /\ offer' = [offer EXCEPT ![o] = "replaced", ![p] = "open"]
    /\ UNCHANGED <<taker, seat>>

Take(c, o) ==
    /\ offer[o] = "open" /\ c \in MayTake[o]
    /\ seat[c] = Nobody
    /\ offer' = [offer EXCEPT ![o] = "taken"]
    /\ taker' = [taker EXCEPT ![o] = c]
    /\ seat' = [seat EXCEPT ![c] = MakerOf[o]]

Leave(c) ==
    /\ seat[c] # Nobody
    /\ seat' = [seat EXCEPT ![c] = Nobody]
    /\ UNCHANGED <<offer, taker>>

Next ==
    \/ \E o \in Offers : Make(o) \/ Withdraw(o)
    \/ \E o, p \in Offers : Replace(o, p)
    \/ \E c \in Coaches, o \in Offers : Take(c, o)
    \/ \E c \in Coaches : Leave(c)

Spec == Init /\ [][Next]_vars
=============================================================================
