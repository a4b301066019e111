------------------------------ MODULE Decisions ------------------------------
(***************************************************************************)
(* What the approval workflow promises, without accounts, links, clocks or *)
(* sweeps: a request is settled once, and the connection it asks for is    *)
(* made in the very step that grants it.                                   *)
(***************************************************************************)
CONSTANTS Requests, Pairs, NoPair

VARIABLES
    outcome,    \* request -> "unused", "open", "granted" or "refused"
    wish,       \* request -> the pair the child asks to connect
    connected   \* the pairs that train together

vars == <<outcome, wish, connected>>

\* The states a request may be in and what it may ask for.
TypeOK ==
    /\ outcome \in [Requests -> {"unused", "open", "granted", "refused"}]
    /\ wish \in [Requests -> Pairs \cup {NoPair}]
    /\ connected \subseteq Pairs

Init ==
    /\ outcome = [r \in Requests |-> "unused"]
    /\ wish = [r \in Requests |-> NoPair]
    /\ connected = {}

Open == {r \in Requests : outcome[r] = "open"}

\* A pair not connected, and not asked for already, is asked for.
Raise(r, pair) ==
    /\ outcome[r] = "unused"
    /\ pair \notin connected
    /\ \A s \in Open : wish[s] # pair
    /\ outcome' = [outcome EXCEPT ![r] = "open"]
    /\ wish' = [wish EXCEPT ![r] = pair]
    /\ UNCHANGED connected

Grant(r) ==
    /\ outcome[r] = "open"
    /\ outcome' = [outcome EXCEPT ![r] = "granted"]
    /\ connected' = connected \cup {wish[r]}
    /\ UNCHANGED wish

Refuse(rs) ==
    /\ rs # {} /\ rs \subseteq Open
    /\ outcome' = [r \in Requests |-> IF r \in rs THEN "refused" ELSE outcome[r]]
    /\ UNCHANGED <<wish, connected>>

\* The parent connects and disconnects without any request.
Rearrange(pairs) ==
    /\ pairs \subseteq Pairs
    /\ connected' = pairs
    /\ UNCHANGED <<outcome, wish>>

Next ==
    \/ \E r \in Requests, pair \in Pairs : Raise(r, pair)
    \/ \E r \in Requests : Grant(r)
    \/ \E rs \in SUBSET Requests : Refuse(rs)
    \/ \E pairs \in SUBSET Pairs : Rearrange(pairs)

Spec == Init /\ [][Next]_vars

\* Every request that is raised is granted or refused.
EventuallySettled == \A r \in Requests : outcome[r] = "open" ~> outcome[r] # "open"
=============================================================================
