--------------------------- MODULE CoachInvitations ---------------------------
(***************************************************************************)
(* Coach invitations: a trainer mails a single-use link, re-sends or       *)
(* revokes it; the invited person accepts it with an existing account, or  *)
(* registers one through it, and joins the trainer's roster.               *)
(*                                                                         *)
(* Authenticated requests are serial once past their session touch, as in  *)
(* Approvals.  Registration is public and touches no session: it reads the *)
(* invitation, the trainer and the address with no lock held, and takes    *)
(* the write lock only when it inserts the account.  `opened' and          *)
(* `sawBlock' are what such a request remembers between the two.           *)
(***************************************************************************)
EXTENDS Naturals

CONSTANTS
    Invitations,    \* ids of coach_invitations rows: bounds how many are issued
    Trainers,
    Accounts,       \* ids of the invited people's accounts, made or not
    Coaches,        \* the accounts whose role is coach
    Addresses,
    InviterOf,      \* coach_invitations.trainer_user_id
    InvitedOf,      \* coach_invitations.invited_email
    AddressOf,      \* the address an account is made with
    TTL,            \* coach_invitation_ttl_days, in ticks of the clock
    None

ASSUME InvitationsAssumption ==
    /\ TTL \in Nat \ {0}
    /\ Coaches \subseteq Accounts
    /\ InviterOf \in [Invitations -> Trainers]
    /\ InvitedOf \in [Invitations -> Addresses]
    /\ AddressOf \in [Accounts -> Addresses]
    /\ Trainers \cap Accounts = {}
    /\ None \notin Invitations \cup Trainers \cup Accounts

VARIABLES
    state,      \* invitation -> CoachInvitation.state, "unissued" before it is
    life,       \* invitation -> expires_at - now, never below 0
    blocked,    \* invitations with blocked_at set
    takenBy,    \* invitation -> accepted_by_user_id
    account,    \* trainer or account -> users.status, "none" before it is made
    roster,     \* account -> coach_details.trainer_user_id
    admitted,   \* actors with a request past authentication, not yet locked
    opened,     \* account -> the invitation whose registration will make it
    sawBlock    \* registrations that read their invitation with a block on it

invitationVars == <<state, life, blocked, takenBy>>
registerVars == <<opened, sawBlock>>
vars == <<state, life, blocked, takenBy, account, roster, admitted, opened, sawBlock>>

Actors == Trainers \cup Accounts
InvitationState == {"awaiting", "accepted", "revoked", "superseded"}

\* The rows and what the requests in flight may be.  As
\* ck_coach_invitations_terminal_pair has it, an invitation is accepted exactly
\* when it says by which account, and that is an invited person's.
TypeOK ==
    /\ state \in [Invitations -> InvitationState \cup {"unissued"}]
    /\ life \in [Invitations -> 0 .. TTL]
    /\ blocked \subseteq Invitations
    /\ takenBy \in [Invitations -> Accounts \cup {None}]
    /\ \A i \in Invitations : state[i] = "accepted" <=> takenBy[i] # None
    /\ account \in [Actors -> {"none", "active", "inactive", "deleted"}]
    /\ roster \in [Accounts -> Trainers \cup {None}]
    /\ admitted \subseteq Actors
    /\ opened \in [Accounts -> Invitations \cup {None}]
    /\ sawBlock \subseteq Accounts

Init ==
    /\ state = [i \in Invitations |-> "unissued"]
    /\ life = [i \in Invitations |-> 0]
    /\ blocked = {}
    /\ takenBy = [i \in Invitations |-> None]
    /\ account = [u \in Actors |-> IF u \in Trainers THEN "active" ELSE "none"]
    /\ roster = [a \in Accounts |-> None]
    /\ admitted = {}
    /\ opened = [a \in Accounts |-> None]
    /\ sawBlock = {}

-----------------------------------------------------------------------------
(* Requests *)

Authenticate(u) ==
    /\ u \notin admitted
    /\ account[u] = "active"
    /\ admitted' = admitted \cup {u}
    /\ UNCHANGED <<invitationVars, account, roster, registerVars>>

Serve(u) ==
    /\ u \in admitted
    /\ admitted' = admitted \ {u}

EndWithoutEffect(u) ==
    /\ Serve(u)
    /\ UNCHANGED <<invitationVars, account, roster, registerVars>>

-----------------------------------------------------------------------------
(* The trainer's side.  _require_active looks at the row authentication    *)
(* read, so a trainer deactivated while the request waits is not refused.  *)

SamePerson(i, j) == InviterOf[i] = InviterOf[j] /\ InvitedOf[i] = InvitedOf[j]

\* Awaiting and unexpired; a block does not matter.
Spendable(i) == state[i] = "awaiting" /\ life[i] > 0

\* The row a new invitation is inserted as.
Insert(i) ==
    /\ state[i] = "unissued"
    /\ life' = [life EXCEPT ![i] = TTL]
    /\ UNCHANGED <<blocked, takenBy>>

\* find_live_for_email found no row; two such rows make it raise instead.
Issue(i) ==
    /\ Serve(InviterOf[i])
    /\ \A j \in Invitations : SamePerson(i, j) => ~Spendable(j)
    /\ Insert(i)
    /\ state' = [state EXCEPT ![i] = "awaiting"]
    /\ UNCHANGED <<account, roster, registerVars>>

\* Any awaiting row is re-sent, expired or not, as j.
Resend(i, j) ==
    /\ Serve(InviterOf[i])
    /\ state[i] = "awaiting"
    /\ SamePerson(i, j)
    /\ Insert(j)
    /\ state' = [state EXCEPT ![i] = "superseded", ![j] = "awaiting"]
    /\ UNCHANGED <<account, roster, registerVars>>

\* presented_state is awaiting or blocked.
Revocable(i) == Spendable(i)

Revoke(i) ==
    /\ Serve(InviterOf[i])
    /\ Revocable(i)
    /\ state' = [state EXCEPT ![i] = "revoked"]
    /\ UNCHANGED <<life, blocked, takenBy, account, roster, registerVars>>

EndAssignment(a) ==
    /\ roster[a] # None
    /\ Serve(roster[a])
    /\ roster' = [roster EXCEPT ![a] = None]
    /\ UNCHANGED <<invitationVars, account, registerVars>>

-----------------------------------------------------------------------------
(* The invited person's side *)

\* _resolve_usable.
Usable(i) == Spendable(i) /\ account[InviterOf[i]] = "active"

\* Mutant of Spend: the acceptance does not say whose it is.
SpendUnnamed(i, a) ==
    /\ state' = [state EXCEPT ![i] = "accepted"]
    /\ UNCHANGED takenBy

\* Mutant of Spend: accepted_by_user_id gets the trainer the row was read with.
SpendForInviter(i, a) ==
    /\ state' = [state EXCEPT ![i] = "accepted"]
    /\ takenBy' = [takenBy EXCEPT ![i] = InviterOf[i]]

\* mark_accepted, whose WHERE is Spendable.
Spend(i, a) ==
    /\ state' = [state EXCEPT ![i] = "accepted"]
    /\ takenBy' = [takenBy EXCEPT ![i] = a]

\* Mutant of Unattached: the one-trainer rule is forgotten.
AnyCoach(a) == a \in Coaches

Unattached(a) == a \in Coaches /\ roster[a] = None

\* The caller's email is the one authentication read: an account erased since
\* still matches its old address.
Accept(a, i) ==
    /\ Serve(a)
    /\ Usable(i)
    /\ AddressOf[a] = InvitedOf[i]
    /\ Unattached(a)
    /\ Spend(i, a)
    /\ roster' = [roster EXCEPT ![a] = InviterOf[i]]
    /\ blocked' = blocked \ {i}
    /\ UNCHANGED <<life, account, registerVars>>

\* Not a coach, or on another trainer's roster: the row is annotated, not spent.
Block(a, i) ==
    /\ Serve(a)
    /\ Usable(i)
    /\ AddressOf[a] = InvitedOf[i]
    /\ a \notin Coaches \/ roster[a] \notin {None, InviterOf[i]}
    /\ blocked' = blocked \cup {i}
    /\ UNCHANGED <<state, life, takenBy, account, roster, registerVars>>

-----------------------------------------------------------------------------
(* Registration: reads first, then one transaction *)

AddressTaken(a) ==
    \E b \in Accounts : AddressOf[b] = AddressOf[a] /\ account[b] \in {"active", "inactive"}

OpenRegistration(a, i) ==
    /\ account[a] = "none" /\ opened[a] = None
    /\ a \in Coaches
    /\ AddressOf[a] = InvitedOf[i]
    /\ Usable(i)
    /\ ~AddressTaken(a)
    /\ opened' = [opened EXCEPT ![a] = i]
    /\ sawBlock' = IF i \in blocked THEN sawBlock \cup {a} ELSE sawBlock \ {a}
    /\ UNCHANGED <<invitationVars, account, roster, admitted>>

\* Mutant of EmailIsUnique: get_by_email, which has run, is all there is.
EmailWasUnique(a) == TRUE

\* The unique index on users.email, when the account is inserted.
EmailIsUnique(a) == ~AddressTaken(a)

EndRegistration(a) == opened' = [opened EXCEPT ![a] = None]

\* Mutant of StillSpendable: the conditional UPDATE is an unconditional one.
SpendsAnything(i) == TRUE

StillSpendable(i) == Spendable(i)

\* The trainer is not looked at again.  clear_block writes only a value that
\* differs from the one read, so a block set since the read survives it.
Register(a) ==
    /\ opened[a] # None /\ EmailIsUnique(a)
    /\ StillSpendable(opened[a])
    /\ Spend(opened[a], a)
    /\ account' = [account EXCEPT ![a] = "active"]
    /\ roster' = [roster EXCEPT ![a] = InviterOf[opened[a]]]
    /\ blocked' = IF a \in sawBlock THEN blocked \ {opened[a]} ELSE blocked
    /\ EndRegistration(a)
    /\ UNCHANGED <<life, admitted, sawBlock>>

\* The invitation went in between: the refusal is a DomainError, so the new
\* account is committed all the same, on no roster.
RegisterOrphan(a) ==
    /\ opened[a] # None /\ EmailIsUnique(a)
    /\ ~StillSpendable(opened[a])
    /\ account' = [account EXCEPT ![a] = "active"]
    /\ EndRegistration(a)
    /\ UNCHANGED <<invitationVars, roster, admitted, sawBlock>>

\* The address went in between: the unique email rolls everything back.
RegisterConflict(a) ==
    /\ opened[a] # None /\ ~EmailIsUnique(a)
    /\ EndRegistration(a)
    /\ UNCHANGED <<invitationVars, account, roster, admitted, sawBlock>>

-----------------------------------------------------------------------------
(* Administration and time *)

CreateUser(a) ==
    /\ account[a] = "none" /\ opened[a] = None
    /\ ~AddressTaken(a)
    /\ account' = [account EXCEPT ![a] = "active"]
    /\ UNCHANGED <<invitationVars, roster, admitted, registerVars>>

ChangeStatus(u, from, to) ==
    /\ account[u] \in from
    /\ account' = [account EXCEPT ![u] = to]
    /\ UNCHANGED <<invitationVars, roster, admitted, registerVars>>

Deactivate(u) == ChangeStatus(u, {"active"}, "inactive")
Reactivate(u) == ChangeStatus(u, {"inactive"}, "active")

\* Erasing a coach keeps the assignment; the address is free again.
Erase(u) == ChangeStatus(u, {"active", "inactive"}, "deleted")

LifeLeft(i) == IF Spendable(i) THEN life[i] - 1 ELSE life[i]

Tick ==
    /\ \E i \in Invitations : Spendable(i)
    /\ life' = [i \in Invitations |-> LifeLeft(i)]
    /\ UNCHANGED <<state, blocked, takenBy, account, roster, admitted, registerVars>>

-----------------------------------------------------------------------------
TrainerStep(i) ==
    \/ Issue(i) \/ Revoke(i)
    \/ \E j \in Invitations : Resend(i, j)

InviteeStep(a) ==
    \/ \E i \in Invitations : Accept(a, i) \/ Block(a, i) \/ OpenRegistration(a, i)
    \/ Register(a) \/ RegisterOrphan(a) \/ RegisterConflict(a)
    \/ EndAssignment(a) \/ CreateUser(a)

Next ==
    \/ \E u \in Actors : Authenticate(u) \/ EndWithoutEffect(u)
    \/ \E u \in Actors : Deactivate(u) \/ Reactivate(u) \/ Erase(u)
    \/ \E i \in Invitations : TrainerStep(i)
    \/ \E a \in Accounts : InviteeStep(a)
    \/ Tick

Spec == Init /\ [][Next]_vars

-----------------------------------------------------------------------------
(* Properties *)

\* FR-002, FR-013, FR-015, FR-018: a coach joins a roster only from none, and
\* only by spending, in the same step, exactly one invitation that was still
\* good, of that trainer, to that coach's address; and an invitation is only
\* ever spent that way.
Spent(i) == state[i] # "accepted" /\ state'[i] = "accepted"

Joins(a, t) == roster'[a] = t /\ roster[a] # t

JoinSpendsOneInvitation ==
    [][/\ \A a \in Accounts, t \in Trainers : Joins(a, t) =>
             /\ roster[a] = None /\ a \in Coaches
             /\ \E i \in Invitations :
                   /\ Spent(i) /\ Spendable(i)
                   /\ InviterOf[i] = t /\ InvitedOf[i] = AddressOf[a]
                   /\ takenBy'[i] = a
       /\ \A i, j \in Invitations : Spent(i) /\ Spent(j) => i = j
       /\ \A i \in Invitations : Spent(i) =>
             takenBy'[i] \in Accounts /\ Joins(takenBy'[i], InviterOf[i])]_vars

\* The transition table of models/enums.py: nothing leaves a terminal state,
\* so a revoked or re-sent link never comes back and an accepted invitation
\* is never also revoked, whoever raced whom.
AllowedTransitions ==
    {<<"unissued", "awaiting">>} \cup ({"awaiting"} \X {"accepted", "revoked", "superseded"})

LegalTransitions ==
    [][\A i \in Invitations :
          state'[i] # state[i] => <<state[i], state'[i]>> \in AllowedTransitions]_vars

\* FR-018, FR-020: each coach on a roster got there by an invitation of that
\* trainer that names them as the one who took it.
RosterIsBacked ==
    \A a \in Accounts : roster[a] # None =>
        \E i \in Invitations :
            state[i] = "accepted" /\ takenBy[i] = a /\ InviterOf[i] = roster[a]

\* 001 FR-004: two registrations, or a registration and create_user, that
\* both found an address free never both leave an account in use at it.
OneAccountPerAddress ==
    \A a, b \in Accounts :
        /\ account[a] \in {"active", "inactive"} /\ account[b] \in {"active", "inactive"}
        /\ AddressOf[a] = AddressOf[b]
        => a = b

\* FR-005, FR-007 (002 spec.md): a trainer has at most one awaiting,
\* unexpired invitation to an address.
OneLivePerAddress ==
    \A i, j \in Invitations : Spendable(i) /\ Spendable(j) /\ SamePerson(i, j) => i = j

\* FR-002, FR-013, FR-015, FR-018: the workflow as a whole keeps the promise of
\* Rosters.  An expired or blocked invitation is still an open offer there: its
\* trainer may replace it.
Stage == [unissued |-> "unmade", awaiting |-> "open", accepted |-> "taken",
          revoked |-> "withdrawn", superseded |-> "replaced"]

R == INSTANCE Rosters WITH
        Offers <- Invitations,
        MakerOf <- InviterOf,
        MayTake <- [i \in Invitations |-> {a \in Coaches : AddressOf[a] = InvitedOf[i]}],
        Nobody <- None,
        offer <- [i \in Invitations |-> Stage[state[i]]],
        taker <- takenBy,
        seat <- [a \in Coaches |-> roster[a]]

ImplementsRosters == R!Spec
=============================================================================
