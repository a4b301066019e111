------------------------------- MODULE Training -------------------------------
(***************************************************************************)
(* How families come to trainers and what they then look at: a trainer's   *)
(* standing link, joining through it, the trainers a parent adds to and    *)
(* takes from the players of the account, and the stored training context  *)
(* of every family member, validated and repaired when it is read.         *)
(*                                                                         *)
(* As in Approvals, an authenticated request is two steps: authentication  *)
(* without the lock, then a handler that reads everything else afresh.     *)
(* Registration is public: it reads the link and the trainer without the   *)
(* lock and writes without looking again.                                  *)
(***************************************************************************)
CONSTANTS
    Parents,    \* player_parent accounts that are nobody's child sign-in
    Kids,       \* accounts that granting a sign-in makes: bounds the grants
    Profiles,   \* player profiles
    Selves,     \* the profiles of kind self
    Trainers,
    ParentOf,   \* player_profiles.account_user_id
    ProfileOf,  \* the profile a kid's account is made for
    None

Viewers == Parents \cup Kids
Pair == Profiles \X Trainers

ASSUME TrainingAssumption ==
    /\ ParentOf \in [Profiles -> Parents]
    /\ ProfileOf \in [Kids -> Profiles]
    /\ Selves \subseteq Profiles
    /\ Parents \cap Kids = {}
    /\ None \notin Viewers \cup Trainers \cup Pair

VARIABLES
    account,    \* viewer -> users.status, "none" before it is made
    trainer,    \* trainer -> active, or not (deactivated or erased)
    profile,    \* profile -> none, live or removed
    signIn,     \* profile -> sign_in_user_id
    assoc,      \* <<profile, trainer>> -> trainer_player_associations.status
    context,    \* viewer -> the row of active_training_contexts
    request,    \* viewer -> the kind of request past authentication, not yet locked
    form        \* the trainer whose link a registration in flight has resolved

familyVars == <<profile, signIn, assoc>>
vars == <<account, trainer, profile, signIn, assoc, context, request, form>>

Status == {"active", "inactive", "deleted"}

\* The rows and what the requests in flight may be.  A stored context names a
\* player and a trainer or neither: "a row with one set and the other NULL is
\* never written" (models/player_profile.py).
TypeOK ==
    /\ account \in [Viewers -> {"none"} \cup Status]
    /\ trainer \in [Trainers -> {"active", "inactive"}]
    /\ profile \in [Profiles -> {"none", "live", "removed"}]
    /\ signIn \in [Profiles -> Kids \cup {None}]
    /\ assoc \in [Pair -> {"none", "active", "inactive"}]
    /\ context \in [Viewers -> Pair \cup {None}]
    /\ request \in [Viewers -> {"none", "switch", "other"}]
    /\ form \in Trainers \cup {None}

Init ==
    /\ account = [v \in Viewers |-> "none"]
    /\ trainer = [t \in Trainers |-> "active"]
    /\ profile = [p \in Profiles |-> "none"]
    /\ signIn = [p \in Profiles |-> None]
    /\ assoc = [pt \in Pair |-> "none"]
    /\ context = [v \in Viewers |-> None]
    /\ request = [v \in Viewers |-> "none"]
    /\ form = None

-----------------------------------------------------------------------------
(* Requests *)

\* Authentication: an Active account, and an Active parent behind a profile
\* that names it.
MayEnter(v) ==
    /\ account[v] = "active"
    /\ \A p \in Profiles : signIn[p] = v => account[ParentOf[p]] = "active"

Authenticate(v, kind) ==
    /\ request[v] = "none"
    /\ MayEnter(v)
    /\ request' = [request EXCEPT ![v] = kind]
    /\ UNCHANGED <<account, trainer, familyVars, context, form>>

\* The request takes the lock, runs and commits.
Serve(v) ==
    /\ request[v] # "none"
    /\ request' = [request EXCEPT ![v] = "none"]

\* A request that is refused, or changes nothing modelled here.
EndWithoutEffect(v) ==
    /\ Serve(v)
    /\ UNCHANGED <<account, trainer, familyVars, context, form>>

-----------------------------------------------------------------------------
(* The pair a viewer may look at *)

\* Mutant of Reachable: the association is not looked at.
ReachableTrainer(pt) == trainer[pt[2]] = "active"

Reachable(pt) == assoc[pt] = "active" /\ trainer[pt[2]] = "active"

\* Rows of list_active_for_account: the live profiles of the account.
AccountRows(u) ==
    {pt \in Pair : ParentOf[pt[1]] = u /\ profile[pt[1]] = "live" /\ Reachable(pt)}

\* Rows of list_active_for_player.
PlayerRows(p) == {pt \in Pair : pt[1] = p /\ Reachable(pt)}

\* Mutant of CandidateRows: a child is offered what the parent is offered.
RowsOfTheFamily(v) ==
    {pt \in Pair : /\ Reachable(pt) /\ profile[pt[1]] = "live"
                   /\ \/ ParentOf[pt[1]] = v
                      \/ \E p \in Profiles : signIn[p] = v /\ ParentOf[p] = ParentOf[pt[1]]}

\* A profile that names the viewer as its sign-in is the only one in reach;
\* an account no profile names owns what it owns (a former child: nothing).
CandidateRows(v) ==
    {pt \in Pair :
        \/ signIn[pt[1]] = v /\ pt \in PlayerRows(pt[1])
        \/ (\A p \in Profiles : signIn[p] # v) /\ pt \in AccountRows(v)}

\* Mutant of ResolveContext: every read falls back to the first row.
ResolveAfresh(v) ==
    IF CandidateRows(v) = {} THEN context' = [context EXCEPT ![v] = None]
    ELSE \E pt \in CandidateRows(v) : context' = [context EXCEPT ![v] = pt]

\* resolve_active_context: a stored pair in reach stands; any other is
\* replaced by the first candidate, in whatever order the rows come.
ResolveContext(v) ==
    CASE CandidateRows(v) = {} -> context' = [context EXCEPT ![v] = None]
      [] context[v] \in CandidateRows(v) -> UNCHANGED context
      [] OTHER -> \E pt \in CandidateRows(v) : context' = [context EXCEPT ![v] = pt]

\* Every endpoint scoped to a context reads it this way, and so does a join
\* that finds everyone selected connected already.
ReadContext(v) ==
    /\ request[v] = "other" /\ Serve(v)
    /\ ResolveContext(v)
    /\ UNCHANGED <<account, trainer, familyVars, form>>

\* switch_context: the pair asked for has to be in reach.
SwitchContext(v, wanted) ==
    /\ request[v] = "switch" /\ Serve(v)
    /\ wanted \in CandidateRows(v)
    /\ context' = [context EXCEPT ![v] = wanted]
    /\ UNCHANGED <<account, trainer, familyVars, form>>

-----------------------------------------------------------------------------
(* Joining *)

\* Mutant of Usable: the link is checked, its trainer is not.
UsableLink(t) == TRUE

\* An Active trainer always has a link that admits people (Approvals has the
\* links themselves); a code that was replaced is refused.
Usable(t) == trainer[t] = "active"

LiveProfiles(u) == {p \in Profiles : ParentOf[p] = u /\ profile[p] = "live"}

\* Those of `ps' that are not active with t become so.
Connecting(ps, t) ==
    [pt \in Pair |-> IF pt[1] \in ps /\ pt[2] = t THEN "active" ELSE assoc[pt]]

\* A signed-in parent joins for the players chosen.  A player who has an
\* association already, even an inactive one, counts as connected; the pair
\* looked at next is the parent's own, else that of a player just joined.
Accept(u, t, chosen) ==
    LET joined == {p \in chosen : assoc[<<p, t>>] = "none"}
        first == IF joined \cap Selves = {} THEN joined ELSE joined \cap Selves
    IN  /\ request[u] = "other" /\ Serve(u)
        /\ Usable(t)
        /\ chosen \subseteq LiveProfiles(u)
        /\ joined # {}
        /\ assoc' = Connecting(joined, t)
        /\ \E p \in first : context' = [context EXCEPT ![u] = <<p, t>>]
        /\ UNCHANGED <<account, trainer, profile, signIn, form>>

\* Registration resolves the link and the trainer before it holds the lock.
\* Parents bounds the accounts it can make.
OpenRegistration(t) ==
    /\ form = None
    /\ \E u \in Parents : account[u] = "none"
    /\ Usable(t)
    /\ form' = t
    /\ UNCHANGED <<account, trainer, familyVars, context, request>>

\* It makes the account, its first player, the association and the context.
Register(u, p) ==
    /\ form # None
    /\ account[u] = "none"
    /\ profile[p] = "none" /\ ParentOf[p] = u
    /\ account' = [account EXCEPT ![u] = "active"]
    /\ profile' = [profile EXCEPT ![p] = "live"]
    /\ assoc' = Connecting({p}, form)
    /\ context' = [context EXCEPT ![u] = <<p, form>>]
    /\ form' = None
    /\ UNCHANGED <<trainer, signIn, request>>

\* The address is taken, or the person gives up.
AbandonRegistration ==
    /\ form # None
    /\ form' = None
    /\ UNCHANGED <<account, trainer, familyVars, context, request>>

-----------------------------------------------------------------------------
(* What a parent does about the players of the account *)

\* A child starts with the trainers chosen among those the account reaches.
CreateChild(u, p, ts) ==
    /\ Serve(u)
    /\ profile[p] = "none" /\ ParentOf[p] = u /\ p \notin Selves
    /\ \A t \in ts : \E q \in Profiles : <<q, t>> \in AccountRows(u)
    /\ profile' = [profile EXCEPT ![p] = "live"]
    /\ assoc' = [pt \in Pair |-> IF pt[1] = p /\ pt[2] \in ts THEN "active" ELSE assoc[pt]]
    /\ UNCHANGED <<account, trainer, signIn, context, form>>

\* A trainer is added by a usable link, or by choosing one the account reaches.
MayAdd(u, t) ==
    \/ Usable(t)
    \/ \E q \in Profiles : <<q, t>> \in AccountRows(u)

AddTrainer(p, t) ==
    /\ Serve(ParentOf[p])
    /\ profile[p] = "live"
    /\ MayAdd(ParentOf[p], t)
    /\ assoc' = Connecting({p}, t)
    /\ UNCHANGED <<account, trainer, profile, signIn, context, form>>

RemoveTrainer(p, t) ==
    /\ Serve(ParentOf[p])
    /\ profile[p] = "live"
    /\ assoc[<<p, t>>] # "none"
    /\ assoc' = [assoc EXCEPT ![<<p, t>>] = "inactive"]
    /\ UNCHANGED <<account, trainer, profile, signIn, context, form>>

\* The sign-in of a profile ends, and its account with it.
EndSignIn(p) ==
    /\ signIn' = [signIn EXCEPT ![p] = None]
    /\ account' = [v \in Viewers |->
            IF v = signIn[p] /\ account[v] = "active" THEN "inactive" ELSE account[v]]

RemoveProfile(p) ==
    /\ Serve(ParentOf[p])
    /\ profile[p] = "live"
    /\ EndSignIn(p)
    /\ profile' = [profile EXCEPT ![p] = "removed"]
    /\ UNCHANGED <<trainer, assoc, context, form>>

\* A new account takes the place of the sign-in there may be already.
GrantSignIn(k) ==
    LET p == ProfileOf[k]
    IN  /\ Serve(ParentOf[p])
        /\ account[k] = "none"
        /\ profile[p] = "live" /\ p \notin Selves
        /\ account' = [account EXCEPT ![k] = "active"]
        /\ signIn' = [signIn EXCEPT ![p] = k]
        /\ UNCHANGED <<trainer, profile, assoc, context, form>>

RevokeSignIn(p) ==
    /\ Serve(ParentOf[p])
    /\ profile[p] = "live"
    /\ signIn[p] # None
    /\ EndSignIn(p)
    /\ UNCHANGED <<trainer, profile, assoc, context, form>>

-----------------------------------------------------------------------------
(* What a Super Admin does to the accounts *)

SetStatus(v, from, to) ==
    /\ account[v] \in from
    /\ account' = [account EXCEPT ![v] = to]
    /\ UNCHANGED <<trainer, familyVars, context, request, form>>

\* create_user makes a family without a player; the rest comes later.
CreateParent(u) == SetStatus(u, {"none"}, "active")
Deactivate(v) == SetStatus(v, {"active"}, "inactive")
Reactivate(v) == SetStatus(v, {"inactive"}, "active")

\* delete_for_user, of each account erased.
Forgetting(gone) == [v \in Viewers |-> IF v \in gone THEN None ELSE context[v]]

\* Erasing a family erases the accounts its profiles name; the players stay
\* live and on the trainers' rosters.
EraseViewer(v) ==
    LET named == {signIn[p] : p \in {q \in Profiles : ParentOf[q] = v}} \ {None}
        gone == {v} \cup {k \in named : account[k] # "deleted"}
    IN  /\ account[v] \in {"active", "inactive"}
        /\ account' = [w \in Viewers |-> IF w \in gone THEN "deleted" ELSE account[w]]
        /\ signIn' = [p \in Profiles |-> IF ParentOf[p] = v THEN None ELSE signIn[p]]
        /\ context' = Forgetting(gone)
        /\ UNCHANGED <<trainer, profile, assoc, request, form>>

SetTrainer(t, from, to) ==
    /\ trainer[t] = from
    /\ trainer' = [trainer EXCEPT ![t] = to]
    /\ UNCHANGED <<account, familyVars, context, request, form>>

\* Deactivation, or erasure: here, a deactivation that is never undone.
DeactivateTrainer(t) == SetTrainer(t, "active", "inactive")
ReactivateTrainer(t) == SetTrainer(t, "inactive", "active")

-----------------------------------------------------------------------------
Joining ==
    \/ \E t \in Trainers : OpenRegistration(t)
    \/ \E p \in Profiles : Register(ParentOf[p], p)
    \/ AbandonRegistration
    \/ \E u \in Parents, t \in Trainers, chosen \in SUBSET Profiles : Accept(u, t, chosen)

Family ==
    \/ \E p \in Profiles, ts \in SUBSET Trainers : CreateChild(ParentOf[p], p, ts)
    \/ \E p \in Profiles, t \in Trainers : AddTrainer(p, t) \/ RemoveTrainer(p, t)
    \/ \E p \in Profiles : RemoveProfile(p) \/ RevokeSignIn(p)
    \/ \E k \in Kids : GrantSignIn(k)

Viewing ==
    \/ \E v \in Viewers : EndWithoutEffect(v) \/ ReadContext(v)
    \/ \E v \in Viewers, kind \in {"switch", "other"} : Authenticate(v, kind)
    \/ \E v \in Viewers, wanted \in Pair : SwitchContext(v, wanted)

Management ==
    \/ \E u \in Parents : CreateParent(u)
    \/ \E v \in Viewers : Deactivate(v) \/ Reactivate(v) \/ EraseViewer(v)
    \/ \E t \in Trainers : DeactivateTrainer(t) \/ ReactivateTrainer(t)

Next == Joining \/ Family \/ Viewing \/ Management

Spec == Init /\ [][Next]_vars

-----------------------------------------------------------------------------
(* Properties *)

\* FR-119, FR-132: what a child's account is stored as looking at is a pair of
\* the one profile the account was made for, never a sibling's or a parent's.
ChildLooksAtItself ==
    \A k \in Kids : context[k] # None => context[k][1] = ProfileOf[k]

\* FR-117, FR-120: a stored context names a player of the viewer's own family
\* who joined that trainer at some time, though it may have ended since.
ContextWasJoined ==
    \A v \in Viewers : context[v] # None =>
        /\ assoc[context[v]] # "none"
        /\ v \in Parents => ParentOf[context[v][1]] = v

\* FR-070, FR-089: by whichever way a player comes to a trainer, the trainer
\* is Active then, unless it is a new family whose registration was open
\* already; and no switch, removal, erasure or change of status makes an
\* ended association active again.
JoinsAnActiveTrainer ==
    [][\A pt \in Pair :
          assoc[pt] # "active" /\ assoc'[pt] = "active" =>
            \/ trainer[pt[2]] = "active"
            \/ form = pt[2] /\ account[ParentOf[pt[1]]] = "none"]_vars

\* FR-089, FR-117 to FR-120: the stored contexts keep the promise of Contexts.
C == INSTANCE Contexts WITH
        Pairs <- Pair,
        present <- {v \in Viewers : account[v] \in {"active", "inactive"}},
        reach <- [v \in Viewers |-> CandidateRows(v)],
        asking <- {v \in Viewers : request[v] = "switch"},
        shown <- context

ImplementsContexts == C!Spec
=============================================================================
