------------------------------ MODULE Approvals ------------------------------
(***************************************************************************)
(* The Pending Parent Approval workflow: a signed-in child follows a       *)
(* trainer's standing link, a join_trainer request is raised for the       *)
(* parent, and the parent, the child, the maintenance sweep and erasure    *)
(* compete to resolve it.                                                  *)
(*                                                                         *)
(* Every authenticated HTTP request has two steps.  get_principal reads    *)
(* the account (and, for a child sign-in, the parent) with no transaction  *)
(* open; the session touch that follows takes SQLite's write lock, and     *)
(* everything after it is serial until the commit.  `admitted' holds the   *)
(* actors with a request between the two: what authentication read about   *)
(* them may be stale when the handler runs.                                *)
(***************************************************************************)
EXTENDS Naturals

CONSTANTS
    Requests,   \* ids of approval_requests rows: bounds how many are ever raised
    Profiles,   \* player profiles of kind child
    Parents,    \* accounts owning the profiles
    Trainers,   \* trainer accounts
    Links,      \* ids of share_links rows: bounds how often a link is reissued
    ParentOf,   \* player_profiles.account_user_id
    OwnerOf,    \* share_links.trainer_user_id
    TTL,        \* APPROVAL_REQUEST_TTL_HOURS, in ticks of the clock
    None

ASSUME ApprovalsAssumption ==
    /\ TTL \in Nat \ {0}
    /\ ParentOf \in [Profiles -> Parents]
    /\ OwnerOf \in [Links -> Trainers]
    /\ Parents \cap Profiles = {} /\ Parents \cap Trainers = {}
    /\ Profiles \cap Trainers = {}
    /\ None \notin Profiles \cup Links

VARIABLES
    status,     \* request -> ApprovalRequest.status, "none" before it is raised
    asker,      \* request -> player_profile_id
    via,        \* request -> share_link_id; its owner is trainer_user_id
    left,       \* request -> expires_at - now, never below 0; frozen once resolved
    resolver,   \* request -> whose resolution is recorded in resolved_by_user_id
    assoc,      \* <<profile, trainer>> -> trainer_player_associations.status
    account,    \* parent or trainer -> users.status
    signIn,     \* profiles with sign_in_user_id set: only the family ends one here
    removed,    \* profiles with removed_at set
    linkState,  \* link -> not yet issued, active, or revoked
    admitted    \* actors with a request past authentication, not yet locked

requestVars == <<status, asker, via, left, resolver>>
familyVars == <<signIn, removed>>
vars == <<status, asker, via, left, resolver, assoc, account, signIn, removed,
          linkState, admitted>>

Actors == Parents \cup Profiles \cup Trainers
AccountStatus == {"active", "inactive", "deleted"}
Live == {"pending_parent_approval", "info_requested"}
Terminal == {"approved", "denied", "expired", "withdrawn"}
Pair == Profiles \X Trainers

TrainerOf(r) == OwnerOf[via[r]]
Subject(r) == <<asker[r], TrainerOf(r)>>
IsLive(r) == status[r] \in Live

\* The rows and what the requests in flight may be.  As ck_approval_requests_subject
\* has it, a request that was raised names its child and, by the link it goes
\* by, the trainer; every decision reads both.
TypeOK ==
    /\ status \in [Requests -> {"none"} \cup Live \cup Terminal]
    /\ asker \in [Requests -> Profiles \cup {None}]
    /\ via \in [Requests -> Links \cup {None}]
    /\ \A r \in Requests : status[r] # "none" => asker[r] \in Profiles /\ via[r] \in Links
    /\ left \in [Requests -> 0 .. TTL]
    /\ resolver \in [Requests -> {"nobody", "parent", "child"}]
    /\ assoc \in [Pair -> {"none", "active", "inactive"}]
    /\ account \in [Parents \cup Trainers -> AccountStatus]
    /\ signIn \subseteq Profiles
    /\ removed \subseteq Profiles
    /\ linkState \in [Links -> {"unissued", "active", "revoked"}]
    /\ admitted \subseteq Actors

Init ==
    /\ status = [r \in Requests |-> "none"]
    /\ asker = [r \in Requests |-> None]
    /\ via = [r \in Requests |-> None]
    /\ left = [r \in Requests |-> 0]
    /\ resolver = [r \in Requests |-> "nobody"]
    /\ assoc = [pt \in Pair |-> "none"]
    /\ account = [u \in Parents \cup Trainers |-> "active"]
    /\ signIn = {}
    /\ removed = {}
    /\ \E first \in [Trainers -> Links] :
          /\ \A t \in Trainers : OwnerOf[first[t]] = t
          /\ linkState = [l \in Links |->
                IF first[OwnerOf[l]] = l THEN "active" ELSE "unissued"]
    /\ admitted = {}

-----------------------------------------------------------------------------
(* Authentication, and the end of a request *)

\* What get_principal reads before the lock: an Active account, and for a
\* child sign-in an Active parent as well.
MayEnter(a) ==
    \/ a \in Parents \cup Trainers /\ account[a] = "active"
    \/ a \in signIn /\ account[ParentOf[a]] = "active"

Authenticate(a) ==
    /\ a \notin admitted
    /\ MayEnter(a)
    /\ admitted' = admitted \cup {a}
    /\ UNCHANGED <<requestVars, assoc, account, familyVars, linkState>>

\* The actor's request takes the lock, runs and commits.
Serve(a) ==
    /\ a \in admitted
    /\ admitted' = admitted \ {a}

\* A request that reads, is refused, or changes nothing modelled here.
EndWithoutEffect(a) ==
    /\ Serve(a)
    /\ UNCHANGED <<requestVars, assoc, account, familyVars, linkState>>

-----------------------------------------------------------------------------
(* Share links *)

\* resolve_usable_link: a standing link has no expiry and no maximum of uses.
Usable(l) == linkState[l] = "active" /\ account[OwnerOf[l]] = "active"

\* Mutant of CurrentLinks: get_current_for_trainer asks for a link that can
\* still be used, so it misses the link of a trainer who is not Active.
UsableLinks(t) == {l \in Links : OwnerOf[l] = t /\ Usable(l)}

\* get_current_for_trainer; it raises when there are several, see
\* OneCurrentLink.
CurrentLinks(t) == {l \in Links : OwnerOf[l] = t /\ linkState[l] = "active"}

IssueLink(l) ==
    linkState' = [k \in Links |->
        IF k = l THEN "active"
        ELSE IF k \in CurrentLinks(OwnerOf[l]) THEN "revoked" ELSE linkState[k]]

\* Regenerating revokes the trainer's current link and issues another.  The
\* trainer is not looked at again: one erased while the request waited for
\* the lock still gets a link, which Usable then refuses.
Regenerate(l) ==
    /\ Serve(OwnerOf[l])
    /\ linkState[l] = "unissued"
    /\ IssueLink(l)
    /\ UNCHANGED <<requestVars, assoc, account, familyVars>>

\* Reading the link back issues one when the trainer has none: a trainer
\* erased while the read waited for the lock.
ReadLink(l) ==
    /\ CurrentLinks(OwnerOf[l]) = {}
    /\ Regenerate(l)

-----------------------------------------------------------------------------
(* Raising a request *)

\* Mutant of NoLiveRequest: the index covers one live status.
PendingBlocks(p, t) ==
    \A r \in Requests : ~(status[r] = "pending_parent_approval" /\ Subject(r) = <<p, t>>)

\* uq_approval_requests_live: no live row for this profile and trainer,
\* whatever its deadline.
NoLiveRequest(p, t) == \A r \in Requests : ~(IsLive(r) /\ Subject(r) = <<p, t>>)

\* Mutant of RaiseRequest: the link connects the child at once.
JoinUnasked(p, l, r) ==
    /\ assoc' = [assoc EXCEPT ![<<p, OwnerOf[l]>>] = "active"]
    /\ UNCHANGED requestVars

\* Mutant of RaiseRequest: the row is inserted without its share_link_id.
RaiseLinkless(p, l, r) ==
    /\ status' = [status EXCEPT ![r] = "pending_parent_approval"]
    /\ asker' = [asker EXCEPT ![r] = p]
    /\ left' = [left EXCEPT ![r] = TTL]
    /\ UNCHANGED <<via, resolver, assoc>>

RaiseRequest(p, l, r) ==
    /\ status' = [status EXCEPT ![r] = "pending_parent_approval"]
    /\ asker' = [asker EXCEPT ![r] = p]
    /\ via' = [via EXCEPT ![r] = l]
    /\ left' = [left EXCEPT ![r] = TTL]
    /\ UNCHANGED <<resolver, assoc>>

\* A child is always refused; what the refusal leaves behind is the request.
Ask(p, l, r) ==
    /\ Serve(p)
    /\ p \in signIn
    /\ Usable(l)
    /\ assoc[<<p, OwnerOf[l]>>] # "active"
    /\ NoLiveRequest(p, OwnerOf[l])
    /\ status[r] = "none"
    /\ RaiseRequest(p, l, r)
    /\ UNCHANGED <<account, familyVars, linkState>>

-----------------------------------------------------------------------------
(* Resolving it: every decision is one conditional UPDATE *)

\* Mutants of PersonMayResolve, each without one clause of the WHERE: the
\* deadline, the Active parent, the source statuses of this transition, the
\* source statuses altogether.
ResolvesLapsed(r, from) == status[r] \in from /\ account[ParentOf[asker[r]]] = "active"
ResolvesForInactive(r, from) == status[r] \in from /\ left[r] > 0
ResolvesAnyLive(r, from) == IsLive(r) /\ left[r] > 0 /\ account[ParentOf[asker[r]]] = "active"
ResolvesAgain(r, from) == left[r] > 0 /\ account[ParentOf[asker[r]]] = "active"

\* The WHERE clause of a person's decision.
PersonMayResolve(r, from) ==
    /\ status[r] \in from
    /\ left[r] > 0
    /\ account[ParentOf[asker[r]]] = "active"

\* Mutant of Resolve: every write of a status restarts the 48 hours.
ResolveRestarting(r, target, by) ==
    /\ status' = [status EXCEPT ![r] = target]
    /\ resolver' = [resolver EXCEPT ![r] = by]
    /\ left' = [left EXCEPT ![r] = TTL]
    /\ UNCHANGED <<asker, via>>

\* The SET clause; a live target leaves resolved_by_user_id NULL.
Resolve(r, target, by) ==
    /\ status' = [status EXCEPT ![r] = target]
    /\ resolver' = [resolver EXCEPT ![r] = by]
    /\ UNCHANGED <<asker, via, left>>

\* JoinTrainerExecutor: the trainer and the link are checked again, the
\* profile is not.
SubjectAvailable(r) == Usable(via[r])

\* The update and the executor share a SAVEPOINT: when the executor refuses,
\* both are rolled back and the request ends without effect.
Approve(r) ==
    /\ status[r] # "none"
    /\ Serve(ParentOf[asker[r]])
    /\ PersonMayResolve(r, {"pending_parent_approval"})
    /\ SubjectAvailable(r)
    /\ Resolve(r, "approved", "parent")
    /\ assoc' = [assoc EXCEPT ![Subject(r)] = "active"]
    /\ UNCHANGED <<account, familyVars, linkState>>

Deny(r) ==
    /\ status[r] # "none"
    /\ Serve(ParentOf[asker[r]])
    /\ PersonMayResolve(r, Live)
    /\ Resolve(r, "denied", "parent")
    /\ UNCHANGED <<assoc, account, familyVars, linkState>>

RequestInfo(r) ==
    /\ status[r] # "none"
    /\ Serve(ParentOf[asker[r]])
    /\ PersonMayResolve(r, {"pending_parent_approval"})
    /\ Resolve(r, "info_requested", "nobody")
    /\ UNCHANGED <<assoc, account, familyVars, linkState>>

Withdraw(r) ==
    /\ status[r] # "none"
    /\ Serve(asker[r])
    /\ asker[r] \in signIn
    /\ PersonMayResolve(r, Live)
    /\ Resolve(r, "withdrawn", "child")
    /\ UNCHANGED <<assoc, account, familyVars, linkState>>

Respond(r) ==
    /\ status[r] # "none"
    /\ Serve(asker[r])
    /\ asker[r] \in signIn
    /\ PersonMayResolve(r, {"info_requested"})
    /\ Resolve(r, "pending_parent_approval", "nobody")
    /\ UNCHANGED <<assoc, account, familyVars, linkState>>

\* One bulk expiry: the rows of `rows' become expired, resolved by nobody.
ExpireRows(rows) ==
    /\ status' = [r \in Requests |-> IF r \in rows THEN "expired" ELSE status[r]]
    /\ resolver' = [r \in Requests |-> IF r \in rows THEN "nobody" ELSE resolver[r]]
    /\ UNCHANGED <<asker, via, left>>

\* Mutant of LapsedLive: a request sent back for information is forgotten.
LapsedPending == {r \in Requests : status[r] = "pending_parent_approval" /\ left[r] = 0}

\* The maintenance sweep: one transaction over every lapsed live request.
LapsedLive == {r \in Requests : IsLive(r) /\ left[r] = 0}

Sweep ==
    /\ LapsedLive # {}
    /\ ExpireRows(LapsedLive)
    /\ UNCHANGED <<assoc, account, familyVars, linkState, admitted>>

\* The rows keep expires_at, and every WHERE compares it with the clock; this is
\* what is left between the two, counted while the comparison can still matter.
Remaining(r) == IF IsLive(r) /\ left[r] > 0 THEN left[r] - 1 ELSE left[r]

Tick ==
    /\ \E r \in Requests : IsLive(r) /\ left[r] > 0
    /\ left' = [r \in Requests |-> Remaining(r)]
    /\ UNCHANGED <<status, asker, via, resolver, assoc, account, familyVars,
                   linkState, admitted>>

-----------------------------------------------------------------------------
(* What the parent does to the family meanwhile *)

LiveProfilesOf(u) == {p \in Profiles : ParentOf[p] = u /\ p \notin removed}

\* A trainer can be added by a usable link, or because another live profile
\* of the account already trains with them.
ReachableTrainer(u, t) ==
    \/ \E l \in Links : OwnerOf[l] = t /\ Usable(l)
    \/ /\ account[t] = "active"
       /\ \E q \in LiveProfilesOf(u) : assoc[<<q, t>>] = "active"

AddTrainer(p, t) ==
    /\ Serve(ParentOf[p])
    /\ p \notin removed
    /\ ReachableTrainer(ParentOf[p], t)
    /\ assoc' = [assoc EXCEPT ![<<p, t>>] = "active"]
    /\ UNCHANGED <<requestVars, account, familyVars, linkState>>

\* A parent following the link joins the selected profiles; one that had an
\* association before, even an inactive one, is left as it is.
JoinByLink(u, l, chosen) ==
    /\ Serve(u)
    /\ Usable(l)
    /\ chosen # {} /\ chosen \subseteq LiveProfilesOf(u)
    /\ assoc' = [pt \in Pair |->
            IF pt[1] \in chosen /\ pt[2] = OwnerOf[l] /\ assoc[pt] = "none"
            THEN "active" ELSE assoc[pt]]
    /\ UNCHANGED <<requestVars, account, familyVars, linkState>>

RemoveTrainer(p, t) ==
    /\ Serve(ParentOf[p])
    /\ p \notin removed
    /\ assoc[<<p, t>>] # "none"
    /\ assoc' = [assoc EXCEPT ![<<p, t>>] = "inactive"]
    /\ UNCHANGED <<requestVars, account, familyVars, linkState>>

\* Mutant of EndSignIns: the cascade to the child sign-ins is forgotten.
KeepSignIns(ended) == UNCHANGED <<signIn, admitted>>

\* A request of the child's that is in flight finds no profile behind its
\* account any more, so it ends here too.
EndSignIns(ended) ==
    /\ signIn' = signIn \ ended
    /\ admitted' = admitted \ ended

\* Granting again, over a sign-in that stands, links a second account to the
\* profile; a request of the first one finds no profile behind it.
GrantSignIn(p) ==
    /\ ParentOf[p] \in admitted
    /\ p \notin removed
    /\ signIn' = signIn \cup {p}
    /\ admitted' = admitted \ {p, ParentOf[p]}
    /\ UNCHANGED <<requestVars, assoc, account, removed, linkState>>

RevokeSignIn(p) ==
    /\ ParentOf[p] \in admitted
    /\ p \in signIn \ removed
    /\ signIn' = signIn \ {p}
    /\ admitted' = admitted \ {p, ParentOf[p]}
    /\ UNCHANGED <<requestVars, assoc, account, removed, linkState>>

\* Soft removal ends the sign-in; associations and requests are untouched.
RemoveProfile(p) ==
    /\ ParentOf[p] \in admitted
    /\ p \notin removed
    /\ signIn' = signIn \ {p}
    /\ removed' = removed \cup {p}
    /\ admitted' = admitted \ {p, ParentOf[p]}
    /\ UNCHANGED <<requestVars, assoc, account, linkState>>

-----------------------------------------------------------------------------
(* What a Super Admin does to the accounts meanwhile *)

SetAccount(u, from, to) ==
    /\ account[u] \in from
    /\ account' = [account EXCEPT ![u] = to]

Deactivate(u) ==
    /\ SetAccount(u, {"active"}, "inactive")
    /\ UNCHANGED <<requestVars, assoc, familyVars, linkState, admitted>>

Reactivate(u) ==
    /\ SetAccount(u, {"inactive"}, "active")
    /\ UNCHANGED <<requestVars, assoc, familyVars, linkState, admitted>>

\* Erasing a family erases its child sign-ins and expires what it had open.
EraseParent(u) ==
    /\ SetAccount(u, {"active", "inactive"}, "deleted")
    /\ ExpireRows({r \in Requests : IsLive(r) /\ ParentOf[asker[r]] = u})
    /\ EndSignIns({p \in Profiles : ParentOf[p] = u})
    /\ UNCHANGED <<assoc, removed, linkState>>

\* Erasing a trainer revokes the standing link and keeps the associations.
EraseTrainer(t) ==
    /\ SetAccount(t, {"active", "inactive"}, "deleted")
    /\ linkState' = [l \in Links |->
            IF l \in CurrentLinks(t) THEN "revoked" ELSE linkState[l]]
    /\ UNCHANGED <<requestVars, assoc, familyVars, admitted>>

-----------------------------------------------------------------------------
Decide(r) == Approve(r) \/ Deny(r) \/ RequestInfo(r) \/ Withdraw(r) \/ Respond(r)

Family(p) ==
    \/ GrantSignIn(p) \/ RevokeSignIn(p) \/ RemoveProfile(p)
    \/ \E t \in Trainers : AddTrainer(p, t) \/ RemoveTrainer(p, t)

Admin ==
    \/ \E u \in Parents \cup Trainers : Deactivate(u) \/ Reactivate(u)
    \/ \E u \in Parents : EraseParent(u)
    \/ \E t \in Trainers : EraseTrainer(t)

Next ==
    \/ \E a \in Actors : Authenticate(a) \/ EndWithoutEffect(a)
    \/ \E l \in Links : Regenerate(l) \/ ReadLink(l)
    \/ \E p \in Profiles, l \in Links, r \in Requests : Ask(p, l, r)
    \/ \E r \in Requests : Decide(r)
    \/ Sweep \/ Tick
    \/ \E p \in Profiles : Family(p)
    \/ \E u \in Parents, l \in Links, chosen \in SUBSET Profiles : JoinByLink(u, l, chosen)
    \/ Admin

Spec == Init /\ [][Next]_vars

\* Time passes, and the prune subcommand is scheduled: nothing else is owed.
FairSpec == Spec /\ WF_vars(Tick) /\ WF_vars(Sweep)

-----------------------------------------------------------------------------
(* Properties *)

\* FR-139: a child never has two live requests for one trainer, however many
\* links of that trainer the child follows and whatever the request's status.
OneLivePerSubject ==
    \A r, s \in Requests : IsLive(r) /\ IsLive(s) /\ Subject(r) = Subject(s) => r = s

\* FR-155, FR-156: a person's decision is only ever recorded before the
\* deadline, by the person entitled to it; expiry is recorded after it, by
\* nobody, unless the whole family was erased first.
DeadlineDecides ==
    \A r \in Requests :
        /\ status[r] \in {"approved", "denied"} => left[r] > 0 /\ resolver[r] = "parent"
        /\ status[r] = "withdrawn" => left[r] > 0 /\ resolver[r] = "child"
        /\ status[r] \in Live => resolver[r] = "nobody"
        /\ status[r] = "expired" =>
              /\ resolver[r] = "nobody"
              /\ left[r] = 0 \/ account[ParentOf[asker[r]]] = "deleted"

\* FR-157: an erased family has nothing left to decide, although its requests
\* in flight were authenticated before the erasure and run after it.
ErasedFamilyHasNothingOpen ==
    \A r \in Requests : IsLive(r) => account[ParentOf[asker[r]]] # "deleted"

\* FR-065, FR-069: a trainer has one current link at most.  No index says so,
\* and get_current_for_trainer raises when there are two: the trainer could
\* then neither read, regenerate nor be erased.
OneCurrentLink ==
    \A k, l \in Links :
        linkState[k] = "active" /\ linkState[l] = "active" /\ OwnerOf[k] = OwnerOf[l] => k = l

\* FR-143: the transition table of models/enums.py, which no resolution
\* consults: each one names its own source statuses.
AllowedTransitions ==
    {<<"none", "pending_parent_approval">>}
    \cup ({"pending_parent_approval"} \X (Terminal \cup {"info_requested"}))
    \cup ({"info_requested"} \X {"pending_parent_approval", "denied", "expired", "withdrawn"})

LegalTransitions ==
    [][\A r \in Requests :
          status'[r] # status[r] => <<status[r], status'[r]>> \in AllowedTransitions]_vars

\* FR-144, FR-151, FR-157: a request becomes approved only while its parent
\* and trainer are Active and its link stands, and the association it asked
\* for is active when that step commits.
Approved(r) == status[r] # "approved" /\ status'[r] = "approved"

ApprovalCarriesOut ==
    [][\A r \in Requests : Approved(r) =>
          /\ account[ParentOf[asker[r]]] = "active"
          /\ account[TrainerOf(r)] = "active"
          /\ linkState[via[r]] = "active"
          /\ assoc'[Subject(r)] = "active"]_vars

\* FR-128, FR-137: an association only ever becomes active in a request of
\* the parent who owns the profile; no request of a child, no sweep and no
\* account change makes one.
OnlyTheParentConnects ==
    [][\A pt \in Pair : assoc[pt] # "active" /\ assoc'[pt] = "active" =>
          ParentOf[pt[1]] \in admitted \ admitted']_vars

\* FR-155: neither asking for information nor answering restarts the clock.
ClockNeverRestarts ==
    [][\A r \in Requests : status[r] # "none" => left'[r] <= left[r]]_vars

\* FR-155, FR-157: every request raised is settled in the end, also when the
\* parent has left Active status and nobody may decide it.
EveryRequestSettles == \A r \in Requests : IsLive(r) ~> status[r] \in Terminal

\* The workflow implements Decisions under this mapping.
Outcome == [r \in Requests |->
              CASE status[r] = "none" -> "unused"
                [] status[r] \in Live -> "open"
                [] status[r] = "approved" -> "granted"
                [] OTHER -> "refused"]
Wish == [r \in Requests |-> IF status[r] = "none" THEN None ELSE Subject(r)]
Connected == {pt \in Pair : assoc[pt] = "active"}

D == INSTANCE Decisions WITH
        Pairs <- Pair, NoPair <- None,
        outcome <- Outcome, wish <- Wish, connected <- Connected

\* R-41, R-42: whatever the interleaving of requests, sweeps, erasures and
\* decisions, a request has one outcome and the approval is the connection.
ImplementsDecisions == D!Spec

\* FR-151 (spec.md): an approval of a profile that has been removed must not
\* be recorded.  The code checks the trainer and the link only.
RemovedProfileIsNotApproved ==
    [][\A r \in Requests : Approved(r) => asker[r] \notin removed]_vars
=============================================================================
