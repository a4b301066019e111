--------------------------- MODULE ApprovalsProofs ---------------------------
(***************************************************************************)
(* Theorems about Approvals, for every family, trainer, link and number of *)
(* requests.                                                               *)
(***************************************************************************)
EXTENDS Approvals, TLAPS

USE ApprovalsAssumption

\* Every variable keeps its type in every reachable state.
LEMMA TypeStep == TypeOK /\ [Next]_vars => TypeOK'
<1> SUFFICES ASSUME TypeOK, [Next]_vars PROVE TypeOK'
  OBVIOUS
<1> USE DEF TypeOK, Actors, AccountStatus, Live, Terminal, Pair
<1>1. ASSUME NEW a \in Actors, Authenticate(a) PROVE TypeOK'
  BY <1>1 DEF Authenticate, requestVars, familyVars
<1>2. ASSUME NEW a \in Actors, EndWithoutEffect(a) PROVE TypeOK'
  BY <1>2 DEF EndWithoutEffect, Serve, requestVars, familyVars
<1>3. ASSUME NEW l \in Links, Regenerate(l) PROVE TypeOK'
  BY <1>3 DEF Regenerate, IssueLink, CurrentLinks, Serve, requestVars, familyVars
<1>4. ASSUME NEW p \in Profiles, NEW l \in Links, NEW r \in Requests, Ask(p, l, r)
      PROVE TypeOK'
  BY <1>4 DEF Ask, RaiseRequest, Serve, familyVars
<1>5. ASSUME NEW r \in Requests, Decide(r) PROVE TypeOK'
  <2>1. CASE Approve(r)
    BY <2>1 DEF Approve, Resolve, Serve, Subject, TrainerOf, familyVars
  <2>2. CASE Deny(r)
    BY <2>2 DEF Deny, Resolve, Serve, familyVars
  <2>3. CASE RequestInfo(r)
    BY <2>3 DEF RequestInfo, Resolve, Serve, familyVars
  <2>4. CASE Withdraw(r)
    BY <2>4 DEF Withdraw, Resolve, Serve, familyVars
  <2>5. CASE Respond(r)
    BY <2>5 DEF Respond, Resolve, Serve, familyVars
  <2>6. QED BY <1>5, <2>1, <2>2, <2>3, <2>4, <2>5 DEF Decide
<1>6. CASE Sweep
  BY <1>6 DEF Sweep, ExpireRows, LapsedLive, IsLive, familyVars
<1>7. CASE Tick
  BY <1>7 DEF Tick, Remaining, IsLive, familyVars
<1>8. ASSUME NEW p \in Profiles, Family(p) PROVE TypeOK'
  <2>1. CASE GrantSignIn(p)
    BY <2>1 DEF GrantSignIn, Serve, requestVars
  <2>2. CASE RevokeSignIn(p)
    BY <2>2 DEF RevokeSignIn, requestVars
  <2>3. CASE RemoveProfile(p)
    BY <2>3 DEF RemoveProfile, requestVars
  <2>4. ASSUME NEW t \in Trainers, AddTrainer(p, t) PROVE TypeOK'
    BY <2>4 DEF AddTrainer, Serve, requestVars, familyVars
  <2>5. ASSUME NEW t \in Trainers, RemoveTrainer(p, t) PROVE TypeOK'
    BY <2>5 DEF RemoveTrainer, Serve, requestVars, familyVars
  <2>6. QED BY <1>8, <2>1, <2>2, <2>3, <2>4, <2>5 DEF Family
<1>9. ASSUME NEW u \in Parents, NEW l \in Links, NEW chosen \in SUBSET Profiles,
             JoinByLink(u, l, chosen)
      PROVE TypeOK'
  BY <1>9 DEF JoinByLink, Serve, requestVars, familyVars
<1>10. CASE Admin
  <2>1. ASSUME NEW u \in Parents \cup Trainers, Deactivate(u) PROVE TypeOK'
    BY <2>1 DEF Deactivate, SetAccount, requestVars, familyVars
  <2>2. ASSUME NEW u \in Parents \cup Trainers, Reactivate(u) PROVE TypeOK'
    BY <2>2 DEF Reactivate, SetAccount, requestVars, familyVars
  <2>3. ASSUME NEW u \in Parents, EraseParent(u) PROVE TypeOK'
    BY <2>3 DEF EraseParent, SetAccount, ExpireRows, EndSignIns, IsLive
  <2>4. ASSUME NEW t \in Trainers, EraseTrainer(t) PROVE TypeOK'
    BY <2>4 DEF EraseTrainer, CurrentLinks, SetAccount, requestVars, familyVars
  <2>5. QED BY <1>10, <2>1, <2>2, <2>3, <2>4 DEF Admin
<1>11. CASE UNCHANGED vars
  BY <1>11 DEF vars
<1>12. QED
  BY <1>1, <1>2, <1>3, <1>4, <1>5, <1>6, <1>7, <1>8, <1>9, <1>10, <1>11 DEF Next, ReadLink

THEOREM TypeCorrect == Spec => []TypeOK
<1>1. Init => TypeOK
  BY DEF Init, TypeOK, Live, Terminal, Pair, AccountStatus, Actors
<1>2. QED BY <1>1, TypeStep, PTL DEF Spec

-----------------------------------------------------------------------------
(***************************************************************************)
(* The inductive invariant.  Two facts the properties do not state carry   *)
(* the induction: a row not raised yet names no resolver, and a child's    *)
(* request in flight belongs to a sign-in that still stands, in a family   *)
(* that has not been erased (or erasure could be followed by a request).   *)
(***************************************************************************)
InFlightChildIsCurrent ==
    \A p \in admitted \cap Profiles : p \in signIn /\ account[ParentOf[p]] # "deleted"

UnraisedIsUnresolved == \A r \in Requests : status[r] = "none" => resolver[r] = "nobody"

IInv ==
    /\ DeadlineDecides
    /\ OneLivePerSubject
    /\ ErasedFamilyHasNothingOpen
    /\ UnraisedIsUnresolved
    /\ InFlightChildIsCurrent

USE DEF Live, Terminal, Pair, IsLive, Subject, TrainerOf

LEMMA IInvInit == Init => IInv
BY DEF Init, IInv, DeadlineDecides, OneLivePerSubject, ErasedFamilyHasNothingOpen,
       UnraisedIsUnresolved, InFlightChildIsCurrent

\* A step that leaves requests, accounts and sign-ins alone, and lets in no
\* child without a current sign-in, keeps the invariant.
LEMMA IInvFrame ==
  ASSUME IInv, UNCHANGED requestVars, UNCHANGED account, UNCHANGED signIn,
         \A p \in admitted' \cap Profiles :
            p \in admitted \/ (p \in signIn /\ account[ParentOf[p]] # "deleted")
  PROVE  IInv'
BY DEF IInv, DeadlineDecides, OneLivePerSubject, ErasedFamilyHasNothingOpen,
       UnraisedIsUnresolved, InFlightChildIsCurrent, requestVars

\* A resolution of one request under the WHERE clause of a person's decision.
LEMMA IInvResolve ==
  ASSUME TypeOK, IInv, NEW r \in Requests, NEW target, NEW by,
         PersonMayResolve(r, Live), Resolve(r, target, by),
         \/ target \in Live /\ by = "nobody"
         \/ target \in {"approved", "denied"} /\ by = "parent"
         \/ target = "withdrawn" /\ by = "child",
         UNCHANGED <<account, signIn>>, admitted' \subseteq admitted
  PROVE  IInv'
<1> USE DEF TypeOK, IInv, Resolve, PersonMayResolve
<1>1. DeadlineDecides'
  BY DEF DeadlineDecides
<1>2. OneLivePerSubject'
  BY DEF OneLivePerSubject
<1>3. ErasedFamilyHasNothingOpen'
  BY DEF ErasedFamilyHasNothingOpen
<1>4. UnraisedIsUnresolved'
  BY DEF UnraisedIsUnresolved
<1>5. InFlightChildIsCurrent'
  BY DEF InFlightChildIsCurrent
<1>6. QED BY <1>1, <1>2, <1>3, <1>4, <1>5

\* Expiring live requests whose deadline has passed or whose family is erased.
LEMMA IInvExpire ==
  ASSUME TypeOK, IInv, NEW rows \in SUBSET Requests, ExpireRows(rows),
         \A r \in rows : IsLive(r) /\ (left[r] = 0 \/ account'[ParentOf[asker[r]]] = "deleted"),
         \A r \in Requests \ rows : IsLive(r) => account'[ParentOf[asker[r]]] # "deleted",
         \A u \in Parents : account[u] = "deleted" => account'[u] = "deleted",
         InFlightChildIsCurrent'
  PROVE  IInv'
<1> USE DEF TypeOK, IInv, ExpireRows
<1>1. DeadlineDecides'
  BY DEF DeadlineDecides
<1>2. OneLivePerSubject'
  BY DEF OneLivePerSubject
<1>3. ErasedFamilyHasNothingOpen'
  BY DEF ErasedFamilyHasNothingOpen
<1>4. UnraisedIsUnresolved'
  BY DEF UnraisedIsUnresolved
<1>5. QED BY <1>1, <1>2, <1>3, <1>4

LEMMA IInvStep == TypeOK /\ IInv /\ [Next]_vars => IInv'
<1> SUFFICES ASSUME TypeOK, IInv, [Next]_vars PROVE IInv'
  OBVIOUS
<1>1. ASSUME NEW a \in Actors, Authenticate(a) PROVE IInv'
  BY <1>1, IInvFrame DEF Authenticate, MayEnter, requestVars, familyVars, Actors
<1>2. ASSUME NEW a \in Actors, EndWithoutEffect(a) PROVE IInv'
  BY <1>2, IInvFrame DEF EndWithoutEffect, Serve, requestVars, familyVars
<1>3. ASSUME NEW l \in Links, Regenerate(l) PROVE IInv'
  BY <1>3, IInvFrame DEF Regenerate, Serve, requestVars, familyVars
<1>4. ASSUME NEW p \in Profiles, NEW l \in Links, NEW r \in Requests, Ask(p, l, r)
      PROVE IInv'
  <2> USE <1>4 DEF TypeOK, IInv, Ask, RaiseRequest, Serve, familyVars
  <2>1. DeadlineDecides'
    BY DEF DeadlineDecides, UnraisedIsUnresolved
  <2>2. OneLivePerSubject'
    BY DEF OneLivePerSubject, NoLiveRequest
  <2>3. ErasedFamilyHasNothingOpen'
    BY DEF ErasedFamilyHasNothingOpen, InFlightChildIsCurrent
  <2>4. UnraisedIsUnresolved'
    BY DEF UnraisedIsUnresolved
  <2>5. InFlightChildIsCurrent'
    BY DEF InFlightChildIsCurrent
  <2>6. QED BY <2>1, <2>2, <2>3, <2>4, <2>5
<1>5. ASSUME NEW r \in Requests, Decide(r) PROVE IInv'
  <2> USE DEF Serve, PersonMayResolve, familyVars
  <2>1. CASE Approve(r)
    BY <2>1, IInvResolve DEF Approve
  <2>2. CASE Deny(r)
    BY <2>2, IInvResolve DEF Deny
  <2>3. CASE RequestInfo(r)
    BY <2>3, IInvResolve DEF RequestInfo
  <2>4. CASE Withdraw(r)
    BY <2>4, IInvResolve DEF Withdraw
  <2>5. CASE Respond(r)
    BY <2>5, IInvResolve DEF Respond
  <2>6. QED BY <1>5, <2>1, <2>2, <2>3, <2>4, <2>5 DEF Decide
<1>6. CASE Sweep
  <2>1. InFlightChildIsCurrent'
    BY <1>6 DEF Sweep, IInv, InFlightChildIsCurrent, familyVars
  <2>2. QED
    BY <1>6, <2>1, IInvExpire DEF Sweep, LapsedLive, IInv, ErasedFamilyHasNothingOpen, familyVars
<1>7. CASE Tick
  <2> USE <1>7 DEF TypeOK, IInv, Tick, Remaining, familyVars
  <2>1. DeadlineDecides'
    BY DEF DeadlineDecides
  <2>2. QED
    BY <2>1 DEF OneLivePerSubject, ErasedFamilyHasNothingOpen, UnraisedIsUnresolved,
                InFlightChildIsCurrent
<1>8. ASSUME NEW p \in Profiles, Family(p) PROVE IInv'
  <2>1. CASE GrantSignIn(p)
    BY <2>1 DEF GrantSignIn, Serve, requestVars, IInv, DeadlineDecides, OneLivePerSubject,
                ErasedFamilyHasNothingOpen, UnraisedIsUnresolved, InFlightChildIsCurrent
  <2>2. CASE RevokeSignIn(p)
    BY <2>2 DEF RevokeSignIn, requestVars, IInv, DeadlineDecides, OneLivePerSubject,
                ErasedFamilyHasNothingOpen, UnraisedIsUnresolved, InFlightChildIsCurrent
  <2>3. CASE RemoveProfile(p)
    BY <2>3 DEF RemoveProfile, requestVars, IInv, DeadlineDecides, OneLivePerSubject,
                ErasedFamilyHasNothingOpen, UnraisedIsUnresolved, InFlightChildIsCurrent
  <2>4. ASSUME NEW t \in Trainers, AddTrainer(p, t) PROVE IInv'
    BY <2>4, IInvFrame DEF AddTrainer, Serve, requestVars, familyVars
  <2>5. ASSUME NEW t \in Trainers, RemoveTrainer(p, t) PROVE IInv'
    BY <2>5, IInvFrame DEF RemoveTrainer, Serve, requestVars, familyVars
  <2>6. QED BY <1>8, <2>1, <2>2, <2>3, <2>4, <2>5 DEF Family
<1>9. ASSUME NEW u \in Parents, NEW l \in Links, NEW chosen \in SUBSET Profiles,
             JoinByLink(u, l, chosen)
      PROVE IInv'
  BY <1>9, IInvFrame DEF JoinByLink, Serve, requestVars, familyVars
<1>10. CASE Admin
  <2> USE DEF TypeOK, IInv, SetAccount, AccountStatus, DeadlineDecides, OneLivePerSubject,
              ErasedFamilyHasNothingOpen, UnraisedIsUnresolved, InFlightChildIsCurrent
  <2>1. ASSUME NEW u \in Parents \cup Trainers, Deactivate(u) PROVE IInv'
    BY <2>1 DEF Deactivate, requestVars, familyVars
  <2>2. ASSUME NEW u \in Parents \cup Trainers, Reactivate(u) PROVE IInv'
    BY <2>2 DEF Reactivate, requestVars, familyVars
  <2>3. ASSUME NEW u \in Parents, EraseParent(u) PROVE IInv'
    <3>1. InFlightChildIsCurrent'
      BY <2>3 DEF EraseParent, EndSignIns
    <3>2. QED
      BY <2>3, <3>1, IInvExpire DEF EraseParent
  <2>4. ASSUME NEW t \in Trainers, EraseTrainer(t) PROVE IInv'
    BY <2>4 DEF EraseTrainer, requestVars, familyVars
  <2>5. QED BY <1>10, <2>1, <2>2, <2>3, <2>4 DEF Admin
<1>11. CASE UNCHANGED vars
  BY <1>11, IInvFrame DEF vars, requestVars
<1>12. QED
  BY <1>1, <1>2, <1>3, <1>4, <1>5, <1>6, <1>7, <1>8, <1>9, <1>10, <1>11 DEF Next, ReadLink

LEMMA IInvCorrect == Spec => []IInv
BY TypeCorrect, IInvInit, IInvStep, PTL DEF Spec

\* FR-139: never two live requests of one child for one trainer.
THEOREM OneLive == Spec => []OneLivePerSubject
BY IInvCorrect, PTL DEF IInv

\* FR-155, FR-156: decisions before the deadline, expiry after it.
THEOREM DeadlinesHold == Spec => []DeadlineDecides
BY IInvCorrect, PTL DEF IInv

\* FR-157: nothing is open in an erased family.
THEOREM ErasedFamilySettled == Spec => []ErasedFamilyHasNothingOpen
BY IInvCorrect, PTL DEF IInv

\* FR-065, FR-069: a trainer never has two current links.
THEOREM OneLinkIsCurrent == Spec => []OneCurrentLink
<1>1. Init => OneCurrentLink
  BY DEF Init, OneCurrentLink
<1>2. TypeOK /\ OneCurrentLink /\ [Next]_vars => OneCurrentLink'
  <2> SUFFICES ASSUME TypeOK, OneCurrentLink, [Next]_vars PROVE OneCurrentLink'
    OBVIOUS
  <2> USE DEF TypeOK, OneCurrentLink
  <2>1. ASSUME NEW l \in Links, Regenerate(l) PROVE OneCurrentLink'
    BY <2>1 DEF Regenerate, IssueLink, CurrentLinks
  <2>2. ASSUME NEW t \in Trainers, EraseTrainer(t) PROVE OneCurrentLink'
    BY <2>2 DEF EraseTrainer, CurrentLinks
  <2>3. CASE UNCHANGED linkState
    BY <2>3
  <2>4. ASSUME NEW r \in Requests, Decide(r) PROVE UNCHANGED linkState
    BY <2>4 DEF Decide, Approve, Deny, RequestInfo, Withdraw, Respond
  <2>5. ASSUME NEW p \in Profiles, Family(p) PROVE UNCHANGED linkState
    BY <2>5 DEF Family, GrantSignIn, RevokeSignIn, RemoveProfile, AddTrainer, RemoveTrainer
  <2>6. QED
    BY <2>1, <2>2, <2>3, <2>4, <2>5 DEF Next, ReadLink, Authenticate, EndWithoutEffect, Ask,
       Sweep, Tick, JoinByLink, Admin, Deactivate, Reactivate, EraseParent, vars
<1>3. QED BY <1>1, <1>2, TypeCorrect, PTL DEF Spec

-----------------------------------------------------------------------------
(* Action properties *)

\* The only steps that change the status of a request: it is raised, it is
\* decided, or it is live and becomes expired.
LEMMA StatusStep ==
  ASSUME TypeOK, [Next]_vars, NEW r \in Requests, status'[r] # status[r]
  PROVE  \/ \E p \in Profiles, l \in Links : Ask(p, l, r)
         \/ Decide(r)
         \/ IsLive(r) /\ status'[r] = "expired"
<1> USE DEF TypeOK
<1>1. ASSUME NEW a \in Actors, Authenticate(a) PROVE FALSE
  BY <1>1 DEF Authenticate, requestVars
<1>2. ASSUME NEW a \in Actors, EndWithoutEffect(a) PROVE FALSE
  BY <1>2 DEF EndWithoutEffect, requestVars
<1>3. ASSUME NEW l \in Links, Regenerate(l) PROVE FALSE
  BY <1>3 DEF Regenerate, requestVars
<1>4. ASSUME NEW p \in Profiles, NEW l \in Links, NEW s \in Requests, Ask(p, l, s)
      PROVE  s = r
  BY <1>4 DEF Ask, RaiseRequest
<1>5. ASSUME NEW s \in Requests, Decide(s) PROVE s = r
  BY <1>5 DEF Decide, Approve, Deny, RequestInfo, Withdraw, Respond, Resolve
<1>6. CASE Sweep
  BY <1>6 DEF Sweep, ExpireRows, LapsedLive
<1>7. CASE Tick
  BY <1>7 DEF Tick
<1>8. ASSUME NEW p \in Profiles, Family(p) PROVE FALSE
  BY <1>8 DEF Family, GrantSignIn, RevokeSignIn, RemoveProfile, AddTrainer, RemoveTrainer,
              requestVars
<1>9. ASSUME NEW u \in Parents, NEW l \in Links, NEW chosen \in SUBSET Profiles,
             JoinByLink(u, l, chosen)
      PROVE FALSE
  BY <1>9 DEF JoinByLink, requestVars
<1>10. CASE Admin
  BY <1>10 DEF Admin, Deactivate, Reactivate, EraseParent, EraseTrainer, ExpireRows, requestVars
<1>11. CASE UNCHANGED vars
  BY <1>11 DEF vars
<1>12. QED
  BY <1>1, <1>2, <1>3, <1>4, <1>5, <1>6, <1>7, <1>8, <1>9, <1>10, <1>11 DEF Next, ReadLink

\* FR-143: only the transitions of the table, and nothing leaves a terminal
\* status.
THEOREM TransitionsAreLegal == Spec => LegalTransitions
<1> DEFINE Legal == \A r \in Requests :
              status'[r] # status[r] => <<status[r], status'[r]>> \in AllowedTransitions
<1>1. TypeOK /\ [Next]_vars => Legal
  <2> SUFFICES ASSUME TypeOK, [Next]_vars, NEW r \in Requests, status'[r] # status[r]
               PROVE  <<status[r], status'[r]>> \in AllowedTransitions
    OBVIOUS
  <2> USE DEF TypeOK, AllowedTransitions
  <2>1. ASSUME NEW p \in Profiles, NEW l \in Links, Ask(p, l, r)
        PROVE  <<status[r], status'[r]>> \in AllowedTransitions
    BY <2>1 DEF Ask, RaiseRequest
  <2>2. CASE Approve(r) \/ Deny(r) \/ RequestInfo(r)
    BY <2>2 DEF Approve, Deny, RequestInfo, Resolve, PersonMayResolve
  <2>3. CASE Withdraw(r) \/ Respond(r)
    BY <2>3 DEF Withdraw, Respond, Resolve, PersonMayResolve
  <2>4. CASE IsLive(r) /\ status'[r] = "expired"
    BY <2>4
  <2>5. QED BY <2>1, <2>2, <2>3, <2>4, StatusStep DEF Decide
<1>2. QED BY <1>1, TypeCorrect, PTL DEF Spec, LegalTransitions

\* FR-144, FR-151, FR-157: a request becomes approved only under an Active
\* parent, an Active trainer and a standing link, and is carried out then.
THEOREM ApprovalsAreCarriedOut == Spec => ApprovalCarriesOut
<1> DEFINE CarriedOut == \A r \in Requests : Approved(r) =>
              /\ account[ParentOf[asker[r]]] = "active"
              /\ account[TrainerOf(r)] = "active"
              /\ linkState[via[r]] = "active"
              /\ assoc'[Subject(r)] = "active"
<1>1. TypeOK /\ [Next]_vars => CarriedOut
  <2> SUFFICES ASSUME TypeOK, [Next]_vars, NEW r \in Requests, Approved(r)
               PROVE  /\ account[ParentOf[asker[r]]] = "active"
                      /\ account[TrainerOf(r)] = "active"
                      /\ linkState[via[r]] = "active"
                      /\ assoc'[Subject(r)] = "active"
    OBVIOUS
  <2>1. Approve(r)
    <3> USE DEF TypeOK, Approved
    <3>1. ~ \E p \in Profiles, l \in Links : Ask(p, l, r)
      BY DEF Ask, RaiseRequest
    <3>2. ~ (Deny(r) \/ RequestInfo(r) \/ Withdraw(r) \/ Respond(r))
      BY DEF Deny, RequestInfo, Withdraw, Respond, Resolve
    <3>3. QED BY <3>1, <3>2, StatusStep DEF Decide
  <2>2. Subject(r) \in Pair
    BY <2>1 DEF TypeOK, Approve, PersonMayResolve
  <2>3. QED
    BY <2>1, <2>2 DEF TypeOK, Approve, PersonMayResolve, SubjectAvailable, Usable
<1>2. QED BY <1>1, TypeCorrect, PTL DEF Spec, ApprovalCarriesOut

\* FR-128, FR-137: only a request of the owning parent makes an association
\* active.
THEOREM ParentConnects == Spec => OnlyTheParentConnects
<1> DEFINE ByParent == \A pt \in Pair : assoc[pt] # "active" /\ assoc'[pt] = "active" =>
              ParentOf[pt[1]] \in admitted \ admitted'
<1>1. TypeOK /\ [Next]_vars => ByParent
  <2> SUFFICES ASSUME TypeOK, [Next]_vars, NEW pt \in Pair,
                      assoc[pt] # "active", assoc'[pt] = "active"
               PROVE  ParentOf[pt[1]] \in admitted \ admitted'
    OBVIOUS
  <2> USE DEF TypeOK, Serve
  <2>1. ASSUME NEW r \in Requests, Decide(r) PROVE ParentOf[pt[1]] \in admitted \ admitted'
    <3>1. Approve(r)
      BY <2>1 DEF Decide, Deny, RequestInfo, Withdraw, Respond
    <3>2. pt = Subject(r)
      BY <3>1 DEF Approve
    <3>3. QED BY <3>1, <3>2 DEF Approve
  <2>2. ASSUME NEW p \in Profiles, Family(p) PROVE ParentOf[pt[1]] \in admitted \ admitted'
    <3>1. ASSUME NEW t \in Trainers, AddTrainer(p, t)
          PROVE ParentOf[pt[1]] \in admitted \ admitted'
      <4>1. pt = <<p, t>>
        BY <3>1 DEF AddTrainer
      <4>2. QED BY <3>1, <4>1 DEF AddTrainer
    <3>2. ASSUME NEW t \in Trainers, RemoveTrainer(p, t) PROVE FALSE
      BY <3>2 DEF RemoveTrainer
    <3>3. QED
      BY <2>2, <3>1, <3>2 DEF Family, GrantSignIn, RevokeSignIn, RemoveProfile
  <2>3. ASSUME NEW u \in Parents, NEW l \in Links, NEW chosen \in SUBSET Profiles,
               JoinByLink(u, l, chosen)
        PROVE ParentOf[pt[1]] \in admitted \ admitted'
    <3>1. pt[1] \in chosen
      BY <2>3 DEF JoinByLink
    <3>2. QED BY <2>3, <3>1 DEF JoinByLink, LiveProfilesOf
  <2>4. assoc' # assoc
    OBVIOUS
  <2>5. QED
    BY <2>1, <2>2, <2>3, <2>4 DEF Next, Authenticate, EndWithoutEffect, ReadLink, Regenerate, Ask,
       RaiseRequest, Sweep, Tick, Admin, Deactivate, Reactivate, EraseParent, EraseTrainer, vars
<1>2. QED BY <1>1, TypeCorrect, PTL DEF Spec, OnlyTheParentConnects

-----------------------------------------------------------------------------
(***************************************************************************)
(* How far the run Approvals_removed goes: RemovedProfileIsNotApproved     *)
(* fails, and only for a request that was raised before the removal.       *)
(***************************************************************************)

\* FR-151: nobody raises a request for a removed profile, whatever was in flight
\* at its removal; and approving an older one is the only step that gives such a
\* profile a trainer: none that the parent takes without a request does.
OldRequestsOnly ==
    [][/\ \A r \in Requests : status[r] = "none" /\ status'[r] # "none" => asker'[r] \notin removed
       /\ \A pt \in Pair : pt[1] \in removed /\ assoc[pt] # "active" /\ assoc'[pt] = "active" =>
             \E r \in Requests : Approved(r) /\ Subject(r) = pt]_vars

\* FR-135: removing a profile ends its sign-in, and none is granted afterwards.
RemovedAsksNobody == signIn \cap removed = {}

LEMMA RemovedAsksNobodyCorrect == Spec => []RemovedAsksNobody
<1>1. Init => RemovedAsksNobody
  BY DEF Init, RemovedAsksNobody
<1>2. RemovedAsksNobody /\ [Next]_vars => RemovedAsksNobody'
  <2> SUFFICES ASSUME RemovedAsksNobody, [Next]_vars PROVE RemovedAsksNobody'
    OBVIOUS
  <2> USE DEF RemovedAsksNobody, familyVars
  <2>1. ASSUME UNCHANGED <<signIn, removed>> PROVE RemovedAsksNobody'
    BY <2>1
  <2>2. ASSUME NEW p \in Profiles, Family(p) PROVE RemovedAsksNobody'
    BY <2>2 DEF Family, GrantSignIn, RevokeSignIn, RemoveProfile, AddTrainer, RemoveTrainer
  <2>3. ASSUME NEW r \in Requests, Decide(r) PROVE UNCHANGED <<signIn, removed>>
    BY <2>3 DEF Decide, Approve, Deny, RequestInfo, Withdraw, Respond
  <2>4. CASE Admin
    BY <2>4 DEF Admin, Deactivate, Reactivate, EraseParent, EndSignIns, EraseTrainer
  <2>5. QED
    BY <2>1, <2>2, <2>3, <2>4 DEF Next, Authenticate, EndWithoutEffect, ReadLink, Regenerate,
       Ask, Sweep, Tick, JoinByLink, vars
<1>3. QED BY <1>1, <1>2, PTL DEF Spec

LEMMA RaisedByTheLiving ==
  ASSUME TypeOK, RemovedAsksNobody, [Next]_vars, NEW r \in Requests,
         status[r] = "none", status'[r] # "none"
  PROVE  asker'[r] \notin removed
<1>1. PICK p \in Profiles, l \in Links : Ask(p, l, r)
  <2>1. ~ Decide(r)
    BY DEF Decide, Approve, Deny, RequestInfo, Withdraw, Respond
  <2>2. ~ (IsLive(r) /\ status'[r] = "expired")
    OBVIOUS
  <2>3. QED BY <2>1, <2>2, StatusStep
<1>2. QED BY <1>1 DEF Ask, RaiseRequest, RemovedAsksNobody, TypeOK

LEMMA ConnectedByApproval ==
  ASSUME TypeOK, [Next]_vars, NEW pt \in Pair,
         pt[1] \in removed, assoc[pt] # "active", assoc'[pt] = "active"
  PROVE  \E r \in Requests : Approved(r) /\ Subject(r) = pt
<1> USE DEF TypeOK
<1>1. ASSUME NEW r \in Requests, Decide(r) PROVE Approved(r) /\ Subject(r) = pt
  <2>1. Approve(r)
    BY <1>1 DEF Decide, Deny, RequestInfo, Withdraw, Respond
  <2>2. QED BY <2>1 DEF Approve, PersonMayResolve, Resolve, Approved
<1>2. ASSUME NEW p \in Profiles, Family(p) PROVE FALSE
  <2>1. ASSUME NEW t \in Trainers, AddTrainer(p, t) PROVE FALSE
    <3>1. pt = <<p, t>>
      BY <2>1 DEF AddTrainer
    <3>2. QED BY <2>1, <3>1 DEF AddTrainer
  <2>2. ASSUME NEW t \in Trainers, RemoveTrainer(p, t) PROVE FALSE
    BY <2>2 DEF RemoveTrainer
  <2>3. QED BY <1>2, <2>1, <2>2 DEF Family, GrantSignIn, RevokeSignIn, RemoveProfile
<1>3. ASSUME NEW u \in Parents, NEW l \in Links, NEW chosen \in SUBSET Profiles,
             JoinByLink(u, l, chosen)
      PROVE  FALSE
  BY <1>3 DEF JoinByLink, LiveProfilesOf
<1>4. assoc' # assoc
  OBVIOUS
<1>5. QED
  BY <1>1, <1>2, <1>3, <1>4 DEF Next, Authenticate, EndWithoutEffect, ReadLink, Regenerate, Ask,
     RaiseRequest, Sweep, Tick, Admin, Deactivate, Reactivate, EraseParent, EraseTrainer, vars

THEOREM RemovedJoinByOldRequests == Spec => OldRequestsOnly
<1>1. TypeOK /\ RemovedAsksNobody /\ [Next]_vars =>
        /\ \A r \in Requests : status[r] = "none" /\ status'[r] # "none" => asker'[r] \notin removed
        /\ \A pt \in Pair : pt[1] \in removed /\ assoc[pt] # "active" /\ assoc'[pt] = "active" =>
              \E r \in Requests : Approved(r) /\ Subject(r) = pt
  BY RaisedByTheLiving, ConnectedByApproval
<1>2. QED BY <1>1, TypeCorrect, RemovedAsksNobodyCorrect, PTL DEF Spec, OldRequestsOnly

-----------------------------------------------------------------------------
(* The clock of a request *)

\* Only raising a request sets its clock, and only a tick moves one.
LEMMA ClockStep ==
  ASSUME TypeOK, [Next]_vars, NEW r \in Requests, left'[r] # left[r]
  PROVE  (status[r] = "none") \/ (left[r] > 0 /\ left'[r] = left[r] - 1)
<1> USE DEF TypeOK
<1>1. ASSUME NEW a \in Actors, Authenticate(a) \/ EndWithoutEffect(a) PROVE FALSE
  BY <1>1 DEF Authenticate, EndWithoutEffect, requestVars
<1>2. ASSUME NEW l \in Links, Regenerate(l) PROVE FALSE
  BY <1>2 DEF Regenerate, requestVars
<1>3. ASSUME NEW p \in Profiles, NEW l \in Links, NEW s \in Requests, Ask(p, l, s)
      PROVE  status[r] = "none"
  BY <1>3 DEF Ask, RaiseRequest
<1>4. ASSUME NEW s \in Requests, Decide(s) PROVE FALSE
  BY <1>4 DEF Decide, Approve, Deny, RequestInfo, Withdraw, Respond, Resolve
<1>5. CASE Sweep
  BY <1>5 DEF Sweep, ExpireRows
<1>6. CASE Tick
  BY <1>6 DEF Tick, Remaining
<1>7. ASSUME NEW p \in Profiles, Family(p) PROVE FALSE
  BY <1>7 DEF Family, GrantSignIn, RevokeSignIn, RemoveProfile, AddTrainer, RemoveTrainer,
              requestVars
<1>8. ASSUME NEW u \in Parents, NEW l \in Links, NEW chosen \in SUBSET Profiles,
             JoinByLink(u, l, chosen)
      PROVE  FALSE
  BY <1>8 DEF JoinByLink, requestVars
<1>9. CASE Admin
  BY <1>9 DEF Admin, Deactivate, Reactivate, EraseParent, EraseTrainer, ExpireRows, requestVars
<1>10. CASE UNCHANGED vars
  BY <1>10 DEF vars
<1>11. QED
  BY <1>1, <1>2, <1>3, <1>4, <1>5, <1>6, <1>7, <1>8, <1>9, <1>10 DEF Next, ReadLink

\* FR-155: whatever happens to a request that has been raised, its deadline
\* is never moved back.
THEOREM ClockOnlyRunsDown == Spec => ClockNeverRestarts
<1>1. TypeOK /\ [Next]_vars => \A r \in Requests : status[r] # "none" => left'[r] <= left[r]
  BY ClockStep DEF TypeOK
<1>2. QED BY <1>1, TypeCorrect, PTL DEF Spec, ClockNeverRestarts

\* FR-155, FR-156: once its deadline has passed, a live request stays as it is
\* until it expires: nobody decides it, withdraws it, asks about it or answers
\* any more, and nothing gives it more time.
LapsedOnlyExpires ==
    [][\A r \in Requests : IsLive(r) /\ left[r] = 0 =>
          left'[r] = 0 /\ status'[r] \in {status[r], "expired"}]_vars

\* What the sweep will find stays there for it, whoever acts first; with the
\* two fairness conditions of FairSpec this is why every request settles.
THEOREM LapsedWaitsForTheSweep == Spec => LapsedOnlyExpires
<1> DEFINE Waits == \A r \in Requests : IsLive(r) /\ left[r] = 0 =>
              left'[r] = 0 /\ status'[r] \in {status[r], "expired"}
<1>1. TypeOK /\ [Next]_vars => Waits
  <2> SUFFICES ASSUME TypeOK, [Next]_vars, NEW r \in Requests, IsLive(r), left[r] = 0
               PROVE  left'[r] = 0 /\ status'[r] \in {status[r], "expired"}
    OBVIOUS
  <2>1. left'[r] = 0
    BY ClockStep
  <2>2. ASSUME status'[r] # status[r] PROVE status'[r] = "expired"
    <3>1. ~ \E p \in Profiles, l \in Links : Ask(p, l, r)
      BY DEF Ask
    <3>2. ~ Decide(r)
      BY DEF Decide, Approve, Deny, RequestInfo, Withdraw, Respond, PersonMayResolve
    <3>3. QED BY <2>2, <3>1, <3>2, StatusStep
  <2>3. QED BY <2>1, <2>2
<1>2. QED BY <1>1, TypeCorrect, PTL DEF Spec, LapsedOnlyExpires

-----------------------------------------------------------------------------
(* The workflow implements Decisions *)

\* What a step that leaves status, asker, via alone does to the mapping.
LEMMA MappingFrame ==
  ASSUME UNCHANGED status, UNCHANGED asker, UNCHANGED via
  PROVE  Outcome' = Outcome /\ Wish' = Wish
BY DEF Outcome, Wish

\* Rewriting the statuses of a set of rows already raised moves no wish.
LEMMA WishKept ==
  ASSUME TypeOK, UNCHANGED asker, UNCHANGED via,
         \A r \in Requests : status[r] = "none" <=> status'[r] = "none"
  PROVE  Wish' = Wish
BY DEF Wish

LEMMA StepRefines == TypeOK /\ IInv /\ [Next]_vars => [D!Next]_(D!vars)
<1> SUFFICES ASSUME TypeOK, IInv, [Next]_vars PROVE [D!Next]_(D!vars)
  OBVIOUS
<1> USE DEF TypeOK
<1>1. ASSUME NEW p \in Profiles, NEW l \in Links, NEW r \in Requests, Ask(p, l, r)
      PROVE  D!Raise(r, <<p, OwnerOf[l]>>)
  <2> USE <1>1 DEF Ask, RaiseRequest
  <2>1. Outcome[r] = "unused" /\ <<p, OwnerOf[l]>> \notin Connected
    BY DEF Outcome, Connected
  <2>2. \A s \in D!Open : Wish[s] # <<p, OwnerOf[l]>>
    BY DEF D!Open, Outcome, Wish, NoLiveRequest
  <2>3. Outcome' = [Outcome EXCEPT ![r] = "open"]
    BY DEF Outcome
  <2>4. Wish' = [Wish EXCEPT ![r] = <<p, OwnerOf[l]>>]
    BY DEF Wish
  <2>5. Connected' = Connected
    BY DEF Connected
  <2>6. QED BY <2>1, <2>2, <2>3, <2>4, <2>5 DEF D!Raise
<1>2. ASSUME NEW r \in Requests, Approve(r) PROVE D!Grant(r)
  <2> USE <1>2 DEF Approve, Resolve, PersonMayResolve
  <2>1. Outcome[r] = "open" /\ Outcome' = [Outcome EXCEPT ![r] = "granted"]
    BY DEF Outcome
  <2>2. Wish' = Wish
    BY WishKept
  <2>3. Wish[r] = Subject(r) /\ Subject(r) \in Pair
    BY DEF Wish
  <2>4. Connected' = Connected \cup {Subject(r)}
    BY <2>3 DEF Connected
  <2>5. QED BY <2>1, <2>2, <2>3, <2>4 DEF D!Grant
<1>3. ASSUME NEW r \in Requests, Deny(r) \/ Withdraw(r) PROVE D!Refuse({r})
  <2> USE <1>3 DEF Deny, Withdraw, Resolve, PersonMayResolve
  <2>1. r \in D!Open
    BY DEF Outcome, D!Open
  <2>2. Outcome' = [s \in Requests |-> IF s \in {r} THEN "refused" ELSE Outcome[s]]
    BY DEF Outcome
  <2>3. Wish' = Wish
    BY WishKept
  <2>4. Connected' = Connected
    BY DEF Connected
  <2>5. QED BY <2>1, <2>2, <2>3, <2>4 DEF D!Refuse
<1>4. ASSUME NEW r \in Requests, RequestInfo(r) \/ Respond(r) PROVE UNCHANGED D!vars
  <2> USE <1>4 DEF RequestInfo, Respond, Resolve, PersonMayResolve
  <2>1. Outcome' = Outcome
    BY DEF Outcome
  <2>2. Wish' = Wish
    BY WishKept
  <2>3. Connected' = Connected
    BY DEF Connected
  <2>4. QED BY <2>1, <2>2, <2>3 DEF D!vars
<1>5. ASSUME NEW rows \in SUBSET Requests, \A r \in rows : IsLive(r),
             ExpireRows(rows), UNCHANGED assoc
      PROVE  [D!Next]_(D!vars)
  <2> USE <1>5 DEF ExpireRows
  <2>1. rows \subseteq D!Open
    BY DEF D!Open, Outcome
  <2>2. Outcome' = [r \in Requests |-> IF r \in rows THEN "refused" ELSE Outcome[r]]
    BY DEF Outcome
  <2>3. Wish' = Wish
    BY WishKept
  <2>4. Connected' = Connected
    BY DEF Connected
  <2>5. CASE rows = {}
    <3>1. Outcome' = Outcome
      BY <2>2, <2>5 DEF Outcome
    <3>2. QED BY <2>3, <2>4, <3>1 DEF D!vars
  <2>6. CASE rows # {}
    BY <2>1, <2>2, <2>3, <2>4, <2>6 DEF D!Refuse, D!Next
  <2>7. QED BY <2>5, <2>6
<1>6. ASSUME UNCHANGED status, UNCHANGED asker, UNCHANGED via
      PROVE  [D!Next]_(D!vars)
  <2>1. Connected' \in SUBSET Pair
    BY DEF Connected
  <2>2. D!Rearrange(Connected')
    BY <1>6, <2>1, MappingFrame DEF D!Rearrange
  <2>3. QED BY <2>1, <2>2 DEF D!Next
<1>7. ASSUME NEW r \in Requests, Decide(r) PROVE [D!Next]_(D!vars)
  BY <1>2, <1>3, <1>4, <1>7 DEF Decide, D!Next
<1>8. ASSUME NEW p \in Profiles, NEW l \in Links, NEW r \in Requests, Ask(p, l, r)
      PROVE [D!Next]_(D!vars)
  BY <1>1, <1>8 DEF D!Next
<1>9. CASE Sweep
  BY <1>5, <1>9 DEF Sweep, LapsedLive
<1>10. ASSUME NEW u \in Parents, EraseParent(u) PROVE [D!Next]_(D!vars)
  BY <1>5, <1>10 DEF EraseParent
<1>11. ASSUME NEW a \in Actors, Authenticate(a) \/ EndWithoutEffect(a)
       PROVE [D!Next]_(D!vars)
  BY <1>6, <1>11 DEF Authenticate, EndWithoutEffect, requestVars
<1>12. ASSUME NEW p \in Profiles, Family(p) PROVE [D!Next]_(D!vars)
  BY <1>6, <1>12 DEF Family, GrantSignIn, RevokeSignIn, RemoveProfile, AddTrainer,
                     RemoveTrainer, requestVars
<1>13. CASE \/ \E l \in Links : Regenerate(l) \/ ReadLink(l)
            \/ \E u \in Parents, l \in Links, chosen \in SUBSET Profiles : JoinByLink(u, l, chosen)
            \/ Tick \/ UNCHANGED vars
  BY <1>6, <1>13 DEF ReadLink, Regenerate, JoinByLink, Tick, requestVars, vars
<1>14. CASE Admin
  BY <1>6, <1>10, <1>14 DEF Admin, Deactivate, Reactivate, EraseTrainer, requestVars
<1>15. QED
  BY <1>7, <1>8, <1>9, <1>11, <1>12, <1>13, <1>14 DEF Next

\* R-41, R-42: the workflow implements Decisions.
THEOREM WorkflowImplementsDecisions == Spec => ImplementsDecisions
<1>1. Init => D!Init
  <2> SUFFICES ASSUME Init PROVE D!Init
    OBVIOUS
  <2>1. Outcome = [r \in Requests |-> "unused"] /\ Wish = [r \in Requests |-> None]
    BY DEF Init, Outcome, Wish
  <2>2. Connected = {}
    BY DEF Init, Connected
  <2>3. QED BY <2>1, <2>2 DEF D!Init
<1>2. QED
  BY <1>1, StepRefines, TypeCorrect, IInvCorrect, PTL DEF Spec, ImplementsDecisions, D!Spec
=============================================================================
