-------------------------- MODULE ImpersonationProofs --------------------------
(***************************************************************************)
(* Theorems about Impersonation, for every number of admins, people,       *)
(* sessions, records and requests in flight.                               *)
(***************************************************************************)
EXTENDS Impersonation, FiniteSetTheorems, TLAPS

USE ImpersonationAssumption

-----------------------------------------------------------------------------
(* What one request's resolution and its clearing of pointers return *)

LEMMA EndsOfIsAReason ==
  ASSUME NEW r, EndsOf(r) # "none"
  PROVE  EndsOf(r) \in EndReason
BY DEF EndsOf, EndReason

LEMMA ResolvedStatusType ==
  ASSUME TypeOK, NEW q \in Requests, NEW r \in Records
  PROVE  /\ ResolvedStatus(q)[r] \in {"unused", "open"} \cup EndReason
         /\ ResolvedStatus(q)[r] = status[r] \/ (status[r] = "open" /\ AutoEnds(q) /\ r = saw[q]
                                                 /\ ResolvedStatus(q)[r] \in EndReason)
BY EndsOfIsAReason DEF ResolvedStatus, AutoEnds, SeesOpen, TypeOK

LEMMA ResolvedPointerType ==
  ASSUME TypeOK, NEW q \in Requests
  PROVE  ResolvedPointer(q) \in [Sessions -> Records \cup {None}]
BY DEF ResolvedPointer, TypeOK

LEMMA ClearedType ==
  ASSUME TypeOK, NEW q \in Requests, NEW rs
  PROVE  Cleared(q, rs) \in [Sessions -> Records \cup {None}]
BY ResolvedPointerType DEF Cleared

-----------------------------------------------------------------------------
\* Every variable keeps its type in every reachable state.
LEMMA TypeStep == TypeOK /\ [Next]_vars => TypeOK'
<1> SUFFICES ASSUME TypeOK, [Next]_vars PROVE TypeOK'
  OBVIOUS
<1> USE DEF Accounts, recordVars, requestVars
<1>1. ASSUME NEW s \in Sessions, SignIn(s) \/ SignedIn(s) PROVE TypeOK'
  BY <1>1 DEF SignIn, SignedIn, TypeOK
<1>2. ASSUME NEW q \in Requests, NEW s \in Sessions, Authenticate(q, s) \/ BeginSignOut(q, s)
      PROVE  TypeOK'
  BY <1>2 DEF Authenticate, BeginSignOut, Arrive, TypeOK
<1>3. ASSUME NEW q \in Requests, Handle(q) PROVE TypeOK'
  <2> USE ResolvedStatusType, ResolvedPointerType, ClearedType
  <2>1. CASE Browse(q)
    <3>1. status' \in [Records -> {"unused", "open"} \cup EndReason]
      BY <2>1 DEF Browse, ResolvedStatus
    <3>2. QED BY <2>1, <3>1 DEF Browse, Done, TypeOK
  <2>2. CASE Exit(q)
    BY <2>2 DEF Exit, Done, TypeOK, EndReason
  <2>3. CASE SignOut(q)
    BY <2>3 DEF SignOut, EndSignOut, TypeOK, EndReason
  <2>4. CASE SignOutFails(q)
    BY <2>4 DEF SignOutFails, EndSignOut, TypeOK
  <2>5. ASSUME NEW u \in Targets, NEW r \in Records, Start(q, u, r) PROVE TypeOK'
    <3>1. OwnerOf[serving[q]] \in Admins
      BY <2>5 DEF Start, AsAdmin, Served, TypeOK
    <3>2. status' \in [Records -> {"unused", "open"} \cup EndReason]
      BY <2>5 DEF Start, EndReason
    <3>3. pointer' \in [Sessions -> Records \cup {None}]
      BY <2>5 DEF Start
    <3>4. MAX \in 0 .. MAX
      OBVIOUS
    <3>5. QED BY <2>5, <3>1, <3>2, <3>3, <3>4 DEF Start, Done, TypeOK
  <2>6. ASSUME NEW u \in Accounts, Deactivate(q, u) PROVE TypeOK'
    <3>1. status' \in [Records -> {"unused", "open"} \cup EndReason]
      BY <2>6 DEF Deactivate, EndReason
    <3>2. session' \in [Sessions -> {"unused", "signing", "open", "revoked"}]
      BY <2>6 DEF Deactivate, RevokeSessions, TypeOK
    <3>3. pointer' \in [Sessions -> Records \cup {None}]
      BY <2>6 DEF Deactivate
    <3>4. QED BY <2>6, <3>1, <3>2, <3>3 DEF Deactivate, Done, TypeOK
  <2>7. ASSUME NEW u \in Accounts, Erase(q, u) PROVE TypeOK'
    <3>1. status' \in [Records -> {"unused", "open"} \cup EndReason]
      BY <2>7 DEF Erase, EndReason
    <3>2. session' \in [Sessions -> {"unused", "signing", "open", "revoked"}]
      BY <2>7 DEF Erase, RevokeSessions, TypeOK
    <3>3. pointer' \in [Sessions -> Records \cup {None}]
      BY <2>7 DEF Erase
    <3>4. QED BY <2>7, <3>1, <3>2, <3>3 DEF Erase, Done, TypeOK
  <2>8. ASSUME NEW u \in Accounts, Reactivate(q, u) PROVE TypeOK'
    <3>1. status' \in [Records -> {"unused", "open"} \cup EndReason]
      BY <2>8 DEF Reactivate, ResolvedStatus
    <3>2. QED BY <2>8, <3>1 DEF Reactivate, Done, TypeOK
  <2>9. ASSUME NEW u \in Accounts, Fail(q, u) PROVE TypeOK'
    BY <2>9 DEF Fail, Done, TypeOK
  <2>10. QED BY <1>3, <2>1, <2>2, <2>3, <2>4, <2>5, <2>6, <2>7, <2>8, <2>9 DEF Handle
<1>4. CASE Tick
  BY <1>4 DEF Tick, LifeLeft, TypeOK
<1>5. CASE UNCHANGED vars
  BY <1>5 DEF vars, TypeOK
<1>6. QED BY <1>1, <1>2, <1>3, <1>4, <1>5 DEF Next

THEOREM TypeCorrect == Spec => []TypeOK
<1>1. Init => TypeOK
  BY DEF Init, TypeOK, Accounts
<1>2. QED BY <1>1, TypeStep, PTL DEF Spec

-----------------------------------------------------------------------------
(***************************************************************************)
(* The inductive invariant: an open record names an admin and a person,    *)
(* the properties that the runs check, and at least one Active admin.      *)
(***************************************************************************)
OpenIsMade ==
    \A r \in Records : IsOpen(r) => admin[r] \in Admins /\ target[r] \in Targets

IInv == OpenIsMade /\ OneOpenPerAdmin /\ TargetStanding

LEMMA IInvInit == Init => IInv
BY DEF Init, IInv, OpenIsMade, OneOpenPerAdmin, TargetStanding, IsOpen

\* A step that opens no record and changes no account keeps IInv.
LEMMA IInvFrame ==
  ASSUME TypeOK, IInv,
         \A r \in Records : status'[r] = "open" => status[r] = "open",
         UNCHANGED account, UNCHANGED admin, UNCHANGED target, UNCHANGED atStart
  PROVE  IInv'
BY DEF IInv, OpenIsMade, OneOpenPerAdmin, TargetStanding, IsOpen

\* A record that resolution leaves open was open.
LEMMA ResolvedOpen ==
  ASSUME NEW q, NEW r \in Records, ResolvedStatus(q)[r] = "open"
  PROVE  status[r] = "open" /\ ~(AutoEnds(q) /\ r = saw[q])
BY DEF ResolvedStatus, AutoEnds, SeesOpen, EndsOf

\* FR-048: a start leaves the admin with the record it opened, and no other.
LEMMA StartStep ==
  ASSUME TypeOK, IInv, NEW q \in Requests, NEW u \in Targets, NEW r \in Records, Start(q, u, r)
  PROVE  IInv'
<1> DEFINE a == OwnerOf[serving[q]]
<1>1. a \in Admins
  BY DEF Start, AsAdmin, Served, TypeOK
<1>2. status[r] = "unused" /\ admin' = [admin EXCEPT ![r] = a]
      /\ target' = [target EXCEPT ![r] = u] /\ atStart' = [atStart EXCEPT ![r] = account[u]]
      /\ account' = account /\ account[u] # "deleted"
  BY DEF Start, MayTarget
<1>3. ASSUME NEW k \in Records, k # r, status'[k] = "open"
      PROVE  status[k] = "open" /\ admin[k] # a
  <2>1. k \notin Superseded(q) /\ ResolvedStatus(q)[k] = "open"
    BY <1>3 DEF Start
  <2>2. status[k] = "open" /\ ~(AutoEnds(q) /\ k = saw[q])
    BY <2>1, ResolvedOpen
  <2>3. QED BY <2>1, <2>2 DEF Superseded, OpenOf
<1>4. OpenIsMade'
  BY <1>1, <1>2, <1>3 DEF OpenIsMade, IsOpen, IInv, TypeOK
<1>5. OneOpenPerAdmin'
  BY <1>2, <1>3 DEF OneOpenPerAdmin, IsOpen, IInv, TypeOK
<1>6. TargetStanding'
  BY <1>2, <1>3 DEF TargetStanding, IsOpen, IInv, TypeOK
<1>7. QED BY <1>4, <1>5, <1>6 DEF IInv

\* The account hooks leave nothing open whose target is the account.
LEMMA HookStep ==
  ASSUME TypeOK, IInv, NEW q \in Requests, NEW u \in Accounts,
         NEW value \in {"inactive", "deleted"},
         account' = [account EXCEPT ![u] = value],
         \A r \in Records : status'[r] = "open" =>
             ResolvedStatus(q)[r] = "open" /\ r \notin HookTargets(q, u),
         UNCHANGED admin, UNCHANGED target, UNCHANGED atStart
  PROVE  IInv'
<1>1. ASSUME NEW r \in Records, status'[r] = "open"
      PROVE  status[r] = "open" /\ target[r] # u
  BY <1>1, ResolvedOpen DEF HookTargets, StillOpenFor, OpenOn
<1>2. QED BY <1>1 DEF IInv, OpenIsMade, OneOpenPerAdmin, TargetStanding, IsOpen, TypeOK, Accounts

LEMMA IInvStep == TypeOK /\ IInv /\ [Next]_vars => IInv'
<1> SUFFICES ASSUME TypeOK, IInv, [Next]_vars PROVE IInv'
  OBVIOUS
<1> USE DEF recordVars, requestVars
<1>1. ASSUME NEW s \in Sessions, SignIn(s) \/ SignedIn(s) PROVE IInv'
  BY <1>1, IInvFrame DEF SignIn, SignedIn
<1>2. ASSUME NEW q \in Requests, NEW s \in Sessions, Authenticate(q, s) \/ BeginSignOut(q, s)
      PROVE  IInv'
  BY <1>2, IInvFrame DEF Authenticate, BeginSignOut
<1>3. ASSUME NEW q \in Requests, Handle(q) PROVE IInv'
  <2>1. CASE Browse(q)
    BY <2>1, IInvFrame, ResolvedOpen DEF Browse
  <2>2. CASE Exit(q)
    BY <2>2, IInvFrame DEF Exit, TypeOK
  <2>3. CASE SignOut(q)
    BY <2>3, IInvFrame DEF SignOut, TypeOK
  <2>4. CASE SignOutFails(q)
    BY <2>4, IInvFrame DEF SignOutFails
  <2>5. ASSUME NEW u \in Targets, NEW r \in Records, Start(q, u, r) PROVE IInv'
    BY <2>5, StartStep
  <2>6. ASSUME NEW u \in Accounts, Deactivate(q, u) PROVE IInv'
    <3>1. \A r \in Records : status'[r] = "open" =>
              ResolvedStatus(q)[r] = "open" /\ r \notin HookTargets(q, u)
      BY <2>6 DEF Deactivate
    <3>2. QED BY <2>6, <3>1, HookStep DEF Deactivate
  <2>7. ASSUME NEW u \in Accounts, Erase(q, u) PROVE IInv'
    <3>1. \A r \in Records : status'[r] = "open" =>
              ResolvedStatus(q)[r] = "open" /\ r \notin HookTargets(q, u)
      BY <2>7 DEF Erase
    <3>2. QED BY <2>7, <3>1, HookStep DEF Erase
  <2>8. ASSUME NEW u \in Accounts, Reactivate(q, u) PROVE IInv'
    <3>1. \A r \in Records : status'[r] = "open" => status[r] = "open"
      BY <2>8, ResolvedOpen DEF Reactivate
    <3>2. account' = [account EXCEPT ![u] = "active"] /\ account[u] = "inactive"
          /\ UNCHANGED <<admin, target, atStart>>
      BY <2>8 DEF Reactivate
    <3>3. QED BY <3>1, <3>2 DEF IInv, OpenIsMade, OneOpenPerAdmin, TargetStanding, IsOpen, TypeOK,
                                 Accounts
  <2>9. ASSUME NEW u \in Accounts, Fail(q, u) PROVE IInv'
    BY <2>9, IInvFrame DEF Fail
  <2>10. QED BY <1>3, <2>1, <2>2, <2>3, <2>4, <2>5, <2>6, <2>7, <2>8, <2>9 DEF Handle
<1>4. CASE Tick
  BY <1>4, IInvFrame DEF Tick
<1>5. CASE UNCHANGED vars
  BY <1>5, IInvFrame DEF vars
<1>6. QED BY <1>1, <1>2, <1>3, <1>4, <1>5 DEF Next

THEOREM IInvCorrect == Spec => []IInv
BY IInvInit, IInvStep, TypeCorrect, PTL DEF Spec

\* FR-048: no interleaving of starts gives an admin two open impersonations.
THEOREM OneOpen == Spec => []OneOpenPerAdmin
<1>1. IInv => OneOpenPerAdmin
  BY DEF IInv
<1>2. QED BY <1>1, IInvCorrect, PTL

\* FR-042, FR-050: an erased or deactivated person is not impersonated on.
THEOREM TargetsStand == Spec => []TargetStanding
<1>1. IInv => TargetStanding
  BY DEF IInv
<1>2. QED BY <1>1, IInvCorrect, PTL

-----------------------------------------------------------------------------
(***************************************************************************)
(* Whose impersonation a request is under.  A pointer is set only where    *)
(* its record is made, so it follows the record's admin and no two         *)
(* sessions share one; what a request has read stays true of the record    *)
(* after the pointer is gone, because no record is used twice.             *)
(***************************************************************************)
PointersAreOwn ==
    \A s \in Sessions : pointer[s] # None =>
        /\ status[pointer[s]] # "unused" /\ admin[pointer[s]] = OwnerOf[s]
        /\ \A t \in Sessions : pointer[t] = pointer[s] => t = s

RideInv == PointersAreOwn /\ EachRidesItsOwn

\* A step that makes no record, sets no pointer and lets no request in.
LEMMA RideFrame ==
  ASSUME TypeOK, RideInv,
         \A r \in Records : status[r] # "unused" => status'[r] # "unused" /\ admin'[r] = admin[r],
         \A s \in Sessions : pointer'[s] \in {pointer[s], None},
         \A q \in Requests : \/ saw'[q] = None
                             \/ saw'[q] = saw[q] /\ serving'[q] = serving[q]
  PROVE  RideInv'
BY DEF RideInv, PointersAreOwn, EachRidesItsOwn, TypeOK

LEMMA ClearingOnlyClears ==
  ASSUME TypeOK, NEW q \in Requests, NEW rs, NEW s \in Sessions
  PROVE  /\ ResolvedPointer(q)[s] \in {pointer[s], None}
         /\ Cleared(q, rs)[s] \in {pointer[s], None}
BY DEF ResolvedPointer, Cleared, TypeOK

\* Resolution, and closing what is open, never unmakes a record.
LEMMA ResolvedIsUsed ==
  ASSUME NEW q, NEW r \in Records, status[r] # "unused"
  PROVE  ResolvedStatus(q)[r] # "unused"
BY DEF ResolvedStatus, AutoEnds, EndsOf

LEMMA ArriveRides ==
  ASSUME TypeOK, RideInv, NEW q \in Requests, NEW s \in Sessions, Arrive(q, s),
         UNCHANGED <<status, admin, pointer>>
  PROVE  RideInv'
BY DEF RideInv, PointersAreOwn, EachRidesItsOwn, TypeOK, Arrive

LEMMA StartRides ==
  ASSUME TypeOK, RideInv, NEW q \in Requests, NEW u \in Targets, NEW r \in Records, Start(q, u, r)
  PROVE  RideInv'
<1> DEFINE s == serving[q]
<1>1. s \in Sessions
  BY DEF Start, AsAdmin, Served, TypeOK
<1>2. status[r] = "unused" /\ admin' = [admin EXCEPT ![r] = OwnerOf[s]]
  BY DEF Start
<1>3. pointer'[s] = r /\ \A t \in Sessions : t # s => pointer'[t] \in {pointer[t], None}
  BY <1>1, ClearedType, ClearingOnlyClears DEF Start
<1>4. \A k \in Records : (k = r \/ status[k] # "unused") => status'[k] # "unused"
  BY ResolvedIsUsed DEF Start
<1>5. \A t \in Sessions : pointer[t] # r
  BY <1>2 DEF RideInv, PointersAreOwn
<1>6. \A o \in Requests : saw[o] # r
  BY <1>2 DEF RideInv, EachRidesItsOwn
<1>7. \A o \in Requests : saw'[o] = None \/ (saw'[o] = saw[o] /\ serving'[o] = serving[o])
  BY DEF Start, Done, TypeOK
<1> HIDE DEF s
<1>8. PointersAreOwn'
  BY <1>1, <1>2, <1>3, <1>4, <1>5 DEF RideInv, PointersAreOwn, TypeOK
<1>9. EachRidesItsOwn'
  BY <1>1, <1>2, <1>3, <1>4, <1>6, <1>7 DEF RideInv, EachRidesItsOwn, TypeOK
<1>10. QED BY <1>8, <1>9 DEF RideInv

LEMMA RideStep == TypeOK /\ RideInv /\ [Next]_vars => RideInv'
<1> SUFFICES ASSUME TypeOK, RideInv, [Next]_vars PROVE RideInv'
  OBVIOUS
<1> USE DEF recordVars, requestVars
<1>1. ASSUME NEW s \in Sessions, SignIn(s) \/ SignedIn(s) PROVE RideInv'
  BY <1>1, RideFrame DEF SignIn, SignedIn
<1>2. ASSUME NEW q \in Requests, NEW s \in Sessions, Authenticate(q, s) \/ BeginSignOut(q, s)
      PROVE  RideInv'
  BY <1>2, ArriveRides DEF Authenticate, BeginSignOut
<1>3. ASSUME NEW q \in Requests, Handle(q) PROVE RideInv'
  <2>1. ASSUME Done(q) \/ EndSignOut(q)
        PROVE  \A o \in Requests :
                  saw'[o] = None \/ (saw'[o] = saw[o] /\ serving'[o] = serving[o])
    BY <2>1 DEF Done, EndSignOut, TypeOK
  <2>2. CASE Browse(q)
    BY <2>1, <2>2, RideFrame, ClearingOnlyClears, ResolvedIsUsed DEF Browse
  <2>3. CASE Exit(q)
    <3>1. \A s \in Sessions : pointer'[s] \in {pointer[s], None}
      BY <2>3 DEF Exit, TypeOK
    <3>2. QED BY <2>1, <2>3, <3>1, RideFrame DEF Exit, TypeOK
  <2>4. CASE SignOut(q)
    <3>1. \A s \in Sessions : pointer'[s] \in {pointer[s], None}
      BY <2>4 DEF SignOut, TypeOK
    <3>2. QED BY <2>1, <2>4, <3>1, RideFrame DEF SignOut, TypeOK
  <2>5. CASE SignOutFails(q)
    BY <2>1, <2>5, RideFrame DEF SignOutFails
  <2>6. ASSUME NEW u \in Targets, NEW r \in Records, Start(q, u, r) PROVE RideInv'
    BY <2>6, StartRides
  <2>7. ASSUME NEW u \in Accounts, Deactivate(q, u) PROVE RideInv'
    <3>1. \A r \in Records : status[r] # "unused" => status'[r] # "unused"
      BY <2>7, ResolvedIsUsed DEF Deactivate
    <3>2. \A s \in Sessions : pointer'[s] \in {pointer[s], None}
      BY <2>7, ClearingOnlyClears DEF Deactivate
    <3>3. QED BY <2>1, <2>7, <3>1, <3>2, RideFrame DEF Deactivate
  <2>8. ASSUME NEW u \in Accounts, Erase(q, u) PROVE RideInv'
    <3>1. \A r \in Records : status[r] # "unused" => status'[r] # "unused"
      BY <2>8, ResolvedIsUsed DEF Erase
    <3>2. \A s \in Sessions : pointer'[s] \in {pointer[s], None}
      BY <2>8, ClearingOnlyClears DEF Erase
    <3>3. QED BY <2>1, <2>8, <3>1, <3>2, RideFrame DEF Erase
  <2>9. ASSUME NEW u \in Accounts, Reactivate(q, u) PROVE RideInv'
    BY <2>1, <2>9, RideFrame, ClearingOnlyClears, ResolvedIsUsed DEF Reactivate
  <2>10. ASSUME NEW u \in Accounts, Fail(q, u) PROVE RideInv'
    BY <2>1, <2>10, RideFrame DEF Fail
  <2>11. QED
    BY <1>3, <2>2, <2>3, <2>4, <2>5, <2>6, <2>7, <2>8, <2>9, <2>10 DEF Handle
<1>4. CASE Tick
  BY <1>4, RideFrame DEF Tick
<1>5. CASE UNCHANGED vars
  BY <1>5, RideFrame DEF vars
<1>6. QED BY <1>1, <1>2, <1>3, <1>4, <1>5 DEF Next

\* FR-045, FR-048: no request acts through, leaves or ends the impersonation of
\* another session.
THEOREM NobodyRidesAnothers == Spec => []EachRidesItsOwn
<1>1. Init => RideInv
  BY DEF Init, RideInv, PointersAreOwn, EachRidesItsOwn
<1>2. RideInv => EachRidesItsOwn
  BY DEF RideInv
<1>3. QED BY <1>1, <1>2, RideStep, TypeCorrect, PTL DEF Spec

-----------------------------------------------------------------------------
\* FR-051, FR-055: history is append-only, whatever the requests race for.
LEMMA HistoryStep ==
  ASSUME TypeOK, [Next]_vars, NEW r \in Records, status[r] # "unused"
  PROVE  /\ ~IsOpen(r) => status'[r] = status[r]
         /\ admin'[r] = admin[r] /\ target'[r] = target[r] /\ left'[r] <= left[r]
<1> USE DEF recordVars, requestVars, IsOpen
<1>0. left[r] \in Nat
  BY DEF TypeOK
<1>1. CASE UNCHANGED recordVars
  BY <1>0, <1>1
<1>2. ASSUME NEW q \in Requests, Handle(q), ~UNCHANGED recordVars
      PROVE  /\ ~IsOpen(r) => status'[r] = status[r]
             /\ admin'[r] = admin[r] /\ target'[r] = target[r] /\ left'[r] = left[r]
  <2>1. ~IsOpen(r) => ResolvedStatus(q)[r] = status[r]
    BY DEF ResolvedStatus, AutoEnds, SeesOpen
  <2>2. CASE Browse(q)
    BY <2>1, <2>2 DEF Browse
  <2>3. CASE Exit(q)
    BY <2>3 DEF Exit, Impersonating, SeesOpen, TypeOK
  <2>4. CASE SignOut(q)
    BY <2>4 DEF SignOut, StillOpen, TypeOK
  <2>5. ASSUME NEW u \in Targets, NEW k \in Records, Start(q, u, k)
        PROVE  /\ ~IsOpen(r) => status'[r] = status[r]
               /\ admin'[r] = admin[r] /\ target'[r] = target[r] /\ left'[r] = left[r]
    BY <2>1, <2>5 DEF Start, Superseded, OpenOf, TypeOK
  <2>6. ASSUME NEW u \in Accounts, Deactivate(q, u)
        PROVE  /\ ~IsOpen(r) => status'[r] = status[r]
               /\ admin'[r] = admin[r] /\ target'[r] = target[r] /\ left'[r] = left[r]
    BY <2>1, <2>6 DEF Deactivate, HookTargets, HookAdmin, StillOpenFor, OpenOf, OpenOn
  <2>7. ASSUME NEW u \in Accounts, Erase(q, u)
        PROVE  /\ ~IsOpen(r) => status'[r] = status[r]
               /\ admin'[r] = admin[r] /\ target'[r] = target[r] /\ left'[r] = left[r]
    BY <2>1, <2>7 DEF Erase, HookTargets, StillOpenFor, OpenOn
  <2>8. ASSUME NEW u \in Accounts, Reactivate(q, u)
        PROVE  /\ ~IsOpen(r) => status'[r] = status[r]
               /\ admin'[r] = admin[r] /\ target'[r] = target[r] /\ left'[r] = left[r]
    BY <2>1, <2>8 DEF Reactivate
  <2>9. CASE SignOutFails(q) \/ \E u \in Accounts : Fail(q, u)
    BY <1>2, <2>9 DEF SignOutFails, Fail
  <2>10. QED BY <1>2, <2>2, <2>3, <2>4, <2>5, <2>6, <2>7, <2>8, <2>9 DEF Handle
<1>3. CASE Tick
  BY <1>0, <1>3 DEF Tick, LifeLeft, TypeOK
<1>4. CASE UNCHANGED vars
  BY <1>1, <1>4 DEF vars
<1>5. CASE \E s \in Sessions : SignIn(s) \/ SignedIn(s)
  BY <1>1, <1>5 DEF SignIn, SignedIn
<1>6. CASE \E q \in Requests, s \in Sessions : Authenticate(q, s) \/ BeginSignOut(q, s)
  BY <1>1, <1>6 DEF Authenticate, BeginSignOut
<1>7. QED BY <1>0, <1>1, <1>2, <1>3, <1>4, <1>5, <1>6 DEF Next

THEOREM HistoryStands == Spec => HistoryIsKept
<1>1. TypeOK /\ [Next]_vars =>
        [\A r \in Records : status[r] # "unused" =>
          /\ ~IsOpen(r) => status'[r] = status[r]
          /\ admin'[r] = admin[r] /\ target'[r] = target[r] /\ left'[r] <= left[r]]_vars
  BY HistoryStep
<1>2. QED BY <1>1, TypeCorrect, PTL DEF Spec, HistoryIsKept

-----------------------------------------------------------------------------
\* Taking one admin out of the Active ones leaves another, when the count
\* said there was more than one.
LEMMA AnotherStays ==
  ASSUME NEW u, u \in Admins => NotTheLast(u), Active # {},
         NEW S, Active \ {u} \subseteq S, u \in Admins \/ Active \subseteq S
  PROVE  S # {}
<1>1. CASE u \notin Admins
  BY <1>1
<1>2. CASE u \in Admins
  <2>1. IsFiniteSet(Active)
    BY FS_Subset, Active \in SUBSET Admins DEF Active
  <2>2. Cardinality(Active) > 1
    BY <1>2 DEF NotTheLast
  <2>3. Cardinality(Active) \in Nat
    BY <2>1, FS_CardinalityType
  <2>4. IsFiniteSet(Active \ {u}) /\ Cardinality(Active \ {u}) # 0
    <3>1. /\ IsFiniteSet(Active \ {u})
          /\ Cardinality(Active \ {u}) =
                IF u \in Active THEN Cardinality(Active) - 1 ELSE Cardinality(Active)
      BY <2>1, FS_RemoveElement
    <3>2. QED BY <2>2, <2>3, <3>1
  <2>5. Active \ {u} # {}
    BY <2>4, FS_EmptySet
  <2>6. QED BY <2>5
<1>3. QED BY <1>1, <1>2

\* 001 FR-041: the guard against losing the last Active Super Admin holds
\* under every interleaving of deactivations and erasures.
THEOREM OneAdminStaysCorrect == Spec => []OneAdminStays
<1>1. Init => OneAdminStays
  BY DEF Init, OneAdminStays, Active, Accounts
<1>2. TypeOK /\ OneAdminStays /\ [Next]_vars => OneAdminStays'
  <2> SUFFICES ASSUME TypeOK, OneAdminStays, [Next]_vars PROVE OneAdminStays'
    OBVIOUS
  <2> USE DEF recordVars, requestVars
  <2>1. CASE UNCHANGED account
    BY <2>1 DEF OneAdminStays, Active
  <2>2. ASSUME NEW q \in Requests, NEW u \in Accounts, Deactivate(q, u) \/ Erase(q, u)
        PROVE  OneAdminStays'
    <3>1. NotTheLast(u) /\ \A a \in Accounts \ {u} : account'[a] = account[a]
      BY <2>2 DEF Deactivate, Erase, TypeOK
    <3>2. Active \ {u} \subseteq Active' /\ (u \in Admins \/ Active \subseteq Active')
      BY <3>1 DEF Active, Accounts
    <3>3. Active' # {}
      BY <3>1, <3>2, AnotherStays DEF OneAdminStays
    <3>4. QED BY <3>3 DEF OneAdminStays
  <2>3. ASSUME NEW q \in Requests, NEW u \in Accounts, Reactivate(q, u)
        PROVE  OneAdminStays'
    BY <2>3 DEF Reactivate, OneAdminStays, Active, Accounts, TypeOK
  <2>4. ASSUME NEW q \in Requests, Handle(q) PROVE OneAdminStays'
    BY <2>1, <2>2, <2>3, <2>4 DEF Handle, Browse, Exit, SignOut, SignOutFails, Start, Fail
  <2>5. CASE \E s \in Sessions : SignIn(s) \/ SignedIn(s)
    BY <2>1, <2>5 DEF SignIn, SignedIn
  <2>6. CASE \E q \in Requests, s \in Sessions : Authenticate(q, s) \/ BeginSignOut(q, s)
    BY <2>1, <2>6 DEF Authenticate, BeginSignOut
  <2>7. QED BY <2>1, <2>4, <2>5, <2>6 DEF Next, Tick, vars
<1>3. QED BY <1>1, <1>2, TypeCorrect, PTL DEF Spec

-----------------------------------------------------------------------------
(* The hook of a deactivation *)

LEMMA DeactivationStep ==
  ASSUME TypeOK, IInv, [Next]_vars, NEW r \in Records, IsOpen(r),
         account[admin[r]] = "active", account'[admin[r]] = "inactive"
  PROVE  status'[r] # "open"
<1> USE DEF TypeOK, recordVars, requestVars
<1>1. admin[r] \in Accounts
  BY DEF IInv, OpenIsMade, IsOpen, Accounts
<1>2. PICK q \in Requests, u \in Accounts : Deactivate(q, u)
  <2>1. ASSUME NEW q \in Requests, NEW u \in Accounts, Erase(q, u) \/ Reactivate(q, u) PROVE FALSE
    BY <1>1, <2>1 DEF Erase, Reactivate
  <2>2. ~UNCHANGED account
    OBVIOUS
  <2>3. QED
    BY <2>1, <2>2 DEF Next, Handle, SignIn, SignedIn, Authenticate, BeginSignOut, Browse, Exit,
       SignOut, SignOutFails, Start, Fail, Tick, vars
<1>3. admin[r] = u
  BY <1>1, <1>2 DEF Deactivate
<1>4. CASE r \in HookAdmin(q, u)
  BY <1>2, <1>4 DEF Deactivate
<1>5. CASE r \notin HookAdmin(q, u)
  <2>1. AutoEnds(q) /\ r = saw[q]
    BY <1>3, <1>5 DEF StillOpenFor, OpenOf, IsOpen, HookAdmin
  <2>2. ResolvedStatus(q)[r] # "open"
    BY <2>1, ResolvedOpen
  <2>3. QED BY <1>2, <2>2 DEF Deactivate
<1>6. QED BY <1>4, <1>5

\* FR-050: deactivating an admin ends what that admin has open.
THEOREM DeactivationEnds == Spec => DeactivationEndsIt
<1>1. TypeOK /\ IInv /\ [Next]_vars =>
        \A r \in Records :
          IsOpen(r) /\ account[admin[r]] = "active" /\ account'[admin[r]] = "inactive"
          => ~IsOpen(r)'
  BY DeactivationStep DEF IsOpen
<1>2. QED BY <1>1, TypeCorrect, IInvCorrect, PTL DEF Spec, DeactivationEndsIt
=============================================================================
