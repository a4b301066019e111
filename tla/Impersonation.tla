---------------------------- MODULE Impersonation ----------------------------
(***************************************************************************)
(* Super Admin impersonation: one open row of impersonation_sessions per   *)
(* admin, ridden by a pointer on the admin's own session, ended by the     *)
(* exit route, sign-out, a new start, the lifecycle hooks, or the first    *)
(* request past its deadline.                                              *)
(*                                                                         *)
(* A request reads its sessions row (pointer included) before it holds the *)
(* write lock, and the ORM keeps what was read: `saw'.  An authenticated   *)
(* request then takes the lock with the session touch, so resolution and   *)
(* handler are one step.  Sign-out does not touch: it also reads the       *)
(* impersonation before the lock.                                          *)
(***************************************************************************)
EXTENDS Naturals, FiniteSets

CONSTANTS
    Admins,     \* accounts with role super_admin
    Targets,    \* all other accounts
    Sessions,   \* ids of the admins' sessions rows
    Records,    \* ids of impersonation_sessions rows: bounds how many are started
    Requests,   \* HTTP requests the server may have in flight at once
    OwnerOf,    \* sessions.user_id
    MAX,        \* impersonation_max_minutes, in ticks of the clock
    None

ASSUME ImpersonationAssumption ==
    /\ MAX \in Nat \ {0}
    /\ OwnerOf \in [Sessions -> Admins]
    /\ Admins \cap Targets = {}
    /\ IsFiniteSet(Admins) /\ Admins # {}
    /\ None \notin Records \cup Sessions \cup Admins \cup Targets

VARIABLES
    account,    \* account -> users.status
    session,    \* session -> not used yet, being signed in, open, or revoked
    pointer,    \* session -> sessions.impersonation_id
    status,     \* record -> "unused", "open" or its end_reason
    admin,      \* record -> admin_user_id
    target,     \* record -> target_user_id
    atStart,    \* record -> target_status_at_start
    left,       \* record -> expires_at - now, never below 0
    serving,    \* request -> the session whose cookie it carries
    saw,        \* request -> the impersonation_id it read
    leaving,    \* the requests that sign out
    closing     \* the sign-outs that read an open impersonation

recordVars == <<status, admin, target, atStart, left>>
requestVars == <<serving, saw, leaving, closing>>
vars == <<account, session, pointer, status, admin, target, atStart, left,
          serving, saw, leaving, closing>>

Accounts == Admins \cup Targets
EndReason == {"exited", "timed_out", "signed_out", "superseded", "target_deactivated",
              "target_erased", "admin_deactivated"}

\* The rows and what the requests in flight may be.
TypeOK ==
    /\ account \in [Accounts -> {"active", "inactive", "deleted"}]
    /\ session \in [Sessions -> {"unused", "signing", "open", "revoked"}]
    /\ pointer \in [Sessions -> Records \cup {None}]
    /\ status \in [Records -> {"unused", "open"} \cup EndReason]
    /\ admin \in [Records -> Admins \cup {None}]
    /\ target \in [Records -> Targets \cup {None}]
    /\ atStart \in [Records -> {"active", "inactive", "deleted"}]
    /\ left \in [Records -> 0 .. MAX]
    /\ serving \in [Requests -> Sessions \cup {None}]
    /\ saw \in [Requests -> Records \cup {None}]
    /\ leaving \subseteq Requests
    /\ closing \subseteq Requests

Init ==
    /\ account = [u \in Accounts |-> "active"]
    /\ session = [s \in Sessions |-> "unused"]
    /\ pointer = [s \in Sessions |-> None]
    /\ status = [r \in Records |-> "unused"]
    /\ admin = [r \in Records |-> None]
    /\ target = [r \in Records |-> None]
    /\ atStart = [r \in Records |-> "active"]
    /\ left = [r \in Records |-> 0]
    /\ serving = [q \in Requests |-> None]
    /\ saw = [q \in Requests |-> None]
    /\ leaving = {}
    /\ closing = {}

-----------------------------------------------------------------------------
(* Requests and the impersonation they resolve *)

\* sign_in checks the account, then takes the lock to insert the session.
SignIn(s) ==
    /\ session[s] = "unused" /\ account[OwnerOf[s]] = "active"
    /\ session' = [session EXCEPT ![s] = "signing"]
    /\ UNCHANGED <<account, pointer, recordVars, requestVars>>

SignedIn(s) ==
    /\ session[s] = "signing"
    /\ session' = [session EXCEPT ![s] = "open"]
    /\ UNCHANGED <<account, pointer, recordVars, requestVars>>

Arrive(q, s) ==
    /\ serving[q] = None
    /\ session[s] = "open"
    /\ serving' = [serving EXCEPT ![q] = s]
    /\ saw' = [saw EXCEPT ![q] = pointer[s]]

Authenticate(q, s) ==
    /\ Arrive(q, s)
    /\ account[OwnerOf[s]] = "active"
    /\ UNCHANGED <<account, session, pointer, recordVars, leaving, closing>>

Done(q) ==
    /\ serving' = [serving EXCEPT ![q] = None]
    /\ saw' = [saw EXCEPT ![q] = None]
    /\ UNCHANGED <<leaving, closing>>

Served(q) == serving[q] # None /\ q \notin leaving

\* select_auto_end_reason.
EndsOf(r) ==
    IF left[r] = 0 THEN "timed_out"
    ELSE IF account[target[r]] = "deleted" THEN "target_erased"
    ELSE IF atStart[r] = "active" /\ account[target[r]] # "active" THEN "target_deactivated"
    ELSE "none"

SeesOpen(q) == saw[q] # None /\ status[saw[q]] = "open"

Impersonating(q) == SeesOpen(q) /\ EndsOf(saw[q]) = "none"

AutoEnds(q) == SeesOpen(q) /\ EndsOf(saw[q]) # "none"

\* resolve_for_session: what the rows are once the principal is known.  The
\* own pointer is written only where it differs from what was read.
ResolvedStatus(q) ==
    [r \in Records |-> IF AutoEnds(q) /\ r = saw[q] THEN EndsOf(r) ELSE status[r]]

ResolvedPointer(q) ==
    IF saw[q] # None /\ ~Impersonating(q) THEN [pointer EXCEPT ![serving[q]] = None]
    ELSE pointer

\* Clearing every pointer at the records of `rs': the request's own session
\* is in the identity map as it was read, without a pointer to clear.
Cleared(q, rs) ==
    [s \in Sessions |->
        IF s # serving[q] /\ pointer[s] \in rs THEN None ELSE ResolvedPointer(q)[s]]

\* A request of any other kind, as the admin or as the person impersonated.
Browse(q) ==
    /\ Served(q)
    /\ status' = ResolvedStatus(q)
    /\ pointer' = ResolvedPointer(q)
    /\ Done(q)
    /\ UNCHANGED <<account, session, admin, target, atStart, left>>

-----------------------------------------------------------------------------
(* Starting and leaving *)

OpenOf(a) == {r \in Records : status[r] = "open" /\ admin[r] = a}
OpenOn(u) == {r \in Records : status[r] = "open" /\ target[r] = u}

\* The effective user passes require_roles(SUPER_ADMIN).
AsAdmin(q) == Served(q) /\ ~Impersonating(q)

\* Mutant of Superseded: the impersonation of another session is not looked for.
SupersededHere(q) == {r \in OpenOf(OwnerOf[serving[q]]) : r = pointer[serving[q]]}

\* get_open_for_admin, after this request's own resolution.
Superseded(q) == {r \in OpenOf(OwnerOf[serving[q]]) : ~(AutoEnds(q) /\ r = saw[q])}

MayTarget(u) == u \in Targets /\ account[u] # "deleted"

\* Mutant of Start: who begins to impersonate a person already impersonated
\* joins that impersonation, whoever's it is.
StartJoining(q, u, r) ==
    /\ AsAdmin(q)
    /\ IF OpenOn(u) = {} THEN status[r] = "unused" ELSE r \in OpenOn(u)
    /\ status' = [status EXCEPT ![r] = "open"]
    /\ pointer' = [pointer EXCEPT ![serving[q]] = r]
    /\ admin' = [admin EXCEPT ![r] = IF @ = None THEN OwnerOf[serving[q]] ELSE @]
    /\ target' = [target EXCEPT ![r] = u]
    /\ left' = [left EXCEPT ![r] = MAX]
    /\ Done(q)
    /\ UNCHANGED <<account, session, atStart>>

Start(q, u, r) ==
    /\ AsAdmin(q)
    /\ MayTarget(u)
    /\ status[r] = "unused"
    /\ status' = [k \in Records |->
            IF k = r THEN "open"
            ELSE IF k \in Superseded(q) THEN "superseded" ELSE ResolvedStatus(q)[k]]
    /\ pointer' = [Cleared(q, Superseded(q)) EXCEPT ![serving[q]] = r]
    /\ admin' = [admin EXCEPT ![r] = OwnerOf[serving[q]]]
    /\ target' = [target EXCEPT ![r] = u]
    /\ atStart' = [atStart EXCEPT ![r] = account[u]]
    /\ left' = [left EXCEPT ![r] = MAX]
    /\ Done(q)
    /\ UNCHANGED <<account, session>>

Exit(q) ==
    /\ Served(q) /\ Impersonating(q)
    /\ status' = [status EXCEPT ![saw[q]] = "exited"]
    /\ pointer' = [pointer EXCEPT ![serving[q]] = None]
    /\ Done(q)
    /\ UNCHANGED <<account, session, admin, target, atStart, left>>

-----------------------------------------------------------------------------
(* Signing out *)

BeginSignOut(q, s) ==
    /\ Arrive(q, s)
    /\ leaving' = leaving \cup {q}
    /\ closing' = IF pointer[s] # None /\ status[pointer[s]] = "open"
                  THEN closing \cup {q} ELSE closing
    /\ UNCHANGED <<account, session, pointer, recordVars>>

EndSignOut(q) ==
    /\ serving' = [serving EXCEPT ![q] = None]
    /\ saw' = [saw EXCEPT ![q] = None]
    /\ leaving' = leaving \ {q}
    /\ closing' = closing \ {q}

\* Mutant of StillOpen: no trigger guards a closed row.
ClosesAgain(r) == TRUE

\* trg_impersonation_sessions_no_update_closed lets the close through.
StillOpen(r) == status[r] = "open"

SignOut(q) ==
    /\ q \in leaving
    /\ q \in closing => StillOpen(saw[q])
    /\ status' = IF q \in closing THEN [status EXCEPT ![saw[q]] = "signed_out"] ELSE status
    /\ pointer' = IF saw[q] # None THEN [pointer EXCEPT ![serving[q]] = None] ELSE pointer
    /\ session' = [session EXCEPT ![serving[q]] = "revoked"]
    /\ EndSignOut(q)
    /\ UNCHANGED <<account, admin, target, atStart, left>>

\* Otherwise the trigger aborts, and the sign-out is rolled back.
SignOutFails(q) ==
    /\ q \in leaving
    /\ q \in closing /\ ~StillOpen(saw[q])
    /\ EndSignOut(q)
    /\ UNCHANGED <<account, session, pointer, recordVars>>

-----------------------------------------------------------------------------
(* Lifecycle hooks *)

Active == {a \in Admins : account[a] = "active"}

\* Mutant of NotTheLast: the guard trusts what authentication read.
AnyAdmin(u) == TRUE

NotTheLast(u) == u \in Admins => Cardinality(Active) > 1

RevokeSessions(u) ==
    session' = [s \in Sessions |->
        IF OwnerOf[s] = u /\ session[s] = "open" THEN "revoked" ELSE session[s]]

\* What this request's own resolution has not ended already.
StillOpenFor(q, rs) == {r \in rs : ~(AutoEnds(q) /\ r = saw[q])}

\* The hook closes the one row its lookup returns; a second one makes
\* scalar_one_or_none raise, and the whole request is rolled back: see Fail.
OneAtMost(rs) == Cardinality(rs) <= 1

\* Mutant of HookTargets: the hook for the target is left out.
HookNobody(q, u) == {}

HookTargets(q, u) == StillOpenFor(q, OpenOn(u))

\* Mutant of HookAdmin: it looks at the impersonation of the caller.
HookCaller(q, u) == StillOpenFor(q, OpenOf(OwnerOf[serving[q]]))

HookAdmin(q, u) == StillOpenFor(q, OpenOf(u))

\* close_for_deactivated_account.
Deactivate(q, u) ==
    LET as == HookAdmin(q, u)
        of == HookTargets(q, u)
    IN  /\ AsAdmin(q)
        /\ u # OwnerOf[serving[q]]
        /\ account[u] = "active" /\ NotTheLast(u)
        /\ OneAtMost(as) /\ OneAtMost(of)
        /\ account' = [account EXCEPT ![u] = "inactive"]
        /\ RevokeSessions(u)
        /\ status' = [r \in Records |->
                IF r \in as THEN "admin_deactivated"
                ELSE IF r \in of THEN "target_deactivated" ELSE ResolvedStatus(q)[r]]
        /\ pointer' = Cleared(q, as \cup of)
        /\ Done(q)
        /\ UNCHANGED <<admin, target, atStart, left>>

\* close_for_erased_account: the erased account as the target only.
Erase(q, u) ==
    LET of == HookTargets(q, u)
    IN  /\ AsAdmin(q)
        /\ u # OwnerOf[serving[q]]
        /\ account[u] # "deleted" /\ NotTheLast(u)
        /\ OneAtMost(of)
        /\ account' = [account EXCEPT ![u] = "deleted"]
        /\ RevokeSessions(u)
        /\ status' = [r \in Records |->
                IF r \in of THEN "target_erased" ELSE ResolvedStatus(q)[r]]
        /\ pointer' = Cleared(q, of)
        /\ Done(q)
        /\ UNCHANGED <<admin, target, atStart, left>>

\* The caller's own row is still Active in the identity map: refused.
Reactivate(q, u) ==
    /\ AsAdmin(q)
    /\ u # OwnerOf[serving[q]]
    /\ account[u] = "inactive"
    /\ account' = [account EXCEPT ![u] = "active"]
    /\ status' = ResolvedStatus(q)
    /\ pointer' = ResolvedPointer(q)
    /\ Done(q)
    /\ UNCHANGED <<session, admin, target, atStart, left>>

\* An unexpected exception: everything the request wrote is rolled back.
Fail(q, u) ==
    /\ AsAdmin(q)
    /\ account[u] # "deleted"
    /\ ~OneAtMost(HookTargets(q, u))
    /\ Done(q)
    /\ UNCHANGED <<account, session, pointer, recordVars>>

LifeLeft(r) == IF status[r] = "open" /\ left[r] > 0 THEN left[r] - 1 ELSE left[r]

Tick ==
    /\ \E r \in Records : status[r] = "open" /\ left[r] > 0
    /\ left' = [r \in Records |-> LifeLeft(r)]
    /\ UNCHANGED <<account, session, pointer, status, admin, target, atStart, requestVars>>

-----------------------------------------------------------------------------
Handle(q) ==
    \/ Browse(q) \/ Exit(q) \/ SignOut(q) \/ SignOutFails(q)
    \/ \E u \in Targets, r \in Records : Start(q, u, r)
    \/ \E u \in Accounts : Deactivate(q, u) \/ Erase(q, u) \/ Reactivate(q, u) \/ Fail(q, u)

Next ==
    \/ \E s \in Sessions : SignIn(s) \/ SignedIn(s)
    \/ \E q \in Requests, s \in Sessions : Authenticate(q, s) \/ BeginSignOut(q, s)
    \/ \E q \in Requests : Handle(q)
    \/ Tick

Spec == Init /\ [][Next]_vars

-----------------------------------------------------------------------------
(* Properties *)

IsOpen(r) == status[r] = "open"

\* FR-048: an admin never has two impersonations open, from however many
\* sessions and requests they start them.
OneOpenPerAdmin == \A r, k \in Records : IsOpen(r) /\ IsOpen(k) /\ admin[r] = admin[k] => r = k

\* FR-045, FR-048: what a request read as the impersonation it is under is one
\* its own admin began, and no session but the one it came in points there;
\* so no request acts through, leaves or ends an impersonation of another
\* session, however long ago it read the pointer.
EachRidesItsOwn ==
    \A q \in Requests : saw[q] # None =>
        /\ status[saw[q]] # "unused" /\ admin[saw[q]] = OwnerOf[serving[q]]
        /\ \A s \in Sessions : pointer[s] = saw[q] => s = serving[q]

\* FR-042, FR-050: nobody is impersonated once erased, nor once deactivated
\* unless it was already inactive when the impersonation began.
TargetStanding ==
    \A r \in Records : IsOpen(r) =>
        /\ account[target[r]] # "deleted"
        /\ atStart[r] = "active" => account[target[r]] = "active"

\* FR-050: deactivating a Super Admin ends whatever that admin has open, from
\* whichever session and whatever the requests in flight have read.  (Erasing
\* one does not: close_for_erased_account looks at the targets only.)
DeactivationEndsIt ==
    [][\A r \in Records :
          IsOpen(r) /\ account[admin[r]] = "active" /\ account'[admin[r]] = "inactive"
          => ~IsOpen(r)']_vars

\* 001 FR-041: admins who deactivate or erase one another, with requests that
\* were all authenticated beforehand, always leave one of them Active.
OneAdminStays == Active # {}

\* FR-051, FR-055: the history of an impersonation that ended is never
\* rewritten, and an open one changes only by ending.
HistoryIsKept ==
    [][\A r \in Records : status[r] # "unused" =>
          /\ ~IsOpen(r) => status'[r] = status[r]
          /\ admin'[r] = admin[r] /\ target'[r] = target[r] /\ left'[r] <= left[r]]_vars
=============================================================================
