------------------------------ MODULE Credentials ------------------------------
(***************************************************************************)
(* Who can sign in: accounts, the setup links that give them a first       *)
(* password, the sign-ins parents grant to their children, and sessions.   *)
(*                                                                         *)
(* A parent's authenticated request is two steps, as in Approvals.  Signing *)
(* in and choosing a password are public: both read everything before they *)
(* take the write lock, and write without looking again.                   *)
(***************************************************************************)
CONSTANTS
    Parents,    \* accounts of parents
    Kids,       \* ids of the accounts that grants make: bounds how many
    Profiles,   \* player profiles of kind child
    Links,      \* ids of credential_setup_invitations rows
    Forms,      \* set-password requests the server may have in flight
    Sessions,   \* ids of sessions rows
    ParentOf,   \* player_profiles.account_user_id
    ProfileOf,  \* the profile a kid's account is made for
    HolderOf,   \* credential_setup_invitations.user_id
    UserOf,     \* sessions.user_id
    None

Accounts == Parents \cup Kids

ASSUME CredentialsAssumption ==
    /\ ParentOf \in [Profiles -> Parents]
    /\ ProfileOf \in [Kids -> Profiles]
    /\ HolderOf \in [Links -> Accounts]
    /\ UserOf \in [Sessions -> Accounts]
    /\ Parents \cap Kids = {}
    /\ None \notin Accounts \cup Links

VARIABLES
    account,    \* account -> users.status, "none" before it is made
    password,   \* accounts with password_hash set
    signIn,     \* profile -> sign_in_user_id
    removed,    \* profiles with removed_at set
    link,       \* link -> unissued, outstanding, consumed or superseded
    expired,    \* links past their expires_at
    form,       \* set-password request -> the link it read as usable
    session,    \* session -> not used yet, being signed in, open, or revoked
    admitted    \* parents with a request past authentication, not yet locked

linkVars == <<link, expired>>
familyVars == <<signIn, removed>>
vars == <<account, password, signIn, removed, link, expired, form, session, admitted>>

\* The rows and what the requests in flight may be; a setup link is marked when
\* it is used or replaced and never deleted.
TypeOK ==
    /\ account \in [Accounts -> {"none", "active", "inactive", "deleted"}]
    /\ password \subseteq Accounts
    /\ signIn \in [Profiles -> Kids \cup {None}]
    /\ removed \subseteq Profiles
    /\ link \in [Links -> {"unissued", "outstanding", "consumed", "superseded"}]
    /\ expired \subseteq Links
    /\ form \in [Forms -> Links \cup {None}]
    /\ session \in [Sessions -> {"unused", "signing", "open", "revoked"}]
    /\ admitted \subseteq Parents

Init ==
    /\ account = [a \in Accounts |-> "none"]
    /\ password = {}
    /\ signIn = [p \in Profiles |-> None]
    /\ removed = {}
    /\ link = [l \in Links |-> "unissued"]
    /\ expired = {}
    /\ form = [x \in Forms |-> None]
    /\ session = [s \in Sessions |-> "unused"]
    /\ admitted = {}

-----------------------------------------------------------------------------
(* Setup links *)

\* Mutant of Outstanding: an expired link is left for the sweep.
OutstandingUnexpired(a) == {l \in Links : link[l] = "outstanding" /\ HolderOf[l] = a /\ l \notin expired}

Outstanding(a) == {l \in Links : link[l] = "outstanding" /\ HolderOf[l] = a}

\* The links of the accounts in `as' are superseded.
Superseding(as) ==
    [l \in Links |-> IF \E a \in as : l \in Outstanding(a) THEN "superseded" ELSE link[l]]

Issue(a, l) ==
    /\ link[l] = "unissued" /\ HolderOf[l] = a
    /\ link' = [Superseding({a}) EXCEPT ![l] = "outstanding"]
    /\ UNCHANGED expired

\* create_user: the account is made with a link and without a password.
CreateUser(u, l) ==
    /\ account[u] = "none"
    /\ account' = [account EXCEPT ![u] = "active"]
    /\ Issue(u, l)
    /\ UNCHANGED <<password, familyVars, form, session, admitted>>

\* Only an Active account without a password is invited again.
Reinvite(a, l) ==
    /\ account[a] = "active"
    /\ a \notin password
    /\ Issue(a, l)
    /\ UNCHANGED <<account, password, familyVars, form, session, admitted>>

\* Mutant of Usable: consumed_at is not looked at.
UsableTwice(l) == link[l] \in {"outstanding", "consumed"} /\ l \notin expired

Usable(l) == link[l] = "outstanding" /\ l \notin expired

OpenForm(x, l) ==
    /\ form[x] = None
    /\ Usable(l) /\ account[HolderOf[l]] = "active"
    /\ form' = [form EXCEPT ![x] = l]
    /\ UNCHANGED <<account, password, familyVars, linkVars, session, admitted>>

\* Mutant of Consume: the link is left as it was.
ConsumeNothing(l) == UNCHANGED link

Consume(l) == link' = [link EXCEPT ![l] = "consumed"]

\* Neither the link nor the account is looked at again.
SetupPassword(x) ==
    /\ form[x] # None
    /\ password' = password \cup {HolderOf[form[x]]}
    /\ Consume(form[x])
    /\ form' = [form EXCEPT ![x] = None]
    /\ UNCHANGED <<account, familyVars, expired, session, admitted>>

Expire(l) ==
    /\ link[l] = "outstanding" /\ l \notin expired
    /\ expired' = expired \cup {l}
    /\ UNCHANGED <<account, password, familyVars, link, form, session, admitted>>

-----------------------------------------------------------------------------
(* Sessions *)

\* A child sign-in stands or falls with the parent; an account no profile
\* names is not a child's.
Blocked(a) == \E p \in Profiles : signIn[p] = a /\ account[ParentOf[p]] # "active"

\* sign_in checks the account and the password, then takes the lock.
BeginSignIn(s) ==
    /\ session[s] = "unused"
    /\ account[UserOf[s]] = "active"
    /\ UserOf[s] \in password
    /\ ~Blocked(UserOf[s])
    /\ session' = [session EXCEPT ![s] = "signing"]
    /\ UNCHANGED <<account, password, familyVars, linkVars, form, admitted>>

SignedIn(s) ==
    /\ session[s] = "signing"
    /\ session' = [session EXCEPT ![s] = "open"]
    /\ UNCHANGED <<account, password, familyVars, linkVars, form, admitted>>

SignOut(s) ==
    /\ session[s] = "open"
    /\ session' = [session EXCEPT ![s] = "revoked"]
    /\ UNCHANGED <<account, password, familyVars, linkVars, form, admitted>>

\* Joining through a trainer's link makes an account with its own password
\* and signs it in.
Register(u, s) ==
    /\ account[u] = "none"
    /\ session[s] = "unused" /\ UserOf[s] = u
    /\ account' = [account EXCEPT ![u] = "active"]
    /\ password' = password \cup {u}
    /\ session' = [session EXCEPT ![s] = "open"]
    /\ UNCHANGED <<familyVars, linkVars, form, admitted>>

\* revoke_all_for_user, of each account in `as'.
Revoking(as) ==
    [s \in Sessions |->
        IF UserOf[s] \in as /\ session[s] = "open" THEN "revoked" ELSE session[s]]

-----------------------------------------------------------------------------
(* What a parent does about a child's sign-in *)

Authenticate(u) ==
    /\ u \notin admitted
    /\ account[u] = "active"
    /\ \E s \in Sessions : UserOf[s] = u /\ session[s] = "open"
    /\ admitted' = admitted \cup {u}
    /\ UNCHANGED <<account, password, familyVars, linkVars, form, session>>

Serve(u) ==
    /\ u \in admitted
    /\ admitted' = admitted \ {u}

EndWithoutEffect(u) ==
    /\ Serve(u)
    /\ UNCHANGED <<account, password, familyVars, linkVars, form, session>>

\* The profile may have a sign-in already: the new account takes its place,
\* and nothing is done about the old one.
Grant(k, l) ==
    /\ Serve(ParentOf[ProfileOf[k]])
    /\ ProfileOf[k] \notin removed
    /\ account[k] = "none"
    /\ account' = [account EXCEPT ![k] = "active"]
    /\ signIn' = [signIn EXCEPT ![ProfileOf[k]] = k]
    /\ Issue(k, l)
    /\ UNCHANGED <<password, removed, form, session>>

\* Mutant of EndSignIn: the profile keeps its sign-in.
EndSignInKeeping(p) ==
    /\ session' = Revoking({signIn[p]})
    /\ account' = [k \in Accounts |->
            IF k = signIn[p] /\ account[k] = "active" THEN "inactive" ELSE account[k]]
    /\ UNCHANGED signIn

\* The sign-in of a profile ends: sessions revoked, account deactivated.
EndSignIn(p) ==
    /\ session' = Revoking({signIn[p]})
    /\ account' = [k \in Accounts |->
            IF k = signIn[p] /\ account[k] = "active" THEN "inactive" ELSE account[k]]
    /\ signIn' = [signIn EXCEPT ![p] = None]

RevokeSignIn(p) ==
    /\ Serve(ParentOf[p])
    /\ p \notin removed
    /\ signIn[p] # None
    /\ EndSignIn(p)
    /\ UNCHANGED <<password, removed, linkVars, form>>

RemoveProfile(p) ==
    /\ Serve(ParentOf[p])
    /\ p \notin removed
    /\ EndSignIn(p)
    /\ removed' = removed \cup {p}
    /\ UNCHANGED <<password, linkVars, form>>

-----------------------------------------------------------------------------
(* What a Super Admin does to an account *)

\* Mutant of SignedInChildren: the cascade is forgotten.
NoChildren(u) == {}

SignedInChildren(u) == {k \in Kids : \E p \in Profiles : ParentOf[p] = u /\ signIn[p] = k}

Deactivate(u) ==
    /\ account[u] = "active"
    /\ account' = [account EXCEPT ![u] = "inactive"]
    /\ session' = Revoking({u} \cup SignedInChildren(u))
    /\ UNCHANGED <<password, familyVars, linkVars, form, admitted>>

Reactivate(u) ==
    /\ account[u] = "inactive"
    /\ account' = [account EXCEPT ![u] = "active"]
    /\ UNCHANGED <<password, familyVars, linkVars, form, session, admitted>>

\* Erasing a family erases the child accounts its profiles name.
Erase(u) ==
    LET gone == {u} \cup {k \in SignedInChildren(u) : account[k] # "deleted"}
    IN  /\ account[u] \in {"active", "inactive"}
        /\ account' = [a \in Accounts |-> IF a \in gone THEN "deleted" ELSE account[a]]
        /\ password' = password \ gone
        /\ session' = Revoking(gone)
        /\ link' = Superseding(gone)
        /\ signIn' = [p \in Profiles |-> IF ParentOf[p] = u THEN None ELSE signIn[p]]
        /\ UNCHANGED <<removed, expired, form, admitted>>

-----------------------------------------------------------------------------
Public ==
    \/ \E x \in Forms : SetupPassword(x) \/ \E l \in Links : OpenForm(x, l)
    \/ \E s \in Sessions : BeginSignIn(s) \/ SignedIn(s) \/ SignOut(s)
    \/ \E u \in Parents, s \in Sessions : Register(u, s)

Family ==
    \/ \E u \in Parents : Authenticate(u) \/ EndWithoutEffect(u)
    \/ \E k \in Kids, l \in Links : Grant(k, l)
    \/ \E p \in Profiles : RevokeSignIn(p) \/ RemoveProfile(p)

Admin ==
    \/ \E u \in Parents, l \in Links : CreateUser(u, l)
    \/ \E a \in Accounts, l \in Links : Reinvite(a, l)
    \/ \E u \in Accounts : Deactivate(u) \/ Reactivate(u) \/ Erase(u)

Next == Public \/ Family \/ Admin \/ \E l \in Links : Expire(l)

Spec == Init /\ [][Next]_vars

-----------------------------------------------------------------------------
(* Properties *)

\* FR-028: re-inviting leaves an account one link that is neither used nor
\* replaced, whatever forms are in flight.
OneOutstanding ==
    \A l, m \in Links :
        link[l] = "outstanding" /\ link[m] = "outstanding" /\ HolderOf[l] = HolderOf[m] => l = m

\* FR-027, FR-039: an erased account, or a child's account erased with the
\* family, has no link left that could be used.
ErasedHasNoLink ==
    \A l \in Links : link[l] = "outstanding" => account[HolderOf[l]] # "deleted"

\* FR-026, FR-129: nobody but the holder of a child's setup link gives that
\* account its password, and doing so uses the link up.
PasswordUsedALink ==
    \A k \in Kids : k \in password => \E l \in Links : HolderOf[l] = k /\ link[l] = "consumed"

\* FR-135: no credential outlives the player it belongs to.  The cascade of
\* list_signed_in_children relies on it.
RemovedHasNoSignIn == \A p \in removed : signIn[p] = None

\* A used or replaced link that no request in flight has read.
Spent(l) == link[l] \in {"consumed", "superseded"} /\ \A x \in Forms : form[x] # l

\* FR-027, FR-028: such a link is dead for good, whatever is issued, erased or
\* expires: only requests that read a link while it was good use it late.
SpentForGood == [][\A l \in Links : Spent(l) => Spent(l)']_vars

\* FR-012, FR-134, FR-136: whichever operation takes an account out of Active
\* status ends its sessions in the same step, and those of the child sign-ins
\* its profiles name.  (A child erased earlier can no longer use one.)
LosingStatusEndsSessions ==
    [][\A u \in Accounts, s \in Sessions :
          /\ account[u] = "active" /\ account'[u] # "active"
          /\ account[UserOf[s]] # "deleted"
          /\ UserOf[s] = u \/ \E p \in Profiles : ParentOf[p] = u /\ signIn[p] = UserOf[s]
          => session'[s] # "open"]_vars

\* FR-135: "MUST NOT allow a child account to convert itself into an
\* independent account" (001 spec.md).  No step takes an Active account off
\* the profile it was made for and leaves it Active.
ChildStaysChild ==
    [][\A k \in Kids :
          LET p == ProfileOf[k]
          IN  signIn[p] = k /\ account[k] = "active" /\ account'[k] = "active" => signIn'[p] = k]_vars
=============================================================================
