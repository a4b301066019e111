--------------------------- MODULE CredentialsProofs ---------------------------
(***************************************************************************)
(* Theorems about Credentials, for every number of families, links, forms  *)
(* in flight and sessions.                                                 *)
(***************************************************************************)
EXTENDS Credentials, TLAPS

USE CredentialsAssumption DEF Accounts

\* Every variable keeps its type in every reachable state.
LEMMA TypeStep == TypeOK /\ [Next]_vars => TypeOK'
<1> SUFFICES ASSUME TypeOK, [Next]_vars PROVE TypeOK'
  OBVIOUS
<1> USE DEF TypeOK, linkVars, familyVars
<1>1. ASSUME NEW x \in Forms, SetupPassword(x) PROVE TypeOK'
  BY <1>1 DEF SetupPassword, Consume
<1>2. ASSUME NEW x \in Forms, NEW l \in Links, OpenForm(x, l) PROVE TypeOK'
  BY <1>2 DEF OpenForm
<1>3. ASSUME NEW s \in Sessions, BeginSignIn(s) \/ SignedIn(s) \/ SignOut(s) PROVE TypeOK'
  BY <1>3 DEF BeginSignIn, SignedIn, SignOut
<1>4. ASSUME NEW u \in Parents, NEW s \in Sessions, Register(u, s) PROVE TypeOK'
  BY <1>4 DEF Register
<1>5. ASSUME NEW u \in Parents, Authenticate(u) \/ EndWithoutEffect(u) PROVE TypeOK'
  BY <1>5 DEF Authenticate, EndWithoutEffect, Serve
<1>6. ASSUME NEW k \in Kids, NEW l \in Links, Grant(k, l) PROVE TypeOK'
  BY <1>6 DEF Grant, Serve, Issue, Superseding
<1>7. ASSUME NEW p \in Profiles, RevokeSignIn(p) \/ RemoveProfile(p) PROVE TypeOK'
  BY <1>7 DEF RevokeSignIn, RemoveProfile, Serve, EndSignIn, Revoking
<1>8. ASSUME NEW u \in Parents, NEW l \in Links, CreateUser(u, l) PROVE TypeOK'
  BY <1>8 DEF CreateUser, Issue, Superseding
<1>9. ASSUME NEW a \in Accounts, NEW l \in Links, Reinvite(a, l) PROVE TypeOK'
  BY <1>9 DEF Reinvite, Issue, Superseding
<1>10. ASSUME NEW u \in Accounts, Deactivate(u) \/ Reactivate(u) PROVE TypeOK'
  BY <1>10 DEF Deactivate, Reactivate, Revoking
<1>11. ASSUME NEW u \in Accounts, Erase(u) PROVE TypeOK'
  BY <1>11 DEF Erase, Revoking, Superseding
<1>12. ASSUME NEW l \in Links, Expire(l) PROVE TypeOK'
  BY <1>12 DEF Expire
<1>13. CASE UNCHANGED vars
  BY <1>13 DEF vars
<1>14. QED
  BY <1>1, <1>2, <1>3, <1>4, <1>5, <1>6, <1>7, <1>8, <1>9, <1>10, <1>11, <1>12, <1>13
     DEF Next, Public, Family, Admin

THEOREM TypeCorrect == Spec => []TypeOK
<1>1. Init => TypeOK
  BY DEF Init, TypeOK
<1>2. QED BY <1>1, TypeStep, PTL DEF Spec

-----------------------------------------------------------------------------
(***************************************************************************)
(* Setup links.  What a step does to the links takes one of four forms,    *)
(* and each of them keeps the invariants; only Issue makes a link usable,  *)
(* and it supersedes the account's other links first.                      *)
(***************************************************************************)

\* What a step may do to setup links.
Untouched == UNCHANGED link
Issues == \E a \in Accounts, l \in Links : Issue(a, l) /\ account'[a] = "active"
Consumes == \E l \in Links : Consume(l)
Supersedes == \E as \in SUBSET Accounts : link' = Superseding(as)

\* Every step does one of the four.
LEMMA LinkSteps ==
    TypeOK /\ [Next]_vars => Untouched \/ Issues \/ Consumes \/ Supersedes
<1> SUFFICES ASSUME TypeOK, [Next]_vars PROVE Untouched \/ Issues \/ Consumes \/ Supersedes
  OBVIOUS
<1>1. ASSUME NEW x \in Forms, SetupPassword(x) PROVE Consumes
  BY <1>1 DEF SetupPassword, Consumes, TypeOK
<1>2. ASSUME NEW x \in Forms, NEW l \in Links, OpenForm(x, l) PROVE Untouched
  BY <1>2 DEF OpenForm, Untouched, linkVars
<1>3. ASSUME NEW s \in Sessions, BeginSignIn(s) \/ SignedIn(s) \/ SignOut(s) PROVE Untouched
  BY <1>3 DEF BeginSignIn, SignedIn, SignOut, Untouched, linkVars
<1>4. ASSUME NEW u \in Parents, NEW s \in Sessions, Register(u, s) PROVE Untouched
  BY <1>4 DEF Register, Untouched, linkVars
<1>5. ASSUME NEW u \in Parents, Authenticate(u) \/ EndWithoutEffect(u) PROVE Untouched
  BY <1>5 DEF Authenticate, EndWithoutEffect, Untouched, linkVars
<1>6. ASSUME NEW k \in Kids, NEW l \in Links, Grant(k, l) PROVE Issues
  <2>1. Issue(k, l) /\ account'[k] = "active"
    BY <1>6 DEF Grant, TypeOK
  <2>2. QED BY <2>1 DEF Issues
<1>7. ASSUME NEW p \in Profiles, RevokeSignIn(p) \/ RemoveProfile(p) PROVE Untouched
  BY <1>7 DEF RevokeSignIn, RemoveProfile, Untouched, linkVars
<1>8. ASSUME NEW u \in Parents, NEW l \in Links, CreateUser(u, l) PROVE Issues
  <2>1. Issue(u, l) /\ account'[u] = "active"
    BY <1>8 DEF CreateUser, TypeOK
  <2>2. QED BY <2>1 DEF Issues
<1>9. ASSUME NEW a \in Accounts, NEW l \in Links, Reinvite(a, l) PROVE Issues
  <2>1. Issue(a, l) /\ account'[a] = "active"
    BY <1>9 DEF Reinvite, TypeOK
  <2>2. QED BY <2>1 DEF Issues
<1>10. ASSUME NEW u \in Accounts, Deactivate(u) \/ Reactivate(u) PROVE Untouched
  BY <1>10 DEF Deactivate, Reactivate, Untouched, linkVars
<1>11. ASSUME NEW u \in Accounts, Erase(u) PROVE Supersedes
  BY <1>11 DEF Erase, Supersedes, SignedInChildren
<1>12. ASSUME NEW l \in Links, Expire(l) PROVE Untouched
  BY <1>12 DEF Expire, Untouched
<1>13. CASE UNCHANGED vars
  BY <1>13 DEF vars, Untouched
<1>14. QED
  BY <1>1, <1>2, <1>3, <1>4, <1>5, <1>6, <1>7, <1>8, <1>9, <1>10, <1>11, <1>12, <1>13
     DEF Next, Public, Family, Admin

\* FR-028: whatever forms are in flight, an account has one outstanding link.
LEMMA OneOutstandingStep == TypeOK /\ OneOutstanding /\ [Next]_vars => OneOutstanding'
<1> SUFFICES ASSUME TypeOK, OneOutstanding, [Next]_vars PROVE OneOutstanding'
  OBVIOUS
<1> USE DEF OneOutstanding, TypeOK
<1>1. CASE Untouched
  BY <1>1 DEF Untouched
<1>2. CASE Issues
  <2>1. PICK a \in Accounts, l \in Links : Issue(a, l)
    BY <1>2 DEF Issues
  <2>2. link'[l] = "outstanding" /\ HolderOf[l] = a
    BY <2>1 DEF Issue, Superseding
  <2>3. ASSUME NEW m \in Links, m # l
        PROVE  /\ HolderOf[m] = a => link'[m] # "outstanding"
               /\ link'[m] = "outstanding" => link[m] = "outstanding"
    BY <2>1, <2>3 DEF Issue, Superseding, Outstanding
  <2>4. QED BY <2>2, <2>3
<1>3. CASE Consumes
  BY <1>3 DEF Consumes, Consume
<1>4. CASE Supersedes
  <2>1. \A l \in Links : link'[l] = "outstanding" => link[l] = "outstanding"
    BY <1>4 DEF Supersedes, Superseding
  <2>2. QED BY <2>1
<1>5. QED BY <1>1, <1>2, <1>3, <1>4, LinkSteps

\* FR-028: an account has at most one outstanding setup link.
THEOREM OneOutstandingHolds == Spec => []OneOutstanding
<1>1. Init => OneOutstanding
  BY DEF Init, OneOutstanding
<1>2. QED BY <1>1, TypeCorrect, OneOutstandingStep, PTL DEF Spec

\* FR-026: a consumed link stays consumed.
LEMMA ConsumedStays ==
    ASSUME TypeOK, [Next]_vars, NEW l \in Links, link[l] = "consumed" PROVE link'[l] = "consumed"
<1>1. CASE Issues
  BY <1>1 DEF Issues, Issue, Superseding, Outstanding, TypeOK
<1>2. CASE Supersedes
  BY <1>2 DEF Supersedes, Superseding, Outstanding
<1>3. QED BY <1>1, <1>2, LinkSteps DEF Untouched, Consumes, Consume, TypeOK

\* Who is erased: only by erasing, and the links go in the same step.
LEMMA ErasureStep ==
    ASSUME TypeOK, [Next]_vars, NEW a \in Accounts, account[a] # "deleted", account'[a] = "deleted"
    PROVE  \A l \in Links : HolderOf[l] = a => link'[l] # "outstanding"
<1>1. PICK u \in Accounts : Erase(u)
  <2>1. ASSUME NEW p \in Profiles, RevokeSignIn(p) \/ RemoveProfile(p) PROVE FALSE
    BY <2>1 DEF RevokeSignIn, RemoveProfile, EndSignIn, TypeOK
  <2>2. ASSUME NEW k \in Kids, NEW l \in Links, Grant(k, l) PROVE FALSE
    BY <2>2 DEF Grant, TypeOK
  <2>3. CASE Public
    BY <2>3 DEF Public, SetupPassword, OpenForm, BeginSignIn, SignedIn, SignOut, Register, TypeOK
  <2>4. ASSUME NEW v \in Parents, Authenticate(v) \/ EndWithoutEffect(v) PROVE FALSE
    BY <2>4 DEF Authenticate, EndWithoutEffect
  <2>5. ASSUME NEW v \in Accounts, Deactivate(v) \/ Reactivate(v) PROVE FALSE
    BY <2>5 DEF Deactivate, Reactivate, TypeOK
  <2>6. ASSUME NEW l \in Links,
               (\E v \in Parents : CreateUser(v, l)) \/ (\E v \in Accounts : Reinvite(v, l)) \/ Expire(l)
        PROVE FALSE
    BY <2>6 DEF CreateUser, Reinvite, Expire, TypeOK
  <2>7. CASE UNCHANGED vars
    BY <2>7 DEF vars
  <2>8. QED BY <2>1, <2>2, <2>3, <2>4, <2>5, <2>6, <2>7 DEF Next, Family, Admin
<1>2. QED BY <1>1 DEF Erase, Superseding, Outstanding, TypeOK

LEMMA ErasedHasNoLinkStep == TypeOK /\ ErasedHasNoLink /\ [Next]_vars => ErasedHasNoLink'
<1> SUFFICES ASSUME TypeOK, ErasedHasNoLink, [Next]_vars,
                    NEW l \in Links, link'[l] = "outstanding", account'[HolderOf[l]] = "deleted"
             PROVE  FALSE
  BY DEF ErasedHasNoLink
<1>1. account[HolderOf[l]] = "deleted"
  BY ErasureStep
<1>2. link[l] # "outstanding"
  BY <1>1 DEF ErasedHasNoLink
<1>3. PICK a \in Accounts, m \in Links : Issue(a, m) /\ account'[a] = "active"
  BY <1>2, LinkSteps DEF Untouched, Consumes, Consume, Supersedes, Superseding, Issues, TypeOK
<1>4. l = m
  BY <1>2, <1>3 DEF Issue, Superseding, TypeOK
<1>5. QED BY <1>3, <1>4 DEF Issue

\* FR-027, FR-039: an erased account has no link left that could be used.
THEOREM ErasedHasNoLinkHolds == Spec => []ErasedHasNoLink
<1>1. Init => ErasedHasNoLink
  BY DEF Init, ErasedHasNoLink
<1>2. QED BY <1>1, TypeCorrect, ErasedHasNoLinkStep, PTL DEF Spec

-----------------------------------------------------------------------------
(* Passwords and sign-ins of children *)

LEMMA PasswordStep == TypeOK /\ PasswordUsedALink /\ [Next]_vars => PasswordUsedALink'
<1> SUFFICES ASSUME TypeOK, PasswordUsedALink, [Next]_vars, NEW k \in Kids, k \in password'
             PROVE  \E l \in Links : HolderOf[l] = k /\ link'[l] = "consumed"
  BY DEF PasswordUsedALink
<1>1. CASE k \in password
  BY <1>1, ConsumedStays DEF PasswordUsedALink
<1>2. CASE k \notin password
  <2>1. PICK x \in Forms : SetupPassword(x)
    <3>1. ASSUME NEW u \in Parents, NEW s \in Sessions, Register(u, s) PROVE FALSE
      BY <3>1, <1>2 DEF Register
    <3>2. ASSUME NEW x \in Forms, NEW l \in Links, OpenForm(x, l) PROVE FALSE
      BY <3>2, <1>2 DEF OpenForm
    <3>3. ASSUME NEW s \in Sessions, BeginSignIn(s) \/ SignedIn(s) \/ SignOut(s) PROVE FALSE
      BY <3>3, <1>2 DEF BeginSignIn, SignedIn, SignOut
    <3>4. CASE Family
      BY <3>4, <1>2 DEF Family, Authenticate, EndWithoutEffect, Grant, RevokeSignIn, RemoveProfile
    <3>5. CASE Admin
      BY <3>5, <1>2 DEF Admin, CreateUser, Reinvite, Deactivate, Reactivate, Erase
    <3>6. ASSUME NEW l \in Links, Expire(l) PROVE FALSE
      BY <3>6, <1>2 DEF Expire
    <3>7. CASE UNCHANGED vars
      BY <3>7, <1>2 DEF vars
    <3>8. QED BY <3>1, <3>2, <3>3, <3>4, <3>5, <3>6, <3>7 DEF Next, Public
  <2>2. HolderOf[form[x]] = k /\ form[x] \in Links
    BY <2>1, <1>2 DEF SetupPassword, TypeOK
  <2>3. link'[form[x]] = "consumed"
    BY <2>1, <2>2 DEF SetupPassword, Consume, TypeOK
  <2>4. QED BY <2>2, <2>3
<1>3. QED BY <1>1, <1>2

\* FR-026, FR-129: a child's password was set by the holder of a setup link,
\* which setting it used up.
THEOREM PasswordsAreSetByLink == Spec => []PasswordUsedALink
<1>1. Init => PasswordUsedALink
  BY DEF Init, PasswordUsedALink
<1>2. QED BY <1>1, TypeCorrect, PasswordStep, PTL DEF Spec

LEMMA RemovedStep == TypeOK /\ RemovedHasNoSignIn /\ [Next]_vars => RemovedHasNoSignIn'
<1> SUFFICES ASSUME TypeOK, RemovedHasNoSignIn, [Next]_vars PROVE RemovedHasNoSignIn'
  OBVIOUS
<1> USE DEF RemovedHasNoSignIn
<1>1. CASE Public
  BY <1>1 DEF Public, SetupPassword, OpenForm, BeginSignIn, SignedIn, SignOut, Register, familyVars
<1>2. ASSUME NEW k \in Kids, NEW l \in Links, Grant(k, l) PROVE RemovedHasNoSignIn'
  BY <1>2 DEF Grant, TypeOK
<1>3. ASSUME NEW p \in Profiles, RevokeSignIn(p) \/ RemoveProfile(p) PROVE RemovedHasNoSignIn'
  BY <1>3 DEF RevokeSignIn, RemoveProfile, EndSignIn, TypeOK
<1>4. ASSUME NEW u \in Parents, Authenticate(u) \/ EndWithoutEffect(u) PROVE RemovedHasNoSignIn'
  BY <1>4 DEF Authenticate, EndWithoutEffect, familyVars
<1>5. ASSUME NEW u \in Accounts, Erase(u) PROVE RemovedHasNoSignIn'
  BY <1>5 DEF Erase, TypeOK
<1>6. ASSUME NEW u \in Accounts, Deactivate(u) \/ Reactivate(u) PROVE RemovedHasNoSignIn'
  BY <1>6 DEF Deactivate, Reactivate, familyVars
<1>7. ASSUME NEW l \in Links,
             (\E v \in Parents : CreateUser(v, l)) \/ (\E v \in Accounts : Reinvite(v, l)) \/ Expire(l)
      PROVE RemovedHasNoSignIn'
  BY <1>7 DEF CreateUser, Reinvite, Expire, familyVars
<1>8. CASE UNCHANGED vars
  BY <1>8 DEF vars
<1>9. QED BY <1>1, <1>2, <1>3, <1>4, <1>5, <1>6, <1>7, <1>8 DEF Next, Family, Admin

\* FR-135: a removed profile names no sign-in.
THEOREM RemovedProfilesHaveNoSignIn == Spec => []RemovedHasNoSignIn
<1>1. Init => RemovedHasNoSignIn
  BY DEF Init, RemovedHasNoSignIn
<1>2. QED BY <1>1, TypeCorrect, RemovedStep, PTL DEF Spec

-----------------------------------------------------------------------------
(***************************************************************************)
(* Losing access.  Three steps take an account out of Active status: an    *)
(* admin's deactivation, an erasure, and the end of a child's sign-in.     *)
(***************************************************************************)

\* The sessions named in the property: the account's own and its children's.
Depends(s, u) == UserOf[s] = u \/ \E p \in Profiles : ParentOf[p] = u /\ signIn[p] = UserOf[s]

\* Revoking the sessions of `as' leaves none of them open.
LEMMA Revoked ==
    ASSUME NEW as, NEW s \in Sessions, UserOf[s] \in as
    PROVE  Revoking(as)[s] # "open"
BY DEF Revoking

LEMMA LosingStep ==
    ASSUME TypeOK, [Next]_vars, NEW u \in Accounts, NEW s \in Sessions,
           account[u] = "active", account'[u] # "active",
           account[UserOf[s]] # "deleted", Depends(s, u)
    PROVE  session'[s] # "open"
<1>1. UserOf[s] = u \/ (u \in Parents /\ UserOf[s] \in SignedInChildren(u))
  BY DEF Depends, SignedInChildren, TypeOK
<1>2. ASSUME NEW v \in Accounts, Deactivate(v) PROVE session'[s] # "open"
  <2>1. v = u
    BY <1>2 DEF Deactivate, TypeOK
  <2>2. UserOf[s] \in {v} \cup SignedInChildren(v)
    BY <1>1, <2>1
  <2>3. QED BY <1>2, <2>2, Revoked DEF Deactivate
<1>3. ASSUME NEW v \in Accounts, Erase(v) PROVE session'[s] # "open"
  <2> DEFINE gone == {v} \cup {k \in SignedInChildren(v) : account[k] # "deleted"}
  <2>1. u \in gone
    BY <1>3 DEF Erase, TypeOK
  <2>2. UserOf[s] \in gone
    <3>1. CASE UserOf[s] = u
      BY <3>1, <2>1
    <3>2. CASE u \in Parents /\ UserOf[s] \in SignedInChildren(u)
      BY <3>2, <2>1 DEF SignedInChildren
    <3>3. QED BY <1>1, <3>1, <3>2
  <2>3. session' = Revoking(gone)
    BY <1>3 DEF Erase
  <2>4. QED BY <2>2, <2>3, Revoked
<1>4. ASSUME NEW p \in Profiles, RevokeSignIn(p) \/ RemoveProfile(p) PROVE session'[s] # "open"
  <2>1. u = signIn[p] /\ session' = Revoking({signIn[p]})
    BY <1>4 DEF RevokeSignIn, RemoveProfile, EndSignIn, TypeOK
  <2>2. u \in Kids
    BY <2>1 DEF TypeOK
  <2>3. UserOf[s] \in {signIn[p]}
    BY <1>1, <2>1, <2>2
  <2>4. QED BY <2>1, <2>3, Revoked
<1>5. CASE Public
  BY <1>5 DEF Public, SetupPassword, OpenForm, BeginSignIn, SignedIn, SignOut, Register, TypeOK
<1>6. ASSUME NEW v \in Parents, Authenticate(v) \/ EndWithoutEffect(v) PROVE FALSE
  BY <1>6 DEF Authenticate, EndWithoutEffect
<1>7. ASSUME NEW k \in Kids, NEW l \in Links, Grant(k, l) PROVE FALSE
  BY <1>7 DEF Grant, TypeOK
<1>8. ASSUME NEW l \in Links,
             (\E v \in Parents : CreateUser(v, l)) \/ (\E v \in Accounts : Reinvite(v, l)) \/ Expire(l)
      PROVE FALSE
  BY <1>8 DEF CreateUser, Reinvite, Expire, TypeOK
<1>9. ASSUME NEW v \in Accounts, Reactivate(v) PROVE FALSE
  BY <1>9 DEF Reactivate, TypeOK
<1>10. CASE UNCHANGED vars
  BY <1>10 DEF vars
<1>11. QED
  BY <1>2, <1>3, <1>4, <1>5, <1>6, <1>7, <1>8, <1>9, <1>10 DEF Next, Family, Admin

\* FR-012, FR-134, FR-136: losing Active status ends the account's sessions and
\* those of the child sign-ins that depend on it, in the same step.
THEOREM LosingStatusRevokes == Spec => LosingStatusEndsSessions
<1>1. TypeOK /\ [Next]_vars =>
        [\A u \in Accounts, s \in Sessions :
          /\ account[u] = "active" /\ account'[u] # "active"
          /\ account[UserOf[s]] # "deleted"
          /\ UserOf[s] = u \/ \E p \in Profiles : ParentOf[p] = u /\ signIn[p] = UserOf[s]
          => session'[s] # "open"]_vars
  BY LosingStep DEF Depends
<1>2. QED BY <1>1, TypeCorrect, PTL DEF Spec, LosingStatusEndsSessions

-----------------------------------------------------------------------------
(***************************************************************************)
(* How far the run Credentials_independent goes: ChildStaysChild fails,    *)
(* and there are exactly two ways for a child's account to become an       *)
(* independent one.                                                        *)
(***************************************************************************)
Independent(k) == account[k] = "active" /\ signIn[ProfileOf[k]] # k

\* A second sign-in, granted over k's, whose account is new.
Displaced(k) ==
    \E j \in Kids \ {k} : account[j] = "none" /\ signIn'[ProfileOf[k]] = j

\* FR-135: a child's account is Active on no profile only after another sign-in
\* took its place, or after an admin reactivated it; revoking the sign-in,
\* removing the profile or erasing the parent never leaves it so, in any order.
IndependentTwoWaysOnly ==
    [][\A k \in Kids : ~Independent(k) /\ Independent(k)' =>
          account[k] = "inactive" \/ Displaced(k)]_vars

LEMMA IndependentStep ==
  ASSUME TypeOK, [Next]_vars, NEW k \in Kids, ~Independent(k), Independent(k)',
         account[k] # "inactive"
  PROVE  Displaced(k)
<1> USE DEF TypeOK, Independent
<1>1. ASSUME NEW j \in Kids, NEW l \in Links, Grant(j, l) PROVE Displaced(k)
  <2>1. /\ account[j] = "none" /\ account' = [account EXCEPT ![j] = "active"]
        /\ signIn' = [signIn EXCEPT ![ProfileOf[j]] = j]
    BY <1>1 DEF Grant
  <2>2. j # k
    BY <2>1
  <2>3. account[k] = "active" /\ signIn[ProfileOf[k]] = k
    BY <2>1, <2>2
  <2>4. ProfileOf[j] = ProfileOf[k] /\ signIn'[ProfileOf[k]] = j
    BY <2>1, <2>3
  <2>5. QED BY <2>1, <2>2, <2>4 DEF Displaced
<1>2. ASSUME NEW p \in Profiles, RevokeSignIn(p) \/ RemoveProfile(p) PROVE FALSE
  BY <1>2 DEF RevokeSignIn, RemoveProfile, EndSignIn
<1>3. ASSUME NEW u \in Accounts, Erase(u) PROVE FALSE
  <2>1. account[k] = "active" /\ account'[k] = "active" /\ signIn[ProfileOf[k]] = k
    BY <1>3 DEF Erase
  <2>2. ParentOf[ProfileOf[k]] = u
    BY <1>3, <2>1 DEF Erase
  <2>3. k \in SignedInChildren(u)
    BY <2>1, <2>2 DEF SignedInChildren
  <2>4. account'[k] = "deleted"
    BY <1>3, <2>1, <2>3 DEF Erase
  <2>5. QED BY <2>1, <2>4
<1>4. ASSUME NEW u \in Accounts, Deactivate(u) \/ Reactivate(u) PROVE FALSE
  BY <1>4 DEF Deactivate, Reactivate, familyVars
<1>5. CASE Public
  BY <1>5 DEF Public, SetupPassword, OpenForm, BeginSignIn, SignedIn, SignOut, Register, familyVars
<1>6. ASSUME NEW u \in Parents, Authenticate(u) \/ EndWithoutEffect(u) PROVE FALSE
  BY <1>6 DEF Authenticate, EndWithoutEffect, familyVars
<1>7. ASSUME NEW l \in Links,
             (\E v \in Parents : CreateUser(v, l)) \/ (\E v \in Accounts : Reinvite(v, l)) \/ Expire(l)
      PROVE FALSE
  BY <1>7 DEF CreateUser, Reinvite, Expire, familyVars
<1>8. CASE UNCHANGED vars
  BY <1>8 DEF vars
<1>9. QED BY <1>1, <1>2, <1>3, <1>4, <1>5, <1>6, <1>7, <1>8 DEF Next, Family, Admin

THEOREM ChildrenBecomeIndependentTwoWays == Spec => IndependentTwoWaysOnly
<1>1. TypeOK /\ [Next]_vars =>
        \A k \in Kids : ~Independent(k) /\ Independent(k)' =>
            account[k] = "inactive" \/ Displaced(k)
  BY IndependentStep
<1>2. QED BY <1>1, TypeCorrect, PTL DEF Spec, IndependentTwoWaysOnly

-----------------------------------------------------------------------------
(* Setup links that are used or replaced *)

LEMMA SpentStep ==
  ASSUME TypeOK, [Next]_vars, NEW l \in Links, Spent(l)
  PROVE  Spent(l)'
<1>1. link'[l] \in {"consumed", "superseded"}
  <2>1. CASE Issues
    BY <2>1 DEF Issues, Issue, Superseding, TypeOK, Spent
  <2>2. CASE Supersedes
    BY <2>2 DEF Supersedes, Superseding, Spent
  <2>3. QED BY <2>1, <2>2, LinkSteps DEF Untouched, Consumes, Consume, TypeOK, Spent
<1>2. \A x \in Forms : form'[x] # l
  <2>1. ASSUME NEW x \in Forms, NEW m \in Links, OpenForm(x, m) PROVE \A y \in Forms : form'[y] # l
    BY <2>1 DEF OpenForm, Usable, Spent, TypeOK
  <2>2. ASSUME NEW x \in Forms, SetupPassword(x) PROVE \A y \in Forms : form'[y] # l
    BY <2>2, CredentialsAssumption DEF SetupPassword, Spent, TypeOK
  <2>3. CASE UNCHANGED form
    BY <2>3 DEF Spent
  <2>4. QED
    BY <2>1, <2>2, <2>3 DEF Next, Public, Family, Admin, BeginSignIn, SignedIn, SignOut, Register,
       Authenticate, EndWithoutEffect, Grant, RevokeSignIn, RemoveProfile, CreateUser, Reinvite,
       Deactivate, Reactivate, Erase, Expire, vars
<1>3. QED BY <1>1, <1>2 DEF Spent

\* FR-027, FR-028: only a request that read a link while it was good uses it
\* once it was used or replaced.
THEOREM SpentLinksStayDead == Spec => SpentForGood
<1>1. TypeOK /\ [Next]_vars => \A l \in Links : Spent(l) => Spent(l)'
  BY SpentStep
<1>2. QED BY <1>1, TypeCorrect, PTL DEF Spec, SpentForGood
=============================================================================
