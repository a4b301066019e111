------------------------ MODULE CoachInvitationsProofs ------------------------
(***************************************************************************)
(* Theorems about CoachInvitations, for every number of trainers, people,  *)
(* addresses and invitations.                                              *)
(***************************************************************************)
EXTENDS CoachInvitations, TLAPS

USE InvitationsAssumption

\* Every variable keeps its type in every reachable state.
LEMMA TypeStep == TypeOK /\ [Next]_vars => TypeOK'
<1> SUFFICES ASSUME TypeOK, [Next]_vars PROVE TypeOK'
  OBVIOUS
<1> USE DEF TypeOK, Actors, InvitationState, invitationVars, registerVars
<1>1. ASSUME NEW u \in Actors, Authenticate(u) \/ EndWithoutEffect(u) PROVE TypeOK'
  BY <1>1 DEF Authenticate, EndWithoutEffect, Serve
<1>2. ASSUME NEW u \in Actors, Deactivate(u) \/ Reactivate(u) \/ Erase(u) PROVE TypeOK'
  BY <1>2 DEF Deactivate, Reactivate, Erase, ChangeStatus
<1>3. ASSUME NEW i \in Invitations, TrainerStep(i) PROVE TypeOK'
  <2>1. CASE Issue(i)
    <3>1. state[i] = "unissued" /\ state' = [state EXCEPT ![i] = "awaiting"] /\ takenBy' = takenBy
      BY <2>1 DEF Issue, Insert
    <3>2. \A k \in Invitations : state'[k] = "accepted" <=> takenBy'[k] # None
      BY <3>1
    <3>3. QED BY <2>1, <3>1, <3>2 DEF Issue, Insert, Serve
  <2>2. CASE Revoke(i)
    BY <2>2 DEF Revoke, Revocable, Spendable, Serve
  <2>3. ASSUME NEW j \in Invitations, Resend(i, j) PROVE TypeOK'
    BY <2>3 DEF Resend, Insert, Serve
  <2>4. QED BY <1>3, <2>1, <2>2, <2>3 DEF TrainerStep
<1>4. ASSUME NEW a \in Accounts, InviteeStep(a) PROVE TypeOK'
  <2>1. ASSUME NEW i \in Invitations, Accept(a, i) PROVE TypeOK'
    BY <2>1 DEF Accept, Spend, Serve
  <2>2. ASSUME NEW i \in Invitations, Block(a, i) PROVE TypeOK'
    BY <2>2 DEF Block, Serve
  <2>3. ASSUME NEW i \in Invitations, OpenRegistration(a, i) PROVE TypeOK'
    BY <2>3 DEF OpenRegistration
  <2>4. CASE Register(a)
    BY <2>4 DEF Register, Spend, EndRegistration
  <2>5. CASE RegisterOrphan(a)
    BY <2>5 DEF RegisterOrphan, EndRegistration
  <2>6. CASE RegisterConflict(a)
    BY <2>6 DEF RegisterConflict, EndRegistration
  <2>7. CASE EndAssignment(a)
    BY <2>7 DEF EndAssignment, Serve
  <2>8. CASE CreateUser(a)
    BY <2>8 DEF CreateUser
  <2>9. QED BY <1>4, <2>1, <2>2, <2>3, <2>4, <2>5, <2>6, <2>7, <2>8 DEF InviteeStep
<1>5. CASE Tick
  BY <1>5 DEF Tick, LifeLeft, Spendable
<1>6. CASE UNCHANGED vars
  BY <1>6 DEF vars
<1>7. QED BY <1>1, <1>2, <1>3, <1>4, <1>5, <1>6 DEF Next

THEOREM TypeCorrect == Spec => []TypeOK
<1>1. Init => TypeOK
  BY DEF Init, TypeOK, Actors, InvitationState
<1>2. QED BY <1>1, TypeStep, PTL DEF Spec

-----------------------------------------------------------------------------
(***************************************************************************)
(* The inductive invariant.  What a registration remembers about its       *)
(* address and role stays true while it waits, and an account that does    *)
(* not exist yet has no request in flight and no roster: without these the *)
(* step Register could seat a coach who already sits elsewhere.            *)
(***************************************************************************)
OpenedIsUnmade ==
    \A a \in Accounts : opened[a] # None =>
        account[a] = "none" /\ a \in Coaches /\ AddressOf[a] = InvitedOf[opened[a]]

UnmadeIsNowhere ==
    \A a \in Accounts : account[a] = "none" => roster[a] = None /\ a \notin admitted

IInv ==
    /\ OpenedIsUnmade
    /\ UnmadeIsNowhere
    /\ RosterIsBacked
    /\ OneAccountPerAddress

LEMMA IInvInit == Init => IInv
BY DEF Init, IInv, OpenedIsUnmade, UnmadeIsNowhere, RosterIsBacked, OneAccountPerAddress, Actors

\* A step that touches none of the people and spends nothing keeps IInv.
LEMMA IInvFrame ==
  ASSUME TypeOK, IInv,
         \A i \in Invitations : state[i] = "accepted" => state'[i] = "accepted",
         UNCHANGED takenBy, UNCHANGED account, UNCHANGED roster, UNCHANGED opened,
         \A u \in admitted' : u \in admitted \/ account[u] # "none"
  PROVE  IInv'
BY DEF IInv, OpenedIsUnmade, UnmadeIsNowhere, RosterIsBacked, OneAccountPerAddress

LEMMA IInvStep == TypeOK /\ IInv /\ [Next]_vars => IInv'
<1> SUFFICES ASSUME TypeOK, IInv, [Next]_vars PROVE IInv'
  OBVIOUS
<1> USE DEF Actors, invitationVars, registerVars
<1>1. ASSUME NEW u \in Actors, Authenticate(u) \/ EndWithoutEffect(u) PROVE IInv'
  BY <1>1, IInvFrame DEF Authenticate, EndWithoutEffect, Serve
<1>2. ASSUME NEW u \in Actors, Deactivate(u) \/ Reactivate(u) \/ Erase(u) PROVE IInv'
  BY <1>2 DEF Deactivate, Reactivate, Erase, ChangeStatus, TypeOK,
              IInv, OpenedIsUnmade, UnmadeIsNowhere, RosterIsBacked, OneAccountPerAddress
<1>3. ASSUME NEW i \in Invitations, TrainerStep(i) PROVE IInv'
  <2>1. CASE Issue(i)
    BY <2>1, IInvFrame DEF Issue, Insert, Serve, TypeOK
  <2>2. CASE Revoke(i)
    BY <2>2, IInvFrame DEF Revoke, Revocable, Spendable, Serve, TypeOK
  <2>3. ASSUME NEW j \in Invitations, Resend(i, j) PROVE IInv'
    BY <2>3, IInvFrame DEF Resend, Insert, Serve, TypeOK
  <2>4. QED BY <1>3, <2>1, <2>2, <2>3 DEF TrainerStep
<1>4. ASSUME NEW a \in Accounts, InviteeStep(a) PROVE IInv'
  <2> USE DEF IInv, OpenedIsUnmade, UnmadeIsNowhere, RosterIsBacked, OneAccountPerAddress, TypeOK
  <2>1. ASSUME NEW i \in Invitations, Accept(a, i) PROVE IInv'
    BY <2>1 DEF Accept, Unattached, Usable, Spendable, Spend, Serve
  <2>2. ASSUME NEW i \in Invitations, Block(a, i) PROVE IInv'
    BY <2>2 DEF Block, Serve
  <2>3. ASSUME NEW i \in Invitations, OpenRegistration(a, i) PROVE IInv'
    BY <2>3 DEF OpenRegistration
  <2>4. CASE Register(a)
    BY <2>4 DEF Register, StillSpendable, Spendable, Spend, EndRegistration, EmailIsUnique,
                AddressTaken
  <2>5. CASE RegisterOrphan(a)
    BY <2>5 DEF RegisterOrphan, EndRegistration, EmailIsUnique, AddressTaken
  <2>6. CASE RegisterConflict(a)
    BY <2>6 DEF RegisterConflict, EndRegistration
  <2>7. CASE EndAssignment(a)
    BY <2>7 DEF EndAssignment, Serve
  <2>8. CASE CreateUser(a)
    BY <2>8 DEF CreateUser, AddressTaken
  <2>9. QED BY <1>4, <2>1, <2>2, <2>3, <2>4, <2>5, <2>6, <2>7, <2>8 DEF InviteeStep
<1>5. CASE Tick
  BY <1>5, IInvFrame DEF Tick
<1>6. CASE UNCHANGED vars
  BY <1>6, IInvFrame DEF vars
<1>7. QED BY <1>1, <1>2, <1>3, <1>4, <1>5, <1>6 DEF Next

THEOREM IInvCorrect == Spec => []IInv
BY IInvInit, IInvStep, TypeCorrect, PTL DEF Spec

\* FR-018: a coach on a roster has an accepted invitation of that trainer.
THEOREM RostersAreBacked == Spec => []RosterIsBacked
<1>1. IInv => RosterIsBacked
  BY DEF IInv
<1>2. QED BY <1>1, IInvCorrect, PTL

\* Requests that raced for one address never leave two accounts at it.
THEOREM AddressesAreUnique == Spec => []OneAccountPerAddress
<1>1. IInv => OneAccountPerAddress
  BY DEF IInv
<1>2. QED BY <1>1, IInvCorrect, PTL

-----------------------------------------------------------------------------
(* Action properties *)

\* The actions that spend no invitation.
LEMMA OnlyTwoSpend ==
  ASSUME TypeOK, [Next]_vars
  PROVE  \/ \E a \in Accounts, i \in Invitations : Accept(a, i)
         \/ \E a \in Accounts : Register(a)
         \/ /\ \A i \in Invitations : ~Spent(i)
            /\ \A a \in Accounts : roster'[a] \in {roster[a], None}
<1> USE DEF invitationVars, registerVars, Spent, TypeOK
<1>1. ASSUME NEW i \in Invitations, TrainerStep(i)
      PROVE  /\ \A k \in Invitations : ~Spent(k)
             /\ \A a \in Accounts : roster'[a] \in {roster[a], None}
  BY <1>1 DEF TrainerStep, Issue, Resend, Revoke
<1>2. ASSUME NEW a \in Accounts, InviteeStep(a)
      PROVE  \/ \E i \in Invitations : Accept(a, i)
             \/ Register(a)
             \/ /\ \A k \in Invitations : ~Spent(k)
                /\ \A b \in Accounts : roster'[b] \in {roster[b], None}
  BY <1>2 DEF InviteeStep, Block, OpenRegistration, RegisterOrphan, RegisterConflict,
              EndAssignment, CreateUser
<1>3. QED
  BY <1>1, <1>2 DEF Next, Authenticate, EndWithoutEffect, Deactivate, Reactivate, Erase,
                    ChangeStatus, Tick, vars

\* FR-002, FR-013, FR-015, FR-018: joining a roster and spending one good
\* invitation of that trainer to that address are one and the same step.
LEMMA JoinStep ==
  TypeOK /\ IInv /\ [Next]_vars =>
    /\ \A a \in Accounts, t \in Trainers : Joins(a, t) =>
          /\ roster[a] = None /\ a \in Coaches
          /\ \E i \in Invitations :
                /\ Spent(i) /\ Spendable(i)
                /\ InviterOf[i] = t /\ InvitedOf[i] = AddressOf[a]
                /\ takenBy'[i] = a
    /\ \A i, j \in Invitations : Spent(i) /\ Spent(j) => i = j
    /\ \A i \in Invitations : Spent(i) =>
          takenBy'[i] \in Accounts /\ Joins(takenBy'[i], InviterOf[i])
<1> DEFINE P == /\ \A a \in Accounts, t \in Trainers : Joins(a, t) =>
                      /\ roster[a] = None /\ a \in Coaches
                      /\ \E i \in Invitations :
                            /\ Spent(i) /\ Spendable(i)
                            /\ InviterOf[i] = t /\ InvitedOf[i] = AddressOf[a]
                            /\ takenBy'[i] = a
                /\ \A i, j \in Invitations : Spent(i) /\ Spent(j) => i = j
                /\ \A i \in Invitations : Spent(i) =>
                      takenBy'[i] \in Accounts /\ Joins(takenBy'[i], InviterOf[i])
<1> SUFFICES ASSUME TypeOK, IInv, [Next]_vars PROVE P
  OBVIOUS
<1>1. ASSUME NEW a \in Accounts, NEW i \in Invitations, Accept(a, i) PROVE P
  BY <1>1 DEF Accept, Unattached, Usable, Spend, Spent, Spendable, Joins, TypeOK
<1>2. ASSUME NEW a \in Accounts, Register(a) PROVE P
  BY <1>2 DEF Register, StillSpendable, Spend, Spent, Spendable, Joins, TypeOK,
              IInv, OpenedIsUnmade, UnmadeIsNowhere
<1>3. CASE /\ \A i \in Invitations : ~Spent(i)
           /\ \A a \in Accounts : roster'[a] \in {roster[a], None}
  BY <1>3 DEF Joins
<1>4. QED BY <1>1, <1>2, <1>3, OnlyTwoSpend

THEOREM JoiningSpends == Spec => JoinSpendsOneInvitation
BY JoinStep, TypeCorrect, IInvCorrect, PTL DEF Spec, JoinSpendsOneInvitation

\* An invitation only ever moves along the transition table.
LEMMA StateStep ==
  TypeOK /\ [Next]_vars =>
    \A i \in Invitations :
        state'[i] # state[i] => <<state[i], state'[i]>> \in AllowedTransitions
<1> SUFFICES ASSUME TypeOK, [Next]_vars, NEW k \in Invitations, state'[k] # state[k]
             PROVE  <<state[k], state'[k]>> \in AllowedTransitions
  OBVIOUS
<1> USE DEF invitationVars, registerVars, AllowedTransitions, TypeOK
<1>1. ASSUME NEW i \in Invitations, TrainerStep(i)
      PROVE  <<state[k], state'[k]>> \in AllowedTransitions
  BY <1>1 DEF TrainerStep, Issue, Insert, Resend, Revoke, Revocable, Spendable
<1>2. ASSUME NEW a \in Accounts, InviteeStep(a)
      PROVE  <<state[k], state'[k]>> \in AllowedTransitions
  BY <1>2 DEF InviteeStep, Accept, Block, OpenRegistration, Register, RegisterOrphan,
              RegisterConflict, EndAssignment, CreateUser, Usable, StillSpendable, Spendable,
              Spend
<1>3. QED
  BY <1>1, <1>2 DEF Next, Authenticate, EndWithoutEffect, Deactivate, Reactivate, Erase,
                    ChangeStatus, Tick, vars

THEOREM TransitionsAreLegal == Spec => LegalTransitions
BY StateStep, TypeCorrect, PTL DEF Spec, LegalTransitions

-----------------------------------------------------------------------------
(***************************************************************************)
(* How far the run CoachInvitations_resend goes: OneLivePerAddress fails,  *)
(* but only by re-sending an invitation that has expired.                  *)
(***************************************************************************)
LateResend ==
    \E i \in Invitations :
        state[i] = "awaiting" /\ life[i] = 0 /\ state'[i] = "superseded"

\* FR-005, FR-007: as long as no expired invitation is re-sent, whatever races
\* with issuing, a trainer keeps at most one live invitation to an address.
OnlyALateResendDoubles ==
    [][OneLivePerAddress => OneLivePerAddress' \/ LateResend]_vars

\* A step that brings no invitation to life cannot make two live ones.
LEMMA NoneComesToLife ==
  ASSUME OneLivePerAddress,
         \A k \in Invitations : Spendable(k)' => Spendable(k)
  PROVE  OneLivePerAddress'
BY DEF OneLivePerAddress, SamePerson

LEMMA LiveStep ==
  ASSUME TypeOK, OneLivePerAddress, [Next]_vars, ~LateResend
  PROVE  OneLivePerAddress'
<1> USE DEF TypeOK, invitationVars, registerVars
<1>1. ASSUME NEW i \in Invitations, Issue(i) PROVE OneLivePerAddress'
  <2>1. \A k \in Invitations : Spendable(k)' => k = i \/ Spendable(k)
    BY <1>1 DEF Issue, Insert, Spendable
  <2>2. \A k \in Invitations : SamePerson(i, k) \/ SamePerson(k, i) => ~Spendable(k)
    BY <1>1 DEF Issue, SamePerson
  <2>3. QED BY <2>1, <2>2 DEF OneLivePerAddress, SamePerson
<1>2. ASSUME NEW i \in Invitations, NEW j \in Invitations, Resend(i, j)
      PROVE  OneLivePerAddress'
  <2>1. Spendable(i) /\ ~Spendable(j) /\ ~Spendable(i)'
    BY <1>2 DEF Resend, Insert, Spendable, LateResend
  <2>2. \A k \in Invitations : Spendable(k)' => k = j \/ Spendable(k)
    BY <1>2 DEF Resend, Insert, Spendable
  <2>3. \A k \in Invitations : Spendable(k) /\ SamePerson(j, k) => k = i
    BY <1>2, <2>1 DEF Resend, SamePerson, OneLivePerAddress
  <2>4. \A k \in Invitations : Spendable(k)' /\ SamePerson(j, k) => k = j
    BY <2>1, <2>2, <2>3
  <2>5. QED BY <2>2, <2>4 DEF OneLivePerAddress, SamePerson
<1>3. ASSUME NEW i \in Invitations, Revoke(i) PROVE OneLivePerAddress'
  BY <1>3, NoneComesToLife DEF Revoke, Spendable
<1>4. ASSUME NEW a \in Accounts, InviteeStep(a) PROVE OneLivePerAddress'
  <2>1. \A k \in Invitations : Spendable(k)' => Spendable(k)
    BY <1>4 DEF InviteeStep, Accept, Block, OpenRegistration, Register, RegisterOrphan,
                RegisterConflict, EndAssignment, CreateUser, Spend, Spendable
  <2>2. QED BY <2>1, NoneComesToLife
<1>5. CASE \/ \E u \in Actors : Authenticate(u) \/ EndWithoutEffect(u)
           \/ \E u \in Actors : Deactivate(u) \/ Reactivate(u) \/ Erase(u)
           \/ UNCHANGED vars
  BY <1>5, NoneComesToLife
     DEF Authenticate, EndWithoutEffect, Deactivate, Reactivate, Erase, ChangeStatus, vars,
         Spendable
<1>6. CASE Tick
  BY <1>6, NoneComesToLife DEF Tick, LifeLeft, Spendable
<1>7. QED BY <1>1, <1>2, <1>3, <1>4, <1>5, <1>6 DEF Next, TrainerStep

THEOREM OnlyLateResendsDouble == Spec => OnlyALateResendDoubles
<1>1. TypeOK /\ [Next]_vars => (OneLivePerAddress => OneLivePerAddress' \/ LateResend)
  BY LiveStep
<1>2. QED BY <1>1, TypeCorrect, PTL DEF Spec, OnlyALateResendDoubles

-----------------------------------------------------------------------------
(***************************************************************************)
(* The refinement.  A step that leaves the states, the takers and the      *)
(* rosters alone is a stutter of Rosters; the others are one step each.    *)
(***************************************************************************)
Frame == UNCHANGED <<state, takenBy, roster>>

LEMMA FrameStutters == Frame => UNCHANGED R!vars
BY DEF Frame, R!vars

\* The table of stages, row by row.
LEMMA StageValues ==
  /\ Stage["unissued"] = "unmade" /\ Stage["awaiting"] = "open"
  /\ Stage["accepted"] = "taken"
  /\ Stage["revoked"] = "withdrawn" /\ Stage["superseded"] = "replaced"
BY DEF Stage

LEMMA TrainerRefines ==
  ASSUME TypeOK, NEW i \in Invitations, TrainerStep(i)
  PROVE  [R!Next]_R!vars
<1> USE StageValues DEF TypeOK, invitationVars, registerVars
<1>1. CASE Issue(i)
  <2>1. R!Make(i)
    BY <1>1 DEF Issue, Insert, R!Make
  <2>2. QED BY <2>1 DEF R!Next
<1>2. CASE Revoke(i)
  <2>1. R!Withdraw(i)
    BY <1>2 DEF Revoke, Revocable, Spendable, R!Withdraw
  <2>2. QED BY <2>1 DEF R!Next
<1>3. ASSUME NEW j \in Invitations, Resend(i, j) PROVE [R!Next]_R!vars
  <2>1. /\ state[i] = "awaiting" /\ state[j] = "unissued"
        /\ state' = [state EXCEPT ![i] = "superseded", ![j] = "awaiting"]
        /\ UNCHANGED <<takenBy, roster>>
    BY <1>3 DEF Resend, Insert
  <2>2. /\ InviterOf[i] = InviterOf[j]
        /\ [k \in Invitations |-> {a \in Coaches : AddressOf[a] = InvitedOf[k]}][i]
             = [k \in Invitations |-> {a \in Coaches : AddressOf[a] = InvitedOf[k]}][j]
    BY <1>3 DEF Resend, SamePerson
  <2>3. R!Replace(i, j)
    BY <2>1, <2>2 DEF R!Replace
  <2>4. QED BY <2>3 DEF R!Next
<1>4. QED BY <1>1, <1>2, <1>3 DEF TrainerStep

\* Accept and Register, the two ways onto a roster, both take an offer.
LEMMA TakeRefines ==
  ASSUME TypeOK, NEW a \in Accounts, NEW i \in Invitations,
         Unattached(a), Spendable(i), AddressOf[a] = InvitedOf[i], Spend(i, a),
         roster' = [roster EXCEPT ![a] = InviterOf[i]]
  PROVE  [R!Next]_R!vars
<1>1. a \in Coaches
  BY DEF Unattached
<1>2. R!Take(a, i)
  BY <1>1, StageValues DEF Unattached, Spendable, Spend, R!Take, TypeOK
<1>3. QED BY <1>1, <1>2 DEF R!Next

LEMMA InviteeRefines ==
  ASSUME TypeOK, IInv, NEW a \in Accounts, InviteeStep(a)
  PROVE  [R!Next]_R!vars
<1> USE DEF invitationVars, registerVars
<1>1. ASSUME NEW i \in Invitations, Accept(a, i) PROVE [R!Next]_R!vars
  BY <1>1, TakeRefines DEF Accept, Usable
<1>2. CASE Register(a)
  <2>1. opened[a] \in Invitations /\ Unattached(a) /\ AddressOf[a] = InvitedOf[opened[a]]
    BY <1>2 DEF Register, Unattached, IInv, OpenedIsUnmade, UnmadeIsNowhere, TypeOK
  <2>2. QED BY <1>2, <2>1, TakeRefines DEF Register, StillSpendable
<1>3. CASE EndAssignment(a)
  <2>1. CASE a \in Coaches
    <3>1. R!Leave(a)
      BY <1>3, <2>1 DEF EndAssignment, R!Leave, TypeOK
    <3>2. QED BY <2>1, <3>1 DEF R!Next
  <2>2. CASE a \notin Coaches
    BY <1>3, <2>2 DEF EndAssignment, R!vars, TypeOK
  <2>3. QED BY <2>1, <2>2
<1>4. CASE (\E i \in Invitations : Block(a, i) \/ OpenRegistration(a, i))
           \/ RegisterOrphan(a) \/ RegisterConflict(a) \/ CreateUser(a)
  BY <1>4, FrameStutters
     DEF Frame, Block, OpenRegistration, RegisterOrphan, RegisterConflict, CreateUser
<1>5. QED BY <1>1, <1>2, <1>3, <1>4 DEF InviteeStep

LEMMA StepRefines == TypeOK /\ IInv /\ [Next]_vars => [R!Next]_R!vars
<1> SUFFICES ASSUME TypeOK, IInv, [Next]_vars PROVE [R!Next]_R!vars
  OBVIOUS
<1>1. CASE (\E i \in Invitations : TrainerStep(i)) \/ (\E a \in Accounts : InviteeStep(a))
  BY <1>1, TrainerRefines, InviteeRefines
<1>2. CASE \/ \E u \in Actors : Authenticate(u) \/ EndWithoutEffect(u)
           \/ \E u \in Actors : Deactivate(u) \/ Reactivate(u) \/ Erase(u)
           \/ Tick \/ UNCHANGED vars
  BY <1>2, FrameStutters
     DEF Frame, Authenticate, EndWithoutEffect, Deactivate, Reactivate, Erase, ChangeStatus,
         Tick, vars, invitationVars, registerVars
<1>3. QED BY <1>1, <1>2 DEF Next

\* FR-002, FR-013, FR-015, FR-018: invitations and rosters implement Rosters.
THEOREM InvitationsImplementRosters == Spec => ImplementsRosters
<1>1. Init => R!Init
  BY DEF Init, R!Init, Stage
<1>2. QED
  BY <1>1, StepRefines, TypeCorrect, IInvCorrect, PTL DEF Spec, ImplementsRosters, R!Spec
=============================================================================
