---------------------------- MODULE TrainingProofs ----------------------------
(***************************************************************************)
(* Theorems about Training, for every number of families, players and      *)
(* trainers.                                                               *)
(***************************************************************************)
EXTENDS Training, TLAPS

USE TrainingAssumption

\* Whatever way the context of v is resolved, it becomes a pair within reach,
\* or None where nothing is, or stays as it is.
LEMMA Resolved ==
  ASSUME NEW v \in Viewers, ResolveContext(v)
  PROVE  \/ UNCHANGED context
         \/ CandidateRows(v) = {} /\ context' = [context EXCEPT ![v] = None]
         \/ /\ context[v] \notin CandidateRows(v)
            /\ \E pt \in CandidateRows(v) : context' = [context EXCEPT ![v] = pt]
BY DEF ResolveContext

LEMMA TypeStep == TypeOK /\ [Next]_vars => TypeOK'
<1> SUFFICES ASSUME TypeOK, [Next]_vars PROVE TypeOK'
  OBVIOUS
<1> USE DEF TypeOK, Viewers, Pair, Status
<1>1. ASSUME NEW t \in Trainers, OpenRegistration(t) PROVE TypeOK'
  BY <1>1 DEF OpenRegistration, familyVars
<1>2. ASSUME NEW p \in Profiles, Register(ParentOf[p], p) PROVE TypeOK'
  BY <1>2 DEF Register, Connecting
<1>3. CASE AbandonRegistration
  BY <1>3 DEF AbandonRegistration, familyVars
<1>4. ASSUME NEW u \in Parents, NEW t \in Trainers, NEW chosen \in SUBSET Profiles,
             Accept(u, t, chosen)
      PROVE  TypeOK'
  <2>1. PICK p \in chosen : context' = [context EXCEPT ![u] = <<p, t>>]
    BY <1>4 DEF Accept
  <2>2. QED BY <1>4, <2>1 DEF Accept, Serve, Connecting
<1>5. CASE Family
  <2>1. ASSUME NEW p \in Profiles, NEW ts \in SUBSET Trainers, CreateChild(ParentOf[p], p, ts)
        PROVE  TypeOK'
    BY <2>1 DEF CreateChild, Serve
  <2>2. ASSUME NEW p \in Profiles, NEW t \in Trainers, AddTrainer(p, t) PROVE TypeOK'
    BY <2>2 DEF AddTrainer, Serve, Connecting
  <2>3. ASSUME NEW p \in Profiles, NEW t \in Trainers, RemoveTrainer(p, t) PROVE TypeOK'
    BY <2>3 DEF RemoveTrainer, Serve
  <2>4. ASSUME NEW p \in Profiles, RemoveProfile(p) PROVE TypeOK'
    BY <2>4 DEF RemoveProfile, EndSignIn, Serve
  <2>5. ASSUME NEW p \in Profiles, RevokeSignIn(p) PROVE TypeOK'
    BY <2>5 DEF RevokeSignIn, EndSignIn, Serve
  <2>6. ASSUME NEW k \in Kids, GrantSignIn(k) PROVE TypeOK'
    BY <2>6 DEF GrantSignIn, Serve
  <2>7. QED BY <1>5, <2>1, <2>2, <2>3, <2>4, <2>5, <2>6 DEF Family
<1>6. ASSUME NEW v \in Viewers, EndWithoutEffect(v) PROVE TypeOK'
  BY <1>6 DEF EndWithoutEffect, Serve, familyVars
<1>7. ASSUME NEW v \in Viewers, ReadContext(v) PROVE TypeOK'
  <2>1. context' \in [Viewers -> Pair \cup {None}]
    BY <1>7, Resolved DEF ReadContext, CandidateRows
  <2>2. QED BY <1>7, <2>1 DEF ReadContext, Serve, familyVars
<1>8. ASSUME NEW v \in Viewers, NEW kind \in {"switch", "other"}, Authenticate(v, kind)
      PROVE  TypeOK'
  BY <1>8 DEF Authenticate, familyVars
<1>9. ASSUME NEW v \in Viewers, NEW wanted \in Pair, SwitchContext(v, wanted)
      PROVE  TypeOK'
  BY <1>9 DEF SwitchContext, Serve, familyVars
<1>10. CASE Management
  <2>1. ASSUME NEW v \in Viewers, CreateParent(v) \/ Deactivate(v) \/ Reactivate(v)
        PROVE  TypeOK'
    BY <2>1 DEF CreateParent, Deactivate, Reactivate, SetStatus, familyVars
  <2>2. ASSUME NEW v \in Viewers, EraseViewer(v) PROVE TypeOK'
    BY <2>2 DEF EraseViewer, Forgetting
  <2>3. ASSUME NEW t \in Trainers, DeactivateTrainer(t) \/ ReactivateTrainer(t)
        PROVE  TypeOK'
    BY <2>3 DEF DeactivateTrainer, ReactivateTrainer, SetTrainer, familyVars
  <2>4. QED
    BY <1>10, <2>1, <2>2, <2>3 DEF Management
<1>11. CASE UNCHANGED vars
  BY <1>11 DEF vars
<1> HIDE DEF TypeOK, Viewers, Pair, Status
<1>12. QED
  BY <1>1, <1>2, <1>3, <1>4, <1>5, <1>6, <1>7, <1>8, <1>9, <1>10, <1>11
     DEF Next, Joining, Viewing

\* Every variable keeps its type in every reachable state.
THEOREM TypeCorrect == Spec => []TypeOK
<1>1. Init => TypeOK
  BY DEF Init, TypeOK, Status
<1>2. QED BY <1>1, TypeStep, PTL DEF Spec

-----------------------------------------------------------------------------
(***************************************************************************)
(* The inductive invariant.  What the properties leave unsaid: a profile   *)
(* names an account that was made for it, so an account that was made for  *)
(* another, or for none any more, reaches nothing of that profile.         *)
(***************************************************************************)
SignInWasGranted ==
    \A p \in Profiles : signIn[p] # None =>
        ProfileOf[signIn[p]] = p /\ account[signIn[p]] # "none"

IInv == SignInWasGranted /\ ChildLooksAtItself /\ ContextWasJoined

LEMMA IInvInit == Init => IInv
BY DEF Init, IInv, SignInWasGranted, ChildLooksAtItself, ContextWasJoined, Viewers

\* A pair within reach is a joined one, of the viewer's own profile or family.
LEMMA CandidateIsOwn ==
  ASSUME TypeOK, SignInWasGranted, NEW v \in Viewers, NEW pt \in CandidateRows(v)
  PROVE  /\ pt \in Pair /\ assoc[pt] = "active" /\ trainer[pt[2]] = "active"
         /\ v \in Kids => pt[1] = ProfileOf[v]
         /\ v \in Parents => ParentOf[pt[1]] = v
BY DEF CandidateRows, PlayerRows, AccountRows, Reachable, SignInWasGranted, TypeOK, Pair, Viewers

\* Steps that write no context and undo no association.
LEMMA ContextFrame ==
  ASSUME TypeOK, TypeOK', IInv, SignInWasGranted',
         \A v \in Viewers : context'[v] \in {context[v], None},
         \A pt \in Pair : assoc[pt] # "none" => assoc'[pt] # "none"
  PROVE  IInv'
<1> USE DEF TypeOK, IInv, Viewers
<1>1. ChildLooksAtItself'
  BY DEF ChildLooksAtItself
<1>2. ContextWasJoined'
  BY DEF ContextWasJoined
<1>3. QED BY <1>1, <1>2

\* Steps that write one context: the pair written is a joined one, the
\* viewer's own.
LEMMA ContextWritten ==
  ASSUME TypeOK, TypeOK', IInv, SignInWasGranted', NEW v \in Viewers, NEW pt \in Pair,
         context' = [context EXCEPT ![v] = pt],
         assoc'[pt] # "none",
         v \in Kids => pt[1] = ProfileOf[v],
         v \in Parents => ParentOf[pt[1]] = v,
         \A q \in Pair : assoc[q] # "none" => assoc'[q] # "none"
  PROVE  IInv'
<1> USE DEF TypeOK, IInv, Viewers
<1>1. ChildLooksAtItself'
  BY DEF ChildLooksAtItself
<1>2. ContextWasJoined'
  BY DEF ContextWasJoined
<1>3. QED BY <1>1, <1>2

LEMMA IInvStep == TypeOK /\ IInv /\ [Next]_vars => IInv'
<1> SUFFICES ASSUME TypeOK, IInv, [Next]_vars PROVE IInv'
  OBVIOUS
<1>0. TypeOK'
  BY TypeStep
<1> USE <1>0
<1>1. ASSUME NEW t \in Trainers, OpenRegistration(t) PROVE IInv'
  BY <1>1, ContextFrame DEF OpenRegistration, familyVars, IInv, SignInWasGranted
<1>2. ASSUME NEW p \in Profiles, Register(ParentOf[p], p) PROVE IInv'
  <2>1. SignInWasGranted'
    BY <1>2 DEF Register, IInv, SignInWasGranted, TypeOK, Viewers
  <2>2. form \in Trainers /\ <<p, form>> \in Pair
    BY <1>2 DEF Register, TypeOK, Pair
  <2>3. assoc'[<<p, form>>] # "none" /\ \A q \in Pair : assoc[q] # "none" => assoc'[q] # "none"
    BY <1>2, <2>2 DEF Register, Connecting
  <2>4. QED BY <1>2, <2>1, <2>2, <2>3, ContextWritten DEF Register, Viewers
<1>3. CASE AbandonRegistration
  BY <1>3, ContextFrame DEF AbandonRegistration, familyVars, IInv, SignInWasGranted
<1>4. ASSUME NEW u \in Parents, NEW t \in Trainers, NEW chosen \in SUBSET Profiles,
             Accept(u, t, chosen)
      PROVE  IInv'
  <2>1. SignInWasGranted'
    BY <1>4 DEF Accept, IInv, SignInWasGranted
  <2>2. PICK p \in chosen : /\ context' = [context EXCEPT ![u] = <<p, t>>]
                            /\ assoc[<<p, t>>] = "none"
    BY <1>4 DEF Accept
  <2>3. p \in LiveProfiles(u) /\ <<p, t>> \in Pair
    BY <1>4 DEF Accept, LiveProfiles, Pair
  <2>4. assoc'[<<p, t>>] # "none" /\ \A q \in Pair : assoc[q] # "none" => assoc'[q] # "none"
    BY <1>4, <2>2, <2>3 DEF Accept, Connecting
  <2>5. QED BY <2>1, <2>2, <2>3, <2>4, ContextWritten DEF LiveProfiles, Viewers
<1>5. CASE Family
  <2>1. context' = context
    BY <1>5 DEF Family, CreateChild, AddTrainer, RemoveTrainer, RemoveProfile, RevokeSignIn,
                GrantSignIn
  <2>2. \A pt \in Pair : assoc[pt] # "none" => assoc'[pt] # "none"
    <3>1. ASSUME NEW p \in Profiles, NEW ts \in SUBSET Trainers, CreateChild(ParentOf[p], p, ts)
          PROVE  \A pt \in Pair : assoc[pt] # "none" => assoc'[pt] # "none"
      BY <3>1 DEF CreateChild
    <3>2. ASSUME NEW p \in Profiles, NEW t \in Trainers, AddTrainer(p, t) \/ RemoveTrainer(p, t)
          PROVE  \A pt \in Pair : assoc[pt] # "none" => assoc'[pt] # "none"
      BY <3>2 DEF AddTrainer, RemoveTrainer, Connecting, TypeOK
    <3>3. QED
      BY <1>5, <3>1, <3>2 DEF Family, RemoveProfile, RevokeSignIn, GrantSignIn
  <2>3. SignInWasGranted'
    <3> USE DEF IInv, SignInWasGranted, TypeOK, Viewers
    <3>1. ASSUME NEW p \in Profiles, EndSignIn(p) PROVE SignInWasGranted'
      BY <3>1 DEF EndSignIn
    <3>2. ASSUME NEW k \in Kids, GrantSignIn(k) PROVE SignInWasGranted'
      BY <3>2 DEF GrantSignIn
    <3>3. QED
      BY <1>5, <3>1, <3>2 DEF Family, CreateChild, AddTrainer, RemoveTrainer, RemoveProfile,
                              RevokeSignIn
  <2>4. QED BY <2>1, <2>2, <2>3, ContextFrame
<1>6. ASSUME NEW v \in Viewers, NEW kind, EndWithoutEffect(v) \/ Authenticate(v, kind)
      PROVE  IInv'
  BY <1>6, ContextFrame DEF EndWithoutEffect, Authenticate, familyVars, IInv, SignInWasGranted
<1>7. ASSUME NEW v \in Viewers, ReadContext(v) PROVE IInv'
  <2>1. SignInWasGranted' /\ UNCHANGED assoc
    BY <1>7 DEF ReadContext, familyVars, IInv, SignInWasGranted
  <2>2. ASSUME NEW pt \in CandidateRows(v), context' = [context EXCEPT ![v] = pt]
        PROVE  IInv'
    <3>1. /\ pt \in Pair /\ assoc[pt] = "active"
          /\ v \in Kids => pt[1] = ProfileOf[v]
          /\ v \in Parents => ParentOf[pt[1]] = v
      BY <2>2, CandidateIsOwn DEF IInv
    <3>2. QED BY <2>1, <2>2, <3>1, ContextWritten
  <2>3. CASE \A w \in Viewers : context'[w] \in {context[w], None}
    BY <2>1, <2>3, ContextFrame
  <2>4. QED BY <1>7, <2>2, <2>3, Resolved DEF ReadContext, TypeOK
<1>8. ASSUME NEW v \in Viewers, NEW wanted \in Pair, SwitchContext(v, wanted)
      PROVE  IInv'
  <2>1. SignInWasGranted' /\ UNCHANGED assoc
    BY <1>8 DEF SwitchContext, familyVars, IInv, SignInWasGranted
  <2>2. /\ assoc[wanted] = "active"
        /\ v \in Kids => wanted[1] = ProfileOf[v]
        /\ v \in Parents => ParentOf[wanted[1]] = v
    BY <1>8, CandidateIsOwn DEF SwitchContext, IInv
  <2>3. QED BY <1>8, <2>1, <2>2, ContextWritten DEF SwitchContext
<1>9. CASE Management
  <2> USE DEF IInv, SignInWasGranted, TypeOK
  <2>1. ASSUME NEW v \in Viewers, CreateParent(v) \/ Deactivate(v) \/ Reactivate(v)
        PROVE  IInv'
    BY <2>1, ContextFrame DEF CreateParent, Deactivate, Reactivate, SetStatus, familyVars, Viewers
  <2>2. ASSUME NEW v \in Viewers, EraseViewer(v) PROVE IInv'
    BY <2>2, ContextFrame DEF EraseViewer, Forgetting, Viewers
  <2>3. ASSUME NEW t \in Trainers, DeactivateTrainer(t) \/ ReactivateTrainer(t)
        PROVE  IInv'
    BY <2>3, ContextFrame DEF DeactivateTrainer, ReactivateTrainer, SetTrainer, familyVars
  <2>4. QED BY <1>9, <2>1, <2>2, <2>3 DEF Management, Viewers
<1>10. CASE UNCHANGED vars
  BY <1>10, ContextFrame DEF vars, IInv, SignInWasGranted
<1>11. QED
  BY <1>1, <1>2, <1>3, <1>4, <1>5, <1>6, <1>7, <1>8, <1>9, <1>10 DEF Next, Joining, Viewing

LEMMA IInvCorrect == Spec => []IInv
BY TypeCorrect, IInvInit, IInvStep, PTL DEF Spec

\* FR-119, FR-132: a child's account looks at nobody but the child.
THEOREM ChildrenLookAtThemselves == Spec => []ChildLooksAtItself
BY IInvCorrect, PTL DEF IInv

\* FR-117, FR-120: a stored context was joined once, by the viewer's family.
THEOREM ContextsWereJoined == Spec => []ContextWasJoined
BY IInvCorrect, PTL DEF IInv

-----------------------------------------------------------------------------
\* FR-070, FR-089: whoever comes to a trainer comes to an Active one, but for
\* a registration that was open already.
THEOREM JoinsAreSound == Spec => JoinsAnActiveTrainer
<1> DEFINE Sound == \A pt \in Pair :
              assoc[pt] # "active" /\ assoc'[pt] = "active" =>
                \/ trainer[pt[2]] = "active"
                \/ form = pt[2] /\ account[ParentOf[pt[1]]] = "none"
<1>1. TypeOK /\ [Next]_vars => Sound
  <2> SUFFICES ASSUME TypeOK, [Next]_vars, NEW pt \in Pair,
                      assoc[pt] # "active", assoc'[pt] = "active"
               PROVE  \/ trainer[pt[2]] = "active"
                      \/ form = pt[2] /\ account[ParentOf[pt[1]]] = "none"
    OBVIOUS
  <2> USE DEF TypeOK
  <2>1. ASSUME NEW p \in Profiles, Register(ParentOf[p], p)
        PROVE  form = pt[2] /\ account[ParentOf[pt[1]]] = "none"
    BY <2>1 DEF Register, Connecting
  <2>2. ASSUME NEW u \in Parents, NEW t \in Trainers, NEW chosen \in SUBSET Profiles,
               Accept(u, t, chosen)
        PROVE  trainer[pt[2]] = "active"
    BY <2>2 DEF Accept, Connecting, Usable
  <2>3. ASSUME NEW p \in Profiles, NEW ts \in SUBSET Trainers, CreateChild(ParentOf[p], p, ts)
        PROVE  trainer[pt[2]] = "active"
    BY <2>3 DEF CreateChild, AccountRows, Reachable, Pair
  <2>4. ASSUME NEW p \in Profiles, NEW t \in Trainers, AddTrainer(p, t)
        PROVE  trainer[pt[2]] = "active"
    BY <2>4 DEF AddTrainer, MayAdd, Usable, AccountRows, Reachable, Connecting, Pair
  <2>5. ASSUME NEW p \in Profiles, NEW t \in Trainers, RemoveTrainer(p, t) PROVE FALSE
    BY <2>5 DEF RemoveTrainer
  <2>6. CASE UNCHANGED assoc
    BY <2>6
  <2>7. CASE Joining
    BY <2>1, <2>2, <2>6, <2>7 DEF Joining, OpenRegistration, AbandonRegistration, familyVars
  <2>8. CASE Family
    BY <2>3, <2>4, <2>5, <2>6, <2>8 DEF Family, RemoveProfile, RevokeSignIn, GrantSignIn
  <2>9. CASE Viewing
    BY <2>6, <2>9 DEF Viewing, Authenticate, EndWithoutEffect, ReadContext, SwitchContext,
                      familyVars
  <2>10. CASE Management
    BY <2>6, <2>10 DEF Management, CreateParent, Deactivate, Reactivate, SetStatus, EraseViewer,
                       DeactivateTrainer, ReactivateTrainer, SetTrainer, familyVars
  <2>11. QED BY <2>6, <2>7, <2>8, <2>9, <2>10 DEF Next, vars
<1>2. QED BY <1>1, TypeCorrect, PTL DEF Spec, JoinsAnActiveTrainer

-----------------------------------------------------------------------------
(* The stored contexts keep the promise of Contexts *)

Present == {v \in Viewers : account[v] \in {"active", "inactive"}}
Reach == [v \in Viewers |-> CandidateRows(v)]
Asking == {v \in Viewers : request[v] = "switch"}

\* What is within reach depends on these four only.
LEMMA ReachFrame == UNCHANGED <<trainer, familyVars>> => Reach' = Reach
BY DEF Reach, familyVars, CandidateRows, PlayerRows, AccountRows, Reachable

LEMMA StepRefines == TypeOK /\ IInv /\ [Next]_vars => [C!Next]_(C!vars)
<1> SUFFICES ASSUME TypeOK, IInv, [Next]_vars PROVE [C!Next]_(C!vars)
  OBVIOUS
<1> USE DEF TypeOK
<1>1. CASE UNCHANGED context
  BY <1>1 DEF C!Elsewhere, C!Next
<1>2. ASSUME NEW v \in Viewers, ReadContext(v) PROVE [C!Next]_(C!vars)
  <2>1. Reach' = Reach
    BY <1>2, ReachFrame DEF ReadContext
  <2>2. CASE CandidateRows(v) = {} /\ context' = [context EXCEPT ![v] = None]
    BY <2>1, <2>2 DEF C!Settle, C!Look, C!Next, Reach
  <2>3. CASE /\ context[v] \notin CandidateRows(v)
             /\ \E pt \in CandidateRows(v) : context' = [context EXCEPT ![v] = pt]
    BY <2>1, <2>3 DEF C!Settle, C!Look, C!Next, Reach
  <2>4. QED BY <1>1, <1>2, <2>2, <2>3, Resolved DEF ReadContext
<1>3. ASSUME NEW v \in Viewers, NEW wanted \in Pair, SwitchContext(v, wanted)
      PROVE  C!Choose(v)
  <2>1. Reach' = Reach
    BY <1>3, ReachFrame DEF SwitchContext
  <2>2. QED BY <1>3, <2>1 DEF SwitchContext, C!Choose, C!Look, Reach
<1>4. ASSUME NEW u \in Parents, NEW t \in Trainers, NEW chosen \in SUBSET Profiles,
             Accept(u, t, chosen)
      PROVE  C!Join(u)
  <2>1. PICK p \in chosen : /\ context' = [context EXCEPT ![u] = <<p, t>>]
                            /\ assoc[<<p, t>>] = "none"
    BY <1>4 DEF Accept
  <2>2. <<p, t>> \in Pair /\ ParentOf[p] = u /\ profile[p] = "live"
    BY <1>4 DEF Accept, LiveProfiles, Pair
  <2>3. <<p, t>> \notin CandidateRows(u)
    BY <2>1 DEF CandidateRows, PlayerRows, AccountRows, Reachable
  <2>4. assoc'[<<p, t>>] = "active" /\ trainer' = trainer /\ trainer[t] = "active"
    BY <1>4, <2>1, <2>2 DEF Accept, Connecting, Usable
  <2>5. \A q \in Profiles : signIn'[q] # u
    BY <1>4 DEF Accept, Viewers
  <2>6. <<p, t>> \in CandidateRows(u)'
    BY <1>4, <2>2, <2>4, <2>5 DEF Accept, CandidateRows, AccountRows, Reachable
  <2>7. u \in Viewers
    BY DEF Viewers
  <2>8. QED BY <2>1, <2>2, <2>3, <2>6, <2>7 DEF C!Join, C!Look, Reach
<1>5. ASSUME NEW p \in Profiles, Register(ParentOf[p], p) PROVE C!Arrive(ParentOf[p])
  <2>1. ParentOf[p] \in Present' \ Present /\ <<p, form>> \in Pair
    BY <1>5 DEF Register, Present, Viewers, Pair
  <2>2. context' = [context EXCEPT ![ParentOf[p]] = <<p, form>>]
    BY <1>5 DEF Register
  <2>3. QED BY <2>1, <2>2 DEF C!Arrive, C!Look, Present
<1>6. ASSUME NEW v \in Viewers, EraseViewer(v) PROVE C!Forget
  <2> DEFINE named == {signIn[p] : p \in {q \in Profiles : ParentOf[q] = v}} \ {None}
             gone == {v} \cup {k \in named : account[k] # "deleted"}
  <2>1. /\ account[v] \in {"active", "inactive"}
        /\ account' = [w \in Viewers |-> IF w \in gone THEN "deleted" ELSE account[w]]
        /\ context' = [w \in Viewers |-> IF w \in gone THEN None ELSE context[w]]
    BY <1>6 DEF EraseViewer, Forgetting
  <2>2. \A k \in named : k \in Kids /\ account[k] # "none"
    BY DEF IInv, SignInWasGranted
  <2>3. gone \subseteq Present
    BY <2>1, <2>2 DEF Present, Viewers, Status
  <2>4. Present \ Present' = gone
    BY <2>1, <2>3 DEF Present
  <2>5. QED BY <2>1, <2>4 DEF C!Forget, Present
<1>7. CASE Joining
  BY <1>1, <1>4, <1>5, <1>7 DEF Joining, OpenRegistration, AbandonRegistration, C!Next, Viewers
<1>8. CASE Family
  BY <1>1, <1>8 DEF Family, CreateChild, AddTrainer, RemoveTrainer, RemoveProfile, RevokeSignIn,
                    GrantSignIn
<1>9. CASE Viewing
  BY <1>1, <1>2, <1>3, <1>9 DEF Viewing, Authenticate, EndWithoutEffect, C!Next
<1>10. CASE Management
  BY <1>1, <1>6, <1>10 DEF Management, CreateParent, Deactivate, Reactivate, SetStatus,
                           DeactivateTrainer, ReactivateTrainer, SetTrainer, C!Next
<1>11. QED BY <1>1, <1>7, <1>8, <1>9, <1>10 DEF Next, vars

\* FR-089, FR-117 to FR-120: joining, switching and repairing implement
\* Contexts.
THEOREM TrainingImplementsContexts == Spec => ImplementsContexts
<1>1. Init => C!Init
  BY DEF Init, C!Init
<1>2. QED
  BY <1>1, StepRefines, TypeCorrect, IInvCorrect, PTL DEF Spec, ImplementsContexts, C!Spec
=============================================================================
