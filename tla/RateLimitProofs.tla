--------------------------- MODULE RateLimitProofs ---------------------------
(***************************************************************************)
(* Theorems about RateLimit, for every number of keys, attempts and slots, *)
(* every limit, window and retention, and a table of any size.             *)
(***************************************************************************)
EXTENDS RateLimit, FiniteSetTheorems, TLAPS

USE RateLimitAssumption

LEMMA TypeInit == Init => TypeOK
BY DEF Init, TypeOK

LEMMA TypeStep == TypeOK /\ [Next]_vars => TypeOK'
<1> SUFFICES ASSUME TypeOK, [Next]_vars PROVE TypeOK'
  OBVIOUS
<1> USE DEF TypeOK
<1>1. ASSUME NEW s \in Slots, NEW a \in Attempts, Try(s, a) PROVE TypeOK'
  BY <1>1 DEF Try
<1>2. ASSUME NEW s \in Slots, Pass(s) PROVE TypeOK'
  <2>1. KeysOf[trying[s]] \in Seq(Keys) /\ passed[s] < Len(KeysOf[trying[s]])
    BY <1>2 DEF Pass, Counting
  <2>2. QED BY <1>2, <2>1 DEF Pass, Counting
<1>3. ASSUME NEW s \in Slots, Refuse(s) \/ Succeed(s) PROVE TypeOK'
  <2>1. UNCHANGED <<failed, age>> /\ Leave(s)
    BY <1>3 DEF Refuse, Succeed, NotRecorded
  <2>2. QED BY <2>1 DEF Leave
<1>4. ASSUME NEW s \in Slots, Fail(s) PROVE TypeOK'
  <2>1. failed' \in [Rows -> Attempts \cup {None}] /\ age' \in [Rows -> 0..Retention]
    BY <1>4 DEF Fail, Record
  <2>2. QED BY <1>4, <2>1 DEF Fail, Leave
<1>5. CASE Tick
  BY <1>5 DEF Tick
<1>6. CASE Prune
  BY <1>6 DEF Prune
<1>7. CASE Restart
  BY <1>7 DEF Restart
<1>8. CASE UNCHANGED vars
  BY <1>8 DEF vars
<1> HIDE DEF TypeOK
<1>9. QED BY <1>1, <1>2, <1>3, <1>4, <1>5, <1>6, <1>7, <1>8 DEF Next

\* Every variable keeps its type in every reachable state.
THEOREM TypeCorrect == Spec => []TypeOK
BY TypeInit, TypeStep, PTL DEF Spec

-----------------------------------------------------------------------------
(* What is counted *)

LEMMA CountIsFinite ==
  ASSUME NEW k \in Keys
  PROVE  /\ IsFiniteSet(Counted(k)) /\ Failures(k) \in Nat
         /\ IsFiniteSet(Counted(k))' /\ Failures(k)' \in Nat
<1>1. IsFiniteSet(Rows)
  BY FS_Interval DEF Rows
<1>2. IsFiniteSet(Counted(k)) /\ IsFiniteSet(Counted(k))'
  BY <1>1, FS_Subset DEF Counted
<1>3. QED BY <1>2, FS_CardinalityType DEF Failures

LEMMA PassedIsFinite ==
  ASSUME NEW k \in Keys
  PROVE  /\ IsFiniteSet(PassedBy(k)) /\ Cardinality(PassedBy(k)) \in 0..Cardinality(Slots)
         /\ IsFiniteSet(PassedBy(k))' /\ Cardinality(PassedBy(k))' \in 0..Cardinality(Slots)
         /\ Cardinality(Slots) \in Nat
<1>1. PassedBy(k) \subseteq Slots /\ PassedBy(k)' \subseteq Slots
  BY DEF PassedBy
<1>2. QED BY <1>1, FS_Subset, FS_CardinalityType

Bound(k) == Failures(k) + Cardinality(PassedBy(k)) <= Max - 1 + Cardinality(Slots)

\* Neither set grows.
LEMMA Shrink ==
  ASSUME NEW k \in Keys, Bound(k),
         Counted(k)' \subseteq Counted(k), PassedBy(k)' \subseteq PassedBy(k)
  PROVE  Bound(k)'
<1>1. Failures(k)' <= Failures(k)
  BY CountIsFinite, FS_Subset DEF Failures
<1>2. Cardinality(PassedBy(k))' <= Cardinality(PassedBy(k))
  BY PassedIsFinite, FS_Subset
<1>3. QED BY <1>1, <1>2, CountIsFinite, PassedIsFinite DEF Bound

\* An outcome that is recorded leaves those under way as it enters the count.
LEMMA Move ==
  ASSUME NEW k \in Keys, NEW r, NEW s \in PassedBy(k), Bound(k),
         Counted(k)' \subseteq Counted(k) \cup {r}, PassedBy(k)' \subseteq PassedBy(k) \ {s}
  PROVE  Bound(k)'
<1>1. Failures(k)' <= Failures(k) + 1
  <2>1. IsFiniteSet(Counted(k) \cup {r}) /\ Cardinality(Counted(k) \cup {r}) <= Failures(k) + 1
    <3>1. IsFiniteSet(Counted(k)) /\ Cardinality(Counted(k)) \in Nat
      BY CountIsFinite DEF Failures
    <3>2. /\ IsFiniteSet(Counted(k) \cup {r})
          /\ Cardinality(Counted(k) \cup {r}) =
               IF r \in Counted(k) THEN Cardinality(Counted(k)) ELSE Cardinality(Counted(k)) + 1
      BY <3>1, FS_AddElement
    <3>3. QED BY <3>1, <3>2 DEF Failures
  <2>2. QED BY <2>1, CountIsFinite, FS_Subset, FS_CardinalityType DEF Failures
<1>2. Cardinality(PassedBy(k))' <= Cardinality(PassedBy(k)) - 1
  <2>1. /\ IsFiniteSet(PassedBy(k) \ {s})
        /\ Cardinality(PassedBy(k) \ {s}) = Cardinality(PassedBy(k)) - 1
    BY PassedIsFinite, FS_RemoveElement
  <2>2. QED BY <2>1, PassedIsFinite, FS_Subset, FS_CardinalityType
<1>3. QED BY <1>1, <1>2, CountIsFinite, PassedIsFinite DEF Bound

LEMMA BoundStep ==
  ASSUME TypeOK, TypeOK', [Next]_vars, NEW k \in Keys, Bound(k)
  PROVE  Bound(k)'
<1> USE DEF TypeOK
<1>1. ASSUME NEW s \in Slots, NEW a \in Attempts, Try(s, a) PROVE Bound(k)'
  <2>1. PassedBy(k)' \subseteq PassedBy(k)
    BY <1>1 DEF Try, PassedBy
  <2>2. Counted(k)' = Counted(k)
    BY <1>1 DEF Try, Counted
  <2>3. QED BY <2>1, <2>2, Shrink
<1>2. ASSUME NEW s \in Slots, Pass(s) PROVE Bound(k)'
  <2>1. Counted(k)' = Counted(k)
    BY <1>2 DEF Pass, Counted
  <2>2. CASE k = NextKey(s)
    <3>1. Failures(k) <= Max - 1
      BY <1>2, <2>2, CountIsFinite DEF Pass, Throttled
    <3>2. QED BY <2>1, <3>1, CountIsFinite, PassedIsFinite DEF Bound, Failures
  <2>3. CASE k # NextKey(s)
    <3>1. PassedBy(k)' \subseteq PassedBy(k)
      BY <1>2, <2>3 DEF Pass, PassedBy, NextKey
    <3>2. QED BY <2>1, <3>1, Shrink
  <2>4. QED BY <2>2, <2>3
<1>3. ASSUME NEW s \in Slots, Leave(s) PROVE PassedBy(k)' \subseteq PassedBy(k) \ {s}
  BY <1>3 DEF Leave, PassedBy
<1>4. ASSUME NEW s \in Slots, Refuse(s) \/ Succeed(s) PROVE Bound(k)'
  <2>1. Counted(k)' = Counted(k)
    BY <1>4 DEF Refuse, Succeed, NotRecorded, Counted
  <2>2. PassedBy(k)' \subseteq PassedBy(k)
    BY <1>3, <1>4 DEF Refuse, Succeed
  <2>3. QED BY <2>1, <2>2, Shrink
<1>5. ASSUME NEW s \in Slots, Fail(s) PROVE Bound(k)'
  <2>1. PassedBy(k)' \subseteq PassedBy(k) \ {s}
    BY <1>3, <1>5 DEF Fail
  <2>2. PICK r \in Rows : /\ failed[r] = None
                          /\ failed' = [failed EXCEPT ![r] = trying[s]]
                          /\ age' = [age EXCEPT ![r] = 0]
    BY <1>5 DEF Fail, Record
  <2>3. CASE k \in Among(KeysOf[trying[s]])
    <3>1. PICK i \in 1..Len(KeysOf[trying[s]]) : KeysOf[trying[s]][i] = k
      BY <2>3 DEF Among
    <3>2. KeysOf[trying[s]] \in Seq(Keys) /\ passed[s] = Len(KeysOf[trying[s]])
      BY <1>5 DEF Fail, Counting
    <3>3. s \in PassedBy(k)
      BY <1>5, <3>1, <3>2 DEF Fail, PassedBy
    <3>4. Counted(k)' \subseteq Counted(k) \cup {r}
      BY <2>2 DEF Counted
    <3>5. QED BY <2>1, <3>3, <3>4, Move
  <2>4. CASE k \notin Among(KeysOf[trying[s]])
    <3>1. Counted(k)' \subseteq Counted(k)
      BY <2>2, <2>4 DEF Counted
    <3>2. QED BY <2>1, <3>1, Shrink
  <2>5. QED BY <2>3, <2>4
<1>6. CASE Tick
  <2>1. Counted(k)' \subseteq Counted(k)
    BY <1>6 DEF Tick, Counted
  <2>2. PassedBy(k)' = PassedBy(k)
    BY <1>6 DEF Tick, PassedBy
  <2>3. QED BY <2>1, <2>2, Shrink
<1>7. CASE Prune
  <2>1. Counted(k)' \subseteq Counted(k)
    BY <1>7 DEF Prune, Counted
  <2>2. PassedBy(k)' = PassedBy(k)
    BY <1>7 DEF Prune, PassedBy
  <2>3. QED BY <2>1, <2>2, Shrink
<1>8. CASE Restart
  <2>1. Counted(k)' = Counted(k)
    BY <1>8 DEF Restart, Counted
  <2>2. PassedBy(k)' \subseteq PassedBy(k)
    BY <1>8 DEF Restart, PassedBy
  <2>3. QED BY <2>1, <2>2, Shrink
<1>9. CASE UNCHANGED vars
  <2>1. Counted(k)' = Counted(k) /\ PassedBy(k)' = PassedBy(k)
    BY <1>9 DEF vars, Counted, PassedBy
  <2>2. QED BY <2>1, Shrink
<1> HIDE DEF TypeOK
<1>10. QED BY <1>1, <1>2, <1>4, <1>5, <1>6, <1>7, <1>8, <1>9 DEF Next

\* FR-013, FR-071: the limit is exceeded only by attempts under way together.
THEOREM LimitHolds == Spec => []ThrottleBound
<1>1. Init => ThrottleBound
  <2>1. SUFFICES ASSUME Init, NEW k \in Keys PROVE Bound(k)
    BY DEF ThrottleBound, Bound
  <2>2. Counted(k) = {} /\ PassedBy(k) = {}
    BY <2>1 DEF Init, Counted, PassedBy
  <2>3. QED BY <2>2, FS_EmptySet, PassedIsFinite DEF Bound, Failures
<1>2. TypeOK /\ TypeOK' /\ ThrottleBound /\ [Next]_vars => ThrottleBound'
  BY BoundStep DEF ThrottleBound, Bound
<1>3. QED BY <1>1, <1>2, TypeInit, TypeStep, PTL DEF Spec

-----------------------------------------------------------------------------
(* What takes a failure out of the count *)

LEMMA CountIsKept ==
  ASSUME TypeOK, [Next]_vars, ~ Tick, NEW k \in Keys
  PROVE  ~ (Failures(k)' < Failures(k))
<1> USE DEF TypeOK
<1>1. ASSUME UNCHANGED <<failed, age>> PROVE Counted(k) \subseteq Counted(k)'
  BY <1>1 DEF Counted
<1>2. ASSUME NEW s \in Slots, Fail(s) PROVE Counted(k) \subseteq Counted(k)'
  BY <1>2 DEF Fail, Record, Counted
<1>3. ASSUME Prune PROVE Counted(k) \subseteq Counted(k)'
  BY <1>3 DEF Prune, Prunable, Counted
<1>4. ASSUME NEW s \in Slots, NEW a \in Attempts, Try(s, a) PROVE UNCHANGED <<failed, age>>
  BY <1>4 DEF Try
<1>5. ASSUME NEW s \in Slots, Pass(s) \/ Refuse(s) \/ Succeed(s)
      PROVE  UNCHANGED <<failed, age>>
  BY <1>5 DEF Pass, Refuse, Succeed, NotRecorded
<1>6. ASSUME Restart \/ UNCHANGED vars PROVE UNCHANGED <<failed, age>>
  BY <1>6 DEF Restart, vars
<1> HIDE DEF TypeOK
<1>7. Counted(k) \subseteq Counted(k)'
  BY <1>1, <1>2, <1>3, <1>4, <1>5, <1>6 DEF Next
<1>8. Failures(k) <= Failures(k)'
  BY <1>7, CountIsFinite, FS_Subset DEF Failures
<1>9. QED BY <1>8, CountIsFinite

\* FR-013: only time takes a failure out of the count.
THEOREM CountFallsWithTime == Spec => OnlyTimeLifts
<1>1. TypeOK /\ [Next]_vars => [\A k \in Keys : Failures(k)' < Failures(k) => Tick]_vars
  BY CountIsKept
<1>2. QED BY <1>1, TypeInit, TypeStep, PTL DEF Spec, OnlyTimeLifts
=============================================================================
