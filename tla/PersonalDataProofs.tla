-------------------------- MODULE PersonalDataProofs --------------------------
(***************************************************************************)
(* Theorems about PersonalData, for every number of accounts, players,     *)
(* requests and storage keys, and every way of submitting a week.          *)
(***************************************************************************)
EXTENDS PersonalData, FiniteSetTheorems, TLAPS

USE PersonalDataAssumption

LEMMA TypeInit == Init => TypeOK
BY DEF Init, TypeOK, Owners, Rows, Accounts

\* What the validator lets through is stored as a set of pairs of integers.
LEMMA RangesAreIntegers ==
  ASSUME NEW w \in Accepted
  PROVE  ToSet(w) \subseteq Int \X Int
<1>1. w \in Seq(Int \X Int)
  BY DEF Accepted
<1>2. QED BY <1>1 DEF ToSet

LEMMA TypeStep == TypeOK /\ [Next]_vars => TypeOK'
<1> SUFFICES ASSUME TypeOK, [Next]_vars PROVE TypeOK'
  OBVIOUS
<1> USE DEF TypeOK
<1>1. ASSUME NEW q \in Requests, NEW a \in Accounts, Authenticate(q, a) PROVE TypeOK'
  <2>1. key[a] \in Keys \cup {None}
    BY DEF Rows
  <2>2. QED BY <1>1, <2>1 DEF Authenticate, familyVars, dataVars
<1>2. ASSUME NEW q \in Requests, EndWithoutEffect(q) \/ UpdateOwn(q) PROVE TypeOK'
  <2>1. OwnRows(by[q]) \subseteq Rows \/ by[q] = None
    BY DEF OwnRows, Rows
  <2>2. QED BY <1>2, <2>1 DEF EndWithoutEffect, UpdateOwn, Serve, familyVars, dataVars
<1>3. CASE Pictures
  <2>1. PICK q \in Requests, r \in Rows :
          \/ \E n \in Keys : UploadPicture(q, r, n) \/ UploadCutOff(q, r, n)
          \/ DeletePicture(q, r) \/ DeleteCutOff(q, r)
    BY <1>3 DEF Pictures
  <2>2. ASSUME NEW n \in Keys, UploadPicture(q, r, n) PROVE TypeOK'
    BY <2>2 DEF UploadPicture, Serve, familyVars
  <2>3. ASSUME NEW n \in Keys, UploadCutOff(q, r, n) PROVE TypeOK'
    BY <2>3 DEF UploadCutOff, Serve, familyVars, dataVars
  <2>4. CASE DeletePicture(q, r) \/ DeleteCutOff(q, r)
    BY <2>4 DEF DeletePicture, DeleteCutOff, Serve, familyVars, dataVars
  <2>5. QED BY <2>1, <2>2, <2>3, <2>4
<1>4. CASE Family
  <2>1. ASSUME NEW q \in Requests, NEW p \in Profiles, RemoveProfile(q, p) PROVE TypeOK'
    BY <2>1 DEF RemoveProfile, Serve, WithoutRanges
  <2>2. ASSUME NEW q \in Requests, NEW p \in Profiles, NEW renamed \in BOOLEAN,
               UpdateProfile(q, p, renamed)
        PROVE  TypeOK'
    BY <2>2 DEF UpdateProfile, CopyOf, Serve, familyVars, Rows, Accounts
  <2>3. QED BY <1>4, <2>1, <2>2 DEF Family
<1>5. ASSUME NEW q \in Requests, NEW o \in Owners, NEW w \in Weeks, ReplaceWeek(q, o, w)
      PROVE  TypeOK'
  BY <1>5, RangesAreIntegers DEF ReplaceWeek, Serve, familyVars
<1>6. ASSUME NEW a \in Accounts, Erase(a) \/ EraseCutOff(a) PROVE TypeOK'
  <2>1. CASE Erase(a)
    BY <2>1 DEF Erase, Cascade, Accounts, WithoutRanges
  <2>2. CASE EraseCutOff(a)
    BY <2>2 DEF EraseCutOff, familyVars, dataVars
  <2>3. QED BY <1>6, <2>1, <2>2
<1>7. CASE UNCHANGED vars
  BY <1>7 DEF vars
<1> HIDE DEF TypeOK
<1>8. QED BY <1>1, <1>2, <1>3, <1>4, <1>5, <1>6, <1>7 DEF Next

\* Every variable keeps its type in every reachable state.
THEOREM TypeCorrect == Spec => []TypeOK
BY TypeInit, TypeStep, PTL DEF Spec

-----------------------------------------------------------------------------
(***************************************************************************)
(* The validator of weeks.  It compares neighbours only, after sorting by  *)
(* start; that this refuses exactly the weeks in which two ranges share a  *)
(* minute is proved here from the order, not by induction on the week.     *)
(***************************************************************************)

Positions(w) == 1..Len(w)

InShape(w) ==
    \A i \in Positions(w) :
        /\ w[i][1] % Step = 0 /\ w[i][2] % Step = 0
        /\ 0 <= w[i][1] /\ w[i][1] < w[i][2] /\ w[i][2] <= DayEnd

\* What the validator is for: no minute belongs to two of the ranges.
NoMinuteTwice(w) ==
    \A i, j \in Positions(w) : \A m \in Int :
        w[i][1] <= m /\ m < w[i][2] /\ w[j][1] <= m /\ m < w[j][2] => i = j

LEMMA WeekTypes ==
  ASSUME NEW w \in Weeks
  PROVE  /\ w \in Seq(Int \X Int) /\ Len(w) \in Nat /\ DOMAIN w = Positions(w)
         /\ Positions(w) \subseteq Int
         /\ \A i \in Positions(w) : w[i] \in Int \X Int /\ w[i][1] \in Int /\ w[i][2] \in Int
<1>1. w \in Seq(Int \X Int)
  OBVIOUS
<1>2. Len(w) \in Nat /\ DOMAIN w = Positions(w) /\ \A i \in Positions(w) : w[i] \in Int \X Int
  BY <1>1 DEF Positions
<1>3. Positions(w) \subseteq Int
  BY <1>2 DEF Positions
<1>4. QED BY <1>1, <1>2, <1>3

LEMMA SortedOrders ==
  ASSUME NEW w \in Weeks, NEW s \in Sorted(w)
  PROVE  /\ s \in [Positions(w) -> Positions(w)]
         /\ \A i, j \in Positions(w) : s[i] = s[j] => i = j
         /\ \A k \in Positions(w) : \E i \in Positions(w) : s[i] = k
         /\ \A i, j \in Positions(w) : i < j => w[s[i]][1] <= w[s[j]][1]
BY DEF Sorted, Bijection, Injection, IsInjective, Surjection, Positions

\* In sorted order, neighbours that are apart are all apart: what starts later
\* starts no sooner than the next one, and that no sooner than the end.
LEMMA NeighboursApart ==
  ASSUME NEW w \in Weeks, InShape(w), NEW s \in Sorted(w),
         \A i \in 1..Len(w) - 1 : Apart(w[s[i]], w[s[i + 1]]),
         NEW i \in Positions(w), NEW j \in Positions(w), i < j
  PROVE  w[s[i]][2] <= w[s[j]][1]
<1>1. i \in 1..Len(w) - 1 /\ i + 1 \in Positions(w) /\ i + 1 <= j
  BY WeekTypes DEF Positions
<1>2. s[i] \in Positions(w) /\ s[j] \in Positions(w) /\ s[i + 1] \in Positions(w)
  BY <1>1, SortedOrders
<1>3. w[s[i + 1]][1] <= w[s[j]][1]
  <2>1. CASE i + 1 = j
    BY <2>1, <1>2, WeekTypes
  <2>2. CASE i + 1 < j
    BY <1>1, <2>2, SortedOrders
  <2>3. QED BY <1>1, <2>1, <2>2, WeekTypes DEF Positions
<1>4. w[s[i]][2] <= w[s[i + 1]][1]
  BY <1>1, <1>2, WeekTypes DEF Apart
<1>5. w[s[i]][2] \in Int /\ w[s[i + 1]][1] \in Int /\ w[s[j]][1] \in Int
  BY <1>2, WeekTypes
<1>6. QED BY <1>3, <1>4, <1>5

LEMMA AcceptedIsDisjoint ==
  ASSUME NEW w \in Weeks, Accepts(w)
  PROVE  NoMinuteTwice(w)
<1>1. InShape(w)
  BY DEF Accepts, InShape, Positions
<1>2. PICK s \in Sorted(w) : \A i \in 1..Len(w) - 1 : Apart(w[s[i]], w[s[i + 1]])
  BY DEF Accepts
<1>3. SUFFICES ASSUME NEW a \in Positions(w), NEW b \in Positions(w), NEW m \in Int,
                      w[a][1] <= m, m < w[a][2], w[b][1] <= m, m < w[b][2]
               PROVE  a = b
  BY DEF NoMinuteTwice
<1>4. PICK i \in Positions(w), j \in Positions(w) : s[i] = a /\ s[j] = b
  BY <1>2, SortedOrders
<1>5. /\ w[a][1] \in Int /\ w[a][2] \in Int /\ w[b][1] \in Int /\ w[b][2] \in Int
      /\ i \in Int /\ j \in Int
  BY <1>3, WeekTypes DEF Positions
<1>6. i < j => w[a][2] <= w[b][1]
  BY <1>1, <1>2, <1>4, NeighboursApart
<1>7. j < i => w[b][2] <= w[a][1]
  BY <1>1, <1>2, <1>4, NeighboursApart
<1>8. i = j
  BY <1>3, <1>5, <1>6, <1>7
<1>9. QED BY <1>4, <1>8

(***************************************************************************)
(* The converse: ranges that share no minute start at different minutes,   *)
(* so the number of ranges that start no later ranks them, and the inverse *)
(* of the ranking is the sorted order the validator looks at.              *)
(***************************************************************************)
UpTo(w, i) == {j \in Positions(w) : w[j][1] <= w[i][1]}

Rank(w) == [i \in Positions(w) |-> Cardinality(UpTo(w, i))]

LEMMA PositionsAreCounted ==
  ASSUME NEW w \in Weeks
  PROVE  IsFiniteSet(Positions(w)) /\ Cardinality(Positions(w)) = Len(w)
<1>1. Len(w) \in Nat /\ Len(w) \in Int /\ 1 \in Int
  BY WeekTypes
<1>2. /\ IsFiniteSet(1..Len(w))
      /\ Cardinality(1..Len(w)) = IF 1 > Len(w) THEN 0 ELSE Len(w) - 1 + 1
  BY <1>1, FS_Interval
<1>3. QED BY <1>1, <1>2 DEF Positions

LEMMA RankCounts ==
  ASSUME NEW w \in Weeks, NEW i \in Positions(w)
  PROVE  IsFiniteSet(UpTo(w, i)) /\ Cardinality(UpTo(w, i)) \in Positions(w)
<1>1. IsFiniteSet(Positions(w)) /\ Cardinality(Positions(w)) = Len(w)
  BY PositionsAreCounted
<1>2. /\ IsFiniteSet(UpTo(w, i)) /\ Cardinality(UpTo(w, i)) \in Nat
      /\ Cardinality(UpTo(w, i)) <= Len(w)
  BY <1>1, FS_Subset, FS_CardinalityType DEF UpTo
<1>3. i \in UpTo(w, i)
  BY WeekTypes DEF UpTo
<1>4. Cardinality(UpTo(w, i)) # 0
  BY <1>2, <1>3, FS_EmptySet
<1>5. QED BY <1>2, <1>4, WeekTypes DEF Positions

LEMMA RankFollowsStart ==
  ASSUME NEW w \in Weeks, NEW i \in Positions(w), NEW j \in Positions(w), w[i][1] < w[j][1]
  PROVE  Rank(w)[i] < Rank(w)[j]
<1>1. UpTo(w, i) \subseteq UpTo(w, j) /\ j \in UpTo(w, j) /\ j \notin UpTo(w, i)
  BY WeekTypes DEF UpTo
<1>2. Cardinality(UpTo(w, i)) <= Cardinality(UpTo(w, j))
      /\ Cardinality(UpTo(w, i)) # Cardinality(UpTo(w, j))
  BY <1>1, RankCounts, FS_Subset
<1>3. Cardinality(UpTo(w, i)) \in Int /\ Cardinality(UpTo(w, j)) \in Int
  BY RankCounts, WeekTypes DEF Positions
<1>4. QED BY <1>2, <1>3 DEF Rank

LEMMA RankIsBijection ==
  ASSUME NEW w \in Weeks, InShape(w), NoMinuteTwice(w)
  PROVE  Rank(w) \in Bijection(Positions(w), Positions(w))
<1>1. Rank(w) \in [Positions(w) -> Positions(w)]
  BY RankCounts DEF Rank
<1>2. ASSUME NEW i \in Positions(w), NEW j \in Positions(w), Rank(w)[i] = Rank(w)[j]
      PROVE  i = j
  <2>1. /\ w[i][1] \in Int /\ w[i][2] \in Int /\ w[j][1] \in Int /\ w[j][2] \in Int
        /\ Rank(w)[i] \in Int /\ Rank(w)[j] \in Int
    BY <1>1, WeekTypes DEF Positions
  <2>2. ~ (w[i][1] < w[j][1]) /\ ~ (w[j][1] < w[i][1])
    BY <1>2, <2>1, RankFollowsStart
  <2>3. w[i][1] = w[j][1]
    BY <2>1, <2>2
  <2>4. w[i][1] <= w[i][1] /\ w[i][1] < w[i][2] /\ w[j][1] <= w[i][1] /\ w[i][1] < w[j][2]
    BY <2>1, <2>3 DEF InShape
  <2>5. QED BY <2>1, <2>4 DEF NoMinuteTwice
<1>3. Rank(w) \in Injection(Positions(w), Positions(w))
  BY <1>1, <1>2 DEF Injection, IsInjective
<1>4. IsFiniteSet(Positions(w))
  BY PositionsAreCounted
<1>5. Rank(w) \in Surjection(Positions(w), Positions(w))
  BY <1>3, <1>4, FS_Injection
<1>6. QED BY <1>3, <1>5 DEF Bijection

ByRank(w) == [k \in Positions(w) |-> CHOOSE i \in Positions(w) : Rank(w)[i] = k]

LEMMA RankSorts ==
  ASSUME NEW w \in Weeks, InShape(w), NoMinuteTwice(w)
  PROVE  ByRank(w) \in Sorted(w)
<1> DEFINE s == ByRank(w)
<1>1. /\ Rank(w) \in [Positions(w) -> Positions(w)]
      /\ \A k \in Positions(w) : \E i \in Positions(w) : Rank(w)[i] = k
      /\ \A i, j \in Positions(w) : Rank(w)[i] = Rank(w)[j] => i = j
  BY RankIsBijection DEF Bijection, Injection, IsInjective, Surjection
<1>2. \A k \in Positions(w) : s[k] \in Positions(w) /\ Rank(w)[s[k]] = k
  BY <1>1 DEF ByRank
<1>3. s \in [Positions(w) -> Positions(w)]
  BY <1>2 DEF ByRank
<1> HIDE DEF s
<1>4. \A i \in Positions(w) : s[Rank(w)[i]] = i
  BY <1>1, <1>2
<1>5. s \in Bijection(Positions(w), Positions(w))
  <2>1. s \in Injection(Positions(w), Positions(w))
    BY <1>2, <1>3 DEF Injection, IsInjective
  <2>2. s \in Surjection(Positions(w), Positions(w))
    BY <1>1, <1>3, <1>4 DEF Surjection
  <2>3. QED BY <2>1, <2>2 DEF Bijection
<1>6. ASSUME NEW k \in Positions(w), NEW l \in Positions(w), k < l
      PROVE  w[s[k]][1] <= w[s[l]][1]
  <2>1. w[s[k]][1] \in Int /\ w[s[l]][1] \in Int /\ k \in Int /\ l \in Int
    BY <1>2, WeekTypes
  <2>2. ~ (w[s[l]][1] < w[s[k]][1])
    <3>1. SUFFICES ASSUME w[s[l]][1] < w[s[k]][1] PROVE FALSE
      OBVIOUS
    <3>2. s[l] \in Positions(w) /\ s[k] \in Positions(w)
      BY <1>2
    <3>3. Rank(w)[s[l]] < Rank(w)[s[k]]
      BY <3>1, <3>2, RankFollowsStart
    <3>4. l < k
      BY <1>2, <3>3
    <3>5. QED BY <1>6, <2>1, <3>4
  <2>3. QED BY <2>1, <2>2
<1>7. s \in Sorted(w)
  BY <1>5, <1>6 DEF Sorted, Positions
<1>8. QED BY <1>7 DEF s

LEMMA DisjointIsAccepted ==
  ASSUME NEW w \in Weeks, InShape(w), Len(w) <= MaxPerDay, NoMinuteTwice(w)
  PROVE  Accepts(w)
<1>1. PICK s \in Sorted(w) : TRUE
  BY RankSorts
<1>2. ASSUME NEW i \in 1..Len(w) - 1 PROVE Apart(w[s[i]], w[s[i + 1]])
  <2>1. PICK j \in Positions(w) : j = i + 1 /\ i \in Positions(w) /\ i < j /\ i # j
    <3>1. Len(w) \in Nat
      BY WeekTypes
    <3>2. QED BY <3>1 DEF Positions
  <2>2. PICK a \in Positions(w), b \in Positions(w) :
          a = s[i] /\ b = s[j] /\ a # b /\ w[a][1] <= w[b][1]
    <3>1. s[i] \in Positions(w) /\ s[j] \in Positions(w)
      BY <2>1, SortedOrders
    <3>2. s[i] # s[j] /\ w[s[i]][1] <= w[s[j]][1]
      BY <2>1, SortedOrders
    <3>3. QED BY <3>1, <3>2
  <2>3. /\ w[a][1] \in Int /\ w[a][2] \in Int /\ w[b][1] \in Int /\ w[b][2] \in Int
        /\ w[b][1] < w[b][2]
    BY WeekTypes DEF InShape
  <2>4. ~ (w[b][1] < w[a][2])
    <3>1. SUFFICES ASSUME w[b][1] < w[a][2] PROVE FALSE
      OBVIOUS
    <3>2. w[a][1] <= w[b][1] /\ w[b][1] < w[a][2] /\ w[b][1] <= w[b][1] /\ w[b][1] < w[b][2]
      BY <2>2, <2>3, <3>1
    <3>3. a = b
      BY <2>3, <3>2 DEF NoMinuteTwice
    <3>4. QED BY <2>2, <3>3
  <2>5. w[b][1] >= w[a][2]
    BY <2>3, <2>4
  <2>6. QED BY <2>1, <2>2, <2>5 DEF Apart
<1>3. \E t \in Sorted(w) : \A i \in 1..Len(w) - 1 : Apart(w[t[i]], w[t[i + 1]])
  BY <1>1, <1>2
<1>4. QED BY <1>3 DEF Accepts, InShape, Positions

\* FR-027, FR-028: the validator is exact.  It lets a week through if and only
\* if its ranges are well formed, are no more than a day may hold, and no minute
\* belongs to two of them, however they were ordered in the request.
THEOREM ValidatorIsExact ==
  \A w \in Weeks : Accepts(w) <=> InShape(w) /\ Len(w) <= MaxPerDay /\ NoMinuteTwice(w)
<1>1. ASSUME NEW w \in Weeks, Accepts(w)
      PROVE  InShape(w) /\ Len(w) <= MaxPerDay /\ NoMinuteTwice(w)
  BY <1>1, AcceptedIsDisjoint DEF Accepts, InShape, Positions
<1>2. QED BY <1>1, DisjointIsAccepted

(***************************************************************************)
(* What is stored.                                                         *)
(***************************************************************************)
SoundRanges(R) ==
    /\ \A x \in R : x[1] % Step = 0 /\ x[2] % Step = 0 /\ 0 <= x[1] /\ x[2] <= DayEnd
    /\ \A m \in 0..DayEnd - 1 : \A x, y \in R :
          m \in x[1]..x[2] - 1 /\ m \in y[1]..y[2] - 1 => x = y
    /\ Cardinality(R) <= MaxPerDay

LEMMA NoRangesAreSound == SoundRanges({})
BY FS_EmptySet DEF SoundRanges

LEMMA AcceptedRangesAreSound ==
  ASSUME NEW w \in Weeks, Accepts(w)
  PROVE  SoundRanges(ToSet(w))
<1>1. InShape(w) /\ Len(w) <= MaxPerDay /\ NoMinuteTwice(w)
  BY ValidatorIsExact
<1>2. \A x \in ToSet(w) : \E i \in Positions(w) : x = w[i]
  BY WeekTypes DEF ToSet
<1>3. ASSUME NEW x \in ToSet(w)
      PROVE  x[1] % Step = 0 /\ x[2] % Step = 0 /\ 0 <= x[1] /\ x[2] <= DayEnd
  BY <1>1, <1>2 DEF InShape
<1>4. ASSUME NEW m \in 0..DayEnd - 1, NEW x \in ToSet(w), NEW y \in ToSet(w),
             m \in x[1]..x[2] - 1, m \in y[1]..y[2] - 1
      PROVE  x = y
  <2>1. PICK i \in Positions(w), j \in Positions(w) : x = w[i] /\ y = w[j]
    BY <1>2
  <2>2. x[1] \in Int /\ x[2] \in Int /\ y[1] \in Int /\ y[2] \in Int /\ m \in Int
    BY <2>1, WeekTypes
  <2>3. x[1] <= m /\ m < x[2] /\ y[1] <= m /\ m < y[2]
    BY <1>4, <2>2
  <2>4. i = j
    BY <1>1, <2>1, <2>2, <2>3 DEF NoMinuteTwice
  <2>5. QED BY <2>1, <2>4
<1>5. Cardinality(ToSet(w)) <= MaxPerDay
  <2>1. IsFiniteSet(Positions(w)) /\ Cardinality(Positions(w)) = Len(w)
    BY PositionsAreCounted
  <2>2. w \in Surjection(Positions(w), ToSet(w))
    BY WeekTypes DEF Surjection, ToSet
  <2>3. IsFiniteSet(ToSet(w)) /\ Cardinality(ToSet(w)) <= Len(w)
    BY <2>1, <2>2, FS_Surjection
  <2>4. Cardinality(ToSet(w)) \in Int /\ Len(w) \in Int
    BY <2>3, WeekTypes, FS_CardinalityType
  <2>5. QED BY <1>1, <2>3, <2>4
<1>6. QED BY <1>3, <1>4, <1>5 DEF SoundRanges

LEMMA WeeksStep ==
  ASSUME TypeOK, \A o \in Owners : SoundRanges(week[o]), [Next]_vars, NEW o \in Owners
  PROVE  SoundRanges(week'[o])
<1> USE DEF TypeOK
<1>1. ASSUME NEW q \in Requests, NEW p \in Profiles, RemoveProfile(q, p)
      PROVE  SoundRanges(week'[o])
  BY <1>1, NoRangesAreSound DEF RemoveProfile, WithoutRanges
<1>2. ASSUME NEW q \in Requests, NEW c \in Owners, NEW w \in Weeks, ReplaceWeek(q, c, w)
      PROVE  SoundRanges(week'[o])
  BY <1>2, AcceptedRangesAreSound DEF ReplaceWeek, Accepted
<1>3. ASSUME NEW a \in Accounts, Erase(a) PROVE SoundRanges(week'[o])
  BY <1>3, NoRangesAreSound DEF Erase, WithoutRanges
<1>4. ASSUME NEW q \in Requests, NEW r \in Rows, NEW n \in Keys,
             UploadPicture(q, r, n) \/ UploadCutOff(q, r, n)
      PROVE  week' = week
  BY <1>4 DEF UploadPicture, UploadCutOff, dataVars
<1>5. ASSUME NEW q \in Requests, NEW r \in Rows, DeletePicture(q, r) \/ DeleteCutOff(q, r)
      PROVE  week' = week
  BY <1>5 DEF DeletePicture, DeleteCutOff, dataVars
<1>6. ASSUME NEW q \in Requests, NEW p \in Profiles, NEW renamed \in BOOLEAN,
             UpdateProfile(q, p, renamed)
      PROVE  week' = week
  BY <1>6 DEF UpdateProfile
<1>7. ASSUME NEW q \in Requests, NEW a \in Accounts, Authenticate(q, a) PROVE week' = week
  BY <1>7 DEF Authenticate, dataVars
<1>8. ASSUME NEW q \in Requests, EndWithoutEffect(q) \/ UpdateOwn(q) PROVE week' = week
  BY <1>8 DEF EndWithoutEffect, UpdateOwn, dataVars
<1>9. ASSUME NEW a \in Accounts, EraseCutOff(a) PROVE week' = week
  BY <1>9 DEF EraseCutOff, dataVars
<1>10. CASE UNCHANGED vars
  BY <1>10 DEF vars
<1> HIDE DEF TypeOK
<1>11. week' = week => SoundRanges(week'[o])
  OBVIOUS
<1>12. QED
  BY <1>1, <1>2, <1>3, <1>4, <1>5, <1>6, <1>7, <1>8, <1>9, <1>10, <1>11 DEF Next, Pictures, Family

\* FR-027, FR-028: the stored ranges lie on the grid and in the day, are no more
\* than a day may hold, and no two share a minute, whatever was submitted.
THEOREM StoredWeeksAreSound == Spec => []StoredWeekIsSound
<1> DEFINE Sound == \A o \in Owners : SoundRanges(week[o])
<1>1. Init => Sound
  BY NoRangesAreSound DEF Init
<1>2. TypeOK /\ Sound /\ [Next]_vars => Sound'
  BY WeeksStep
<1>3. Sound => StoredWeekIsSound
  BY DEF StoredWeekIsSound, SoundRanges
<1> HIDE DEF Sound
<1>4. QED BY <1>1, <1>2, <1>3, TypeInit, TypeStep, PTL DEF Spec

-----------------------------------------------------------------------------
(* Weeks of removed players *)

\* A removed player is within nobody's reach, so no request states a week for
\* it; and every other step that writes a week empties it.
LEMMA RemovedStep == TypeOK /\ RemovedHasNoWeek /\ [Next]_vars => RemovedHasNoWeek'
<1> SUFFICES ASSUME TypeOK, RemovedHasNoWeek, [Next]_vars PROVE RemovedHasNoWeek'
  OBVIOUS
<1> USE DEF TypeOK, RemovedHasNoWeek, Owners
<1>1. ASSUME removed' = removed, week' = week PROVE RemovedHasNoWeek'
  BY <1>1
<1>2. ASSUME NEW q \in Requests, NEW p \in Profiles, RemoveProfile(q, p) PROVE RemovedHasNoWeek'
  BY <1>2 DEF RemoveProfile, WithoutRanges
<1>3. ASSUME NEW q \in Requests, NEW o \in Owners, NEW w \in Weeks, ReplaceWeek(q, o, w)
      PROVE  RemovedHasNoWeek'
  <2>1. o \notin removed
    BY <1>3 DEF ReplaceWeek, Reaches, Serve, Accounts
  <2>2. QED BY <1>3, <2>1 DEF ReplaceWeek, familyVars
<1>4. ASSUME NEW a \in Accounts, Erase(a) PROVE RemovedHasNoWeek'
  BY <1>4 DEF Erase, WithoutRanges
<1>5. ASSUME NEW q \in Requests, NEW r \in Rows, NEW n \in Keys,
             UploadPicture(q, r, n) \/ UploadCutOff(q, r, n)
      PROVE  removed' = removed /\ week' = week
  BY <1>5 DEF UploadPicture, UploadCutOff, familyVars, dataVars
<1>6. ASSUME NEW q \in Requests, NEW r \in Rows, DeletePicture(q, r) \/ DeleteCutOff(q, r)
      PROVE  removed' = removed /\ week' = week
  BY <1>6 DEF DeletePicture, DeleteCutOff, familyVars, dataVars
<1>7. ASSUME NEW q \in Requests, NEW p \in Profiles, NEW renamed \in BOOLEAN,
             UpdateProfile(q, p, renamed)
      PROVE  removed' = removed /\ week' = week
  BY <1>7 DEF UpdateProfile, familyVars
<1>8. ASSUME NEW q \in Requests, NEW a \in Accounts, Authenticate(q, a)
      PROVE  removed' = removed /\ week' = week
  BY <1>8 DEF Authenticate, familyVars, dataVars
<1>9. ASSUME NEW q \in Requests, EndWithoutEffect(q) \/ UpdateOwn(q)
      PROVE  removed' = removed /\ week' = week
  BY <1>9 DEF EndWithoutEffect, UpdateOwn, familyVars, dataVars
<1>10. ASSUME NEW a \in Accounts, EraseCutOff(a) PROVE removed' = removed /\ week' = week
  BY <1>10 DEF EraseCutOff, familyVars, dataVars
<1>11. CASE UNCHANGED vars
  BY <1>1, <1>11 DEF vars
<1> HIDE DEF TypeOK, RemovedHasNoWeek, Owners
<1>12. QED
  BY <1>1, <1>2, <1>3, <1>4, <1>5, <1>6, <1>7, <1>8, <1>9, <1>10, <1>11 DEF Next, Pictures, Family

\* FR-039 of 002: no stated range outlives the removal of its player.
THEOREM RemovedPlayersStateNothing == Spec => []RemovedHasNoWeek
<1>1. Init => RemovedHasNoWeek
  BY DEF Init, RemovedHasNoWeek, Owners
<1>2. QED BY <1>1, TypeInit, TypeStep, RemovedStep, PTL DEF Spec

-----------------------------------------------------------------------------
(***************************************************************************)
(* Files.  A key is never given twice, so a row and a request agree on one *)
(* only where the request was authenticated as that row's account; this is *)
(* what makes it safe to delete what an upload replaces.                   *)
(***************************************************************************)
OneRowPerKey ==
    /\ \A r, s \in Rows : key[r] = key[s] /\ key[r] # None => r = s
    /\ \A q \in Requests, r \in Rows : own[q] # None /\ key[r] = own[q] => r = by[q]

\* A step that writes no key and at most forgets what a request has read.
LEMMA KeysFrame ==
  ASSUME TypeOK, OneRowPerKey, key' = key,
         \A q \in Requests : own'[q] = None \/ (own'[q] = own[q] /\ by'[q] = by[q])
  PROVE  OneRowPerKey'
BY DEF OneRowPerKey, TypeOK

LEMMA KeysStep == TypeOK /\ OneRowPerKey /\ [Next]_vars => OneRowPerKey'
<1> SUFFICES ASSUME TypeOK, OneRowPerKey, [Next]_vars PROVE OneRowPerKey'
  OBVIOUS
<1>1. ASSUME NEW q \in Requests, NEW a \in Accounts, Authenticate(q, a) PROVE OneRowPerKey'
  BY <1>1 DEF Authenticate, OneRowPerKey, TypeOK, Rows, dataVars
<1>2. ASSUME NEW q \in Requests, NEW r \in Rows, NEW n \in Keys, UploadPicture(q, r, n)
      PROVE  OneRowPerKey'
  BY <1>2 DEF UploadPicture, Fresh, Serve, OneRowPerKey, TypeOK
<1>3. ASSUME NEW q \in Requests, NEW r \in Rows, DeletePicture(q, r) PROVE OneRowPerKey'
  BY <1>3 DEF DeletePicture, Serve, OneRowPerKey, TypeOK
<1>4. ASSUME NEW a \in Accounts, Erase(a) PROVE OneRowPerKey'
  BY <1>4 DEF Erase, OneRowPerKey, TypeOK
<1>5. ASSUME NEW q \in Requests, Serve(q), key' = key PROVE OneRowPerKey'
  BY <1>5, KeysFrame DEF Serve, TypeOK
<1>6. ASSUME NEW q \in Requests, EndWithoutEffect(q) \/ UpdateOwn(q) PROVE OneRowPerKey'
  BY <1>6, <1>5 DEF EndWithoutEffect, UpdateOwn, dataVars
<1>7. ASSUME NEW q \in Requests, NEW r \in Rows, NEW n \in Keys, UploadCutOff(q, r, n)
      PROVE  OneRowPerKey'
  BY <1>7, <1>5 DEF UploadCutOff, dataVars
<1>8. ASSUME NEW q \in Requests, NEW r \in Rows, DeleteCutOff(q, r) PROVE OneRowPerKey'
  BY <1>8, <1>5 DEF DeleteCutOff, dataVars
<1>9. CASE Family
  BY <1>9, <1>5 DEF Family, RemoveProfile, UpdateProfile
<1>10. ASSUME NEW q \in Requests, NEW o \in Owners, NEW w \in Weeks, ReplaceWeek(q, o, w)
       PROVE  OneRowPerKey'
  BY <1>10, <1>5 DEF ReplaceWeek
<1>11. ASSUME NEW a \in Accounts, EraseCutOff(a) PROVE OneRowPerKey'
  BY <1>11, KeysFrame DEF EraseCutOff, dataVars
<1>12. CASE UNCHANGED vars
  BY <1>12, KeysFrame DEF vars
<1>13. QED
  BY <1>1, <1>2, <1>3, <1>4, <1>6, <1>7, <1>8, <1>9, <1>10, <1>11, <1>12 DEF Next, Pictures

LEMMA FilesStep ==
  ASSUME TypeOK, OneRowPerKey, [Next]_vars, NEW r \in Rows
  PROVE  /\ key'[r] \notin {key[r], None} => key'[r] \in file'
         /\ key'[r] = key[r] /\ key[r] \in file \ file' => UNCHANGED <<familyVars, dataVars>>
<1> USE DEF TypeOK, OneRowPerKey
<1>1. ASSUME NEW q \in Requests, NEW s \in Rows, NEW n \in Keys, UploadPicture(q, s, n)
      PROVE  /\ key'[r] \notin {key[r], None} => key'[r] \in file'
             /\ ~ (key'[r] = key[r] /\ key[r] \in file \ file')
  <2>1. n # Previous(q, s) /\ n # key[r]
    BY <1>1 DEF UploadPicture, Fresh, Previous
  <2>2. r # s => Previous(q, s) = None \/ key[r] # Previous(q, s)
    BY DEF Previous
  <2>3. None \notin file
    OBVIOUS
  <2>4. QED BY <1>1, <2>1, <2>2, <2>3 DEF UploadPicture
<1>2. ASSUME NEW q \in Requests, NEW s \in Rows, DeletePicture(q, s)
      PROVE  /\ key'[r] \in {key[r], None}
             /\ ~ (key'[r] = key[r] /\ key[r] \in file \ file')
  <2>1. r # s => key[r] # Previous(q, s)
    BY <1>2 DEF DeletePicture, Previous
  <2>2. QED BY <1>2, <2>1 DEF DeletePicture
<1>3. ASSUME NEW a \in Accounts, Erase(a)
      PROVE  /\ key'[r] \in {key[r], None}
             /\ ~ (key'[r] = key[r] /\ key[r] \in file \ file')
  <2>1. CASE r \in RowsOf(a)
    BY <1>3, <2>1 DEF Erase
  <2>2. CASE r \notin RowsOf(a)
    <3>1. RowsOf(a) \subseteq Rows
      BY DEF RowsOf, Cascade, ProfilesOf, Rows, Accounts
    <3>2. key[r] \notin KeysOf(a)
      BY <2>2, <3>1 DEF KeysOf
    <3>3. QED BY <1>3, <2>2, <3>2 DEF Erase
  <2>3. QED BY <2>1, <2>2
<1>4. ASSUME NEW q \in Requests, NEW s \in Rows, NEW n \in Keys, UploadCutOff(q, s, n)
      PROVE  UNCHANGED <<familyVars, dataVars>>
  BY <1>4 DEF UploadCutOff
<1>5. ASSUME NEW q \in Requests, NEW s \in Rows, DeleteCutOff(q, s)
      PROVE  UNCHANGED <<familyVars, dataVars>>
  BY <1>5 DEF DeleteCutOff
<1>6. ASSUME NEW a \in Accounts, EraseCutOff(a) PROVE UNCHANGED <<familyVars, dataVars>>
  BY <1>6 DEF EraseCutOff
<1>7. ASSUME NEW q \in Requests, NEW a \in Accounts, Authenticate(q, a)
      PROVE  key' = key /\ file' = file
  BY <1>7 DEF Authenticate, dataVars
<1>8. ASSUME NEW q \in Requests, EndWithoutEffect(q) \/ UpdateOwn(q)
      PROVE  key' = key /\ file' = file
  BY <1>8 DEF EndWithoutEffect, UpdateOwn, dataVars
<1>9. ASSUME NEW q \in Requests, NEW o \in Owners, NEW w \in Weeks, ReplaceWeek(q, o, w)
      PROVE  key' = key /\ file' = file
  BY <1>9 DEF ReplaceWeek
<1>10. CASE Family
  <2>1. key' = key /\ file' = file
    BY <1>10 DEF Family, RemoveProfile, UpdateProfile
  <2>2. QED BY <2>1
<1>11. CASE UNCHANGED vars
  BY <1>11 DEF vars
<1>12. QED
  <2>1. ASSUME UNCHANGED <<familyVars, dataVars>>
        PROVE  key' = key
    BY <2>1 DEF dataVars
  <2> HIDE DEF TypeOK, OneRowPerKey
  <2>2. QED
    BY <2>1, <1>1, <1>2, <1>3, <1>4, <1>5, <1>6, <1>7, <1>8, <1>9, <1>10, <1>11 DEF Next, Pictures

\* FR-034, FR-103: no row is given a key without its file, and what is shown
\* loses its file only in a step that commits nothing.
THEOREM FilesFollowTheRows == Spec => CommitKeepsFiles
<1>1. Init => OneRowPerKey
  BY DEF Init, OneRowPerKey
<1>2. TypeOK /\ OneRowPerKey /\ [Next]_vars =>
        [\A r \in Rows :
          /\ key'[r] \notin {key[r], None} => key'[r] \in file'
          /\ key'[r] = key[r] /\ key[r] \in file \ file' => UNCHANGED <<familyVars, dataVars>>]_vars
  BY FilesStep
<1>3. QED BY <1>1, <1>2, TypeInit, TypeStep, KeysStep, PTL DEF Spec, CommitKeepsFiles

-----------------------------------------------------------------------------
(* Erasure *)

\* Only an erasure that runs to its end erases anybody.
LEMMA OnlyEraseErases ==
  ASSUME [Next]_vars, erased' # erased
  PROVE  \E b \in Accounts : Erase(b)
<1>1. ASSUME NEW q \in Requests, NEW a \in Accounts, Authenticate(q, a)
      PROVE  erased' = erased
  BY <1>1 DEF Authenticate, familyVars
<1>2. ASSUME NEW a \in Accounts, EraseCutOff(a) PROVE erased' = erased
  BY <1>2 DEF EraseCutOff, familyVars
<1>3. ASSUME NEW q \in Requests, EndWithoutEffect(q) \/ UpdateOwn(q) PROVE erased' = erased
  BY <1>3 DEF EndWithoutEffect, UpdateOwn, familyVars
<1>4. ASSUME Pictures PROVE erased' = erased
  BY <1>4 DEF Pictures, UploadPicture, UploadCutOff, DeletePicture, DeleteCutOff, familyVars
<1>5. ASSUME Family PROVE erased' = erased
  BY <1>5 DEF Family, RemoveProfile, UpdateProfile, familyVars
<1>6. ASSUME NEW q \in Requests, NEW o \in Owners, NEW w \in Weeks, ReplaceWeek(q, o, w)
      PROVE  erased' = erased
  BY <1>6 DEF ReplaceWeek, familyVars
<1>7. CASE UNCHANGED vars
  BY <1>7 DEF vars
<1>8. QED BY <1>1, <1>2, <1>3, <1>4, <1>5, <1>6, <1>7 DEF Next

LEMMA ErasureStep ==
  ASSUME TypeOK, [Next]_vars, NEW a \in erased' \ erased, NEW r \in Rows,
         \/ r = a
         \/ a \in Trainers /\ r = Logo(a)
         \/ r \in Profiles /\ ParentOf[r] = a
         \/ r \notin erased /\ \E p \in Profiles : ParentOf[p] = a /\ signIn[p] = r
  PROVE  /\ r \notin named' /\ key'[r] = None /\ key[r] \notin file'
         /\ r \in Owners => week'[r] = {}
         /\ r \in Kids => r \in erased'
<1> USE DEF TypeOK
<1>1. PICK b \in Accounts : Erase(b)
  BY OnlyEraseErases
<1>2. a \in Cascade(b)
  BY <1>1 DEF Erase
<1>3. r \in RowsOf(b) /\ (r \in Kids => r \in Cascade(b))
  <2>1. CASE a = b
    <3>1. ASSUME r = a PROVE r \in Cascade(b)
      BY <2>1, <3>1 DEF Cascade
    <3>2. ASSUME a \in Trainers, r = Logo(a) PROVE r \in {Logo(b)} \cap Rows /\ r \notin Kids
      BY <2>1, <3>2 DEF Accounts
    <3>3. ASSUME r \in Profiles, ParentOf[r] = a PROVE r \in ProfilesOf(b) /\ r \notin Kids
      BY <2>1, <3>3 DEF ProfilesOf, Accounts
    <3>4. ASSUME r \notin erased, \E p \in Profiles : ParentOf[p] = a /\ signIn[p] = r
          PROVE  r \in Cascade(b)
      <4>1. r # None
        OBVIOUS
      <4>2. QED BY <2>1, <3>4, <4>1 DEF Cascade, ProfilesOf
    <3>5. QED BY <3>1, <3>2, <3>3, <3>4 DEF RowsOf
  <2>2. CASE a # b
    <3>1. a \in Kids
      BY <1>2, <2>2 DEF Cascade
    <3>2. r = a
      BY <3>1
    <3>3. QED BY <1>2, <3>2 DEF RowsOf
  <2>3. QED BY <2>1, <2>2
<1>4. key[r] \in KeysOf(b) \/ key[r] \notin file
  BY <1>3 DEF KeysOf
<1>5. r \in Kids => r \in erased'
  BY <1>1, <1>3 DEF Erase
<1>6. QED BY <1>1, <1>3, <1>4, <1>5 DEF Erase, WithoutRanges

\* FR-045: what erases an account leaves none of its personal data, nor any of
\* the players it ever had.
THEOREM ErasureClearsEverything == Spec => ErasureIsThorough
<1>1. TypeOK /\ [Next]_vars =>
       [\A a \in erased' \ erased, r \in Rows :
          (\/ r = a
           \/ a \in Trainers /\ r = Logo(a)
           \/ r \in Profiles /\ ParentOf[r] = a
           \/ r \notin erased /\ \E p \in Profiles : ParentOf[p] = a /\ signIn[p] = r)
          => /\ r \notin named' /\ key'[r] = None /\ key[r] \notin file'
             /\ r \in Owners => week'[r] = {}
             /\ r \in Kids => r \in erased']_vars
  BY ErasureStep
<1>2. QED BY <1>1, TypeInit, TypeStep, PTL DEF Spec, ErasureIsThorough

-----------------------------------------------------------------------------
(***************************************************************************)
(* How far the run PersonalData_erased goes: ErasedHoldsNothing fails, and *)
(* there are exactly two ways for an erased account to be written to.      *)
(***************************************************************************)
Gains(a) ==
    \/ \E r \in OwnRows(a) : r \in named' \ named \/ key'[r] \notin {key[r], None}
    \/ a \in Owners /\ week'[a] \notin {week[a], {}}

\* A request that was authenticated as the account before the erasure.
OwnEdit(a) == \E q \in Requests : by[q] = a /\ by'[q] = None

\* The parent renames a player whose sign-in is the erased account: erasing a
\* child's account alone leaves it named by the profile.
CopiedName(a) ==
    /\ key' = key /\ week' = week /\ named' \cap OwnRows(a) \subseteq named \cup {a}
    /\ \E q \in Requests, p \in Profiles :
          signIn[p] = a /\ by[q] = ParentOf[p] /\ by'[q] = None

\* No request of the erased account is in flight, and no profile names it.
Quiet(a) ==
    /\ a \in erased
    /\ \A q \in Requests : by[q] # a
    /\ \A p \in Profiles : signIn[p] # a

\* FR-045, FR-048: whoever else is at work, an erased account or its business
\* gains a name, a detail, a picture or a stated range in those two ways only.
ErasedGainsTwoWaysOnly ==
    [][\A a \in erased : Gains(a) => OwnEdit(a) \/ CopiedName(a)]_vars

\* FR-048: erasure is irreversible once the account's last request is served and
\* no profile names it: nothing is written to it from then on.
QuietForGood ==
    [][\A a \in erased : Quiet(a) => Quiet(a)' /\ ~Gains(a)]_vars

LEMMA GainStep ==
  ASSUME TypeOK, [Next]_vars, NEW a \in Accounts, Gains(a), a \in erased
  PROVE  OwnEdit(a) \/ CopiedName(a)
<1> USE DEF TypeOK
<1>1. /\ a \in Rows /\ a \notin Profiles /\ (\A t \in Trainers : Logo(t) # a)
      /\ OwnRows(a) \subseteq Rows \ Profiles
  BY DEF Rows, OwnRows
<1>2. ASSUME NEW q \in Requests, NEW r \in Rows, NEW n \in Keys,
             UploadPicture(q, r, n) \/ UploadCutOff(q, r, n)
      PROVE  OwnEdit(a)
  <2>1. UploadPicture(q, r, n) /\ r \in OwnRows(a)
    BY <1>1, <1>2 DEF Gains, UploadPicture, UploadCutOff, dataVars
  <2>2. by[q] = a
    <3>1. r = by[q] \/ (by[q] \in Trainers /\ r = Logo(by[q]))
      BY <1>1, <2>1 DEF UploadPicture, Picture
    <3>2. QED BY <1>1, <2>1, <3>1 DEF UploadPicture, Serve, OwnRows
  <2>3. QED BY <2>1, <2>2 DEF UploadPicture, Serve, OwnEdit
<1>3. ASSUME NEW q \in Requests, NEW r \in Rows, DeletePicture(q, r) \/ DeleteCutOff(q, r)
      PROVE  FALSE
  BY <1>1, <1>3 DEF Gains, DeletePicture, DeleteCutOff, dataVars
<1>4. ASSUME NEW q \in Requests, EndWithoutEffect(q) \/ UpdateOwn(q) PROVE OwnEdit(a)
  <2>1. UpdateOwn(q) /\ key' = key /\ week' = week
    BY <1>4 DEF Gains, EndWithoutEffect, UpdateOwn, dataVars
  <2>2. PICK r \in OwnRows(a) : r \in named' \ named
    BY <2>1 DEF Gains
  <2>3. r \in OwnRows(by[q]) /\ by[q] \in Accounts
    BY <2>1, <2>2 DEF UpdateOwn, Serve
  <2>4. by[q] = a
    BY <1>1, <2>2, <2>3 DEF OwnRows
  <2>5. QED BY <2>1, <2>4 DEF UpdateOwn, Serve, OwnEdit
<1>5. ASSUME NEW q \in Requests, NEW p \in Profiles, NEW renamed \in BOOLEAN,
             UpdateProfile(q, p, renamed)
      PROVE  CopiedName(a)
  <2>1. key' = key /\ week' = week
    BY <1>5 DEF UpdateProfile
  <2>2. PICK r \in OwnRows(a) : r \in named' \ named
    BY <2>1 DEF Gains
  <2>3. signIn[p] \in Accounts \cup {None} /\ named' \subseteq named \cup {p, signIn[p]}
    BY <1>5 DEF UpdateProfile, CopyOf, Accounts
  <2>4. r = a /\ signIn[p] = a
    BY <1>1, <2>2, <2>3 DEF OwnRows, Rows
  <2>5. QED BY <1>1, <1>5, <2>1, <2>3, <2>4 DEF UpdateProfile, Serve, CopiedName
<1>6. ASSUME NEW q \in Requests, NEW p \in Profiles, RemoveProfile(q, p) PROVE FALSE
  BY <1>1, <1>6 DEF Gains, RemoveProfile, WithoutRanges
<1>7. ASSUME NEW q \in Requests, NEW o \in Owners, NEW w \in Weeks, ReplaceWeek(q, o, w)
      PROVE  OwnEdit(a)
  <2>1. o = a
    BY <1>1, <1>7 DEF Gains, ReplaceWeek
  <2>2. QED BY <1>1, <1>7, <2>1 DEF ReplaceWeek, Serve, OwnEdit
<1>8. ASSUME NEW b \in Accounts, Erase(b) \/ EraseCutOff(b) PROVE FALSE
  BY <1>1, <1>8 DEF Gains, Erase, EraseCutOff, WithoutRanges, dataVars
<1>9. ASSUME NEW q \in Requests, NEW b \in Accounts, Authenticate(q, b) PROVE FALSE
  BY <1>9 DEF Gains, Authenticate, dataVars
<1>10. CASE UNCHANGED vars
  BY <1>10 DEF Gains, vars
<1> HIDE DEF TypeOK
<1>11. QED
  BY <1>2, <1>3, <1>4, <1>5, <1>6, <1>7, <1>8, <1>9, <1>10 DEF Next, Pictures, Family

LEMMA QuietStep ==
  ASSUME TypeOK, [Next]_vars, NEW a \in Accounts, Quiet(a)
  PROVE  Quiet(a)'
<1> USE DEF TypeOK, Quiet
<1>1. a # None
  BY DEF Rows
<1>2. ASSUME NEW q \in Requests, NEW b \in Accounts, Authenticate(q, b) PROVE Quiet(a)'
  BY <1>2 DEF Authenticate, MayEnter, familyVars
<1>3. ASSUME NEW q \in Requests, Serve(q), UNCHANGED familyVars PROVE Quiet(a)'
  BY <1>1, <1>3 DEF Serve, familyVars
<1>4. ASSUME NEW q \in Requests, NEW p \in Profiles, RemoveProfile(q, p) PROVE Quiet(a)'
  BY <1>1, <1>4 DEF RemoveProfile, Serve
<1>5. ASSUME NEW b \in Accounts, Erase(b) \/ EraseCutOff(b) PROVE Quiet(a)'
  BY <1>1, <1>5 DEF Erase, EraseCutOff, familyVars
<1>6. CASE UNCHANGED vars
  BY <1>6 DEF vars
<1>7. ASSUME NEW q \in Requests, NEW r \in Rows, NEW n \in Keys,
             UploadPicture(q, r, n) \/ UploadCutOff(q, r, n)
      PROVE  Quiet(a)'
  BY <1>3, <1>7 DEF UploadPicture, UploadCutOff
<1>8. ASSUME NEW q \in Requests, NEW r \in Rows, DeletePicture(q, r) \/ DeleteCutOff(q, r)
      PROVE  Quiet(a)'
  BY <1>3, <1>8 DEF DeletePicture, DeleteCutOff
<1>9. ASSUME NEW q \in Requests, NEW p \in Profiles, NEW renamed \in BOOLEAN,
             UpdateProfile(q, p, renamed)
      PROVE  Quiet(a)'
  BY <1>3, <1>9 DEF UpdateProfile
<1>10. ASSUME NEW q \in Requests, EndWithoutEffect(q) \/ UpdateOwn(q) PROVE Quiet(a)'
  BY <1>3, <1>10 DEF EndWithoutEffect, UpdateOwn
<1>11. ASSUME NEW q \in Requests, NEW o \in Owners, NEW w \in Weeks, ReplaceWeek(q, o, w)
      PROVE  Quiet(a)'
  BY <1>3, <1>11 DEF ReplaceWeek
<1> HIDE DEF TypeOK, Quiet
<1>12. QED
  BY <1>2, <1>4, <1>5, <1>6, <1>7, <1>8, <1>9, <1>10, <1>11 DEF Next, Pictures, Family

THEOREM ErasedGainTwoWays == Spec => ErasedGainsTwoWaysOnly
<1>1. TypeOK /\ [Next]_vars => \A a \in erased : Gains(a) => OwnEdit(a) \/ CopiedName(a)
  BY GainStep DEF TypeOK
<1>2. QED BY <1>1, TypeInit, TypeStep, PTL DEF Spec, ErasedGainsTwoWaysOnly

THEOREM ErasureIsForGood == Spec => QuietForGood
<1>1. TypeOK /\ [Next]_vars => \A a \in erased : Quiet(a) => Quiet(a)' /\ ~Gains(a)
  <2> SUFFICES ASSUME TypeOK, [Next]_vars, NEW a \in erased, Quiet(a)
               PROVE  Quiet(a)' /\ ~Gains(a)
    OBVIOUS
  <2>1. a \in Accounts
    BY DEF TypeOK
  <2>2. Quiet(a)'
    BY <2>1, QuietStep
  <2>3. ~Gains(a)
    BY <2>1, GainStep DEF Quiet, OwnEdit, CopiedName
  <2>4. QED BY <2>2, <2>3
<1>2. QED BY <1>1, TypeInit, TypeStep, PTL DEF Spec, QuietForGood
=============================================================================
