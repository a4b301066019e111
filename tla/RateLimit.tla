------------------------------- MODULE RateLimit -------------------------------
(***************************************************************************)
(* The throttle of sign-ins and of lookups of join links and invitations:  *)
(* failures are rows, counted over a trailing window each time somebody    *)
(* tries.                                                                  *)
(*                                                                         *)
(* An attempt presents its keys, in the order they are counted: a sign-in  *)
(* its e-mail address and then its client address, a lookup its client     *)
(* address, in a table of its own and so as a key of its own.  Counting    *)
(* takes no lock and reserves nothing: a password is hashed, a code looked *)
(* up, and other attempts come and end before the outcome is recorded.     *)
(***************************************************************************)
EXTENDS Naturals, Sequences, FiniteSets

CONSTANTS
    Keys,
    Attempts,
    KeysOf,     \* attempt -> the keys it is counted by
    Slots,      \* attempts that may be under way at a time
    Max,        \* signin_max_attempts
    Window,     \* signin_window_minutes, in ticks
    Retention,  \* how long the prune job keeps a row, in ticks
    MaxRows,    \* bounds the table
    None

ASSUME RateLimitAssumption ==
    /\ KeysOf \in [Attempts -> Seq(Keys)]
    /\ IsFiniteSet(Slots)
    /\ Max \in Nat \ {0} /\ Window \in Nat /\ Retention \in Nat /\ Window < Retention
    /\ MaxRows \in Nat
    /\ None \notin Attempts

Rows == 1..MaxRows

VARIABLES
    failed,     \* row -> the failed attempt it records, or None
    age,        \* row -> ticks since attempted_at; more than Retention is as much
    trying,     \* slot -> the attempt under way
    passed      \* slot -> how many of its keys have been counted

vars == <<failed, age, trying, passed>>

\* The rows of failed attempts, and how far each attempt under way has counted.
TypeOK ==
    /\ failed \in [Rows -> Attempts \cup {None}]
    /\ age \in [Rows -> 0..Retention]
    /\ trying \in [Slots -> Attempts \cup {None}]
    /\ passed \in [Slots -> Nat]
    /\ \A s \in Slots : passed[s] <= IF trying[s] = None THEN 0 ELSE Len(KeysOf[trying[s]])

Init ==
    /\ failed = [r \in Rows |-> None]
    /\ age = [r \in Rows |-> 0]
    /\ trying = [s \in Slots |-> None]
    /\ passed = [s \in Slots |-> 0]

\* The keys a list holds.
Among(ks) == {ks[i] : i \in 1..Len(ks)}

\* count_recent_failures, by one key.
Counted(k) == {r \in Rows : failed[r] # None /\ k \in Among(KeysOf[failed[r]]) /\ age[r] <= Window}
Failures(k) == Cardinality(Counted(k))

\* Mutant of Throttled: one failure too many.
ThrottledLate(k) == Failures(k) > Max

\* check_rate_limit.
Throttled(k) == Failures(k) >= Max

-----------------------------------------------------------------------------
Try(s, a) ==
    /\ trying[s] = None
    /\ trying' = [trying EXCEPT ![s] = a]
    /\ UNCHANGED <<failed, age, passed>>

Leave(s) ==
    /\ trying' = [trying EXCEPT ![s] = None]
    /\ passed' = [passed EXCEPT ![s] = 0]

\* One more row, with the next id that is free.
Record(a) ==
    \E r \in Rows :
        /\ failed[r] = None /\ \A x \in 1..r - 1 : failed[x] # None
        /\ failed' = [failed EXCEPT ![r] = a]
        /\ age' = [age EXCEPT ![r] = 0]

NextKey(s) == KeysOf[trying[s]][passed[s] + 1]
Counting(s) == trying[s] # None /\ passed[s] < Len(KeysOf[trying[s]])

Pass(s) ==
    /\ Counting(s) /\ ~ Throttled(NextKey(s))
    /\ passed' = [passed EXCEPT ![s] = @ + 1]
    /\ UNCHANGED <<failed, age, trying>>

\* Mutant of NotRecorded: a refusal counts as a failure.
RecordedToo(a) == Record(a)

\* RateLimited is raised before anything is recorded.
NotRecorded(a) == UNCHANGED <<failed, age>>

Refuse(s) ==
    /\ Counting(s) /\ Throttled(NextKey(s))
    /\ NotRecorded(trying[s])
    /\ Leave(s)

\* A wrong password, an account that is not Active, a link that is not usable.
Fail(s) ==
    /\ trying[s] # None /\ ~ Counting(s)
    /\ Record(trying[s])
    /\ Leave(s)

\* A success is a row that no count looks at, and an error that rolls back is
\* none: neither takes anything back.
Succeed(s) ==
    /\ trying[s] # None /\ ~ Counting(s)
    /\ Leave(s)
    /\ UNCHANGED <<failed, age>>

Tick ==
    /\ age' = [r \in Rows |-> IF failed[r] # None /\ age[r] < Retention THEN age[r] + 1 ELSE age[r]]
    /\ UNCHANGED <<failed, trying, passed>>

\* Mutant of Prunable: the window is taken for the retention, off by one.
PrunableInWindow(r) == age[r] >= Window

Prunable(r) == age[r] >= Retention

Prune ==
    /\ failed' = [r \in Rows |-> IF Prunable(r) THEN None ELSE failed[r]]
    /\ age' = [r \in Rows |-> IF Prunable(r) THEN 0 ELSE age[r]]
    /\ UNCHANGED <<trying, passed>>

\* The process restarts: what was under way is lost, the rows are not.
Restart ==
    /\ trying' = [s \in Slots |-> None]
    /\ passed' = [s \in Slots |-> 0]
    /\ UNCHANGED <<failed, age>>

Next ==
    \/ \E s \in Slots : \/ \E a \in Attempts : Try(s, a)
                        \/ Pass(s) \/ Refuse(s) \/ Fail(s) \/ Succeed(s)
    \/ Tick \/ Prune \/ Restart

Spec == Init /\ [][Next]_vars

\* Time passes; nothing is assumed of those who try.
FairSpec == Spec /\ WF_vars(Tick)

-----------------------------------------------------------------------------
(* Properties *)

\* Attempts that let k pass and have not recorded their outcome yet.
PassedBy(k) ==
    {s \in Slots : trying[s] # None /\ \E i \in 1..passed[s] : KeysOf[trying[s]][i] = k}

\* FR-013, FR-071, SC-011, SC-021: however attempts interleave, the failures in
\* one window exceed the limit only by those that were under way together when
\* it was reached, whose number the server bounds.
ThrottleBound ==
    \A k \in Keys : Failures(k) + Cardinality(PassedBy(k)) <= Max - 1 + Cardinality(Slots)

\* FR-013: nothing but the passing of time takes a failure out of the count:
\* no success, no prune job, no restart.
OnlyTimeLifts == [][\A k \in Keys : Failures(k)' < Failures(k) => Tick]_vars

\* FR-013: whoever is refused is let in again once the period has passed, with
\* no administrator's help and however often it is tried meanwhile.
EveryoneIsLetInAgain == \A k \in Keys : Throttled(k) ~> ~ Throttled(k)
=============================================================================
