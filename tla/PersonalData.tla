----------------------------- MODULE PersonalData -----------------------------
(***************************************************************************)
(* The personal data of accounts and players: names, photos and logos with *)
(* their files, and the weeks people state; and what removal and erasure   *)
(* clear of it.                                                            *)
(*                                                                         *)
(* A request is two steps, as in Approvals.  Authentication reads the      *)
(* account with its own profile row, and both stay in the request's        *)
(* identity map: what the handler reads of its own row is what was there   *)
(* then.  Everything else the handler reads afresh, under the lock.        *)
(* The database commits when the handler ends; the upload directory does   *)
(* not wait for it, so every handler that touches a file has a second      *)
(* outcome, where the process dies or the commit fails: files changed,     *)
(* rows not.                                                               *)
(***************************************************************************)
EXTENDS Integers, FiniteSets, Sequences, SequencesExt

CONSTANTS
    Parents, Kids, Coaches, Trainers,   \* accounts, by role (kids: child sign-ins)
    Profiles,   \* child players
    ParentOf,   \* player_profiles.account_user_id
    SignInOf,   \* the sign-ins granted before the behaviour starts
    Requests,   \* request slots: bounds the requests in flight
    Keys,       \* storage keys; one stands for a picture and its thumbnail
    Weeks,      \* submitted weeks: sequences of <<start, end>> of one day
    Step, DayEnd, MaxPerDay,    \* the grid, the day's end, the ranges a day may hold
    None

Accounts == Parents \cup Kids \cup Coaches \cup Trainers

\* Rows that hold personal data: of an account, of a player, of a business (its
\* address, website, description and logo).
Logo(t) == <<t, "logo">>
Rows == Accounts \cup Profiles \cup {Logo(t) : t \in Trainers}
Owners == Coaches \cup Profiles

\* The rows an account edits as its own: its profile and a trainer's business.
OwnRows(a) == {a} \cup {Logo(t) : t \in Trainers \cap {a}}

ASSUME PersonalDataAssumption ==
    /\ ParentOf \in [Profiles -> Parents]
    /\ SignInOf \in [Profiles -> Kids \cup {None}]
    /\ Weeks \subseteq Seq(Int \X Int)
    /\ Step \in Nat \ {0} /\ DayEnd \in Nat /\ MaxPerDay \in Nat
    /\ Kids \cap (Parents \cup Coaches \cup Trainers) = {}
    /\ Parents \cap Trainers = {}
    /\ None \notin Rows \cup Keys
    /\ Profiles \cap Accounts = {}
    /\ \A t \in Trainers : Logo(t) \notin Accounts \cup Profiles
    /\ \A s, t \in Trainers : Logo(s) = Logo(t) => s = t

VARIABLES
    erased,     \* accounts whose status is deleted
    removed,    \* profiles with removed_at set
    signIn,     \* profile -> sign_in_user_id
    named,      \* rows that hold what identifies the person
    key,        \* row -> photo_key, logo_key
    file,       \* keys of the files in the upload directory
    week,       \* owner -> the ranges stored for it
    by,         \* request -> the account it is authenticated as
    own         \* request -> photo_key of that account, as read then

dataVars == <<named, key, week>>
familyVars == <<erased, removed, signIn>>
vars == <<erased, removed, signIn, named, key, file, week, by, own>>

\* The rows, the files and what the requests in flight may be; a row that holds a
\* name is one that exists.
TypeOK ==
    /\ erased \subseteq Accounts
    /\ removed \subseteq Profiles
    /\ signIn \in [Profiles -> Kids \cup {None}]
    /\ named \subseteq Rows
    /\ key \in [Rows -> Keys \cup {None}]
    /\ file \subseteq Keys
    /\ week \in [Owners -> SUBSET (Int \X Int)]
    /\ by \in [Requests -> Accounts \cup {None}]
    /\ own \in [Requests -> Keys \cup {None}]

Init ==
    /\ erased = {} /\ removed = {}
    /\ signIn = SignInOf
    /\ named = Rows
    /\ key = [r \in Rows |-> None]
    /\ file = {}
    /\ week = [o \in Owners |-> {}]
    /\ by = [q \in Requests |-> None]
    /\ own = [q \in Requests |-> None]

-----------------------------------------------------------------------------
(* Requests *)

\* Not erased, and no child of an erased parent.  An account no profile names (a
\* sign-in that was displaced, or ended and reactivated) is an ordinary one.
\* Deactivation and reactivation themselves are in Credentials.
MayEnter(a) ==
    /\ a \notin erased
    /\ \A p \in Profiles : signIn[p] = a => ParentOf[p] \notin erased

Authenticate(q, a) ==
    /\ by[q] = None /\ MayEnter(a)
    /\ by' = [by EXCEPT ![q] = a]
    /\ own' = [own EXCEPT ![q] = key[a]]
    /\ UNCHANGED <<familyVars, dataVars, file>>

\* The request takes the lock and ends, committed or not.
Serve(q) ==
    /\ by[q] # None
    /\ by' = [by EXCEPT ![q] = None]
    /\ own' = [own EXCEPT ![q] = None]

\* A request that is refused, or writes nothing modelled here.
EndWithoutEffect(q) ==
    /\ Serve(q)
    /\ UNCHANGED <<familyVars, dataVars, file>>

\* _resolve_reachable: a live profile, the parent's own or the child itself.
Reaches(a, p) ==
    /\ p \notin removed
    /\ a \in {ParentOf[p], signIn[p]}

-----------------------------------------------------------------------------
(* Pictures *)

\* Mutant of Fresh: a key that follows from the owner, so that a replacement
\* may get the name of what it replaces.
AnyKey(n) == TRUE

\* uuid4: in no row, on no disk and in no request's hands.
Fresh(n) == n \notin file /\ (\A r \in Rows : key[r] # n) /\ (\A q \in Requests : own[q] # n)

\* The row whose picture the request may change, and the key it finds there:
\* its own row as of authentication, any other as it is now.
Picture(q, r) ==
    \/ r = by[q]
    \/ r \in Profiles /\ Reaches(by[q], r)
    \/ by[q] \in Trainers /\ r = Logo(by[q])

Previous(q, r) == IF r = by[q] THEN own[q] ELSE key[r]

\* Save the new file, write the row, delete the previous file.
UploadPicture(q, r, n) ==
    /\ Serve(q) /\ Picture(q, r) /\ Fresh(n)
    /\ file' = (file \cup {n}) \ {Previous(q, r)}
    /\ key' = [key EXCEPT ![r] = n]
    /\ UNCHANGED <<familyVars, named, week>>

UploadCutOff(q, r, n) ==
    /\ Serve(q) /\ Picture(q, r) /\ Fresh(n)
    /\ file' \in {file \cup {n}, (file \cup {n}) \ {Previous(q, r)}}
    /\ UNCHANGED <<familyVars, dataVars>>

\* The account's own photo, or the logo (a reset deletes it the same way):
\* where the request finds no key, nothing happens.
DeletePicture(q, r) ==
    /\ Serve(q) /\ Picture(q, r) /\ r \notin Profiles
    /\ Previous(q, r) # None
    /\ file' = file \ {Previous(q, r)}
    /\ key' = [key EXCEPT ![r] = None]
    /\ UNCHANGED <<familyVars, named, week>>

DeleteCutOff(q, r) ==
    /\ Serve(q) /\ Picture(q, r) /\ r \notin Profiles
    /\ file' = file \ {Previous(q, r)}
    /\ UNCHANGED <<familyVars, dataVars>>

-----------------------------------------------------------------------------
(* Names and details *)

\* update_own_profile writes the fields it is sent, of the account and of a
\* trainer's business: its check for an erased account reads the account the
\* request was authenticated with, so it stops nobody.
UpdateOwn(q) ==
    /\ Serve(q)
    /\ \E rows \in SUBSET OwnRows(by[q]) : named' = named \cup rows
    /\ UNCHANGED <<familyVars, key, file, week>>

\* Mutant of CopyOf: the copy is written whether there is a sign-in or not.
CopyAlways(p) == {signIn[p]}

\* The account that carries a copy of the child's name.
CopyOf(p) == {signIn[p]} \ {None}

\* update_profile: by the parent only; a new name of a child with a sign-in is
\* copied to that account's own row.
UpdateProfile(q, p, renamed) ==
    /\ Serve(q) /\ Reaches(by[q], p) /\ by[q] = ParentOf[p]
    /\ named' = named \cup {p} \cup (IF renamed THEN CopyOf(p) ELSE {})
    /\ UNCHANGED <<familyVars, key, file, week>>

-----------------------------------------------------------------------------
(* Stated weeks *)

\* Mutant of Apart: the range that starts later has to end later.
EndsLater(x, y) == y[2] >= x[2]

\* Touching ranges are apart.
Apart(x, y) == y[1] >= x[2]

\* sorted by start: the orders in which no range starts before an earlier one.
\* Of two ranges that start together it does not matter which comes first.
Sorted(w) ==
    {s \in Bijection(1..Len(w), 1..Len(w)) :
        \A i, j \in 1..Len(w) : i < j => w[s[i]][1] <= w[s[j]][1]}

\* validate_week, of one day.
Accepts(w) ==
    /\ \A i \in 1..Len(w) :
          /\ w[i][1] % Step = 0 /\ w[i][2] % Step = 0
          /\ 0 <= w[i][1] /\ w[i][1] < w[i][2] /\ w[i][2] <= DayEnd
    /\ Len(w) <= MaxPerDay
    /\ \E s \in Sorted(w) : \A i \in 1..Len(w) - 1 : Apart(w[s[i]], w[s[i + 1]])

\* What the validator lets through, of all that may be submitted.
Accepted == {w \in Weeks : Accepts(w)}

\* The whole week at once: a coach's own, or that of a player within reach.
\* Clearing it is saving the empty one.  The stamp of when a week was last stated
\* is left out: nothing but a reading of it depends on it.
ReplaceWeek(q, o, w) ==
    /\ Serve(q)
    /\ o = by[q] \/ (o \in Profiles /\ Reaches(by[q], o))
    /\ w \in Accepted
    /\ week' = [week EXCEPT ![o] = ToSet(w)]
    /\ UNCHANGED <<familyVars, named, key, file>>

\* Mutant of WithoutRanges: the slots stay.
KeepRanges(o) == week[o]

\* delete_for_owner.
WithoutRanges(o) == {}

-----------------------------------------------------------------------------
(* Removal and erasure *)

RemoveProfile(q, p) ==
    /\ Serve(q) /\ Reaches(by[q], p) /\ by[q] = ParentOf[p]
    /\ removed' = removed \cup {p}
    /\ signIn' = [signIn EXCEPT ![p] = None]
    /\ week' = [week EXCEPT ![p] = WithoutRanges(p)]
    /\ UNCHANGED <<erased, named, key, file>>

\* Mutant of ProfilesOf: list_live_for_account.
LiveProfilesOf(a) == {p \in Profiles : ParentOf[p] = a /\ p \notin removed}

\* list_all_for_account: removed profiles too.
ProfilesOf(a) == {p \in Profiles : ParentOf[p] = a}

\* The account and, through its profiles, the child sign-ins erased with it,
\* unless they were erased before.
Cascade(a) == {a} \cup {k \in Kids \ erased : \E p \in ProfilesOf(a) : signIn[p] = k}

\* The rows one erasure clears: it takes its list from Cascade.
RowsOf(a) == Cascade(a) \cup ProfilesOf(a) \cup ({Logo(a)} \cap Rows)

KeysOf(a) == {key[r] : r \in RowsOf(a)} \ {None}

Erase(a) ==
    /\ a \notin erased
    /\ erased' = erased \cup Cascade(a)
    /\ named' = named \ RowsOf(a)
    /\ key' = [r \in Rows |-> IF r \in RowsOf(a) THEN None ELSE key[r]]
    /\ file' = file \ KeysOf(a)
    /\ week' = [o \in Owners |-> IF o \in RowsOf(a) THEN WithoutRanges(o) ELSE week[o]]
    /\ signIn' = [p \in Profiles |-> IF p \in ProfilesOf(a) THEN None ELSE signIn[p]]
    /\ UNCHANGED <<removed, by, own>>

EraseCutOff(a) ==
    /\ a \notin erased
    /\ \E ks \in SUBSET KeysOf(a) : file' = file \ ks
    /\ UNCHANGED <<familyVars, dataVars, by, own>>

-----------------------------------------------------------------------------
Pictures ==
    \E q \in Requests, r \in Rows :
        \/ \E n \in Keys : UploadPicture(q, r, n) \/ UploadCutOff(q, r, n)
        \/ DeletePicture(q, r) \/ DeleteCutOff(q, r)

Family ==
    \E q \in Requests, p \in Profiles :
        RemoveProfile(q, p) \/ \E renamed \in BOOLEAN : UpdateProfile(q, p, renamed)

Next ==
    \/ \E q \in Requests, a \in Accounts : Authenticate(q, a)
    \/ \E q \in Requests : EndWithoutEffect(q) \/ UpdateOwn(q)
    \/ Pictures
    \/ Family
    \/ \E q \in Requests, o \in Owners, w \in Weeks : ReplaceWeek(q, o, w)
    \/ \E a \in Accounts : Erase(a) \/ EraseCutOff(a)

Spec == Init /\ [][Next]_vars

-----------------------------------------------------------------------------
(* Properties *)

\* FR-034, FR-103: a row is never given a key without its file, and a picture
\* that is shown loses its file only where nothing else is committed: deleting
\* what an upload replaces never takes what it put there.
CommitKeepsFiles ==
    [][\A r \in Rows :
          /\ key'[r] \notin {key[r], None} => key'[r] \in file'
          /\ key'[r] = key[r] /\ key[r] \in file \ file' => UNCHANGED <<familyVars, dataVars>>]_vars

\* FR-045 and FR-039 of 002: the step that erases an account leaves none of the
\* data that has to go of it, of its business or of any player it ever had,
\* removed ones included: no name of a person, no detail or logo of a business
\* (what it is called and its colour stay on purpose), no file of a key it
\* held, no stated range; and no child sign-in of the family is left.
ErasureIsThorough ==
    [][\A a \in erased' \ erased, r \in Rows :
          (\/ r = a
           \/ a \in Trainers /\ r = Logo(a)
           \/ r \in Profiles /\ ParentOf[r] = a
           \/ r \notin erased /\ \E p \in Profiles : ParentOf[p] = a /\ signIn[p] = r)
          => /\ r \notin named' /\ key'[r] = None /\ key[r] \notin file'
             /\ r \in Owners => week'[r] = {}
             /\ r \in Kids => r \in erased']_vars

\* FR-039 of 002: no stated range outlives the removal of its player, whichever
\* request of the parent or of the child was in flight.
RemovedHasNoWeek == \A p \in removed : week[p] = {}

\* FR-027, FR-028: whatever was submitted, the stored ranges lie on the grid and
\* in the day, are no more than a day may hold, and no two of them share a
\* minute.
StoredWeekIsSound ==
    \A o \in Owners :
        /\ \A x \in week[o] : x[1] % Step = 0 /\ x[2] % Step = 0 /\ 0 <= x[1] /\ x[2] <= DayEnd
        /\ \A m \in 0..DayEnd - 1 : \A x, y \in week[o] :
              m \in x[1]..x[2] - 1 /\ m \in y[1]..y[2] - 1 => x = y
        /\ Cardinality(week[o]) <= MaxPerDay

\* Expected to fail.  FR-045 says that erasure clears all personal identifiers,
\* FR-048 that profile editing is refused for a Deleted account: an erased
\* account, and its business, never hold a name, a detail, a picture or a stated
\* week again.
ErasedHoldsNothing ==
    \A a \in erased :
        /\ \A r \in OwnRows(a) : r \notin named /\ key[r] = None
        /\ a \in Owners => week[a] = {}
=============================================================================
