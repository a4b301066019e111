# A TLA+ specification of the training platform's back end

The repository is a platform for sports trainers: trainers run a roster of
coaches and players, parents manage the player profiles of their children,
Super Admins run the accounts. Its core is the Python service in
`src/backend/src/app` (FastAPI, async SQLAlchemy, SQLite); the web client in
`src/frontend` presents it and decides nothing that the server does not decide
again. This directory models the parts of the service where the order of
requests matters, checks them with TLC and proves their main properties with
TLAPS.

Requirement numbers (FR-...) are those of `src/specs/001-user-roles-admin/spec.md`
and `src/specs/002-coach-availability-impersonation/spec.md` ("001", "002").

## 1. Inventory

### How a request runs

Every HTTP request has one database session and one transaction
(`db/session.py`). It commits when the handler returns **and when it raises a
`DomainError`**; only an unexpected exception rolls back. Two facts follow that
shape every model:

* `SELECT`s before the first write run without a lock. An authenticated request
  reads its session, its account and, for a child's sign-in, the parent, and only
  then touches the session row, which takes SQLite's write lock until the commit.
  So what authentication read may be stale when the handler runs, while the
  handler itself is serial. Each module has an action for each half: the first
  (`Authenticate`, `Arrive`) enters the actor in `admitted` or `serving`, the
  second is the handler.
* Public requests (sign-in, sign-out, set-password, registering through a link)
  touch no session, so *everything* they check is read before the lock. They are two
  actions that carry what was read from one to the other (`opened`, `form`,
  `saw`).

SQLAlchemy keeps attributes as read in its identity map and writes only those
that differ: a "clear" of a value that was read as NULL writes nothing. The
models of registration (`sawBlock`) and of impersonation (`saw`, `Cleared`) keep
that. It also means that whatever authentication read of the actor (the account
with its own profile row) stays as read in the handler: `own` in `PersonalData`
is the photo key of that copy.

Files are outside the transaction: `photo_storage` writes and deletes at once. A
handler that touches files therefore has a second outcome, in which the process
dies or the commit fails after some of the file operations.

### Components

| Component | State | Operations | Interacts with | What is hard |
|---|---|---|---|---|
| **Approval workflow** (`approval_service`, `approval_executors`, `approval_repository`, `maintenance_service`) | `approval_requests` (status, deadline, resolver), associations | raise, approve, deny, ask for information, respond, withdraw, sweep | join (raises), erasure (expires), share links, family | five competing resolvers, a deadline, an executor that may refuse after the update |
| **Coach invitations** (`coach_invitation_service`, `coach_service`) | `coach_invitations`, `coach_details.trainer_user_id` | issue, re-send, revoke, accept, block, register, end assignment | accounts, sessions | single use under races; public registration; expiry |
| **Impersonation** (`impersonation_service`, `core/deps`, `core/principal`) | `impersonation_sessions`, pointer on `sessions` | start, exit, lazy resolution at each request, three hooks | sign-out, deactivation, erasure | one open row per admin; stale pointers; history that must not change |
| **Accounts, setup links, sessions** (`auth_service`, `user_admin_service`, `invitation_repository`, `session_repository`) | `users`, `credential_setup_invitations`, `sessions` | create, re-invite, set password, sign in and out, deactivate, reactivate | all | public read-then-write windows |
| **Child sign-ins** (`child_signin_service`, `family_service`) | `player_profiles.sign_in_user_id` | grant, revoke, removal of the profile | accounts, sessions, approvals | an account whose standing follows from another's |
| **Erasure** (`erasure_service`) | status and anonymised fields | erase, with the cascade to a family | all | one transaction over every component |
| **Share links, joining** (`share_link_service`, `join_service`, `family_service`) | `share_links`, associations | regenerate, read or issue, preview, join, register, add and remove a trainer | approvals, contexts | one current link without an index; link or trainer gone between check and write |
| **Training contexts** (`training_context_service`) | the viewer's active (profile, trainer) pair | resolve and repair, switch | associations, profiles, erasure | the stored pair outlives what it names; whose rows are the viewer's changes |
| **Profiles, branding, media** (`profile_service`, `branding_service`, `family_service`) | names, keys, files | edit, upload, delete, reset | erasure | files are not transactional; stale copies of the own row |
| **Availability** (`availability_service`) | weekly slots of coach or profile | read, replace, clear | erasure, removal | overlap at boundaries; whole-week replacement |
| **Rate limiting** (`rate_limit`, attempt repositories) | failed attempts | count, record, prune | sign-in, link lookup | count and record are apart |
| **Family rules, directory, audit, migrations, client** | fields, reads | | | no protocol of their own |

`PROJECT.json` lists the same components with the files of each, and the hazards
of the code at their lines.

### What makes each correct

* Approvals: a request is settled once, by whoever is entitled and in time; an
  approval and its association are one step; an erased family has nothing open;
  everything settles.
* Invitations: one use; a roster entry is backed by an accepted invitation; one
  live link per address.
* Impersonation: one open per admin; nobody who lost standing is impersonated;
  the closed history stands; one Super Admin stays Active.
* Credentials: one outstanding link per account; nothing usable outlives an
  erasure or removal; losing status ends every session it should; a child's
  account stays a child's.
* Training: a stored context moves only on request, on joining or when it is out
  of reach, and is always of the viewer's own; nobody comes to a trainer who is
  not Active, but for a registration already open.
* Personal data: a committed row has its file; erasure leaves nothing of a family;
  stored ranges do not overlap.
* Throttle: bounded overshoot; only time lifts it; it always lifts.

## 2. Modules

| Module | Models | Code |
|---|---|---|
| `Approvals` | the approval workflow with the family, link and account changes around it | `approval_*`, `maintenance_service`, `join_service`, `share_link_service`, `family_service`, `erasure_service` |
| `Decisions` | what `Approvals` promises: a request has one outcome, the approval is the connection | abstract |
| `CoachInvitations` | invitations, roster, registration | `coach_invitation_service`, `coach_invitation_repository`, `coach_service` |
| `Rosters` | what `CoachInvitations` promises: an offer is used up once, in the step that seats its taker | abstract |
| `Impersonation` | impersonations, pointers, hooks | `impersonation_service`, `impersonation_repository`, `core/deps`, `session_repository` |
| `Credentials` | accounts, setup links, sessions, child sign-ins | `auth_service`, `user_admin_service`, `child_signin_service`, `family_service`, `erasure_service` |
| `Training` | associations, trainers' state and the stored contexts of a family | `training_context_service`, `join_service`, `family_service`, `child_signin_service` |
| `Contexts` | what `Training` promises each viewer about the pair looked at | abstract |
| `PersonalData` | rows that hold personal data, their files, stated weeks, erasure of all of it | `profile_service`, `branding_service`, `family_service`, `availability_service`, `erasure_service` |
| `RateLimit` | the throttle of sign-ins and lookups | `rate_limit`, `auth_service`, the attempt repositories, `maintenance_service` |
| `MC...` | small instances of each | |
| `...Proofs` | theorems of each | |

Conventions. A variable is a database column (or the set of rows where a column is
set); its comment names it. The code stores `expires_at` and compares it with the clock; here that is a
countdown of the time left, decremented by `Tick` and bounded below by 0. Rows, accounts and sessions are ids from a constant
set with a status "none", "unused" or "unissued" before they exist, so a set's size is the
bound on how many are ever made. Who a row belongs to is a constant function
(`ParentOf`, `InviterOf`, `HolderOf` ...) where the code never changes it.
E-mails, audit entries, names and notes are left out. A definition named
"Mutant of X" above `X` is X with a plausible error; nothing uses it, and
substituting it for X breaks the property it stands against, which shows that
the property depends on that line of the code.

### Approvals

`Ask` is a signed-in child following a link: it is refused, and what stays
behind (a `DomainError` commits) is a request. `Approve`, `Deny`, `RequestInfo`,
`Withdraw` and `Respond` are the conditional `UPDATE` of
`ApprovalRepository.resolve`, whose `WHERE` is `PersonMayResolve`; `Sweep` is the
complementary one. `JoinByLink`, `AddTrainer` and `RemoveTrainer` are the ways by which
associations change without a request, so that the properties about approvals speak of the
whole table. `Regenerate` revokes the current link and issues another; `ReadLink` issues
one where there is none. `Approve` contains its executor: update and executor share a
savepoint, so a refusal of the executor is `EndWithoutEffect`. Removal of a
profile, revocation of a sign-in, regeneration of a link, deactivation and
erasure are there because they change what a pending request is about. A child account
that an admin deactivates directly is left to `Credentials`. The kinds
other than `join_trainer` are raised by nothing, and their executors refuse.

### CoachInvitations

`Issue`, `Resend` and `Revoke` are the trainer's; `Accept` and `Block` the invited
coach's or non-coach's. Registration is `OpenRegistration` (the reads) followed by
`Register`, `RegisterOrphan` (the invitation went in between: the account is
committed all the same, on no roster) or `RegisterConflict` (the unique e-mail
index rolls back).

### Impersonation

Each request in flight has a cookie (`serving`) and the pointer it read (`saw`).
`ResolvedStatus` and `ResolvedPointer` are `resolve_for_session`, which every
handler contains. `Deactivate` and `Erase` contain their hooks; when the hook's
`scalar_one_or_none` finds two rows, the request fails and is rolled back
(`Fail`). Signing out is two actions, because it reads before it locks, and
`SignOutFails` is the trigger that protects closed rows.

### Credentials

`Parents` are accounts made by `create_user` or by registering; accounts of other
roles live the same way as far as this module goes. `Kids` are the accounts
`grant` makes. `OpenForm` and `SetupPassword` are the two halves of
`setup_password`, `BeginSignIn` and `SignedIn` those of `sign_in`. `Blocked` is
the derived suspension of a child's access. `EndSignIn` is what revocation and
removal share. Expiry of sessions slides with use and is left out: an expired
session behaves as one nobody uses.

### Training

Who is what to whom changes in many handlers (join, register, create, add, remove,
grant, revoke, erase, deactivate); a viewer's stored pair is written by four of them
(`Accept`, `Register`, `SwitchContext`, `ReadContext`) and deleted by
erasure. `CandidateRows` is what a viewer may look at *now*; nothing keeps the stored pair
inside it, which is why `ResolveContext` repairs it at each read. Links are reduced
to the state of their trainer (`Usable`); the links themselves are in
`Approvals`. A request that switches is told from the others when it authenticates
(`request`), because `Contexts` lets only a viewer who asks move to another pair.
Erasing a trainer is a deactivation never undone: nothing here reads more of it.

### PersonalData

`Rows` are accounts, child players and trainers' businesses (address, website, description and
logo; the business's name and colour survive an erasure on purpose): `named` says which
of them hold what identifies a person or a business, `key` their picture, `file` the upload directory, where
one key stands for a picture and its thumbnail. `UploadPicture` saves, writes and deletes the
previous file; `UploadCutOff`, `DeleteCutOff` and `EraseCutOff` are the same handlers
cut off before the commit, with every prefix of their file operations, or any set of them where
the order has no bearing. `ReplaceWeek` is `validate_week` with the replacement. A
week is one day, as the validator treats days apart. Granted sign-ins are given by
`SignInOf` from the start; `Credentials` has how they come and go.

### RateLimit

An attempt presents its keys in order (a sign-in e-mail and client address, a lookup its
client address) and is counted by each before anything is recorded. `Pass` and `Refuse` are
`check_rate_limit`, `Fail` and `Succeed` the outcome. A success's row is never counted and is
not kept. Ages stop at `Retention`, past which nothing is told apart.

## 3. Runs

| Run | Instance | Shows |
|---|---|---|
| `Approvals_safety` | 1 child, 2 links of 1 trainer, 2 requests, 2 ticks, fairness | the type invariant; one live request per subject; the deadline decides; an erased family has nothing open; one current link; legal transitions; an approval carries out what it says; only the parent connects; the clock never restarts; the workflow implements `Decisions`; every request settles |
| `Approvals_removed` | as above | *violated*: an approval for a removed profile |
| `CoachInvitations_safety` | 2 trainers, 2 coaches and 3 invitations at one address, 1 tick | the type invariant; one use, backed roster, one account per address; the workflow implements `Rosters` |
| `CoachInvitations_resend` | 1 trainer, 1 address | *violated*: two live links after a re-send |
| `Impersonation_admins` | 2 admins with a session each, 1 target, 2 records, 2 requests | a request's impersonation is its own; targets stand; a deactivation ends what the admin has open; one admin stays |
| `Impersonation_sessions` | 1 admin with 2 sessions of her own (a second admin exists), 2 records, 2 requests | one open per admin; the history is kept |
| `Credentials_safety` | 1 parent, 1 child profile, 2 child accounts, 4 links, 1 form, 2 sessions | one outstanding link; nothing outlives erasure or removal; passwords use links; a spent link stays dead; losing status ends sessions |
| `Credentials_independent` | the same | *violated*: a second grant orphans the first account |
| `Training_safety` | 1 parent with a player of her own, 1 child, 1 child account, 2 trainers | contexts are the viewer's own and were joined; joins are of Active trainers; `Contexts` is implemented |
| `PersonalData_safety` | 1 parent, 1 child with a sign-in, 1 coach, 1 trainer, 2 keys, 2 requests, 8 submitted weeks | files follow rows; erasure is thorough; removed players state nothing; stored weeks are sound |
| `PersonalData_erased` | the same | *violated*: an erased account is named again |
| `RateLimit_safety` | sign-ins to 1 address from 2 clients, 2 under way, limit 2, window 1, retention 2, 4 rows, fairness | the overshoot is bounded; only time lifts the limit; it always lifts |

Why the bounds are enough to be interesting. Two requests, invitations or records
of one subject are what uniqueness, supersession and settle-once are about; a third
(`CoachInvitations`) gives a re-send next to another trainer's link. One or two ticks
separate "before" from "past" the deadline with an action in between. Two
requests in flight give every pairwise race, and each actor has at most one
request between authentication and lock, because two of one actor differ only in
what `Authenticate` read. Four links let the parent's account be created with one, a child
account be re-invited, and a second child account be granted. The theorems below
hold without any bound.

In `Impersonation` the admins of one run have one session each, and the sessions of the other run one
admin; that no session acts through another's impersonation, with any number of both, is
the theorem `NobodyRidesAnothers`.

In `Training_safety` two trainers let a context be wrong about the trainer, two players wrong
about the player, and the one child account can be granted, revoked and be left
behind by a removal; a second account that takes the first one's place is left to the
theorems. In `PersonalData` two keys are a picture and its replacement, and the
submitted weeks have every case of the validator's conditions: touching and up to
midnight, overlapping, nested, equal, starting together, one too many, off the grid, unsorted. In `RateLimit`
four rows are two more than the limit, so that the overshoot is not cut off by the
table; when it is full, attempts under way can only succeed, which removes behaviours.

Symmetry is used on ids that no constant function and no property tells apart
(invitations of one trainer, accounts at one address, records, requests, the two
links of one account), never in a liveness run.

`CHECK_DEADLOCK FALSE` everywhere: the ids run out, as they are bounds, and then
nothing need happen.

Fairness. `Approvals_safety`: weak fairness of `Tick`, since time passes, and of
`Sweep`, since the `prune` command "must be scheduled at deployment" (`cli.py`).
`RateLimit_safety`: of `Tick` only. No person is assumed to decide or to try
anything, and nobody to stop trying.

## 4. Where the code and its documents disagree

Four runs show a property stated by the specification and violated by the code;
`findings` in `PROJECT.json` quotes both sides.

1. `Approvals_removed`: removing a profile leaves its requests, and the executor
   does not look at the profile (FR-151 of 001).
2. `CoachInvitations_resend`: re-sending an expired invitation does not look for a
   newer live one (FR-005 of 002); the next `Issue` then raises.
3. `Credentials_independent`: `PUT .../sign-in` on a profile with a sign-in
   overwrites the link to the first account, which stays Active and, since
   `is_child_account` is derived from that link, is an ordinary parent account
   afterwards (FR-135 of 001).
4. `PersonalData_erased`: the check for a Deleted account reads the copy that
   authentication made, so an edit, an upload or a week in flight when its account is erased
   writes personal data back to it (FR-045, FR-048 of 001). There is a second way, with no
   race in it: erasing a child's account by itself leaves `sign_in_user_id` in place, and
   when the parent renames the player, `FamilyService.update_profile` copies the name to the
   erased account.

For each of the four a theorem says how far it goes, that is, that the property can fail in no
other way (section 5).

Others are reachable in the models and listed as hazards with a note, without a run:

* Erasure closes impersonations *of* the account, not the one it runs as an admin (FR-050 of
  002); a deactivation closes both (`DeactivationEndsIt`).
* Two set-password requests may use one link, and one opened before a deactivation, an erasure
  or a re-invitation still sets the password (FR-027); nobody else uses a link late
  (`SpentForGood`).
* Two admins may impersonate one person; then deactivating or erasing that person
  fails, as the hook's lookup finds two rows (`Fail`; FR-050 of 002 and its edge case).
* A sign-in that checked the account before a deactivation inserts a session
  after it, which works again after a reactivation (FR-012).
* A sign-out racing a start in the same session leaves the new impersonation open
  under a revoked session; an impersonation past its deadline stays open until
  its session makes another request (002, FR-046 and the closed-tab edge case).
* A coach registering, or a trainer with a request in flight, is not stopped by a
  deactivation of the trainer after the check.
* An admin may reactivate a child account whose sign-in was revoked, which makes it an
  independent one too.
* Two uploads of one photo in flight leave a file that no row names and no erasure finds.
* A request in flight gives an erased account a context row again.
* `accept` takes an inactive association for a connection; `add_trainer` renews it.
* `use_count` is read without the lock and loses updates (FR-068).
* A signed-in child may edit its own name through `PATCH /me/profile`, although
  `update_profile` calls itself the one writer of that copy.
* The docstring of `supersede_outstanding_for_user` says that it is called when a
  link is consumed; `setup_password` does not call it.

## 5. Proofs

TLAPS proves the following for all values of the constants that satisfy the
module's assumption (owners are functions between the right sets, sets of ids are
disjoint, deadlines are positive; in `Impersonation` the set of admins is finite and
not empty). No theorem bounds the number of requests, accounts or ids.

* **`ApprovalsProofs`**: type correctness, `OneLivePerSubject`, `DeadlineDecides`,
  `ErasedFamilyHasNothingOpen`, `OneCurrentLink`, the four action properties of the run
  (`LegalTransitions`, `ApprovalCarriesOut`, `OnlyTheParentConnects`, `ClockNeverRestarts`), and that
  `Spec` implements `Decisions`. The inductive invariant adds to the properties what a
  request in flight is known to be: an actor in `admitted` may have lost its
  account, but an erased family has no sign-in and none of its children is
  admitted, which is what stops a request from being raised after the erasure.
  `LapsedOnlyExpires` is the safety half of `EveryRequestSettles`: what has lapsed waits,
  unchanged, until the sweep comes.
* **`CoachInvitationsProofs`**: type correctness, `RosterIsBacked`,
  `OneAccountPerAddress`, `JoinSpendsOneInvitation`, `LegalTransitions`, and that `Spec` implements
  `Rosters`. The strengthening says that what a registration remembers about its address and
  role stays true while it waits, and that an account not yet made has no request in flight and no
  roster; with it, `Register`, which looks at neither again, is a `Take` of `Rosters`, as
  `Accept` is. `Resend` is a `Replace`, and what changes no state, taker or roster is a stutter.
* **`ImpersonationProofs`**: type correctness, `OneOpenPerAdmin`,
  `TargetStanding`, `HistoryIsKept`, `OneAdminStays`, `EachRidesItsOwn`, `DeactivationEndsIt`. The strengthening
  `OpenIsMade` says that an open record has an admin and a target; the argument is
  that a handler resolves before it acts, so nothing it leaves open is stale, and the
  account hooks close whatever has the account as its target.
  `OneAdminStays` needs cardinalities: removing one of at least two leaves one.
  `EachRidesItsOwn` has a strengthening of its own, `PointersAreOwn`, about the pointers that
  nobody has read yet: each is to a record made by that session's admin, and no two sessions
  share one.
* **`CredentialsProofs`**: type correctness and the six properties of the run. Every
  step does to setup links one of four things (nothing, issue, consume,
  supersede), and the link properties are proved once for each. Session
  properties split on the three ways to lose Active status.
* **`TrainingProofs`**: type correctness and all that `Training_safety` checks. The strengthening,
  `SignInWasGranted`, says that a profile names only an account made for it; with
  it, every pair that a step may store (a candidate, or a pair just joined) is the viewer's
  own. The refinement goes action by action: what writes a context is a
  `Choose`, `Join`, `Arrive`, `Settle` or `Forget` of `Contexts`, what does not is `Elsewhere`.
* **`PersonalDataProofs`**: type correctness and the four other properties of the run. Deleting what
  an upload replaces is safe because no two rows,
  and no row and request of another account, ever hold the same key
  (`OneRowPerKey`), which a fresh key preserves although the requests' copies are stale.
  `ValidatorIsExact` says that `validate_week`, which sorts by start and then compares neighbours
  only, accepts a week exactly when its ranges are in shape, not too many, and no minute
  lies in two of them, for every week and however the sort orders ranges that start together. One
  direction follows from the order alone: what comes later starts no sooner than the next range,
  and that one no sooner than this one ends; the other builds a sorted order, in which a
  range's place is the number of ranges that start no later. `StoredWeekIsSound` follows.
* **`RateLimitProofs`**: type correctness, `ThrottleBound`, `OnlyTimeLifts`. An attempt
  counts once throughout, among those under way and then among the failures, so the sum
  grows only when somebody passes below the limit; the cardinalities of both sets
  are moved by one element. Rows are pruned only past the window, since
  `Window < Retention`.

Five theorems measure the findings of section 4. Their properties are defined beside them:

| Finding | Theorem | The property can fail only by |
|---|---|---|
| `Approvals_removed` | `RemovedJoinByOldRequests` | approving a request raised before the removal: nobody raises one for a removed profile, and no other step gives it a trainer |
| `CoachInvitations_resend` | `OnlyLateResendsDouble` | re-sending an invitation that has expired |
| `Credentials_independent` | `ChildrenBecomeIndependentTwoWays` | a grant over a sign-in that stands; or, of an account deactivated before, a reactivation. Revocation, removal and erasure never leave a child's account Active on no profile, in any order |
| `PersonalData_erased` | `ErasedGainTwoWays`, `ErasureIsForGood` | the account's own request in flight, or a rename of the player whose sign-in it still is. Once there is neither, nothing is written to it again |

Only model-checked: `EveryRequestSettles` and `EveryoneIsLetInAgain`, as liveness is out
of the prover's reach. The type invariants of `Impersonation`, `Credentials`, `Training` and
`RateLimit` are the other way round: proved, and not properties of a run. Violated properties are of course not proved.

## 6. Not modelled

* `use_count` of a link: no code sets `max_uses`, so nothing depends on it.
* Family rules, phone numbers and passwords: functions of their argument (and today's date),
  tested one by one in the repository.
* Colours, image formats, screening of SVG, which fields a role may edit: data.
* The directory, rosters, histories, previews and audit: reads and append-only records.
* The optimistic `version` of user updates: a stale one is refused with no
  effect, so it only removes behaviours.
* Sliding expiry and pruning of sessions.
* The web client and the migrations. Constraints made by migrations (unique indexes,
  the history trigger) are part of the models.
* E-mail, in every module.

## 7. Plan

Order is by what the system loses when it goes wrong.

1. Done: `Approvals` with `Decisions`, `CoachInvitations` with `Rosters`, `Impersonation`,
   `Credentials`, `Training` with `Contexts`, `PersonalData`, `RateLimit`, each with its proofs.
2. A composition of `Credentials` and `Impersonation` over one set of sessions.
3. An abstract specification of setup links beside `Rosters`, implemented by `Credentials`.
4. Properties of the abstract specifications themselves, carried over by the refinements.
5. Migration 0009 (players to profiles): a one-shot function of the old tables, against
   what it promises about associations and contexts.
