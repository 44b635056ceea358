# WCIB Dashboard: TLA+ models, checks and proofs

WCIB Dashboard is an insurance agency's commission system. An Express server in
TypeScript (`server/`) turns each request into a transaction on PostgreSQL, and
the business rules live in PL/pgSQL functions and triggers (`drizzle/*.sql`),
where later migrations replace, wrap or patch the functions of earlier ones. The
models translate the latest definition of each function. All paths below are
relative to the repository.

1. [The system](#1-the-system): its parts, state, operations and hard behaviours
2. [Plan](#2-plan): modules, runs and theorems, done and to come
3. [The modules](#3-the-modules): how state and actions correspond to the code
4. [Runs](#4-runs): what each shows, bounds and fairness
5. [Findings](#5-findings): where the code and its documentation disagree
6. [Proofs](#6-proofs): what is proved and how
7. [Not modelled](#7-not-modelled)

## 1. The system

| Component | State it keeps | Operations | What makes it hard, and what would make it correct |
|---|---|---|---|
| Pay sheets (`drizzle/0024`-`0030`, `0034`, `0039`, `0040`, `0044`; `server/pay-sheets`, `server/policies/mga-payable*`) | `policies` (paid, producer, deleted), `pay_sheets`, `pay_sheet_policies`, frozen snapshots, `producer_rate_history` | initialise House, mark a payable or a whole MGA paid or unpaid, close a month with or without the producers' months, delete, restore and correct a policy | Every operation meets any history of the others. A policy is paid out once per chain, only while paid for and live; nothing paid is lost; months neither skip nor fork; closed months never change; a month can always be closed. |
| Drafts, approval queue, help (`drizzle/0012`-`0014`, `0020`, `0036`, `0042`, `0046`, `0050`; `server/drafts`, `server/approval-queue`) | `drafts`, `approval_queue_entries`, `policies.source_draft_id` | create, edit, submit, flag, withdraw, discard; approve, send back, push through, delete, restore; direct submission | Owner and admins act on the same rows in any order. Draft, entry and ledger agree; nothing reaches the ledger past its review; what an admin approves is what the draft says; decisions are final; deletion can be undone. |
| Business-state generations (`drizzle/0047`; `server/business-state`) | `business_state_control`, `business_state_generations`, a generation on every row of ten tables | Start Fresh (reset), Restore; a guard on every business write | A switch meets transactions in flight under READ COMMITTED. No write lands in a sealed generation or links two generations, no work is hidden by a restore, nobody waits for ever. |
| Adjustments and chargeback mirrors (`drizzle/0031`, `0041`) | `pay_sheet_adjustments` | add, edit, delete; mirror a House chargeback onto the producer | The two sheets close at different times. Source and mirror agree while both are open. |
| Policy change requests (`drizzle/0043`) | `policy_change_requests` | create, withdraw, decide | The policy changes while a request is pending. One pending request per policy; a decision refers to the version it was made on. |
| Corrections and overrides (`drizzle/0021`, `0022`, `0034`) | `policy_overrides`, policy values | override at approval, correct in the ledger | Stale versions; a correction does not take the settlement lock. |
| Accounts, sessions, login (`server/auth`, `server/http/auth.ts`) | `users` (hash, session version, active), `sessions`, reset tokens, throttle buckets; in memory, what each request has read | log in, upgrade a weak hash, change, replace or reset a password, issue a temporary one, log out, disable an account | A request checks, hashes, and uses what it read in separate statements; others overlap. The last chosen password stands; no session outlives what it proved; a token works once, and the newest one works. |
| Multi-factor authentication (`server/auth/mfa-*`, `server/http/mfa.ts`) | methods and credentials, recovery codes, settings, challenges, recovery grants, step-up authorisations | enrol, acknowledge and regenerate codes, show a factor, recover, step up, remove, disable, reset | Challenges and authorisations are read before the transaction that spends them. Single use; no enrolment without a factor; a factor asked for is not skipped. |
| Administrators (`server/auth/admin-account-security.ts`, `admin-staff.ts`) | `user_capabilities`, `users.is_active` | give and take the capability, activate, deactivate | The principal of a request is loaded once, the capabilities counted under the lock of one row. Somebody can administer. |
| Turn-in form (`client/src/drafts`) | the form, its references and timers, the list of My Drafts, promises | type, save, save and start new, submit, ask for help, discard, navigate | Timers, commands, late answers, lost answers and other devices. Fields go to their draft; one write at a time; what is said to be saved is; what stays on the form is saved in the end. |
| Staff and rates (`drizzle/0006`, `0007`) | `producer_rate_history` | create, update | A close locks the rates it used. |
| KPI, commissions, vocabulary, offices, IPFS, audit, support | targets, receipt flags, names, one flag each, append-only events | upsert, set, create, read | One statement under a unique index each, or read-only. |
| HTTP, configuration, migrations, other pages, deployment | none the others rely on | | Parsing, routing, rendering, start-up. |

How they interact: an approval inserts the policy that the pay sheets settle.
Marking it paid places it on sheets, and a chargeback on the House sheet may open a
producer's chain. All financial operations but a correction serialise on one
advisory lock (`drizzle/0044`, 164-306). Every write of every component passes the
generation guard, and a reset calls the initialisation of the House chain. Audit
rows are written in the transaction they describe. Every request passes the
authorisation guard, which resolves its session against the account first. On the
server there are no callbacks and no messages: components meet in the database,
through rows, row locks and triggers. The browser talks to it by requests that may be
lost, refused or answered late, and by nothing else.

## 2. Plan

The order is by what costs most if it is wrong: money first, then review, then the
operation that touches everything, then the rest.

| # | Module | Purpose | State |
|---|---|---|---|
| 1 | `PayoutBook`, `PaySheetSettlement` (+ `_proofs` of each) | abstract promise of the pay sheets, and where a paid policy is settled | done: 2 passing runs, 2 findings; 13 theorems, among them the refinement and the sole cause of each finding, and 3 about the book |
| 2 | `TurnInReview`, `ApprovalLifecycle` (+ `_proofs` of each) | the life of one turn-in, and the rows that lead it from draft to ledger | done: 1 passing run, 1 finding; 10 theorems, among them the refinement and the sole cause of the finding, and 3 about the life |
| 3 | `GenerationBook`, `BusinessStateGenerations` (+ `_proofs`) | abstract promise of reset and restore, and the transactions that implement it | done: 2 passing runs, 5 theorems, among them the refinement |
| 4 | `AccountAccess`, `AccountSecurity` (+ `_proofs`) | what an account's sessions are good for, and the account: password, factors, one-time rows, sessions, and requests in flight | done: 1 passing run, 1 finding, 10 theorems, one for each property of the run, among them the refinement, and one for the two causes of the finding |
| 5 | `AdministratorRoster` (+ `_proofs`) | who administers the office | done: 1 finding, 1 theorem: what the refused sentence needs |
| 6 | `TurnInForm` (+ `_proofs`) | the form in the browser and the drafts it writes | done: 1 passing run, liveness included, 7 theorems, one for each of its safety and action properties |
| 7 | `ChargebackMirrors` | adjustments and mirrors on the chains of 1 | open; invariants to prove: a mirror is what its source says, frozen ones never change |
| 8 | `TransactionLocks` | lock acquisition of group change, single change, delete, close, correction, reset, statement by statement; composes 1 and 3 at the level of locks | open; deadlocks are broken, the serial actions of 1 are what the locks deliver |
| 9 | `PolicyChangeRequests` | requests and corrections with expected versions | open; abstract specification: one decision per version |
| 10 | frozen totals | cent arithmetic of a close as operators against a reference | open; bounded check |

Theorems still worth proving: the invariants of 7 and 9, and the refinement of the
serial actions of 1 by 8. The four abstract specifications (`PayoutBook`,
`TurnInReview`, `GenerationBook`, `AccountAccess`) say what each server component
promises; `TurnInForm` has none, its promises are about single writes.

## 3. The modules

Conventions. Names are those of the source. A request that raises is rolled back
whole and is no step, except in module 3, where a transaction has several steps and
its rollback is one of them. An operator with a suffix (`Place_IgnoresHistory`) is a
faulty variant of the operator before the underscore. No specification uses it: put in
that operator's place, it shows that a property notices such a bug.

### PayoutBook and PaySheetSettlement

`PayoutBook` is the promise with no sheet or status in sight: the month each chain is
in, the policies whose money is there, and a book of payouts (chain, month, policy,
producer) from which nothing is struck. House starts, money moves and may start
producers in House's month, and `PayOut` pays a month out for chains that go together
only with House. That a chain pays a policy out once (`PaidAtMostOnce`), that it leaves
no month out (`NoMonthIsSkipped`) and that nobody starts before House
(`HouseStartsFirst`) follows from the book alone.

`PaySheetSettlement` is the code. One action is one committed transaction: the advisory lock makes them serial, and a
correction, the exception, commits on its policy row without touching placements.

| State | Code |
|---|---|
| `policies[p]` = paid, producer, deleted | `policies.mga_paid`, `producer_user_id`, `deleted_at` |
| `openSheets`, `closedSheets`: (chain, period) | `pay_sheets` by status; the period is year and month, so that December is a case |
| `attached` | `pay_sheet_policies` |
| `frozen` | `frozen_policy_snapshot` of closed rows |
| `rated` | producers with a row of `producer_rate_history` in effect |

| Action | Code |
|---|---|
| `InitializeSophia`, `OpenChainForMirror` | `initialize_pay_sheet_owner_chain`, and its call from a chargeback's mirror |
| `ChangeMgaPayableState`, `ChangeMgaPayableGroupState` | `set_mga_payment_state` and `sync_mga_payment_sheet_placement`, for one policy or for all live policies of an MGA (any set of them) |
| `ClosePaySheet` | `close_pay_sheet_with_cascade`; a repeated close answers and does nothing |
| `SoftDeletePolicy`, `RestorePolicy` | `drizzle/0044` |
| `CorrectAssignment` | `apply_policy_correction`, as far as the assignment goes |
| `ChangeProducerRate` | `server/auth/admin-staff.ts` and the triggers of `drizzle/0007` |

The book these tables stand for: `MonthOf(c)` is the month of the chain's open sheet,
`Received` the live policies that are paid for, `Book` one `Entry` per frozen snapshot.
`Payouts` is the instance of `PayoutBook` under this mapping, `KeepsTheBook` its
specification.

Left out: amounts, rate values, expected versions, audit rows, generations.

### TurnInReview and ApprovalLifecycle

`TurnInReview` is the life of a turn-in with no entry, link or payload in sight: it is
written, put under review or up for help, taken or sent back, and accepted at most once;
one that was ever under review is accepted only from there; while it is hidden nothing
happens to it. Turn-ins are independent of each other.

`ApprovalLifecycle` is the code; `Life` is the instance under the mapping `Stage` (the
draft's status), `Text`, `Hidden` (its deletion), `Reviewed` (it has entries) and
`Accepted` (what the ledger holds under its id), `EveryTurnInLeadsItsLife` its
specification.

One action is one committed transaction; each one locks the queue entry and then the
draft before it reads either. `drafts` and `queue` are functions from identities to
rows, where "unborn" is a row not yet inserted; `ledger` holds the policies with a
source draft. `TransitionDraft` and `Decide` are the two row updates every operation
is made of (`transition_draft_status`, `enforce_approval_queue_integrity`). The
remaining actions carry the names of the server functions: `SubmitForApproval`,
`FlagDraftForHelp`, `WithdrawPendingSubmission`, `ResolveQueuedApproval`,
`ResolveAdminDirect` and so on. The content of a turn-in is one value;
the contents that pass validation form the set `Complete`.

Left out: actor checks, timestamps and expected versions, reasons, audit rows. The
drafts are those of one owner: only the cap relates two of them, and it is the owner's.

### GenerationBook and BusinessStateGenerations

`GenerationBook` is the promise with no transaction in sight: a book per generation,
work in the active one alone, `StartFresh` and `Return`.

`BusinessStateGenerations` is the code. A session of the application (`writer`) reads
a row (`Read`), starts its first write (`Write`, where a column default picks the
generation), passes or is refused by the guard (`PassGuard`), and commits (`Commit`,
with the deferred relationship triggers) or rolls back. An admin session (`admin`)
takes the control row (`HoldControl`), waits for the House sheet and reads the
manifest (`ReadManifest`), and commits a reset or a restore, or is refused. Each is
one statement under READ COMMITTED or the wait for one row lock, and between any two
of them any other session may move. `BreakDeadlock` is PostgreSQL's deadlock detector.

| State | Code |
|---|---|
| `active` | `business_state_control.active_generation_id` |
| `generation[g]` | `business_state_generations`: status, `baseline_checksum`, `logical_checksum` |
| `book[g]` | the rows of the ten tables of generation g: what the policies say, the KPI targets, the open House month, links to rows of other generations |
| `writer`, `admin` | sessions: program counter, what they read, what they hold |

Four operations stand for the writes of the code by how they meet the guard: "work"
updates rows read before (drafts, queue, policies, payments), "house" advances the
House chain with its sheet locked (close, initialisation), "targets" upserts rows by
their active key (`server/kpi/targets.ts`), "request" inserts a row that links to one
read before (`create_policy_change_request`, which reads any policy by its id).

Abstractions: md5 is injective, so a checksum is the book it was computed from and row
counts follow; the House sheet's row lock and the lock on the House chain are one
lock per generation; a transaction stands for its first write, for once past the
guard its share of the control row lasts to its end; the schema fingerprint and the
migration count are left out, because migrations 0048 to 0055 rewrite them in all
generations and the control row together. The group payment change, which takes its
share of the control row before it reads, meets fewer interleavings than "work".

### AccountAccess and AccountSecurity

`AccountAccess` is what sessions are good for with no version, row or request in sight.
A way in is a session with a purpose it may be used for now, the password it was opened
with and what was shown since the login (`by`): a password and no more, or a factor.
`LetIn` opens or continues one session, for the account as it is at that moment
(`Good`: a password alone is not enough for ordinary work where a second factor is asked
for); `Close` only takes ways away; `ChangeAccount` leaves none, whatever changes
about the account. Two ways round the second factor are marked ("change" and "late") and
let in: section 5, finding 4.

`AccountSecurity` is the code: one account and the requests that act on it. An action is one database transaction,
or a read of one request, where it is made outside a transaction or without a lock; `req[r]` is what the request keeps in memory in
between: where it is in its handler, the session it was admitted with (id, version,
state, grant), the password it has shown and an argument (the challenge it loaded, the
purpose of its step-up). Two transactions on the account are serial because each locks
the `users` or the settings row, or updates the row under a condition it repeats. The confirmation of an enrolment and the
acknowledgement of codes look for active methods before they lock anything, which is a step
of its own (`ConfirmTotpReads`, `RegistrationReads`, `AcknowledgeReads`): two requests may
both add a first method, and the codes of the second replace those of the first.

| State | Code |
|---|---|
| `user`, `mfa`, `method`, `codes` | `users`, `user_mfa_settings`, `user_mfa_methods` with their credentials, `user_mfa_recovery_codes` |
| `stepUps`, `challenges`, `grants`, `resets` | `mfa_step_up_authorizations`, `mfa_challenges`, `mfa_recovery_grants`, `password_reset_tokens`, in the order they were inserted |
| `store` | `sessions`; `pw` remembers the password a login or a password change opened it with |
| `by` of a session or request | no column: what the owner has shown since the login, see below |
| `chosen` | no column: the password the owner or an administrator chose last |
| `uses` of a row | no column: how often the row had its effect |

| Actions | Code |
|---|---|
| `Admit`, `Abandon`, `RejectSession`, `Logout` | `authorization.ts`, `sessions.ts`; `Abandon` is a refusal, an error, a lock cycle the database breaks, or the end of the process |
| `LoginReadsAccount`, `UpgradePasswordHash`, `LoginReadsMfa`, `SaveSession` | `createLoginHandler`: one read, the hash upgrade, a second read, the session saved last |
| `ReplacePassword`, `IssueTemporaryPassword`, `RequestPasswordReset`, `DeliverReset`, `FailResetDelivery`, `ConfirmPasswordReset` | `password-changes.ts`, `admin-staff.ts`, `password-reset.ts` |
| `StartTotpEnrollment` ... `AcknowledgeRecoveryCodes` | `mfa-totp.ts`, `mfa-webauthn.ts`, `mfa-enrollment.ts` |
| `FactorReadsUser` ... `ConsumeRecoveryCode`, `ContinueSession` | the second step of a login in `server/http/mfa.ts`, and `mfa-recovery.ts` |
| `StepUpPassword` ... `DisableOwnMfa` | `mfa-step-up.ts`, `mfa-management.ts` |
| `ResetUserMfa`, `SetSupportCapability`, `SetAdminCapability`, `SetAccountActive`, `ChangeEmailOrRole` | what an administrator does |

`Account` is the account a login decides on, read off the rows; `WaysOf(s)` are the
purposes the guard admits session `s` for (`Live` and `MayEnter`, the code's own
decision), `Ways` all of them. `Entry` is the instance of `AccountAccess` under this
mapping, `EntersAsPromised` its specification.

`uses`, `chosen`, `pw` and `by` exist for the properties only. `by` starts as "password"
at a login and goes with the session to every request it admits and every session such a
request opens again. It becomes "factor" when a second factor or a recovery code is
shown or a factor enrolled. It becomes "change" when the required password change of an
account that asks for a second factor opens its session (`ChangeBy`), and "late" when a
request that showed a password only changes the account under another version than it was
admitted with (`StillBy`): its transaction locks the account's row and does not compare
the version. `SecondFactorIsNotSkipped` says that no usable session of an account that
asks for a second factor is by "password", however often it was reopened;
`PasswordAloneStaysOut` says what the documentation does, that it is by "factor", and is
violated. Cryptography is a match or none. Left out: the login throttle, the expiry of rows, the
primary flag and the labels of methods, names and profile fields.

### AdministratorRoster

`active` and `admins` are sets of accounts; a request keeps the `actor` it was admitted
as, and a removal of the capability is two steps, the count and the write, under the
lock of its target's row. The audit row's foreign key takes a share of the actor's
row, which is why a removal of the actor holds it back (`MayWrite`).

### TurnInForm

One page of one owner. `server` holds the owner's drafts; `state` and `refs` are the
form's React state and its refs (`pendingRef`, `lastPersistedInputRef`, the queued
automatic save, the blur timer); `list` is what My Drafts holds; `calls` are the
promises of handlers, each with the draft and the fields its handler was rendered with.
A call of a form that was left goes on without it (`live`), and My Drafts hears of its
answer only while it is there (`parent`). `Rendered` is React: after a step, My Drafts
shows the form for the draft in the address, keeps it while that is an editable draft,
and runs the form's effect when the draft or its version is another.

Actions: what the owner does (`Type`, `Blur`, `clearForm`, `Save`, `submit`,
`requestHelp`, `discardDraft`, `OpenTurnIn`, `OpenMyDrafts`, `ReopenFromList`,
`SwitchDraft`), effects (`ipfsLookupAnswers`, `suggestExpiration`, `OfficesChange`),
timers (`IntervalSaves`, `TimerSaves`), the server (`Serve`), the network (`Lose`),
other devices and reviewers (`OtherDeviceEdits`, `MovedElsewhere`, where the dialogs
for withdrawals and change requests of My Drafts belong too) and promises that go on
(`Continue`). The environment: React commits a batch and runs its effects before the
next timer, event or answer. The end of a session is leaving the page. One text stands
for the fields, `hint` for the indicator the IPFS lookup fills in.

`SavedMeansStored` and `SubmittedAsShown` speak of the form that wrote last
(`mine`), `OneDraftPerTurnIn` of creations whose answer arrived (`born`): an edit
carries no version and a creation no key of the client's, so a second form, another
device or a lost answer can do what these exclude. That is what the code does, no
document promises otherwise, and section 7 lists it.

The version of a draft is the time of its last edit in milliseconds (`stamp`; `at` counts
the edits). `editOwnDraft` refuses an edit that is earlier than the last one and takes one
of the same millisecond, so two edits may share a version, and a discard that names it does
not see the second: `RowEdited` lets an edit keep the stamp, and a request that waited
while another edit came may be refused for its older clock (`Overtaken`, `since`).
`soft_delete_own_draft` answers for a draft that is deleted already before it looks at
state or version, so a repeated or late discard succeeds and changes nothing
(`HandleDiscard`). `DiscardTakesWhatWasShown` is about the discards that do take a draft.

## 4. Runs

| Run | Shows | Bounds |
|---|---|---|
| `settlement` | `SingleSettlement`, `OpenSheetsCarryPaidLivePolicies`, `PaidPolicyIsOnASheet`, `CascadeNeedsItsHouseClose` | 2 policies, 2 producers, the first month and the next |
| `months` | `ChainIsUnbroken`, `CloseIsNeverRefused`, `ClosedSheetIsFrozen`, `ClosedHistoryIsImmutable`, `KeepsTheBook` | 2 policies, 1 producer, the first month and two more |
| `reaches_house`, `one_producer` | findings 1 and 2 | as `settlement` |
| `approval` | `LifecycleIsConsistent`, `QueuedWorkIsReviewed`, `PendingIsWhatTheDraftSays`, `DeletedWorkIsRestorable`, `DecisionsAreFinal`, `DeletedWorkIsUntouched`, `EveryTurnInLeadsItsLife` | 2 drafts, 4 submissions, contents blank and two complete ones, cap 1 |
| `flagged_push` | finding 3 | as `approval` |
| `generations` | `SealedGenerationsVerify`, `LinksStayInOneGeneration`, `KeepsThePromise` | 2 generations, 2 writers, 2 admins, 2 contents, 1 month |
| `generations_waiters` | `WaitersAreAnswered` | 2 generations, 2 writers, 1 admin, 1 content, 2 months |
| `accounts` | `LastChosenPasswordStands`, `LoginSessionsAreCurrent`, `SecondFactorIsNotSkipped`, `NothingIsSpentTwice`, `NewestResetWorks`, `LastFactorEndsEnrollment`, `IdentityChangesCloseSessions`, `EntersAsPromised` | 2 requests, 2 passwords, 1 authenticator app, 1 passkey, 1 code in a set, version up to 1, 2 sessions, 2 one-time rows |
| `factor_skipped` | finding 4 | as `accounts` |
| `last_admin` | finding 5 | 3 accounts, 2 requests |
| `turn_in` | `FieldsGoToTheirDraft`, `OneWriteInFlight`, `OneDraftPerTurnIn`, `SavedMeansStored`, `SubmittedAsShown`, `DiscardTakesWhatWasShown`, `WhatStaysIsSaved` | 2 texts, 2 drafts, 2 calls, 3 moves, 1 fault |

The type invariant of each module is checked in its first run.

Why the bounds are enough. Two policies are the least for which a cascade, a group
change and a chain with something else on it differ; two producers the least for
corrections from one to another. The first House month is December, so the first close
crosses the year. Three months let a chain be closed, its successor closed and the
next one be open. Two drafts and four submissions let one draft be submitted, come
back and be submitted again while the other waits; the cap is 1 so that the second
draft meets it. Two generations allow a reset, the restoration of the first and of the
second again; two writers hold a row lock and the control row at once; two admins
race. `MaxMonth` is 2 in the liveness run, so that the House sheet may be
closed and the deadlock with a reset occurs; the safety run covers the House chain's
opening and affords two contents instead. Two requests of one account are the
least that race; with two passwords one is older than the other; one increment of the
version separates sessions of before and after, and two one-time rows allow a token or
challenge and its successor (2.0 million states). No request is "late" within these
bounds and no two first methods are added, for both take a second increment of the version:
with two increments and one one-time row they occur and every property holds (3.1 million
states), and the proofs cover them. The form starts on an empty page or on one of up to two
drafts, so that it can be given another; two calls let a left form's answer meet the
new form's; three moves type, send and navigate; one fault is a lost answer, one edit
elsewhere or
two edits of one millisecond (628 673 states). A foreign edit and a second edit in its
millisecond need two faults; the proofs cover any number.
Permutations of interchangeable model values
are used in safety runs only; `First` is not permuted.

The bounds in guards are `Horizon` (last month), `Entries` (submissions), `Generations`
(resets, `ResetsLeft`), `MaxMonth`, in `AccountSecurity` `MaxVersion`, `MaxSessions`,
`MaxRows`, `MaxFactorRows` and `MaxTimeStep`, and in `TurnInForm` `MaxDrafts` (the
server's cap on drafts), `MaxCalls`, `MaxMoves` and `MaxFaults`. Deadlock is checked
except in the approval runs, where the system really stops once every draft is
approved, in `accounts`, where nobody need do anything, and in `turn_in`, where a saved
form rests.

Fairness, in `FairSpec` alone. A transaction whose lock is granted runs to its end
(weak fairness of `Write`, `Commit`, `CommitReset`, `CommitRestore`, `RefuseRestore`):
it is one request on one connection. A waiter for a row lock that is free again and
again gets it (strong fairness of `PassGuard` and `ReadManifest`): PostgreSQL wakes
waiters in turn. Its deadlock detector runs (weak fairness of `BreakDeadlock`). No
session is bound to start or to fail, and no fairness is assumed of `HoldControl`: a
stream of sharers may keep the control row from a reset for ever, so nothing is claimed
about it.

In `TurnInForm`, `Fairness` is part of `Spec`: the browser fires the interval's timer
(weak fairness of `IntervalSaves`), a request that is not lost is answered or refused
(`Serve`), and its promise goes on (`Continue`). The owner owes nothing, and moves and
faults are finite. `WhatStaysIsSaved` then says that what the form goes on showing is on
the server in the end, unless the form is empty or locked, the office configuration blocks
it, or the server would refuse it. It says nothing of text that is no longer shown: what an
answer, the form's effect or leaving the page replaces before it was sent is lost
(section 7).

## 5. Findings

Each is a run that states what the documentation says and that the code violates.

1. `ProducerSettlementReachesHouse`: `docs/KPI_ACTUALS_CONTRACT.md:10` says every
   settled policy appears once on a closed House sheet. `restore_policy`
   (`drizzle/0044`, 610) skips placement if *any* chain has settled the policy, so one
   closed on its producer's sheet, deleted before House closed and restored, never
   reaches House.
2. `SettlesWithOneProducer`: `README.md:784` says a policy may settle on House's chain
   and on its assigned producer's. `apply_policy_correction` (`drizzle/0034`, 344)
   leaves the rows on open sheets, so a policy corrected to another producer can settle
   with both.
3. `FlaggedHelpCanBePushedThrough`: `server/approval-queue/README.md:18-21` says flagged
   help is pushed through or opened and fixed. `resolve_admin_direct_policy`
   (`drizzle/0020`, 618) refuses a draft that was ever queued, so one withdrawn or sent
   back and then flagged can only be sent back.
4. `PasswordAloneStaysOut`: `README.md:325-327` says "An enrolled account receives a
   restricted MFA-challenge session; password-only requests cannot reach protected
   endpoints", and 408-409 that MFA is mandatory for an enrolled account's future logins.
   While a password change is required, `createLoginHandler` leaves the MFA state out
   (`server/http/auth.ts:154-155`), and the change then establishes an ordinary
   authenticated session (`server/http/required-password-change.ts:57`): the temporary
   password of an enrolled account opens it without a factor. The proof found one other
   way: a request of a session that showed a password only, admitted before the account was
   enrolled from elsewhere, may change it after (its transaction does not compare the version)
   and then opens a session under the version it makes.
5. `AnAdministratorRemains`: `server/auth/admin-account-security.ts:248` refuses a
   removal because "At least one active administrator must remain".
   `setAdminCapability` counts capabilities whoever's account is active, and
   `setAdminStaffActive` (`server/auth/admin-staff.ts:444`) counts nothing. In eight
   states: Sophia gives b the capability, b takes Sophia's, and a request of Sophia's
   that was admitted before deactivates b. Nobody can log in and administer, and the
   seed of the roster activates nobody again.

One disagreement has no run of its own. `createOwnDraft` refuses a draft beyond the maximum
of content-bearing ones (`server/drafts/create.ts:53`, "Maximum ... unfinished drafts
reached", and the slots `client/src/drafts/MyDrafts.tsx:367` counts). It is the only place
that tests the cap: filling in a blank draft, reopening, withdrawing, sending back and
restoring go past it, as `ApprovalLifecycle`'s `CreateDraft` and its other actions do.

## 6. Proofs

The `_proofs` modules hold theorems for every value of the constants that satisfies the
module's `ASSUME`: `SettlementAssumptions` (House is no producer, "unassigned" is no
owner, bootstrap periods are periods up to the horizon), `LifecycleAssumptions` (NULL
is no identity or content, drafts and entries are different things, a blank draft is
not complete) and `GenerationAssumptions` (finitely many generations, the first among
them; NULL and the goal "reset" are none of them).

**Settlement.** `TypeCorrect` comes first, and everything else uses it.
`SettlementIsSingle`, `ChainsStayUnbroken`, `OpenSheetsStayPaidAndLive`,
`PaidPoliciesAreOnASheet` and `ClosedSheetsAreFrozen` are each inductive over it, with
a lemma for what a placement and a close do (`PlaceEffect`, `CloseKeeps...`) and
`StepCases` for the other actions. `ClosingIsNeverRefused` needs no induction of its
own: unbroken chains give the one open sheet and the free successor, the paid and live
rows give live policies, single settlement gives the rest. `HistoryIsImmutable` and
`CascadesFollowHouse` are about steps: `HistoryChangesOnlyByClosing` shows that no
other action reaches closed sheets.

`TheBookIsKept` is the refinement of `PayoutBook`. With one open sheet per chain
(`MonthOfOpenSheet`) the month of a chain is well defined, and it is not 0 once the
chain has a sheet (`StartedMeansOpen`). `OpeningHouseStartsIt` maps the initialisation;
`OpeningMovesMoney`, `PlacingMovesMoney` and `KeepingSheetsMovesMoney` map everything
that changes payments, deletions, assignments or rates to `MoveMoney`, a producer's first
sheet being in House's month (`LateStarterJoinsHouse`). `ClosingPaysOut` maps a close to
one `PayOut` of all its chains: its snapshots are the entries (`SnapshotsAreEntries`),
each chain moves on by a month (`ClosingTurnsTheMonth`), the policies due are paid and
live (`OpenSheetsCarryPaidLivePolicies`), and the trigger of `drizzle/0030` has found
none of them settled, which is what having been paid out means in the rows
(`PaidOutIsSettled`, from `ClosedSheetIsFrozen`).

In `PayoutBook_proofs`, `BookPaysOnce`, `BookHasNoGaps` and `BookStartsWithHouse` share
the invariant `BookInv`; `NoMonthIsLeftOut` carries the second of them to the sheets.

**Approvals.** `LifecycleIsConsistent` is not inductive: it does not say whose entry a
reopened draft once pointed at, nor when work is deleted. `IInv` adds `EntriesHaveDrafts`,
`DraftsHaveContent`, `LinksAreOwn` and `DeletionFollowsReview`. There is a lemma per
family of actions (a change to one standalone draft, submission, decision of an entry,
direct approval, deletion of a submission), and all properties of the passing run
follow, the action properties included.

`EveryLifeIsLed` is the refinement of `TurnInReview`, over the same `IInv`. A step that
writes one draft moves one turn-in (`OneDraftOneTurnIn`), and which turn-ins were ever
reviewed or accepted depends only on the drafts that entries and policies name
(`SameEntriesSameReviews`, `SamePoliciesSameTexts`). `StandaloneLives`,
`SubmissionLives`, `DirectApprovalLives` and `QueueLives` name the step of the life,
family by family. The last one is where the invariant is needed most: a decision goes
through an entry, and only `IInv` says that the draft behind a pending entry is the
submitted one it was made for (`PendingEntry`).

In `TurnInReview_proofs`, `ReviewIsOfCompleteTurnIns`, `LedgerHoldsWhatWasAccepted` and
`AcceptanceIsForGood` follow from the life alone.

**Accounts.** `SettingAssumption`, `BoundsAssumption` (bounds are natural numbers; the
setting is a truth value) and `NoPasswordAssumption` are all that is assumed: any
number of requests, passwords, methods and rows. `TypeInv` is `TypeOK` with the
requests in flight: each stage has the argument the stage before left it (a loaded
challenge exists, one that is still open is for a step-up if the request is). It is
inductive by groups of actions (`StepKinds`, one lemma for each group).
`PasswordStands` is inductive over it. `SpentAtMostOnce` needs that an unspent row was
never used (`SpendInv`), `NewestTokenWorks` that older tokens are spent and that no two
requests deliver one token (`ResetInv`). `LoginsAreCurrent`, `NoFactorSkipped` and
`SessionsAreClosed` share `LoginInv`: what a request read, or a session was opened with, is
true of the account as long as its version is the account's. It holds because of one
lemma, `Accounts`: every step leaves alone all a login decides on, or ends the version.
For `NoFactorSkipped` it has to know the way of a session on through its requests: one that
showed a password only is past the restricted stages only where no factor is asked for
(`OrdinaryStages`, `FactorStages`, `CodesStages`; `StageFollows`), and reopens with no more
(`StillEnough`, `ReopenFollows`, `ReplaceFollows`). That rests on `FactorsEnforced`: whoever
has an active factor is asked for one.

`EntryIsAsPromised` is the refinement of `AccountAccess`. `EntryIsEarned` (from
`LoginInv`) says that whatever the guard admits a session for is something `Good` allows.
A step that changes the account moves the version on and leaves no way in (`WaysClose`,
from `BumpCloses`); a step that does not leaves every session but one as it was, so the
ways of the others are the same (`SameSession`, `WaysOpen`), and the one it writes is let
in or closed. `SessionEnters` and `StepEnters` go through the actions, `SavedStore` and
`StoreMoves` through those that write a session.

**Turn-in form.** `TextAssumption` (there is a text, the blank form is none) and
`BoundsAssumption` (natural bounds, two drafts at least) are assumed: any texts, any
number of drafts, calls, moves and faults. `FormInv` says of every draft the page, its
list or a call holds that it is a copy of a draft of the server, and that a copy of the
same version has the same content; that the fields are those of the form's draft; and
that `pendingRef` is set exactly when one call of the form is in flight. It is inductive
because the server's drafts only move on (`Grow`), because every promise that goes on
hands `Rendered` good state (`RenderedKeeps`), and because a form that is mounted leaves
its calls behind (`LeftGood`). Copies of one version agree unless an edit of its millisecond
came between, and `at` tells. Types, `FieldsGoToTheirDraft`, `OneWriteInFlight` and
`SavedMeansStored` are parts of it; `DiscardTakesWhatWasShown` follows from the copies,
once `OnlyServed` shows that nothing but the server answers. `SubmittedAsShown` needs
`ShownInv` (what waits between its two requests has the form's fields on the server),
`OneDraftPerTurnIn` needs `BornInv` (a call that will create finds that none was made;
a form with neither draft nor call made none).

**Generations.** `IInv` adds to the properties the exclusion of the control row's locks
(`ControlIsExclusive`), what a write knows past the guard (`WritesAreGuarded`: its
target is active), `HouseIsExclusive`, and `ManifestsAreCurrent`: what a session read
under the control row is still so. There is a lemma per action. `PromiseIsKept` is the
refinement under the mapping `opening <- generation[g].baseline`: `CommitIsWork`,
`ResetIsStartFresh`, `RestoreIsReturn`, and every other action leaves the abstract
variables alone. The invariant is what makes the last two hold: a restore compares the
*manifest* with the baseline, and `ManifestsAreCurrent` says the manifest is the book.

**What the refuted sentences need.** A counterexample shows that a sentence fails, not
what makes it fail. Each of the five violated properties of section 5 has a theorem of
the form `Spec /\ [][C]_vars => []P`, where `C` forbids one kind of step and nothing
else: without such steps the sentence is true for every value of the constants. The
conditions are about steps the code takes; they are not claimed to hold, and each was
model-checked together with its property before it was proved.

| Finding | Theorem | The steps `C` rules out |
|---|---|---|
| 1 | `HouseIsReachedUnlessRestored` | restoring a paid policy some chain has settled and House has not |
| 2 | `OneProducerUnlessReassigned` | correcting the producer of a policy that is on a producer's sheet, open or closed |
| 3 | `HelpGoesThroughUnlessQueuedBefore` | flagging a draft that has entries in the queue |
| 4 | `PasswordStaysOutUnlessChangedOrLate` | the required password change of an account that asks for a second factor, and a request's change of the account under another version than it was admitted with |
| 5 | `AdministratorRemainsIfOneActs` | taking a capability or deactivating an account by someone who is no active administrator by then, or by deactivating himself |

The first needs `PaidPolicyHasAHouseRow`, the second `ProducerRowsFollowTheAssignment`,
the third `FlaggedWasNeverQueued`, the fourth `AllPlain` (nothing is by "change" or
"late") with `NoFactorSkipped`, the last `NobodyRemovesHimself` (a removal's target
is not its actor, between the count and the write as well).

**From which assumptions.** Besides the `ASSUME`s above, `PayoutBook_proofs` assumes in
its theorems that first months are natural numbers (`BootstrapMonths` shows it of the
instance) and `AdministratorRoster_proofs` that the seeded administrator is an account.

Only model-checked: `WaitersAreAnswered` and `WhatStaysIsSaved` (liveness under fairness
is out of the prover's reach). Every invariant and action property of the passing runs
is a theorem.

## 7. Not modelled

- Amounts: the split of commissions and the rounding of totals (plan 10).
- Adjustments and mirrors beyond the opening of a chain (plan 7).
- Lock order inside the financial transactions: `PaySheetSettlement` takes the advisory
  lock's serialisation as given, though the group payment change locks its policies
  before it (plan 8).
- Expected versions of delete, restore and correction: a stale request raises and is
  no step. What an admin read before a decision is not kept (plan 9).
- The login throttle (its counters have no order with the account's rows), the expiry
  of tokens, challenges and sessions, and the order in which a reset's request and its
  confirmation lock user and tokens: the database breaks that cycle (`Abandon`).
- Known of the accounts, reachable in `AccountSecurity` and promised otherwise by nobody:
  `requireUser` reads the version again after the guard (`FactorReadsUser`), so a login
  that is at its factor survives a password change; two first enrolments at once leave the
  owner of the first with codes that are no longer good.
- Known of the turn-in form, reachable in `TurnInForm` and promised by nobody: on My
  Drafts the first answer of a submission unlocks the fields while the second request
  is in flight, and what is typed then is lost, as is what a late answer of a save or the
  page's next draft replaces before it was sent; a lost answer of a creation makes the
  retry a second draft; a draft that is left and opened again has two writers and the
  older one may land last.
- Actor checks elsewhere, audit rows, reasons, timestamps: no modelled property depends on them.
- Projections, KPI aggregation, exports, HTTP, configuration, the other pages of the
  browser client: pure functions or I/O. Migrations run alone before the server starts.
- Vocabulary, offices, IPFS flag, commission receipts: single statements under unique
  indexes.
