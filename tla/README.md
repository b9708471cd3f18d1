# Formal model of sic-core

sic-core is a Django backend for teaching double-entry bookkeeping: students own companies,
post journal entries, close exercises ("cierre simplificado") and read the accounting reports.
This directory holds TLA+ models of it, the TLC configurations that check them and TLAPS proofs
about the journal, the closing plan, the accounting reports, the report cache, the access rules, the
chart of accounts, its visibility and the registration. Paths below are relative to the repository root.

## Inventory

| Component | State | Operations | What is hard about it | What makes it correct |
|---|---|---|---|---|
| **Journal** `apps/journal` | `JournalEntry` rows, number, date, source type, `reversal_of` | `create_journal_entry`, `reverse_journal_entry` | checks use the company object the view loaded before the transaction; only `_next_entry_number` locks | gapless numbers, one opening (first), one reversal per entry, nothing posted into a closed period |
| **Closing, execution** `apps/closing/services.py` | entries, `ClosingSnapshot`, `Company.books_closed_until` | `execute_simplified_closing`, preview | validation, loading of balances and locking are three steps; several entries in one transaction | all or nothing; canonical exercise chain; what one closing misses the next one closes |
| **Closing, plan** same file, `support.py` | balance nodes in memory | `build_simplified_closing_plan` and its helpers | real and virtual nodes of one account; accounts on the "wrong" side | entries can be posted, zero every account, reopen the patrimony; the sheet balances |
| **Logical exercises** `apps/closing/selectors.py` | none (inferred; cached 7 days) | `_build_logical_exercises`, `get_current_logical_exercise`, `resolve_report_exercise_context` | inference from three kinds of boundary entries, ordered by date | boundaries parse as a chain without overlap |
| **Report cache** `apps/reports/cache.py`, `apps/common/cache.py` | shared cache: a version per company, values per version | `_get_or_init_version`, `_bump_version`, `get_/set_cached_report` | no transactions; every call may fail; keys expire; bump before commit | an answer contains what was committed before it was asked for |
| **Companies** `apps/companies` | `Company` row, opening | create, opening, `update_company`, delete, demo publication | `save()` writes every column back, and inserts a row that was deleted | closing state is not overwritten; opening is first; what comes back is bare |
| **Chart of accounts** `apps/accounts/services.py`, `account_resolution.py`, `support.py` | accounts, company links | create, update, delete, resolve by name, make if missing | code allocation without lock under collectives that all companies share, 99 codes each; accounts of nobody are taken over | unique codes, postings keep accounts of their company, one account per name |
| **Reports** `apps/reports/services`, `exercise_context.py` | none | trial balance, ledger, journal book | windows cut out of exercises, at dates of their own | the reports agree with each other and with the closing; every entry is in some report |
| **Visibility** `apps/accounts/visibility.py`, `selectors.py` | overrides of teachers; four kinds of cache keys | charts, `PATCH` of overrides, check of account writes | key and content of a chart are read separately; versions expire and go back | an override reaches later readings; stale answers age out |
| **Courses, roles, permissions** `apps/courses`, `apps/common` | courses, enrolments, visibility of demos and shared companies, roles | create, update, delete, enrol, unenrol, show, share, set role, profile | permissions are checked on loaded rows; the same access rule is written down in several queries | the queries agree; nobody writes from outside; a student has one course |
| **Registration** `apps/users/services.py` | code config, cached config, counters, blocks | register, show, rotate, limits, cooldowns | window arithmetic, counters in a cache that may fail and expires | a rotated code dies; a shown code works; limits and cooldowns hold |
| **Demo import** `apps/companies/demo_*.py` | demo companies | `import_demo_company`, validation | check-then-create by sha256; the validator repeats the services' rules | idempotent; what is accepted can be imported |

How they interact: the views load a company (`get_company`) and call a service; opening and
closing call `create_journal_entry`; every journal and chart write bumps the report version;
the closing validates against `list_logical_exercises`, which answers from the report cache;
openings, closings and imports look up and make accounts; courses decide which teacher's overrides a
student's chart applies and which companies they see; demo import is a sequence of openings, postings
and closings.

`PROJECT.json` lists the hazards of this code at their lines with the properties that watch them.

## Modules

### `Exercises` - inference of exercises
A journal is a sequence of rows in commit order. `BoundaryEntries` is the query of
`_build_logical_exercises` (filter, and `ORDER BY date, entry_number` as `Ordered`: the row at place i
is the one that i - 1 rows precede), `ScanEntries` its loop, a recursive function whose step is `ScanEntry`,
`invalid` its `ConflictError`, `CurrentLogicalExercise` is
`get_current_logical_exercise`. No state of its own.

### `Journal` - concurrent requests on one company
Each worker serves one request at a time:

| Step | Code |
|---|---|
| `Receive...` | the view: `get_company` with the annotation `has_opening_entry`; both stay in memory (`closed_seen`, `opening_seen`) |
| `Check` / `Reject` | the checks of `_create_opening_entry`, `create_journal_entry`, `reverse_journal_entry`, `_validate_request` |
| `LoadBalances` / `RejectPlan` | `build_simplified_closing_plan`: which committed rows the balances contain; refusals that depend on amounts |
| `AcquireLock` | `_next_entry_number`: wait for the company row, read the highest number |
| `CommitEntry`, `CommitClosing`, `Conflict` | the INSERTs under the three unique constraints, and the end of `transaction.atomic` |
| `SaveCompany` | `update_company`: `company.save()` of every column as loaded |
| `Crash` | the worker dies, or a check of lines or accounts fails: rollback |

Abstractions. The database is READ COMMITTED (PostgreSQL default), so rows become visible at the
commit; a transaction's own INSERTs and its commit are one step because they run under the row
lock that every other writer of entries needs. The queries of one validation are one step: each
asks whether a row exists in an append-only table, so an answer "no such row" of an earlier query
can only be more permissive than at the end of the validation; the races between validation and
lock that follow cover it. `list_logical_exercises` may answer from a stale cache: the exercises
are those of any prefix of the journal. `MANUAL` stands for every type a client may choose.
Requests that fail the permission checks change nothing and are left out.

### `Books` - the abstract specification
An append-only book with four steps: open, post, reverse, close. No workers, locks or memory.
`Journal!ImplementsBooks` is the refinement `book <- journal`.

### `ReportCache` - versioned cache
Every cache call of `_get_or_init_version`, `_bump_version`, `get_cached_report`,
`set_cached_report` and `list_logical_exercises` is a step that may fail (`MayFail`); keys may
vanish (`MayExpire`, which stands for timeouts and eviction, in any order). A value is what it was
computed from: how many journal and chart writes were committed. A report service first asks for
the exercises and then for the report; these are two reads here, and all reports are of one window.
Journal writes hold the row lock from before the bump to the commit, account writes take no lock.
Two history variables watch the steps. `intact` turns false when a bump is lost, the version goes back or
expires, or a reader that could not read the version takes it to be 1. `apart` says that no writer has overlapped
another request since the last write that began alone.

### `ClosingPlan` - the amounts
One request at a time, step by step through `build_simplified_closing_plan`, over several
exercises. Amounts are integers (cents); a node is its net balance; an entry maps nodes to signed
amounts. A `virtual` node and the node of the account it is posted to are different until
`_resolve_line_account_ids` (`Posted`) merges them, as in the code. What a list of drafts does to a node
(`ApplyAll`) or an account (`PostAll`) is the sum of its lines there: additions come in no particular order,
and sums are what the proofs reason about. The cost-of-sales account 4.01 that
`ensure_company_closing_accounts` also creates is never written by the plan and is left out.

### `Reports` - what the reports say
The journal with its amounts, built by openings, postings and closings (without counts) one request
at a time. `Context` is `resolve_report_exercise_context` over the exercises of `Exercises`;
`JournalBook`, `Card`/`Ledger` and `TrialBalance` are the three services, each an operator on the
journal and a context, with the cache key each of them builds. The invariants quantify over every
window a client can ask for. The rows of a query are a set, and a sequence (`Ordered`) where the answer or a
running balance depends on their order; the previous exercises of a context are a set. `DemoEntryValid` and `DemoClosingValid` are the date rules of
`_validate_exercise_entries`.

### `ChartOfAccounts` - accounts and companies
Requests on several companies that share parents and codes. By hand (`Receive...`, then `CreateAccount`,
`UpdateAccount`, `DeleteAccount`, `Post`, `UpdateCompany`, `DeleteCompany`): the checks, then the write
under the constraints of the database. By name (`EnsureParents`, `LoadNames`, `Resolve` once per spec,
`Resolved`, `CommitByName`): `resolve_company_movement_accounts` for openings, creations and imports,
`ensure_company_closing_accounts` for closings. What a request inserts before its end is in `req` and
becomes visible at the commit, where `MayCommit` are the constraints that can stop it. `save()` of a row
that has gone inserts it again (`Reinserted`), as Django does. hordak's tree columns (MPTT) and triggers
are external; the account name is its normalised key. A journal entry is the set of its accounts.

### `Access` - courses, roles, who sees what
A writing request loads user, course, company and other user and passes every check on what it loaded
(`Receive...`), and writes later (`CreateCourse` ... `Publish`), protected only by constraints. The reads
(`ListCompanies`, `GetCompany`, `CourseCompanies`, `CourseJournals`, `OverviewCompanies`, `StudentContext`)
are state functions, one per selector or view.

Roles are written by `SetRole` (`set_user_role`, which the Django admin's form for users amounts to as well),
`ImportDemo` (`get_or_create_demo_owner` makes an existing user of that name an admin, and commits with the import) and
`UpdateMe`, which writes back the role it loaded; `SavedRole` is `User.save`, which makes every superuser an admin. Two
histories go with them: `latest` is the role a user was given last, and `outrun` holds the users who were given one
while an `update_me` of theirs was in flight.

### `Visibility` - charts and overrides through the cache
Every call to the cache and every query of `visibility.py` and `accounts/selectors.py` is a step. A chart
is the teacher whose overrides it applies, how many of that teacher's changes it has seen, and how many
changes of the company's accounts; so "stale" is a comparison of counts. Time passes in ticks; keys
expire when their timeout is over.

### `Registration` - codes, limits, cooldowns
Also call by call: the config through the cache (`GetConfig`, `LoadConfig`, `CreateConfig`, `StoreConfig`),
its rotation (`SaveSalt`, `ClearConfig`), the counters (`CounterAdd`, `CounterIncr`, `CounterReread`,
`CounterSet`) and blocks. A code is the pair of salt and window it is derived from. Histories: `admitted` counts the
attempts of a window that passed, `lapsed` says that a counter expired within an attempt, `sentence` is until when the
failures counted since the last success should block (recorded when they are counted, not when the block is
written), and `spared` says that a block was not written because its worker was killed, or replaced a longer one.

In `Visibility` and `Registration` a request lives at most `RequestTimeout` ticks: gunicorn runs sync
workers and kills one that takes longer than `GUNICORN_TIMEOUT` (`scripts/run_gunicorn.sh`). `Killed` may
happen at any step, so each of them is also a crash between two steps.

## Runs

| Run | Instance | Shows |
|---|---|---|
| `journal` | 2 workers: one closes, the other edits, both open, post and reverse; 3 dates, journal of 4 entries when a request starts, up to 1 adjustment and 1 result closing, fair | `NumberStaysFree`, `ClosingIsWhole`, `ExerciseChainCanonical`, `BoundariesAscend`, `MissedIsClosedNext`, `ImplementsBooks`, `EveryRequestEnds` |
| `journal_late_posting` | a closer and another worker | **violates** `ClosedPeriodLocked` |
| `journal_lost_closing` | a closer and an editor | **violates** `ClosingsAreLocked` |
| `journal_two_closers` | two closers | **violates** `ExerciseChainCanonical` |
| `cache` | a reader and 2 writers, 2 bumps, failures and expiry | `ReadsUnlessInvalidationLost`, `ExercisesOneBehind` |
| `closing_plan` | 12 accounts, amounts 0..1, 2 postings, 2 closings | `PlanIsPostable`, `ClosingZeroesLedger`, `SheetBalancesUnlessContra`, `ReopenedCanClose`, `ReopeningCarriesPatrimony` |
| `reports` | 6 accounts in 5 collectives, 5 days (the second is today), 2 postings, 2 closings, every window | `ReportsAgree` (`TrialBalances`, `LedgerContinues`, `LedgerAgreesWithTrial`), `ExerciseCarriesOver`, `EveryEntryFindable`, `SameKeySameReport`, `DemoDatesImport` |
| `chart` | 3 workers and requests, 4 companies, 2 parents, 2 names, 2 codes, 3 databases to start from | `TypeOK`, `CodesUnique`, `PostingsStayValid`, `NothingMadeTwice` (`NamesResolvedOnce`, `DemosDistinct`), `ReturnsBare` |
| `access` | 2 workers, 5 users (one a superuser), 2 courses, 3 companies (one a demo), 4 requests | `TypeOK`, `OneCoursePerStudent`, `ViewsMatchGet` (`ListMatchesGet`, `CourseViewsMatchGet`), `SharedByOwnerOrAdmin`, `RolesAreLatest`, `CourseReturnsEmpty` |
| `visibility` | 2 workers, a student, 2 teachers with a course each, 7 scenarios | `OverridesReach`, `ChartsAgeOut`, `CachedTeacherCurrent` |
| `registration` | 2 workers, 1 address, 1 username, 4 scenarios | `RotatedCodeDies`, `AttemptsBounded`, `ShownCodeWorks`, `CooldownServed` |
| `registration_attempts` | the same | **violates** `AttemptsLimited` |

Some properties are checked by no run of their own because a stronger one is: `NumbersGapless`,
`OpeningIsFirst` and `ReversedOnce` follow from `ImplementsBooks` (`Books` numbers its rows and allows one
opening, first, and one reversal of an entry); with `Journal!TypeOK` and `Access!WritersAreInsiders` they
are proved below for every instance.

Four runs are disagreements between code and documentation, each with a finding in `PROJECT.json` that quotes the
lines:

* `journal_late_posting`: a posting that loaded the company before a closing commits after it, inside the closed
  period, because `_assert_books_open` looks at the object in memory and is not repeated under the lock. One
  request at a time this cannot happen (`AloneClosedPeriodLocked`).
* `journal_lost_closing`: `PATCH /companies/{id}` writes back every column it loaded, `books_closed_until` among them,
  over a closing that was committed meanwhile; the closed period is open again.
* `journal_two_closers`: two closings validate against the same journal before either takes the row lock; both are
  committed, and the exercises overlap. One closer at a time, the chain stays canonical (`SingleCloserCanonical`).
* `registration_attempts`: the counter of a window outlives it by one second (`window_seconds + 1`), but a request may
  take up to the 30 s of `GUNICORN_TIMEOUT` before it counts. A request that read the clock in the window and counts
  when the first counter has expired starts the counter anew, and the window admits more attempts than the limit.

Several passing properties carry an exception that says exactly what the code does not guarantee; each is a
race or a limit a maintainer should know of:

* `ExerciseChainCanonical`, `BoundariesAscend` and `MissedIsClosedNext` hold for one closer, not for several (see `journal_two_closers`).
* `ExercisesOneBehind`: the version is bumped before the commit, so a reader in between stores the old data
  under the new version. Reports are worse off than exercises: `set_cached_report` reads the version again
  after the computation, so a report may miss any number of commits until its 120 s are over.
* `ReadsUnlessInvalidationLost` (`apart`, `intact`): what an overlap leaves stale, the next write that is alone
  repairs. Failing lookups, evicted values, rolled back writes and the fallback of the bump are harmless. What is
  not is a lost bump (two fallbacks that overlap lose one), an expired version key (its 30 days run from its
  creation, while exercises cached under a low number live 7 days) and a failed read of the version (the reader then
  uses, and sets, version 1). `ExercisesOneBehind` needs `intact` too.
* `SheetBalancesUnlessContra`: with a cash or inventory shortage the stored sheet does not balance: the shortage
  is a credit on a virtual node, and only nodes with debit balances are added up.
* `PostingsStayValid` (`revived`): an account or a company that was deleted and saved again comes back bare
  (`ReturnsBare`); what had been checked against it may then be posted to an account of nobody's.
* `NamesResolvedOnce`, `DemosDistinct` (`outdated`): names, contents and slugs are looked up without a lock,
  so two overlapping requests may make the same one twice; a later one never does.
* `ListMatchesGet`, `CourseViewsMatchGet` (`StrayDemo`): the list of a teacher shows unpublished demos of their
  own or of their students, which `get_company` refuses. Demos are imported by an admin, so this needs an owner
  whose role was changed.
* `OverridesReach` (`rewound`) and `ChartsAgeOut`: a version that expired, or that a late first reader set to 1,
  brings old hidden accounts back, and `delete_course` does not forget the teacher of its students; both are over
  when the timeouts are (`MaxAge`).
* `RotatedCodeDies`, `ShownCodeWorks` (`raced`): a reader may store the config it loaded before a rotation;
  the old code then works for at most one timeout of the key and two requests. A show whose two calls to
  the cache both fail shows the new code while the old config is still cached.
* `AttemptsBounded` (`lapsed`): what does hold of the limit is that each counter of a window admits no more than it,
  and that a window has at most `CountersOfAWindow` of them, the number that fits into the window and the longest
  request. It exempts an attempt whose counter expires between `add` and `incr`, which counts as the first again.
* `CooldownServed` (`spared`): a failure that was counted blocks nobody until its worker has written the block, and
  never if the worker is killed before; of two failures the earlier may write its shorter block later.
* `RolesAreLatest` (`outrun`): `update_me` writes back the role it loaded, so one that overlaps the giving of a role
  may undo it; the next time a role is given that is over.
* `EveryEntryFindable`, `ExerciseCarriesOver` (strays): entries dated between a closing and its reopening belong to
  no exercise; the journal book of their own days shows them, the reports of an exercise do not.
* `LedgerContinues`, `LedgerAgreesWithTrial` (`InOrder`): `ReportParamsSerializer` compares the two dates only
  when both are given. A first day after today without a last one is a period that ends before it starts; if it
  meets an exercise that goes on after today, the opening balance of a ledger card includes days after the end
  of the trial balance, and the two disagree.

**Bounds.** `MaxEntries` bounds the journal when a request starts, so the last request may exceed it:
4 lets an opening, a posting or a whole closing and a second closing happen. Three dates are needed
for a closing date, a reopening date and one in between or before; two workers suffice for each race
here (one that is overtaken, one that overtakes). One adjustment and one result closing make a closing of 2 to 4
entries. The violation runs need three entries and no adjustments. In `cache` two bumps let a version be overtaken while a
reader holds it, or one writer be overtaken by another; a second reader, or a third bump, is out of TLC's reach
with failures and expiry, and the theorems are about any number. For the
plan, amount 1 with two postings reaches gains, losses, contra balances, shortages and surpluses;
two closings reach what the first one leaves to the second.

`reports`: two postings and two closings give an exercise before, between and after closings, with days left
for entries in the gap; five days leave room for each, and with today on the second of them a report may be asked
for before, within and after what is posted. Of the two posting pairs one earns and one spends, through two
accounts of one collective. `chart`: two codes per parent make the codes run out;
three requests let one overtake another twice, and four companies allow two to exist and two to be created.
`access`: four requests are a course, an enrolment, a change and the request that it overtakes; with two admins one
may be demoted by the other while a request of theirs is in flight. `visibility`
and `registration` start from scenarios that say how often each thing may happen, each aimed at one question,
because their product is out of reach; all timeouts are small numbers of ticks whose order is that of the
settings (a version outlives what it names). In `registration` a window is one tick and `RequestTimeout` two, so a
counter lives two ticks and a request of the window may count when it has expired: `CountersOfAWindow` is 2, and
`registration_attempts` reaches it with a limit of 1. (With the code's 900 s, limit 5 and 30 s it is 2 as well.)

Deadlock checking is off where the bounded instance stops once its requests are used up; it is on for
`MCReportCache`. Symmetry is used over the writers in `cache`, over the workers in `chart` and
`visibility`, and over workers and courses in `access`, which have no liveness property.

**Fairness.** `Journal!Fairness`: a worker that can continue does (weak), and a worker waiting for the
row lock gets it if it is free again and again (strong), which is PostgreSQL's lock queue. Clients
and crashes are unconstrained. The other modules
have no liveness property and need no fairness.

**Mutants.** Operators commented "Mutant" are plausible bugs (a missing `FOR UPDATE`, a dropped
constraint, a non-atomic increment ...). Each property of a passing run is violated when the
definition is replaced by its mutant; the pairs are in `PROJECT.json`.

## Proofs

### The journal

`JournalProofs` proves, with TLAPS, for every set of workers, every bound and every number of dates:

| Theorem | Statement |
|---|---|
| `TypeCorrect` | `Spec => []TypeOK` |
| `NumberingCorrect` | `Spec => [](NumbersGapless /\ NumberStaysFree)` |
| `OpeningCorrect` | `Spec => []OpeningIsFirst` |
| `ReversalCorrect` | `Spec => []ReversedOnce` |
| `ClosingCorrect` | `Spec => []ClosingIsWhole` |
| `JournalImplementsBooks` | `Spec => ImplementsBooks` |
| `SingleCloserAscends` | if at most one worker closes, `Spec => []BoundariesAscend` |
| `SingleCloserCanonical` | if at most one worker closes, `Spec => []ExerciseChainCanonical` |
| `MissedClosedNext` | if at most one worker closes, `Spec => []MissedIsClosedNext` |
| `AloneClosedPeriodLocked` | with one worker, `Spec => ClosedPeriodLocked` |

Assumptions: closers and editors are workers, `NoWorker` is not one, the bounds are naturals.

The inductive invariant `IInv` is the conjunction of the properties above with two parts that tie
memory to the database. `LockInv`: the worker that is "locked" is the holder of the lock, so there is
at most one. `RequestInv`: what a request has checked is still true when it commits, as far as it
must be: the entry to reverse exists and is of a reversible type; a company seen open has entries; a
closing that passed has `reopening_date > date`. Checks that may have become false (no opening yet,
not reversed yet) are not in it: for those the proof uses the unique constraints at the commit, which
is where the code is safe and why. `NumberStaysFree` needs `LockInv`: the number is taken under the
lock and only its holder appends.

`SingleCloserAscends` adds `CloserInv`: boundaries are never dated after the closing date a validated
request carries, because `_validate_request` refuses when later entries exist, and only the closer
adds boundaries. It uses neither `books_closed_until` (which an edit may reset) nor the exercises
(which may be stale): the check for later entries alone carries the order.

`SingleCloserCanonical` adds `ChainInv`: the loop of `_build_logical_exercises` over the committed rows has raised
nothing, the exercises it has closed lie one before the other, and the one that is open starts with a row of the
journal. What a sort and a loop return for one row more is a matter of lemmas of their own, which `ReportsProofs`
needs too (`OrderedAppend`, `ScanAppend`; see Reports below). `CloserInv` says that a closing dates its
boundaries behind all others, the current opening among them, so the loop takes two more steps (`ScanClose`).

`MissedClosedNext` is about the balances, which a closing loads before it takes the lock: an entry that is committed in
between lies in the closed period and is not in what is closed. `MissedIsClosedNext` says that the next closing has
it, by place and by date. `SnapshotInv` and `LoadedInv`: a closing loads its balances after every closing that is
committed, so all that precedes an earlier closing is loaded; with the order of the boundaries, which `CloserInv` gives, it
is in the later period too.

The last four have hypotheses because without them the properties are false; for `BoundariesAscend` and
`ExerciseChainCanonical` see `journal_two_closers`, for the locked period `journal_late_posting`; of two closings that load at once, the
second may miss the same entry as the first. `AloneInv` says
that what every request has loaded is what is committed.

`JournalImplementsBooks` shows that each commit is a step of `Books` and everything else stutters.

### Closing plan

`ClosingPlanProofs` proves, for any chart of accounts, any amounts and any number of postings and exercises:

| Theorem | Statement |
|---|---|
| `PlanInvariant` | `Spec => []IInv` |
| `PlanCanBePosted` | `Spec => []PlanIsPostable` |
| `ClosingZeroes` | `Spec => []ClosingZeroesLedger` |
| `SheetBalances` | `Spec => []SheetBalancesUnlessContra` |
| `ReopenedCloses` | `Spec => []ReopenedCanClose` |
| `ReopeningCarries` | `Spec => ReopeningCarriesPatrimony` |

Assumptions: there are finitely many accounts, each under a collective of one of the five roots
(`AccountsAssumption`); each support account is under its collective (`SupportAssumption`); clients post to accounts
of the company.

The properties compare sums over different sets: lines of an entry, nodes of an account, accounts of a collective,
all nodes. The first part of the module shows what such sums do. `SubsetInduction` is induction over the subsets of a
finite set, for a property that is given as a set (the provers cannot instantiate an operator), from the
well-foundedness of `<`. `SumIsUnitSum` shows that the fold of the community modules is the number of positive units
less that of negative ones; so it does not depend on the order (`SumStep`), and sums can be split, exchanged
and grouped (`SumUnion`, `SumSwap`, `SumFibres`, `SumConcat`). The second part says what each step drafts:
`AdjustmentEffect`, `ResultClosingEffect`, `PatrimonyEffect`, `SheetEffect`, `ExecuteEffect`.

`IInv` relates the plan to the ledger at every step. `LedgerInv`: debits are credits, and unless something was posted
since the opening or reopening, the collectives but 3.02 are natural and the results are zero. `DraftInv`: the
balances are those of the ledger after the drafts, all of which are valid; a finished plan adds the last two
entries. `CountInv`, `PatrimonyInv`, `StatementInv`: what was counted, what may have moved, what passed the
checks. None of the properties is inductive alone: that a closing entry is valid needs that all nodes add up to zero
(`TotalIsZero`), which follows from the validity of all drafts before it and a balanced ledger, which follows
from the validity of the entries of all earlier exercises.

### Reports

`ReportsProofs` proves every property of `reports`, for any accounts, types, collectives, amounts and days, and for
any number of postings and exercises:

| Theorem | Statement |
|---|---|
| `ReportsInvariant` | `Spec => []IInv` |
| `ReportsAgreeAlways` | `Spec => []ReportsAgree` |
| `ReportsCarryOver` | `Spec => []ExerciseCarriesOver` |
| `ReportsFindEveryEntry` | `Spec => []EveryEntryFindable` |
| `ReportsKeptByKey` | `Spec => []SameKeySameReport` |
| `ReportsDemoImports` | `Spec => []DemoDatesImport` |

Assumptions: finitely many accounts, each of one of the five types, `ResultAccount` one of the equity
(`AccountsAssumption`); amounts are positive and today is one of the days (`DaysAssumption`).

`IInv` is type correctness with four parts. `NumbersGapless` and `EntriesBalance` make the journal a set of rows
that each add up to zero. `ClosedIsZero`: up to the date of a closing the journal adds up to zero on every account;
nothing is dated there later because the books are closed (`PostInv`), and the closing entries are computed from the
whole history (`CloseInv`). `Chain` says what `_build_logical_exercises` finds: no conflict, closed exercises one after
the other in the closed period, and an open one that starts after it. The dates alone do not give `Chain`: it is about
what a sort and a loop return. `BeforeRanks` and `OrderedLists` show that `Ordered` lists every row once, each behind those
before it, so a row later than all others goes to the end (`OrderedAppend`); `LoopRuns` and `ScanAppend` show that the
loop over one row more is one step more (an induction over the steps, as a set of numbers). A posting
is no boundary; an opening and a closing append boundaries later than all others (`ScanClose`).

The properties of the reports follow from `IInv` in every state. `ReportsCarryOver`: what lies before the last
closing is zero, and the rest splits into strays and the exercise. `ReportsAgreeAlways`: sums exchange with unions and
with the groups of the collectives, and a running balance ends with the balance of its rows (`RunningEnds`).
`ReportsKeptByKey`: the opening entry in the key determines the exercise, and with it what the dates in the key leave
open (`CardDrawn`). `ReportsFindEveryEntry`: the active exercise is the last that the window meets and the others are named
(`ContextFacts`), and an entry of an exercise is left out only if the window meets that exercise before another. `ReportsDemoImports`: the state of the validator is that of the open exercise
(`DemoStateOpen`).

The lemmas about sums are those of `ClosingPlanProofs`, and those about the sort and the loop those of `JournalProofs`,
stated and proved again because a proof module extends one component and its constants.

### Access

`AccessProofs` proves every property of `access`, and `WritersAreInsiders`, for any users, courses, companies, owners and number of
requests: `TypeCorrect`, `OneCourse`, `RolesLatest`, `InsidersWrite`, `SharedRightly`, `ListAgreesWithGet`,
`CourseViewsAgree`, `ViewsAgree`, `ReturnsEmpty`. Assumptions: `Owner` and `InitialRole` are functions into users and
roles, superusers are admins at the start, demos are companies, `None` is none of them.

The inductive invariant adds to the tables what a request remembers. `RequestInv`: the rows it loaded are
of the types its checks asked for, and what it is about to write stays writable (a demo stays a demo, a
course key that was given out stays given out, and the role an `update_me` loaded is still the user's unless they are
`outrun`). `RowsHaveCourses`:
visibility rows refer to courses that exist, so that a course that comes back finds none. `SharersInv`: whoever
shared a visible row was its owner or an admin at the time. Agreement of the list with `get_company` then
follows in each state from `OneCoursePerStudent` and the types, without induction.

### Chart of accounts

`ChartOfAccountsProofs` proves, for any workers, companies, parents, names, specs and databases to start from:

| Theorem | Statement |
|---|---|
| `TypeCorrect` | `Spec => []TypeOK` |
| `CodesNeverShared` | `Spec => []CodesUnique` |
| `PostingsValid` | `Spec => []PostingsStayValid` |
| `ReturnsWithNothing` | `Spec => ReturnsBare` |
| `NothingTwice` | `Spec => []NothingMadeTwice` |

Assumptions: the databases to start from are right themselves, with one account of a name per company
(`StartsAssumption`), specs are sequences of parents and names, `None` and `New` are neither companies nor
contents, and there are finitely many companies.

What a request checked may be false when it writes: the account may be deleted, its company too, and both may
have come back. `Settled(c, a)` is what remains true: the account `a` is still the company's, or one of the two
was deleted since (it is gone, or revived). `RequestInv` says it of every account that a request will post
to and did not adopt, and of every name it read as the company's own; `Stable` lists what commits never take back
(parents, keys, settled accounts), and `OthersKeep` shows that this is all other requests rely on. At the commit the
foreign keys exclude "gone", and what is left is `PostingsStayValid`. Codes need no memory: the constraint decides
at the commit, and the rows of one request differ because each took the lowest code that was free
(`NextCodeFree`, by well-foundedness of `<`).

`NothingTwice` rests on `OnceInv`, which says of each request what it knows (`Knows`). `Decided`: it holds one
account per name it has resolved, and makes only those it did not find. `NamesCurrent`: the names it read are
still all the names of its company, unless another request changed the company's accounts since; then the
commit marks them `outdated`. `DemosCurrent`: the content and the slug of an import are still free, unless
another import was committed. `NamesStable` is what every step of another request guarantees, so each action is
shown once to keep its own request's knowledge and once to be such a step. That the search for a slug ends
(`SlugIsFree`) is a pigeonhole argument over the finitely many companies.

### Report cache

`ReportCacheProofs` proves, for any readers and writers and any number of writes:

| Theorem | Statement |
|---|---|
| `TypesAreInvariant` | `Spec => []Types` |
| `ExercisesAtMostOneBehind` | `Spec => []ExercisesOneBehind` |
| `ReadsSurviveFailures` | `Spec => []ReadsUnlessInvalidationLost` |

Nothing is assumed of the cache or of how requests overlap; the two properties say themselves what they exempt.

As long as `intact`, the version that a reader finds (`ReadVersion`: a missing one counts as 1) only grows and nothing
held or cached is under a later one (`VersionInv`). The row lock serialises journal writers between bump and commit
(`LockInv`), so exercises under the current version miss at most the journal write that bumped to it, and nothing while
that write is not committed (`RecentInv`). `AnswerInv` carries this over to a reader whose version has been
overtaken: what it may find, or somebody may yet store, under its key is at most one commit behind what it asked for.

`ApartInv`, as long as `intact` and `apart`: a writer is alone and nothing is cached under the version it has bumped to
(`WriterAlone`); while nobody writes, what is cached under the version a reader will find covers all commits
(`CacheCovers`), and a reader looks up and stores under that version what is committed (`ReaderCovers`). A write that
begins alone re-establishes this whatever the cache held before, since its bump leaves all of it behind.

### Visibility

`VisibilityProofs` proves, for any students, teachers, courses, timeouts and number of requests, and with
failing calls and killed requests anywhere:

| Theorem | Statement |
|---|---|
| `TypesAreInvariant` | `Spec => []Types` |
| `CachedTeachersAreCurrent` | `Spec => []CachedTeacherCurrent` |
| `AnswersAgeOut` | `Spec => []ChartsAgeOut` |
| `AnnouncedOverridesReach` | `Spec => []OverridesReach` |

`AnswersAgeOut` needs an account of age. `TimeInv`: no request outlives `RequestTimeout`. `TeacherAges`,
`HiddenAges`, `ChartAges`: a key that expires at time `until` was stored from something loaded at most so long
before, so its content has every change older than `until` minus the timeout and the life of the request that
loaded it. `RequestAges` says it of what a request holds, label by label. The three ages add up to `MaxAge`.

`AnnouncedOverridesReach` needs none of the ages. `CountsInv`: announced overrides are committed. `ReachInv`, for
every teacher whose version was not set back, as long as the cache answers: what is cached or held under a version
has every override that was announced before any request holding that version or an earlier one began, and under
the current version every override announced so far (`Fresh`). An override is announced by the bump that makes the
version grow, so what was loaded before it stays under a version that no later request asks for.

### Registration

`RegistrationProofs` proves, for any workers, limits, windows, cooldowns and timeouts:

| Theorem | Statement |
|---|---|
| `ConfigIsInvariant` | `Spec => [](Types /\ ConfigInv)` |
| `RotatedCodesDie` | `Spec => []RotatedCodeDies` |
| `ShownCodesWork` | `Spec => ShownCodeWorks` |
| `CooldownIsServed` | `Spec => CooldownServed` |
| `AttemptsAreBounded` | `Spec => []AttemptsBounded` |

Assumptions: limits, windows and timeouts are positive, and the cooldowns ascend with the failures, as
`REGISTER_COOLDOWN_STEPS` does.

`ConfigInv`: salts are drawn once and a replaced one is in no row (`RowsInv`); a cached or held salt that was
replaced was replaced no longer ago than the key and the requests on its way can live (`RetiredInv`, from
`TimeInv`); and unless `raced`, the cached salt is the current one or about to be deleted, and no request checks or shows a
code with a salt older than what it has seen (`SinceInv`, `RaceInv`). 

`CooldownIsServed` rests on `CooldownInv`: the block reaches as far as the sentence, or a worker that has counted the
failures behind the sentence has yet to write it; the failures only grow until a success, and the cooldowns with them.

`AttemptsAreBounded`: an attempt counts in the window its request read off the clock (`WindowInv`). `CountInv` says of
each window how many attempts have passed: those that its expired counters let pass (`Lives`, at most one for every
`REGISTER_WINDOW + 1` since the start of the window) and those the living counter has counted, which is created while
a request of the window is served (`InTime`). Nothing is assumed about `RequestTimeout`; it is what
`CountersOfAWindow` is computed from.

### Only model-checked

Liveness (`EveryRequestEnds`), which is out of the prover's reach. Every other property of a passing run is stated by
a theorem. `ClosedPeriodLocked`, `MissedIsClosedNext` and the properties of the chain of exercises are proved under the
hypothesis that one worker closes, or that there is only one; all others without any.

## Not modelled

* Excel exports (`reports/exports`, `closing/exports.py`): formatting of answers that are modelled.
* Parsing of demo files (`demo_schema.py`): a conversion of JSON without state.
* Serializers beyond the choices they allow, pagination, error formats, logging, settings and middleware: no state
  that a property depends on.
* The example app: template code.
* Authentication: tokens are those of simplejwt, outside the repository.

What would come next: cash and inventory counts in the journal of `Reports`, so that the reports are proved for
closings with adjustments; and the layout of the Excel exports, if a property should ever depend on it.
