# A verification of tax_auto

`tax_auto` fetches a company's invoices from the Chinese tax bureau's web portal (Playwright driving a
Chrome profile that a human has logged in), pulls the same invoices through a vendor's API into a
Postgres warehouse, and shows the warehouse in a small multi-user web application. This directory models
its core in TLA+, checks the models with TLC on small instances, and proves the most important
invariants with TLAPS for every instance. Paths below are relative to `src/tax_auto/tax_auto/` unless
they start with `src/`.

## 1. Inventory: the parts of the system

| part | code | state it keeps | operations | talks to |
|---|---|---|---|---|
| fetch worker | `core/worker.py`, `flow/steps.py`, `flow/downloads.py` | a row of `runs`, its `audit_log` records, the month's archive directory and `_manifest.json` | `run_fetch`: seven steps, each preceded by a committed row update; three `except` clauses that end the row | browser session, portal, e-mail, SQLite |
| browser session | `core/session.py`, `core/browser.py` | `session/<tax_id>/.lock` (flock), the row of `sessions`, the Chrome profile directory | `login_interactive`, `open_session`, `assert_session_alive` | worker, Chrome, SQLite |
| transition tables | `core/state_machine.py` | none | `can_transition`, `assert_transition` | nobody calls them outside the tests |
| selectors and vision fallback | `flow/waits.py`, `flow/selectors.py`, `vision/` | a process-wide counter of vision calls | `safe_click`, `safe_fill`, `escalate_resolve` | the steps, the vision model |
| scheduler | `scheduler/scheduler.py` | none of its own; reads `customers`, `runs`, `sessions` | `run_for_month`: per customer skip, warn, or run | worker, e-mail |
| customer registry | `storage/customers.py`, `cli.py` | `customers` | add, disable, list | scheduler |
| e-mail | `notify/email.py` | sliding window of send times | `send_email` | SMTP |
| metrics | `obs/metrics.py` | none | aggregate over `runs` | CLI |
| vendor's answer | `fapiao/parser.py` | none | `parse_response`: sections and rows of an answer to invoices with items | warehouse sync |
| parser of downloaded invoices | `flow/parse_invoice.py` | none | extract metadata from OFD, PDF and XML files | files |
| warehouse sync | `fapiao/`, `src/tax_auto/scripts/sync_daily.py`, `src/tax_auto/scripts/sync_invoices.py` | `sync_runs`, `raw_payloads`, `companies`, `invoices`, `invoice_items` (Postgres) | open a sync run, call the API, archive, parse, upsert, close the sync run | vendor API, Postgres |
| warehouse schema | `warehouse/` | the Postgres schema | migrations | sync, web |
| web accounts | `web/auth.py`, `web/routes/admin_users.py`, `web/routes/profile.py`, `src/tax_auto/scripts/create_admin.py` | `users`, `user_company_access`, a per-process login rate window | login, lockout, unlock, create, update, delete, grant, revoke, change password | Postgres, browser |
| web pages | `web/routes/invoices.py`, `web/routes/dashboard.py`, the scope functions of `web/auth.py` | none; each page is several SELECT statements, and the list is leafed through in several requests | list, CSV export, invoice, dashboard, all restricted to the user's companies | Postgres, beside the commits of syncs and administrators |
| tools | other `src/tax_auto/scripts/`, `src/deploy/` | none | bind a company, probe, record, replay; container and systemd files | - |

### What is hard

* **Processes, not threads, compete** for a tenant: a manual `fetch run`, the scheduler, a `login`.
  They share a flock, rows in SQLite and one Chrome profile. Every statement between taking the flock
  and giving it back can raise, and the process can be killed between any two.
* **A run's truth is spread** over a committed row, an audit record, the summary that is returned, the
  manifest on disk and the portal's own list of export tasks; the worker updates them one at a time.
* **Humans and timeouts**: a face scan is waited for (180 s), an export is polled for, a login is
  waited for; each can end either way at the last moment.
* **Two synchronisations** of the warehouse (the nightly timer and a manual month) may run at once over
  the same companies, each in one long transaction that locks company rows one after the other.
* **Two web processes** (`--workers 2`) read, compute and write the same account row.
* **A page is not a snapshot**: its statements run under READ COMMITTED, so invoices, grants and the
  account itself may change between any two, and between two pages of one list.

### What would make each part correct

* session: one worker at a time per tenant; no way out leaves the lock or a LOCKED row behind; only the
  holder releases the row; everybody who takes it gives it back; Chrome's profile is free when a run needs it.
* worker: what is returned is what the table says; a terminal row is final, has `ended_at` and, if
  FAILED, an error; DONE only when the archive holds what the portal announced; states move along the
  table; every run ends.
* sync: a stored invoice is what the archived payload of its own successful sync run says; a sync run
  that is not successful left nothing; two concurrent syncs do not destroy each other.
* accounts: names are unique; a grant belongs to an account that exists; there is always an administrator;
  a lock is lifted on purpose, not by a request that overlapped with the failure that set it; the flag
  for a forced change says what kind of password the account has.
* pages: nothing is shown of a company that was not the user's during the request; leafing through the
  list to its end shows every invoice, unless something moved meanwhile.
* scheduler: every active customer is run, skipped for a stated reason, or reported.

## 2. Plan

Most important behaviour first. A module is written so that it can be proved about: parameters are
CONSTANTS with named assumptions, one action per operation, no `RECURSIVE` operator anywhere.

| order | module | extends / instantiates | state |
|---|---|---|---|
| 1 | `StateMachine` | - | done |
| 2 | `FetchRun` | extends `StateMachine`; instantiates `RunLifecycle` | done |
| 3 | `RunLifecycle` (abstract) | - | done |
| 4 | `FetchRunProofs` | extends `FetchRun` | type, exclusivity, no orphan lock, no foreign release proved |
| 5 | `WarehouseSync` | instantiates `SyncLedger` | done |
| 6 | `SyncLedger` (abstract) | - | done |
| 7 | `ParseResponse` | - | done |
| 8 | `MailWindow`, `Escalation`, and `MonthlyRun` which composes them | `MonthlyRun` extends both | done |
| 9 | `Accounts` | - | done |
| 10 | `AccountsProofs` | extends `Accounts` | type and all safety properties proved |
| 11 | `InvoicePages` | - | done |
| 12 | `InvoicePagesProofs` | extends `InvoicePages` | type and both safety properties proved |
| 13 | `MonthlyRunProofs` | extends `MonthlyRun` | type and all safety properties proved |
| 14 | `ParseResponseProofs` | extends `ParseResponse` | type and all safety properties proved |
| 15 | `WarehouseSyncProofs` | extends `WarehouseSync` | type, all safety properties and the refinement of `SyncLedger` proved |
| 16 | `FetchLedgerProofs` | extends `FetchRunProofs` | the properties of the rows and the refinement of `RunLifecycle` proved |
| 17 | `FetchProgressProofs` | extends `FetchLedgerProofs` | termination of workers, profiles, lost runs, archives and the audit log proved |

Each checked module `M` has a module `MCM` with the symmetry sets (and, for `WarehouseSync` and
`InvoicePages`, the functions a configuration file cannot write); the `.cfg` files give the constants their values.

The two abstract specifications are what a caller may rely on:

* `RunLifecycle` - a run is opened, is refused only while another run is inside the session of the same
  tenant, or enters it alone, leaves, and ends once as DONE or FAILED. An error may strike it before,
  inside or after the session (`Break`); it is `failing` from then on and can only end as FAILED. A run
  whose process is gone is lost and nothing resumes it. It knows nothing of steps, locks or rows.
* `SyncLedger` - an answer of the vendor is archived and stored in one step, or not at all. It knows
  nothing of processes, transactions or locks.

## 3. Modules and code

### FetchRun: `core/worker.py`, `core/session.py`, `flow/steps.py`, `flow/downloads.py`

One action is one database transaction, one flock call, or one interaction with the browser; these are
the places where another process can get in between. `pc[p]` is the statement a worker is at, `job[p]`
the local variables of `run_fetch` (run id, tax id, dry run, state, step, expected count, the download
link step 6 found, and the class of the exception in flight).

| pc | code | actions |
|---|---|---|
| idle -> created -> locking | `_create_run`, `_persist_run(AUTHENTICATING)` before the `try` | `CreateRun`, `Authenticate` |
| locking -> marking -> launching | `open_session`: the lock file and its flock (granted, refused, or an `OSError`), LOCKED outside the inner `try`, Chrome | `Flock`, `MarkLocked`, `Launch` |
| saving -> acting | the loop: `_persist_run` before each step | `SaveStep`, then the action of step `job[p].step`: `LoginCheck`, `Navigate`, `FillQuery`, `SelectAndExport`, `FaceVerify`, `PollExport` / `PollTimeout`, `Archive`, or `StepRaises` |
| expiring | `assert_session_alive` marks EXPIRED and raises | `MarkExpired` |
| asking, prompting, waiting | the nested `except FaceVerifyRequired` | `NeedsHuman`, `PromptHuman`, `WaitForHuman` |
| closing, releasing, unlocking | the `finally` clauses (`ctx.close()` and the unlock may raise, too) and `except Exception` of `open_session` | `CloseChrome`, `MarkValid`, `Unlock` |
| ending, auditing | DONE row, RUN_END record | `EndRun`, `AuditEnd` |
| failing | the three `except` clauses of `run_fetch` | `FailRun` |
| login, closing_login | `login_interactive`, which takes no lock | `OpenLogin`, `FinishLogin`, `CloseLogin` |

The environment: `Kill` ends a process anywhere (the system drops its flock and its Chrome; rows stay),
`Fails` makes a transaction raise anywhere, `BuildExport` finishes an export at the portal. `exports`,
`manifest` and `summary` are the portal's task list, `_manifest.json`, and what the caller got back.

`StateMachine` transcribes `_RUN_TRANSITIONS` and `_SESSION_TRANSITIONS`; the code never consults them,
so `FetchRun` does, as a property.

### WarehouseSync: `src/tax_auto/scripts/sync_daily.py`, `sync_invoices.py`, `fapiao/ingest.py`, `fapiao/client.py`

A syncer is a process with a plan of (company, direction) pairs. `Open` commits the pending row;
`Receive`, `Refuse` and `TransportError` are the three ends of the API call; `Lock` is `_upsert_company`
for the company itself and then for each party of the answer, waiting for a row that another
transaction holds; `Upsert` is an iteration of the ingest loop, invisible until `Commit`; `MarkFailed`
is the commit of the `FapiaoError` handler. `BreakDeadlock` is Postgres aborting one of a circle of
waiting transactions. The contents of an invoice are a version number, which `Amend` raises. The API is
called before the company row is locked: `known`, in a syncer's job, is what had been archived when it
called, and `OnlyOverlapTakesBack` says that an older version overwrites a newer one only if the newer
one was archived after that call.

### ParseResponse: `fapiao/parser.py`

A pass goes through the rows of XXHZB, then through the header-only sections in any order (the code
iterates over a frozenset), and through the rows of each in order. Two passes run over one answer, so
that "parsing again gives the same" can be stated. `ParsedIsAnswer` is what one pass returns:
`ItemsAreItsRows`, `HeaderIsFirstRow` and `NothingLost` together.

### MonthlyRun with MailWindow and Escalation: `scheduler/scheduler.py`, `storage/customers.py`, `notify/email.py`, `vision/escalation.py`, `flow/waits.py`

`run_for_month` in one process: `Start` reads the registry once, the loop checks and fetches customer by
customer, `Report` mails the summary and yields the exit code. `Fetch` abstracts `FetchRun` to: a row is
opened, selectors are missed (`MissSelector`, `Ask`), a face scan is prompted for (`Prompt`), the run
ends. `DatabaseRaises` is a database error in the checks of a customer, in the insert of a run, or in the
`except` clause of `run_fetch`; it ends the pass. `Answer` is a tier of `escalate_resolve`. `Send` is
`send_email`: a mail is recorded and reported as sent together (`sent`), or neither, be it that the limiter
dropped it, that the server refused it, or that the server took it and the block raised all the same (a
lost reply, a failing QUIT).
`Login` and `FetchByHand` are the commands people give.

### Accounts: `web/auth.py`, `web/routes/admin_users.py`, `web/routes/profile.py`, `src/tax_auto/scripts/create_admin.py`

A handler is one request. It begins and is authorised (`Authorise`), loads and computes (`...Loads`),
and commits (`Commit...`), and other handlers act in between. The ORM's identity map is `Loaded` (an
administrator who edits their own row works on the copy that authorised them), its UPDATE of changed
columns is `Written`, the database's constraints are `NameFree` and `Insertable`. `PasswordLoads`
is the user's own change of password. Of a password the model keeps how it came about, in `secret`:
`free` (chosen by its owner, or given without a forced change), `forced`, or `crossed`, the remainder of
two changes of one password that overlapped.

### InvoicePages: `web/routes/invoices.py`, `web/routes/dashboard.py`, `web/auth.py`

A page is the sequence of SELECT statements its handler executes (`ListScript`, `ExportScript`,
`DetailScript`, `DashboardScript`); `todo` is what is left of it. Each statement sees what is committed
when it starts; between two of them `Ingest` (a synchronisation) and `Administer` (a grant, a revocation,
a change or deletion of the account) may commit. `ReadScope` and `ReadBase` are `get_user_scope_taxnos`,
which the handlers call once per helper, `InScope` is `_apply_scope`, `Guard` is `assert_can_view`. The
list's own `PageNumber`, `PageSize`, `TotalPages` and `Slices` (ORDER BY, OFFSET, LIMIT; equal keys in
any order) are as in `invoices_list`. An invoice is whether it matches the filter and its place in the
sort order. `walk` remembers what a user who follows the link to the next page has seen.

## 4. What each run checks

| run | question | instance | properties |
|---|---|---|---|
| `fetch_faults` | can workers that die or whose database fails spoil each other's session or report something untrue, and do they implement `RunLifecycle`? | 2 workers, 1 tenant, 2 runs, dry or not, 1 kill, 1 failed transaction | `TypeOK`, `ExclusiveSession`, `NoOrphanLock`, `NoForeignRelease`, `LockedRowIsHeld`, `ProfileIsFree`, `ReportMatchesLedger`, `DoneIsEarned`, `RowsFollowTable`, `ArchiveHasOneWriter`, `ImplementsLifecycle` |
| `fetch_live` | does every session get released and every run end? | the same, no kills, fair | `SessionIsReleased`, `RunEnds` |
| `says_expired_needs_login` | does EXPIRED stay until a login, as documented? No. | 1 fault-free behaviour is enough | `ExpiredNeedsLogin` |
| `says_own_export` | does a run archive its own export, as documented? No. | 2 runs of a tenant | `ArchivesOwnExport` |
| `sync_pair` | is the warehouse what successful runs archived, with two syncers, deadlocks, refusals and a crash? | 2 syncers, 2 companies that trade with each other, see `MCWarehouseSync` | `TypeOK`, `SameCompanyIsSerial`, `StoredIsArchived`, `ItemsOfOneAnswer`, `SuccessIsArchived`, `OnlyOverlapTakesBack`, `ImplementsLedger` |
| `sync_nightly` | is the nightly exit code honest, its list complete, and does it end? | the nightly job beside a manual sync, fair | `NightlyCoversSynced`, `ExitCodeIsHonest`, `SyncEnds` |
| `says_failure_recorded` | is every failed synchronisation recorded, as documented? No. | 1 transport error | `FailureIsRecorded` |
| `parse_any` | is every answer parsed completely, in order, and reproducibly? | all answers of up to 3 item rows and 2 header rows per section | `TypeOK`, `ParsedIsAnswer`, `PassesAgree` |
| `month_pass` | does the exit code account for everybody, do the budget and the limit of reported mails hold, does a pass end? | 2 customers, 2 passes, 2 commands, fair | `TypeOK`, `ExitCodeCoversListed`, `BudgetHolds`, `HourlyLimit`, `PassEnds` |
| `says_every_customer` | does a pass report every customer, as documented? No. | 1 command, 1 pass | `EveryListedIsReported` |
| `accounts` | do overlapping requests keep names unique, grants attached, an administrator, locks, and the flag for a forced change? | 2 handlers, 2 names, up to 3 requests, 3 accounts, 1 or 2 of them set up before, with or without a forced change | `TypeOK`, `UniqueNames`, `NoOrphanGrants`, `AdminRemains`, `MustMatchesSecret`, `LockIsLiftedOnPurpose` |
| `web_pages` | do pages show what is granted, and does leafing miss nothing, while others commit? | 3 invoices of 2 companies, pages of 1 or 2 rows, 3 sort keys, 2 commits of others, every small warehouse at the start | `TypeOK`, `ShownIsGranted`, `MissIsExplained` |

Every property of a passing run has a mutant in `PROJECT.json`: the definition it is sensitive to, and a
plausible bug next to it in the module ("Plausible bug: ...") under which the property fails.

### The bounds, and why they are enough

* *Two workers, two syncers, two handlers.* The interference is pairwise: a lock, a row or a name has
  one holder and one competitor. What is proved in section 7 holds for any number of workers.
* *One tenant* in `FetchRun`: tenants share nothing but the database, whose failures are modelled. The
  proofs are for any set of tenants.
* *Two runs*: one to leave something behind (a lock, a LOCKED row, an export, a manifest) and one to
  find it.
* *One kill and one failed transaction* in one behaviour, at any point, also both: a failure while
  handling a failure is a failed transaction in an `except` clause after an exception of another kind.
* *Counts 0 and 1 (`MaxCount`)*: enough for missing files and unreadable counts. A surplus would need a
  count of 2; that it is no way to DONE is part of `DoneEarned`, which holds for every `MaxCount`.
* *Two versions of an invoice (`MaxVersion`)*: old and new. *Sync runs (`MaxSyncs`)*: `sync_pair` leaves
  room for each syncer to write, and one again; `sync_nightly` for a whole nightly job and a manual sync.
* *Three item rows*: two invoices interleaved, or one invoice with consecutive numbers and a gap.
* *Vision budget 2, mail limit 2, an hour of one tick*: the limits can be reached, exceeded by one, and
  freed again; `month_pass` lets one fetch leave one call to the next.
* *Three invoices, pages of one or two rows, two commits*: several full pages and a last one that need
  not be full; one commit that pushes a row to the next page and one that changes a grant, or two between
  any two statements. One of the invoices belongs to the other company, which may or may not be granted.
  The page limits 1 and 2 stand for 10 and 200; 0 and 3 are the requests outside them.
* *Three accounts, two failures to a lock, three requests*: three requests, because an overlap of two may
  need a third to have prepared the row; three accounts, so that beside an account that is there two
  requests could both insert one new name, were it not for the constraint.

Symmetry is used for workers, runs, syncers, passes, handlers, names, and only in runs without
liveness (not in `web_pages`, whose invoices have different homes and places). `CHECK_DEADLOCK FALSE` stands in the runs whose bounds stop the system (all requests used, all
passes over, all slots used); the `FetchRun` runs check deadlock.

### Fairness

Weak fairness of the progress of each process, and of nothing else: not of people, kills, failures, the
portal, or the arrival of requests.

* `FetchRun`: the waits of a worker are bounded (Playwright's timeouts, 180 s for a face scan, the export
  poll's deadline, the login's), so the disjunction of its next statements is never disabled for ever,
  and the system schedules the process. The exception is saving the download (`save_as` in
  `flow/downloads.py`), which has no timeout of its own: fairness assumes that a download which has begun
  ends or breaks off.
* `WarehouseSync`: the HTTP client has a timeout, Postgres grants free locks and breaks circles. Without
  `BreakDeadlock` the property is false (that is its mutant).
* `MonthlyRun`: the loop waits for a fetch, which ends (`RunEnds`), for the model and for SMTP, which
  answer or time out. That the loop ends even when selectors keep being missed follows from the budget.

## 5. Where the code and its documentation part

With a run that shows it:

1. *An EXPIRED session becomes VALID without a login* (`says_expired_needs_login`). `open_session` marks
   VALID on every exception, also the `SessionExpired` that was raised because the row had just been
   marked EXPIRED. `core/state_machine.py:128` and `src/tax_auto/docs/architecture.md:428` say it needs
   a login.
2. *A run may archive another run's export* (`says_own_export`). Step 6 takes the first finished row of
   the list; the architecture document gives it the task number.
3. *A transport error leaves a sync run pending and ends the whole nightly job* (`says_failure_recorded`):
   only `FapiaoError` is caught.
4. *A customer with an earlier run or a login ends the monthly pass with an exception*
   (`says_every_customer`): rows are read after their session was committed and closed. The cooldown and
   the session-age warning are therefore never reached, and `MonthlyRun` models what happens instead.

Met while modelling, part of the models, without a run of their own:

* A dry run goes from DOWNLOADING to DONE, and a DONE row becomes FAILED when the RUN_END record cannot be
  written; neither move is in `_RUN_TRANSITIONS`. `RowsFollowTable` names both and allows nothing else.
* A FAILED run has no RUN_END record: the `except` clauses do not write one.
* `login_interactive` writes FRESH into the row of a session that a worker holds (LOCKED has no move to
  FRESH in the session table); the flock, not the row, keeps the session exclusive.
* An answer that lists an invoice in a header section only keeps the items of an older version under the
  new header, though `fapiao/ingest.py:132` speaks of replacing them wholesale.
* Which header-only section a header comes from depends on the iteration order of a frozenset, so a
  repeated synchronisation can store another header, though `fapiao/ingest.py:3` calls it idempotent.
* The vision budget is documented as per run, but `flow/waits.py` passes no run id, so all fetches of one
  process share one counter which nothing resets; a fetch may be refused its first call.
* A mail is recorded in the window when the block that talks to the server has ended well. One that left
  before its reply was lost, or before QUIT failed, is reported as failed and not counted, so that more
  mails than the limit can leave within an hour. `HourlyLimit` is about the mails reported as sent.
* The files of an export are compared with the list only if the list's count is above 0, and a count label
  that is missing or unreadable counts as 0: such a run is DONE with any number of files, though
  `src/tax_auto/docs/architecture.md:445` makes a difference FAILED. `DoneIsEarned` names the case.
* Two administrators who remove each other at the same moment leave none (`AdminRemains` excludes exactly
  this with `raced`); `create_admin.py` is the way back.
* `src/docs/security-multi-user-plan.md:198` has users change a given password at their first login. The
  login redirects them to the form, but no other page asks for `must_change_password`; who leaves the form
  goes on with the given password. The flag is right (`MustMatchesSecret`); it is advice.
* Two changes of one password that overlap (the owner's own and an administrator's) can leave the flag of
  the one and the password of the other, because only changed columns are written. This is `crossed`.
* The page's count, its rows, its sums and the lists of its filter form come from different moments and
  each from a scope read anew, so a page may say "12 invoices" over rows that no longer agree with it; the
  detail page reads an invoice and its items in two statements.
* The order of the list has no second key, so invoices with one date may change places between two pages:
  an invoice can be shown twice, another never (the reason `moved` of `MissIsExplained`).
* `quick_search` sends every term to the filter on the seller's name and tax number; the number of a
  fully digital invoice, which its comment says it looks up, finds nothing.
* The dashboard's grid of synchronisations keeps one status per company, day and direction, whichever
  comes last, so that a green cell may stand over a failed attempt, and its "last synchronisation" counts
  attempts that failed.

## 6. Properties worth a remark

* `NoForeignRelease` and `LockedRowIsHeld` together say what the LOCKED status is worth: it is never taken
  back early, and never left behind unless a process was killed or a write failed.
* `ProfileIsFree` is about Chrome's own lock on the profile, which the code relies on but never asks for:
  that no run finds the profile taken by another one follows from the order in which Chrome and the flock
  are given back, and only a login, which takes no flock, can be in the way.
* `ArchiveHasOneWriter` says why the files of two exports are not mixed, although all runs of a month
  extract into one directory.
* `StoredIsArchived` relates four tables over any interleaving of two long transactions; its mutant is a
  commit per invoice.
* `SameCompanyIsSerial` rests on the order of statements in `ingest_invoices`: the company's own upsert
  comes first. It would fail for a SELECT FOR UPDATE, which locks nothing before the row exists.
* `ExitCodeIsHonest` and `ExitCodeCoversListed` are about what an operator's timer sees.
* `UniqueNames` rests on the constraint alone: both requests look the name up before either inserts it.
* `LockIsLiftedOnPurpose` depends on the ORM's writing changed columns only: a whole-row UPDATE lets a
  stale successful login lift a fresh lock. `MustMatchesSecret` depends on it, too.
* `MissIsExplained` excuses a missed invoice by reasons a user can do nothing about, and by nothing else:
  an invoice left the result or changed its place, two had equal keys, or rows came in between the count
  and the rows of the last page. Invoices that come in while leafing are no excuse: they only push others
  back, to pages still to be seen. An off-by-one in the number of pages, or a page 0, is caught.
* `ShownIsGranted` compares with what was granted *at some time during* the request; with what is granted
  when the page is sent it would be false, and rightly so.
* `OnlyOverlapTakesBack` is what the late lock of the company row costs: an older answer may overwrite a
  newer one, but only one that was archived while the older was under way.

## 7. What is proved

The theorems hold for every value of the constants that satisfies the named assumptions; TLC evaluates
the assumptions in every run. `tlapm` finds a proof for every leaf.

Most theorems state a property that a run checks too. Others are about what no run states, because it is
only worth saying for every value of the constants, or says more than a run asks: what a process still has
to do, what it holds, and what cannot be lost. Their statements are defined next to their proofs.

### FetchRunProofs

Assumed: `BoundsAreNat` (the budgets are numbers), `DryRunIsBoolean`, `NoneIsFresh` ("none" is no
worker, tenant or run). Workers, tenants, runs, kills and failed transactions are arbitrary.

| theorem | says |
|---|---|
| `TypeCorrect` | `TypeOK`, with the error classes, steps and states the code declares |
| `SessionExclusive` | `ExclusiveSession`: one worker per tenant between the lock and the unlock of `open_session` |
| `LockNotOrphaned` | `NoOrphanLock`: a held flock has a worker inside `open_session` |
| `ReleasedByHolderOnly` | `NoForeignRelease`: only the worker that drives a session writes VALID or EXPIRED over LOCKED |

The inductive invariant is `IInv == TypeOK /\ JobInv /\ LockInv`. `TypeOK` alone is not inductive: the
step counter stays within 0..7, and the reported state stays terminal, only because of the path that led
to the statement; `JobInv` says what the program counter tells about the local variables. `LockInv` says
the flock of a tenant is held by p *exactly* while p is between two statements: one direction is the
exclusivity, the other the missing orphan, and neither is inductive without the other. For
`NoForeignRelease` `DriveInv` adds that while a worker drives, the row is not VALID, and is EXPIRED only
after that worker's own login check; `login_interactive`, which ignores the flock, writes FRESH only and
therefore does not break it.

### FetchLedgerProofs

Assumed: the same as in `FetchRunProofs`.

| theorem | says |
|---|---|
| `ReportIsLedger` | `ReportMatchesLedger`: the caller is told what the row says |
| `DoneEarned` | `DoneIsEarned`: a DONE row stands for an empty query, a dry run, or a complete archive |
| `RowsFollow` | `RowsFollowTable`, an action property: rows follow `_RUN_TRANSITIONS`, with two exceptions |
| `LockedIsHeld` | `LockedRowIsHeld`: without kills and failed writes a LOCKED row has a worker behind it |
| `WorkersImplementLifecycle` | `ImplementsLifecycle`: the refinement of `RunLifecycle`, with an error possible at every statement |

A row is written many statements after the decision it records, by a worker that may fail in between. So
`LedgerInv == WorkInv /\ UniqueInv /\ RowsInv` ties the row to the worker: `UniqueInv` gives a run one worker,
`WorkInv` says for every statement which state and step the row has by then, whether the export has been
submitted, and, on the way to DONE (`Earning`), that DONE is already deserved; `RowsInv` says that a row is
consistent whoever wrote it. A step changes no run but its worker's own (`Effect`), so each action is
looked at for one run only and `EffectKeeps` carries the rest. That `DoneIsEarned` survives the runs that
come later rests on this: the next run of the tenant overwrites the manifest with its own run id, never
with another count under the old one.

`LockedRowIsHeld` is proved from `HeldInv`, in which the witness is a worker that has *yet to write* VALID
(`Inner`), not merely one that holds the flock: a worker about to unlock has done so already.

For the refinement `Phase` gives the stage of a run from its worker's statement. A worker's step keeps the
phase or moves it (`Turn`), or the worker is gone (`Halt`), and the row, if not terminal, is lost. Entering
and being refused need the other direction of `LockInv`, too: a run is inside exactly if some worker holds
that tenant's session (`InsideHeld`, `HeldInside`), so the flock is free exactly if nobody is inside.

### FetchProgressProofs

Assumed: the same again.

| theorem | says |
|---|---|
| `WorkIsBounded` | `LeftInv`, `StepsInv` and `ComesNearer`: at most 46 statements are left to a worker, each of its own leaves fewer, and nobody else's adds one |
| `ProfilesAreFree` | `ProfileIsFree`: an open profile has a live process behind it, and no run finds it taken by another run |
| `LossesAreCounted` | the runs that nobody executes and nobody reported are at most as many as the kills and failed transactions |
| `RunsAreNotLost` | without faults every row that is not terminal has a live worker |
| `ArchivesHaveOneWriter` | `ArchiveHasOneWriter`, an action property: only the run inside the session writes the archive, and its row tells so |
| `AuditTells` | what RUN_START, RUN_END and FACE_VERIFY_PROMPT stand for |

`Flow` is the control flow of a worker, read off its actions once (`WorkerFlow`). `Left(p)` counts the
statements ahead on it. What makes it go down is not the program counter alone: the loop comes back to
`saving`, but with the next step; `releasing` comes back to itself, but only from a run without an error to
one with an error, since `except Exception` tries again once. With weak fairness, which TLC adds, a run that
exists therefore ends (`RunEnds`) and lets go of its session (`SessionIsReleased`); the theorem is the part
of that which needs no fairness, for any number of workers.

`LossesAreCounted` needs the finite set itself in the invariant (`LossInv`): a kill or a failed transaction
adds at most the one run whose worker is gone, every other end of a worker reports. It is the positive side
of the crash hazards: nothing resumes a lost run, but no fault loses two.

`ProfilesAreFree` needs two invariants together. `ChromeInv` says which process has a profile open, logins
included; `LockInv` says that no two runs are between the launch and the unlock, so that whoever is in the
way of a launch is not a run. `ArchivesHaveOneWriter` takes the worker from `LockInv` and the row from
`RowFits`: the row is saved as ARCHIVING before the step that writes.

### AccountsProofs

Assumed: `AccountBounds` (a positive number of accounts and of failures to a lock), `NoneIsNoName`.
Handlers, names and companies are arbitrary.

| theorem | says |
|---|---|
| `TypeCorrect` | `TypeOK`: a row that a stale form is written over stays a row, and the failure count below its limit |
| `NamesAreUnique` | `UniqueNames` |
| `GrantsHaveUsers` | `NoOrphanGrants` |
| `AdministratorIsLeft` | `AdminRemains` |
| `FlagTellsPassword` | `MustMatchesSecret`: the flag says what kind of password the account has, except for `crossed` ones |
| `LockLiftedOnPurpose` | `LockIsLiftedOnPurpose`, an action property |
| `AccountsKeepIdentity` | an account keeps its name, and no id is given out twice, so no cookie changes hands (action property) |
| `AdministratorsDecide` | role, activity and existence change only in the commit of *another* administrator's form, or of the script (action property) |

A commit writes what its handler computed from a row it loaded earlier, so nothing can be proved from the
current rows alone. `IInv == TypeOK /\ ReqInv /\ BornInv`: `ReqInv` says what a request that is about to
commit has in hand, relative to the row *it loaded* (a login and an unlock keep name, role and activity;
an update keeps the acting administrator's own; a deletion is never of the actor; the script makes an
active administrator), and `BornInv` that ids not given out have no row. `NextEffect` then classifies
every step by what it does to `users` and `access`: nothing (`Kept`), one row rewritten (`Rewritten`,
with the reason if an administrator was ousted), one inserted (`Created`), one deleted (`Deleted`). The
invariants are each a case distinction over these four, not over the fourteen actions. For
`FlagTellsPassword`, `Rewritten` and `Created` also say what becomes of `secret`: a request that sets a
password carries the flag that goes with it, one that does not writes neither, and where the request
found nothing to change in the flag, somebody else's change of it is what `crossed` means.

`AdministratorsDecide` is about stale writes: a login, an unlock or a password change that had loaded the
row before an administrator demoted or disabled the account writes only columns that differ from *what it
loaded* (`SameStanding`), so the decision stands. The theorem does not say that the deciding administrator
still is one when the form is committed; that it need not be is `raced` in `AdminRemains`.

### InvoicePagesProofs

Assumed: `InvoicesAreFinite`, `InvoicesHaveHomes`, `PageLimits` (a positive least page size, not above the
largest), `PageBounds`, `NoneIsNoInvoice`. Invoices, companies, page sizes, keys and commits are arbitrary.

| theorem | says |
|---|---|
| `PagesTyped` | `TypeOK`; no page has more than `page_size` rows, whatever was committed since the count |
| `PagesShowWhatIsGranted` | `ShownIsGranted` |
| `LeafingMissesNothing` | `MissIsExplained` |

`ShownIsGranted` is not inductive: a handler keeps scopes it has read, and the list of companies on the
dashboard, and uses them later. `ScopeInv` says of each that it gives nothing that was not the user's
during this request; a revocation leaves it true, since `allowed` only grows.

`MissIsExplained` is about several requests. `PagesInv == TypeOK /\ ScriptInv /\ LeafInv`: `ScriptInv` says
what the statements left tell about those executed (the count comes before the rows). `LeafInv` says: when
the rows of page k have been read, an invoice that matched from the start and has fewer than k * page_size
matching invoices before it has been seen, as long as nothing moved. On page k + 1 there are two cases
(`RowsLeaf`). If the invoice is on the page, it is seen. If it is before the page, no invoice that was there
then has passed it since, so fewer than k * page_size were before it then, and it was seen on an earlier
page. After the last page this covers every invoice, since `TotalPages` times `page_size` is not below the
count.

### MonthlyRunProofs

Assumed: `MailBounds` (limits that are numbers, an hour of at least one tick), `BudgetIsNat`,
`NoneIsNoCustomer`, `RunBounds`. Customers, commands, passes and exceptions are arbitrary.

| theorem | says |
|---|---|
| `MonthTypeCorrect` | `TypeOK` |
| `BudgetIsKept` | `BudgetHolds` |
| `HourlyLimitIsKept` | `HourlyLimit` |
| `ExitCodeIsComplete` | `ExitCodeCoversListed` |
| `LimitIsUsed` | the converse of `HourlyLimit`: with a limit above zero, the limiter drops a mail exactly if the last `Limit` mails reported as sent were all sent within the last hour |
| `PassIsFinite` | for finitely many customers, `PassLeft` bounds the steps a pass has left, and each of its steps lowers it (the only theorem with a hypothesis of its own: the registry is a table) |

`MonthInv == MailInv /\ BudgetInv /\ PassTypeOK /\ PassInv`. `HourlyLimit` speaks of reported mails the window has
already forgotten, so it needs `Fits(log, sent)`: the log is the end of `sent`, and whatever is in
front of it is more than an hour old. The loop of `_within_rate_limit` stops at the first entry that is
not old; that this drops *all* old ones is `Splits`: at whatever time the past is cut, the log is cut in
one place. (Stated of every time at once, it survives an append and a drop without an induction over the
log.) `PassInv` says that while a pass goes on, the result list has an entry for exactly the listed
customers the loop is done with; from that the exit code follows at the end.

`LimitIsUsed` needs both directions of the loop's cut: all that is dropped is old (`PrunedIs`), and nothing
that is kept is (`PrunedIsRecent`). `PassLeft` adds up what each step uses up: a stage of the loop, a call
out of the vision budget, the opening of a question, the one prompt of a fetch. A selector missed again and
again is paid for by the budget, which no fetch refills; that the budget is one for the whole process
(against its documentation) is what bounds the pass rather than the fetch.

### ParseResponseProofs

Assumed: `SectionsAreDistinct`, `RowBounds`. The length of the answer, the invoices, the header-only
sections, their order and the number of passes are arbitrary.

| theorem | says |
|---|---|
| `ParseTypeCorrect` | `TypeOK` |
| `ItemsAreComplete` | `ItemsAreItsRows` |
| `HeaderComesFirst` | `HeaderIsFirstRow` |
| `NoInvoiceIsLost` | `NothingLost` |
| `ParsedIsRight` | `ParsedIsAnswer`, the three above together |
| `PassesAgreeAlways` | `PassesAgree` |

`ParseInv` says of every pass, relative to the rows it has read so far (`Read`), why it has each header
(`Headed`) and which items each invoice has (`Listed`). That the items are *exactly* the rows of the
invoice, in their order, would be an induction over the answer; `Rank(i, r)`, the number of rows of
invoice i up to row r, takes its place: the item of row r is at place `Rank(i, r)`, a row adds one to the
rank of its own invoice and leaves the others (`RankNext`), and the rank grows from row to row
(`RankGrows`). Two passes that have read everything then have the same items because each place is
determined by the rows alone (`ListedOnce`).

### WarehouseSyncProofs

Assumed: `InvoicesHaveParties`, `InvoicesAreFinite` (a count of them exists), `SyncBounds`, `NoneIsNobody`,
`RegisteredAreKnown`. Syncers, companies, invoices, versions, runs, failures and crashes are arbitrary, and
so is the circle of waiting transactions that Postgres breaks.

| theorem | says |
|---|---|
| `SyncTypeCorrect` | `TypeOK` |
| `SameCompanyWaits` | `SameCompanyIsSerial` |
| `StoredWasArchived` | `StoredIsArchived` |
| `ItemsAreUnmixed` | `ItemsOfOneAnswer` |
| `SuccessWasArchived` | `SuccessIsArchived` |
| `NightlyKeepsSynced` | `NightlyCoversSynced` |
| `ExitCodesAreHonest` | `ExitCodeIsHonest` |
| `OnlyOverlapsTakeBack` | `OnlyOverlapTakesBack`, an action property |
| `SyncImplementsLedger` | `ImplementsLedger`: the refinement of `SyncLedger` |
| `LocksAreOfAnswer` | a transaction at its upserts holds exactly the rows of its own company and of the parties of its answer; no syncer waits for itself |
| `SyncersAreNotStuck` | of the syncers of any finite set that wait for nobody outside it, one can go on or be aborted in a circle; a circle is of several syncers of different companies |
| `SyncComesNearer` | what remains to a syncer goes down, in a well-founded order, with every step of its own, and stays with the others' |

`SyncInv == TypeInv /\ LockInv /\ RunInv /\ ArchiveInv /\ VersionInv /\ NightlyInv /\ CodeInv`. None of the
properties is inductive alone, since each is about committed rows and a process acts on what it had read
before. `TypeInv` says which local variables fit a statement (only a process at work has a run). `LockInv`
says that from its first upsert on a process holds the row of its own company; two processes inside for
one company would hold the same row. `RunInv` says that a process at work has a pending row that nobody
else has: with it a settled row never changes again, on which `ArchiveInv`, `NightlyInv` and `CodeInv` rest
(an exit code is about rows read long before), and no two processes write one raw answer. `VersionInv`
relates an answer in hand to what is stored *now*: nothing stored is newer than the bureau has it, and
what was stored by a run known when the call was answered is no newer than the answer. `CodeInv` follows
the exit code from the plan: what the process was asked is what it is done with and what its plan still
holds.

The "...Effect" lemmas say once, for every action, what it does to each field; the invariants and the
refinement are proved from those effects. For the refinement, `Stages` and `Subjects` are the values that
stand for the abstract variables: opening is the abstract opening; the commit is `Apply`; the handler of a
refusal is `Fail`; whatever ends a process at work (a crash, a transport error, a broken deadlock) is
`Lose`, since its pending row then has no owner and never gets one; every other step changes nothing.

The last theorems are what `SyncEnds` rests on (that the order of what remains is well-founded is the lemma
`LessIsFounded`). `ClaimInv` says of a transaction that the parties of its
answer are the rows it has locked, the one it asks for, and those still to ask for, never two of these. If
nobody of a finite set can go on, each waits for another one; a *least* set that these waits do not leave
is a circle (`ClosedHasCircle`), which Postgres breaks. Two syncers of one company never meet in a circle:
the first lock of each is the row they share, and who waits for it holds nothing. What remains to a syncer
is ordered lexicographically: the length of its plan, the stage of the current company, then the rows to
lock or the invoices to upsert. That the answer is finite, without which it would not end, is part of
`ClaimInv`, from `InvoicesAreFinite`.

Writing these proofs showed that `UNION {...} \ {...}` is read as the union of a difference by one tool and
as the difference of a union by another; `Receive` and the operators derived from it now say which.

### What is model-checked only

* Liveness (`SessionIsReleased`, `RunEnds`, `SyncEnds`, `PassEnds`): under fairness, which the prover
  does not reason about (ENABLED). What of it needs no fairness is proved: every step of a process lessens
  what it has left (`WorkIsBounded`, `SyncComesNearer` with `LessIsFounded`, `PassIsFinite`), and syncers
  that wait for each other are not stuck (`SyncersAreNotStuck`). What TLC adds is that a process which can
  go on does.

Every invariant, action property and refinement of a passing run is proved.

## 8. Not modelled, and what is left

Not modelled, with the reason in `PROJECT.json`: the metrics (they read only), the parser
of downloaded files (a best-effort function of one file that nothing depends on), configuration, schema
and migrations (their limits and keys are constants and guards of the models), tracing and logs,
prompts, signatures and schemas, the operator tools, the deployment. Within modelled parts: the fields
of an invoice and of a row (a version number, or a place in the sort order, stands for them), the choice
between selectors, the sums and charts of the dashboard (what they are taken over is modelled), the
filters of the list, the per-process rate window of the login (it refuses a request before anything is
read, and two processes or a restart each have their own), CSRF tokens.

Some hazards have no property, because the code has no mechanism against them: the vision budget that
fetches share, the count label read as 0, mails that leave without being recorded or from another process,
and rows with equal sort keys that change places between two pages (`moved`). Two properties excuse an
overlap by name and thereby show that there is no other: two administrators who remove each other
(`raced`), and two changes of one password (`crossed`).

Next: models for the parts of the list's filters and of the dashboard's figures that a property could be
about, and the parser of downloaded files, should something come to depend on it.
