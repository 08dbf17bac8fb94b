------------------------------ MODULE FetchRun ------------------------------
(***************************************************************************)
(* tax_auto's worker processes and the state they share.                   *)
(*                                                                         *)
(* A worker is one process: `tax-auto fetch run`, `fetch list` (a dry      *)
(* run), one customer of `tax-auto run`, or `tax-auto login`.  It executes *)
(* run_fetch (core/worker.py) inside open_session (core/session.py), or    *)
(* login_interactive.  Workers share the flock of each tenant, the SQLite  *)
(* tables runs, sessions and audit_log, the tenant's Chrome profile, the   *)
(* archive directory, and the export list the tax bureau keeps.            *)
(*                                                                         *)
(* One action is one database transaction, one flock call or one           *)
(* interaction with the browser: between any two of them another worker    *)
(* may run and the process may be killed (Kill), and a transaction may     *)
(* fail ("database is locked", a full disk), which raises in the worker.   *)
(***************************************************************************)
EXTENDS StateMachine, Naturals

CONSTANTS
  Worker, Tenant, RunId,
  None,          \* no worker, tenant or run
  DryRun,        \* values of run_fetch's dry_run in use: a subset of BOOLEAN
  MaxCount,      \* bound: invoices a query or a ZIP may hold
  MaxKills,      \* bound: processes killed in one behaviour
  MaxDbFaults    \* bound: transactions that fail in one behaviour

ASSUME NoneIsFresh == None \notin Worker \cup Tenant \cup RunId
ASSUME BoundsAreNat == MaxCount \in Nat /\ MaxKills \in Nat /\ MaxDbFaults \in Nat
ASSUME DryRunIsBoolean == DryRun \subseteq BOOLEAN

VARIABLES
  pc,        \* pc[p]: what worker p does next
  job,       \* job[p]: the local variables of run_fetch in worker p
  lock,      \* lock[t]: the worker that holds the flock on session/<t>/.lock
  chrome,    \* chrome[t]: the worker whose Chrome has t's profile open
  sessions,  \* sessions[t]: status column of t's row in sessions
  runs,      \* runs[r]: the row of run r in runs
  audit,     \* audit[r]: the actions recorded in audit_log for run r
  summary,   \* summary[r]: what run_fetch returned to its caller for run r
  exports,   \* exports[r]: the export task run r submitted at the tax bureau
  manifest,  \* manifest[t]: _manifest.json of the month directory of t
  kills, dbFaults

ledger == <<runs, audit, summary>>
portal == <<exports, manifest>>
budget == <<kills, dbFaults>>
vars == <<pc, job, lock, chrome, sessions, ledger, portal, budget>>

Count == 0 .. MaxCount

\* Error classes a run's row can carry.
ErrorClass == {"SessionLocked", "SessionExpired", "FaceVerifyRequired",
               "SelectorMissError", "ExportTimeout", "DataIntegrityError",
               "Unexpected"}

\* The pc values between taking the flock and releasing it ...
Driving == {"launching", "saving", "acting", "expiring", "asking",
            "prompting", "waiting", "closing"}
Holding == {"marking", "releasing", "unlocking"} \cup Driving
\* ... and those with the profile open in Chrome.
Browsing == (Driving \ {"launching"}) \cup {"login", "closing_login"}

Pc == {"idle", "created", "locking", "ending", "auditing", "failing"}
        \cup Holding \cup Browsing

Job == [run : RunId \cup {None}, tenant : Tenant \cup {None}, dry : BOOLEAN,
        state : RunState, step : 0 .. 7, expected : Count,
        link : RunId \cup {None}, error : ErrorClass \cup {"none"}]

Row == [tenant : Tenant \cup {None}, state : RunState \cup {"absent"},
        last : 0 .. 7, error : ErrorClass \cup {"none"}, ended : BOOLEAN]

Summary == [state : TerminalRunStates \cup {"none"}, expected : Count, actual : Count]

Manifest == [run : RunId \cup {None}, export : RunId \cup {None}, count : Count]

TypeOK ==
  /\ pc       \in [Worker -> Pc]
  /\ job      \in [Worker -> Job]
  /\ lock     \in [Tenant -> Worker \cup {None}]
  /\ chrome   \in [Tenant -> Worker \cup {None}]
  /\ sessions \in [Tenant -> SessionState \cup {"absent"}]
  /\ runs     \in [RunId -> Row]
  /\ audit    \in [RunId -> SUBSET {"RUN_START", "FACE_VERIFY_PROMPT", "RUN_END"}]
  /\ summary  \in [RunId -> Summary]
  /\ exports  \in [RunId -> {"none", "building", "ready"}]
  /\ manifest \in [Tenant -> Manifest]
  /\ kills    \in 0 .. MaxKills
  /\ dbFaults \in 0 .. MaxDbFaults

NoJob == [run |-> None, tenant |-> None, dry |-> FALSE, state |-> "PENDING",
          step |-> 0, expected |-> 0, link |-> None, error |-> "none"]
NoRow == [tenant |-> None, state |-> "absent", last |-> 0, error |-> "none",
          ended |-> FALSE]

Init ==
  /\ pc       = [p \in Worker |-> "idle"]
  /\ job      = [p \in Worker |-> NoJob]
  /\ lock     = [t \in Tenant |-> None]
  /\ chrome   = [t \in Tenant |-> None]
  /\ sessions = [t \in Tenant |-> "absent"]
  /\ runs     = [r \in RunId |-> NoRow]
  /\ audit    = [r \in RunId |-> {}]
  /\ summary  = [r \in RunId |-> [state |-> "none", expected |-> 0, actual |-> 0]]
  /\ exports  = [r \in RunId |-> "none"]
  /\ manifest = [t \in Tenant |-> [run |-> None, export |-> None, count |-> 0]]
  /\ kills    = 0
  /\ dbFaults = 0

-----------------------------------------------------------------------------
(***************************************************************************)
(* Building blocks.                                                        *)
(***************************************************************************)

Goto(p, l) == pc' = [pc EXCEPT ![p] = l]

\* An exception of class e leaves the statement worker p executes; the
\* innermost enclosing handler or finally clause is at label l.
Raise(p, e, l) == Goto(p, l) /\ job' = [job EXCEPT ![p].error = e]

\* The transaction commits, or it fails and raises.
Commits == UNCHANGED dbFaults
Fails   == dbFaults < MaxDbFaults /\ dbFaults' = dbFaults + 1

\* The worker is through: run_fetch returned, or an exception escaped it, and
\* its local variables are gone.
Exit(p) == Goto(p, "idle") /\ job' = [job EXCEPT ![p] = NoJob]

\* _mark_status: a status is only written when the tenant has a row.
MarkStatus(t, status) ==
  sessions' = [sessions EXCEPT ![t] = IF @ = "absent" THEN @ ELSE status]

\* Plausible bug: the step counter runs past the last step.
AdvancePastEnd(p, s) ==
  /\ job' = [job EXCEPT ![p] = [@ EXCEPT !.state = s, !.step = @ + 1]]
  /\ Goto(p, IF s = "DONE" THEN "closing" ELSE "saving")

\* The step at job[p].step returned StepResult(next_state |-> s): the loop of
\* run_fetch goes on with the next step, or breaks at DONE.
Advance(p, s) ==
  /\ LET n == IF s = "DONE" THEN job[p].step ELSE job[p].step + 1
     IN  job' = [job EXCEPT ![p] = [@ EXCEPT !.state = s, !.step = n]]
  /\ Goto(p, IF s = "DONE" THEN "closing" ELSE "saving")

-----------------------------------------------------------------------------
(***************************************************************************)
(* run_fetch: before and while the tenant's session is taken.              *)
(***************************************************************************)

\* Plausible bug: a row that is not terminal is taken for a run to resume.
CreateRunReusing(p) ==
  /\ pc[p] = "idle"
  /\ \E r \in RunId, t \in Tenant, d \in DryRun :
       /\ runs[r].state \notin TerminalRunStates
       /\ runs'  = [runs EXCEPT ![r] = [@ EXCEPT !.tenant = t, !.state = "PENDING"]]
       /\ audit' = [audit EXCEPT ![r] = {"RUN_START"}]
       /\ job'   = [job EXCEPT ![p] = [NoJob EXCEPT !.run = r, !.tenant = t, !.dry = d]]
  /\ Goto(p, "created")
  /\ UNCHANGED <<lock, chrome, sessions, summary, portal, budget>>

\* _create_run: the PENDING row and the RUN_START record in one transaction.
\* (When it fails nothing has been written and the process ends.)
CreateRun(p) ==
  /\ pc[p] = "idle"
  /\ \E r \in RunId, t \in Tenant, d \in DryRun :
       /\ runs[r].state = "absent"
       /\ runs'  = [runs EXCEPT ![r] = [@ EXCEPT !.tenant = t, !.state = "PENDING"]]
       /\ audit' = [audit EXCEPT ![r] = {"RUN_START"}]
       /\ job'   = [job EXCEPT ![p] = [NoJob EXCEPT !.run = r, !.tenant = t, !.dry = d]]
  /\ Goto(p, "created")
  /\ UNCHANGED <<lock, chrome, sessions, summary, portal, budget>>

\* state = AUTHENTICATING is saved before the try block: a failure escapes.
Authenticate(p) ==
  /\ pc[p] = "created"
  /\ \/ /\ Commits
        /\ runs' = [runs EXCEPT ![job[p].run].state = "AUTHENTICATING"]
        /\ job'  = [job EXCEPT ![p] = [@ EXCEPT !.state = "AUTHENTICATING"]]
        /\ Goto(p, "locking")
     \/ Fails /\ Exit(p) /\ UNCHANGED runs
  /\ UNCHANGED <<lock, chrome, sessions, audit, summary, portal, kills>>

\* Plausible bug: a shared lock, which another holder does not exclude.
GrantedShared(t) == TRUE

\* LOCK_EX | LOCK_NB is granted when nobody holds the flock.
Granted(t) == lock[t] = None

\* Plausible bug: the flock is taken inside the inner try, so that the loser
\* runs the `except Exception` clause too.
FlockInsideTry(p) ==
  /\ pc[p] = "locking"
  /\ \/ /\ Granted(job[p].tenant)
        /\ lock' = [lock EXCEPT ![job[p].tenant] = p]
        /\ Goto(p, "marking")
        /\ UNCHANGED job
     \/ /\ ~Granted(job[p].tenant)
        /\ Raise(p, "SessionLocked", "releasing")
        /\ UNCHANGED lock
     \/ Raise(p, "Unexpected", "failing") /\ UNCHANGED lock
  /\ UNCHANGED <<chrome, sessions, ledger, portal, budget>>

\* open_session's flock: granted, or SessionLocked at once; or an OSError on
\* the way there (the directory or lock file cannot be made or opened, flock
\* fails otherwise) or out of the refusal, without the lock.
Flock(p) ==
  /\ pc[p] = "locking"
  /\ \/ /\ Granted(job[p].tenant)
        /\ lock' = [lock EXCEPT ![job[p].tenant] = p]
        /\ Goto(p, "marking")
        /\ UNCHANGED job
     \/ /\ ~Granted(job[p].tenant)
        /\ Raise(p, "SessionLocked", "failing")
        /\ UNCHANGED lock
     \/ Raise(p, "Unexpected", "failing") /\ UNCHANGED lock
  /\ UNCHANGED <<chrome, sessions, ledger, portal, budget>>

\* Plausible bug: no finally clause covers the first status write.
MarkLockedLeaks(p) ==
  /\ pc[p] = "marking"
  /\ \/ Commits /\ MarkStatus(job[p].tenant, "LOCKED") /\ Goto(p, "launching") /\ UNCHANGED job
     \/ Fails /\ Raise(p, "Unexpected", "failing") /\ UNCHANGED sessions
  /\ UNCHANGED <<lock, chrome, ledger, portal, kills>>

\* _mark_status(LOCKED), outside open_session's inner try.
MarkLocked(p) ==
  /\ pc[p] = "marking"
  /\ \/ Commits /\ MarkStatus(job[p].tenant, "LOCKED") /\ Goto(p, "launching") /\ UNCHANGED job
     \/ Fails /\ Raise(p, "Unexpected", "unlocking") /\ UNCHANGED sessions
  /\ UNCHANGED <<lock, chrome, ledger, portal, kills>>

\* launch_persistent_context.  Chrome refuses a profile that another Chrome
\* has open; a launch may also fail for reasons of its own.
Launch(p) ==
  /\ pc[p] = "launching"
  /\ \/ /\ chrome[job[p].tenant] = None
        /\ chrome' = [chrome EXCEPT ![job[p].tenant] = p]
        /\ job'    = [job EXCEPT ![p].step = 1]
        /\ Goto(p, "saving")
     \/ Raise(p, "Unexpected", "releasing") /\ UNCHANGED chrome
  /\ UNCHANGED <<lock, sessions, ledger, portal, budget>>

-----------------------------------------------------------------------------
(***************************************************************************)
(* The seven steps.  Each is preceded by _persist_run(state, last_step).   *)
(***************************************************************************)

SaveStep(p) ==
  /\ pc[p] = "saving"
  /\ \/ /\ Commits
        /\ runs' = [runs EXCEPT ![job[p].run] =
                     [@ EXCEPT !.state = job[p].state, !.last = job[p].step]]
        /\ Goto(p, "acting")
        /\ UNCHANGED job
     \/ Fails /\ Raise(p, "Unexpected", "closing") /\ UNCHANGED runs
  /\ UNCHANGED <<lock, chrome, sessions, audit, summary, portal, kills>>

AtStep(p, n) == pc[p] = "acting" /\ job[p].step = n

\* step_1: the session is alive, or the page was redirected to the login host.
LoginCheck(p) ==
  /\ AtStep(p, 1)
  /\ \/ Advance(p, "NAVIGATING")
     \/ Goto(p, "expiring") /\ UNCHANGED job
  /\ UNCHANGED <<lock, chrome, sessions, ledger, portal, budget>>

\* assert_session_alive marks the row EXPIRED and raises SessionExpired.
MarkExpired(p) ==
  /\ pc[p] = "expiring"
  /\ \/ Commits /\ MarkStatus(job[p].tenant, "EXPIRED") /\ Raise(p, "SessionExpired", "closing")
     \/ Fails /\ Raise(p, "Unexpected", "closing") /\ UNCHANGED sessions
  /\ UNCHANGED <<lock, chrome, ledger, portal, kills>>

\* Plausible bug: step_2 names the state after next.
NavigateTooFar(p) ==
  /\ AtStep(p, 2)
  /\ Advance(p, "DOWNLOADING")
  /\ UNCHANGED <<lock, chrome, sessions, ledger, portal, budget>>

Navigate(p) ==
  /\ AtStep(p, 2)
  /\ Advance(p, "QUERYING")
  /\ UNCHANGED <<lock, chrome, sessions, ledger, portal, budget>>

\* step_3: an empty result ends the run; otherwise the count label is read, 0
\* standing for a label that is missing or does not parse.
FillQuery(p) ==
  /\ AtStep(p, 3)
  /\ \/ Advance(p, "DONE")
     \/ \E n \in Count :
          /\ job' = [job EXCEPT ![p] =
                       [@ EXCEPT !.state = "DOWNLOADING", !.step = 4, !.expected = n]]
          /\ Goto(p, "saving")
  /\ UNCHANGED <<lock, chrome, sessions, ledger, portal, budget>>

\* step_4: a dry run stops here; otherwise the export task is submitted, and
\* the step still fails when the confirming toast is not seen.
SelectAndExport(p) ==
  /\ AtStep(p, 4)
  /\ \/ /\ job[p].dry
        /\ Advance(p, "DONE")
        /\ UNCHANGED exports
     \/ /\ ~job[p].dry
        /\ exports' = [exports EXCEPT ![job[p].run] = "building"]
        /\ Advance(p, "POLLING") \/ Raise(p, "SelectorMissError", "closing")
  /\ UNCHANGED <<lock, chrome, sessions, ledger, manifest, budget>>

\* step_5: FaceVerifyRequired is caught by the loop of run_fetch itself.
FaceVerify(p) ==
  /\ AtStep(p, 5)
  /\ \/ Advance(p, "POLLING")
     \/ Goto(p, "asking") /\ UNCHANGED job
  /\ UNCHANGED <<lock, chrome, sessions, ledger, portal, budget>>

NeedsHuman(p) ==
  /\ pc[p] = "asking"
  /\ \/ /\ Commits
        /\ runs' = [runs EXCEPT ![job[p].run] =
                     [@ EXCEPT !.state = "NEEDS_HUMAN", !.error = "FaceVerifyRequired"]]
        /\ Goto(p, "prompting")
        /\ UNCHANGED job
     \/ Fails /\ Raise(p, "Unexpected", "closing") /\ UNCHANGED runs
  /\ UNCHANGED <<lock, chrome, sessions, audit, summary, portal, kills>>

\* The audit record, then the e-mail, whose failures are swallowed.
PromptHuman(p) ==
  /\ pc[p] = "prompting"
  /\ \/ /\ Commits
        /\ audit' = [audit EXCEPT ![job[p].run] = @ \cup {"FACE_VERIFY_PROMPT"}]
        /\ Goto(p, "waiting")
        /\ UNCHANGED job
     \/ Fails /\ Raise(p, "Unexpected", "closing") /\ UNCHANGED audit
  /\ UNCHANGED <<lock, chrome, sessions, runs, summary, portal, kills>>

\* _wait_for_face_verify_to_clear, then step_5 once more: cleared for good, or
\* the wait timed out or the modal is back, which is not caught again (nor is
\* a page that died meanwhile).
WaitForHuman(p) ==
  /\ pc[p] = "waiting"
  /\ \/ Advance(p, "POLLING")
     \/ \E e \in {"FaceVerifyRequired", "Unexpected"} : Raise(p, e, "closing")
  /\ UNCHANGED <<lock, chrome, sessions, ledger, portal, budget>>

\* Plausible bug: step 7 is not saved before it is executed.
PollExportUnsaved(p) ==
  /\ AtStep(p, 6)
  /\ \E r \in RunId :
       /\ exports[r] = "ready"
       /\ runs[r].tenant = job[p].tenant
       /\ job' = [job EXCEPT ![p] = [@ EXCEPT !.state = "ARCHIVING", !.step = 7, !.link = r]]
  /\ Goto(p, "acting")
  /\ UNCHANGED <<lock, chrome, sessions, ledger, portal, budget>>

\* step_6: any export task of the tenant that the page shows as done will do.
PollExport(p) ==
  /\ AtStep(p, 6)
  /\ \E r \in RunId :
       /\ exports[r] = "ready"
       /\ runs[r].tenant = job[p].tenant
       /\ job' = [job EXCEPT ![p] = [@ EXCEPT !.state = "ARCHIVING", !.step = 7, !.link = r]]
  /\ Goto(p, "saving")
  /\ UNCHANGED <<lock, chrome, sessions, ledger, portal, budget>>

\* Plausible bug: missing files are not noticed, only surplus ones.
CompleteAtMost(expected, actual) == expected = 0 \/ actual <= expected

\* The integrity check of step_7: an expected count of 0 is not compared.
Complete(expected, actual) == expected = 0 \/ actual = expected

\* step_7: the ZIP is extracted and the month's manifest rewritten before the
\* counts are compared.
Archive(p) ==
  /\ AtStep(p, 7)
  /\ \E n \in Count :
       /\ manifest' = [manifest EXCEPT ![job[p].tenant] =
                         [run |-> job[p].run, export |-> job[p].link, count |-> n]]
       /\ \/ /\ ~Complete(job[p].expected, n)
             /\ Raise(p, "DataIntegrityError", "closing")
             /\ UNCHANGED summary
          \/ /\ Complete(job[p].expected, n)
             /\ Advance(p, "DONE")
             /\ summary' = [summary EXCEPT ![job[p].run] =
                              [@ EXCEPT !.expected = job[p].expected, !.actual = n]]
  /\ UNCHANGED <<lock, chrome, sessions, runs, audit, exports, budget>>

\* Plausible bug: the deadline is only looked at once the export is done.
PollTimeoutWhenReady(p) ==
  /\ AtStep(p, 6)
  /\ exports[job[p].run] = "ready"
  /\ Raise(p, "ExportTimeout", "closing")
  /\ UNCHANGED <<lock, chrome, sessions, ledger, portal, budget>>

\* step_6: the deadline passes before an export is seen.
PollTimeout(p) ==
  /\ AtStep(p, 6)
  /\ Raise(p, "ExportTimeout", "closing")
  /\ UNCHANGED <<lock, chrome, sessions, ledger, portal, budget>>

\* Any step but 5 may raise: a selector is missed by the page object and by
\* the vision fallback, or Playwright or the file system fails.
StepRaises(p) ==
  /\ pc[p] = "acting"
  /\ job[p].step # 5
  /\ ~(job[p].step = 4 /\ job[p].dry)
  /\ \/ Raise(p, "Unexpected", "closing")
     \/ job[p].step \in {2, 3, 4, 6} /\ Raise(p, "SelectorMissError", "closing")
  /\ UNCHANGED <<lock, chrome, sessions, ledger, portal, budget>>

-----------------------------------------------------------------------------
(***************************************************************************)
(* run_fetch: giving the session back and ending the run.                  *)
(***************************************************************************)

\* Plausible bug: no finally clause, so that an exception leaves Chrome open.
CloseChromeOnSuccess(p) ==
  /\ pc[p] = "closing"
  /\ chrome' = IF job[p].error = "none" THEN [chrome EXCEPT ![job[p].tenant] = None] ELSE chrome
  /\ Goto(p, "releasing")
  /\ UNCHANGED <<job, lock, sessions, ledger, portal, budget>>

\* make_persistent_context's finally: ctx.close().  Closing may itself raise,
\* also during an exception, which it then replaces.
CloseChrome(p) ==
  /\ pc[p] = "closing"
  /\ chrome' = [chrome EXCEPT ![job[p].tenant] = None]
  /\ \/ Goto(p, "releasing") /\ UNCHANGED job
     \/ Raise(p, "Unexpected", "releasing")
  /\ UNCHANGED <<lock, sessions, ledger, portal, budget>>

\* Plausible bug: the row is only reset when the run went well.
MarkValidOnSuccess(p) ==
  /\ pc[p] = "releasing"
  /\ \/ Commits /\ job[p].error = "none" /\ MarkStatus(job[p].tenant, "VALID")
     \/ Commits /\ job[p].error # "none" /\ UNCHANGED sessions
  /\ Goto(p, "unlocking")
  /\ UNCHANGED <<job, lock, chrome, ledger, portal, kills>>

\* _mark_status(VALID), on success and in `except Exception` alike; a failure
\* of the first is caught by that handler, which tries again.
MarkValid(p) ==
  /\ pc[p] = "releasing"
  /\ \/ Commits /\ MarkStatus(job[p].tenant, "VALID") /\ Goto(p, "unlocking") /\ UNCHANGED job
     \/ /\ Fails
        /\ Raise(p, "Unexpected", IF job[p].error = "none" THEN "releasing" ELSE "unlocking")
        /\ UNCHANGED sessions
  /\ UNCHANGED <<lock, chrome, ledger, portal, kills>>

\* Plausible bug: an unlock that an exception skips.
UnlockOnSuccess(p) ==
  /\ pc[p] = "unlocking" /\ job[p].error = "none"
  /\ lock' = [lock EXCEPT ![job[p].tenant] = None]
  /\ Goto(p, "ending")
  /\ UNCHANGED <<job, chrome, sessions, ledger, portal, budget>>

\* The outer finally of open_session: flock(LOCK_UN), and should that raise,
\* closing the file drops the flock all the same.
Unlock(p) ==
  /\ pc[p] = "unlocking"
  /\ lock' = [lock EXCEPT ![job[p].tenant] = None]
  /\ \/ Goto(p, IF job[p].error = "none" THEN "ending" ELSE "failing") /\ UNCHANGED job
     \/ Raise(p, "Unexpected", "failing")
  /\ UNCHANGED <<chrome, sessions, ledger, portal, budget>>

\* _persist_run(state, ended=True) and then the RUN_END record are both inside
\* the try block: a failure of either makes the run FAILED.
EndRun(p) ==
  /\ pc[p] = "ending"
  /\ \/ /\ Commits
        /\ runs' = [runs EXCEPT ![job[p].run] =
                     [@ EXCEPT !.state = job[p].state, !.ended = TRUE]]
        /\ Goto(p, "auditing")
        /\ UNCHANGED job
     \/ Fails /\ Raise(p, "Unexpected", "failing") /\ UNCHANGED runs
  /\ UNCHANGED <<lock, chrome, sessions, audit, summary, portal, kills>>

AuditEnd(p) ==
  /\ pc[p] = "auditing"
  /\ \/ /\ Commits
        /\ audit'   = [audit EXCEPT ![job[p].run] = @ \cup {"RUN_END"}]
        /\ summary' = [summary EXCEPT ![job[p].run].state = job[p].state]
        /\ Exit(p)
     \/ Fails /\ Raise(p, "Unexpected", "failing") /\ UNCHANGED <<audit, summary>>
  /\ UNCHANGED <<lock, chrome, sessions, runs, portal, kills>>

\* Plausible bug: the except clauses do not set ended_at.
FailRunNotEnded(p) ==
  /\ pc[p] = "failing"
  /\ \/ /\ Commits
        /\ runs' = [runs EXCEPT ![job[p].run] = [@ EXCEPT !.state = "FAILED", !.error = job[p].error]]
        /\ summary' = [summary EXCEPT ![job[p].run].state = "FAILED"]
     \/ Fails /\ UNCHANGED <<runs, summary>>
  /\ Exit(p)
  /\ UNCHANGED <<lock, chrome, sessions, audit, portal, kills>>

\* The except clauses: FAILED with the error class; a failure here escapes.
FailRun(p) ==
  /\ pc[p] = "failing"
  /\ \/ /\ Commits
        /\ runs' = [runs EXCEPT ![job[p].run] =
                     [@ EXCEPT !.state = "FAILED", !.error = job[p].error, !.ended = TRUE]]
        /\ summary' = [summary EXCEPT ![job[p].run].state = "FAILED"]
     \/ Fails /\ UNCHANGED <<runs, summary>>
  /\ Exit(p)
  /\ UNCHANGED <<lock, chrome, sessions, audit, portal, kills>>

-----------------------------------------------------------------------------
(***************************************************************************)
(* login_interactive: no flock is taken.                                   *)
(***************************************************************************)

OpenLogin(p) ==
  /\ pc[p] = "idle"
  /\ \E t \in Tenant :
       /\ chrome[t] = None
       /\ chrome' = [chrome EXCEPT ![t] = p]
       /\ job'    = [job EXCEPT ![p] = [@ EXCEPT !.tenant = t]]
  /\ Goto(p, "login")
  /\ UNCHANGED <<lock, sessions, ledger, portal, budget>>

\* The human logs in and the row is upserted as FRESH; or the wait times out,
\* or the upsert fails, and nothing is written.
FinishLogin(p) ==
  /\ pc[p] = "login"
  /\ \/ Commits /\ sessions' = [sessions EXCEPT ![job[p].tenant] = "FRESH"]
     \/ Commits /\ UNCHANGED sessions
     \/ Fails /\ UNCHANGED sessions
  /\ Goto(p, "closing_login")
  /\ UNCHANGED <<job, lock, chrome, ledger, portal, kills>>

CloseLogin(p) ==
  /\ pc[p] = "closing_login"
  /\ chrome' = [chrome EXCEPT ![job[p].tenant] = None]
  /\ Exit(p)
  /\ UNCHANGED <<lock, sessions, ledger, portal, budget>>

-----------------------------------------------------------------------------
(***************************************************************************)
(* The environment.                                                        *)
(***************************************************************************)

\* SIGKILL, Ctrl-C (a BaseException no handler of the worker catches) or a
\* power cut: the system drops the flock and Chrome goes down; rows stay.
Kill(p) ==
  /\ pc[p] # "idle"
  /\ kills < MaxKills
  /\ kills'  = kills + 1
  /\ lock'   = [t \in Tenant |-> IF lock[t] = p THEN None ELSE lock[t]]
  /\ chrome' = [t \in Tenant |-> IF chrome[t] = p THEN None ELSE chrome[t]]
  /\ Exit(p)
  /\ UNCHANGED <<sessions, ledger, portal, dbFaults>>

\* The tax bureau finishes building an export.
BuildExport(r) ==
  /\ exports[r] = "building"
  /\ exports' = [exports EXCEPT ![r] = "ready"]
  /\ UNCHANGED <<pc, job, lock, chrome, sessions, ledger, manifest, budget>>

\* What a worker does once it has started, unless a step raises early.
Proceed(p) ==
  \/ Authenticate(p) \/ Flock(p) \/ MarkLocked(p) \/ Launch(p)
  \/ SaveStep(p) \/ LoginCheck(p) \/ MarkExpired(p) \/ Navigate(p) \/ FillQuery(p)
  \/ SelectAndExport(p) \/ FaceVerify(p) \/ NeedsHuman(p) \/ PromptHuman(p)
  \/ WaitForHuman(p) \/ PollExport(p) \/ PollTimeout(p) \/ Archive(p)
  \/ CloseChrome(p) \/ MarkValid(p) \/ Unlock(p)
  \/ EndRun(p) \/ AuditEnd(p) \/ FailRun(p)
  \/ FinishLogin(p) \/ CloseLogin(p)

Next ==
  \/ \E p \in Worker : CreateRun(p) \/ OpenLogin(p) \/ Proceed(p) \/ StepRaises(p) \/ Kill(p)
  \/ \E r \in RunId : BuildExport(r)

Spec == Init /\ [][Next]_vars

\* A worker's waits have a timeout (Playwright's own, the face scan's, the
\* export poll's, the login's), so a started worker goes on.  The one without,
\* save_as of the ZIP, is taken to end with the download.  Nothing is assumed
\* of people starting workers, of kills, or of the tax bureau's exports.
Fairness == \A p \in Worker : WF_vars(Proceed(p))
FairSpec == Spec /\ Fairness
-----------------------------------------------------------------------------
(***************************************************************************)
(* Safety.                                                                 *)
(***************************************************************************)

\* Two workers never hold the session of one tenant at the same time (ADR
\* 0005: one worker per tax_id), whatever fails and whoever is killed.
ExclusiveSession ==
  \A p, q \in Worker :
    p # q /\ pc[p] \in Holding /\ pc[q] \in Holding => job[p].tenant # job[q].tenant

\* A flock belongs to a worker that is between open_session's lock and unlock
\* for that very tenant: no exception path and no kill leaves it behind.
NoOrphanLock ==
  \A t \in Tenant :
    lock[t] # None => pc[lock[t]] \in Holding /\ job[lock[t]].tenant = t

\* While a worker drives a tenant's session nobody else releases the row: it
\* is not VALID, and EXPIRED only by that worker's own login check.  (Losers
\* of the flock leave before any of open_session's status writes.)
NoForeignRelease ==
  \A p \in Worker : pc[p] \in Driving =>
    /\ sessions[job[p].tenant] # "VALID"
    /\ sessions[job[p].tenant] = "EXPIRED" => job[p].error = "SessionExpired"

\* Unless a process was killed or a transaction failed, a row that says LOCKED
\* has a worker behind it: every way out of open_session resets it.
LockedRowIsHeld ==
  kills + dbFaults = 0 => \A t \in Tenant : sessions[t] = "LOCKED" => lock[t] # None

\* Although a login takes no flock, the profile is in order around a run: one
\* that is open has a live process behind it, whatever was raised or killed,
\* and a run that is about to launch finds it taken by a login at most, never
\* by another run (Chrome is closed before the flock is given back).
ProfileIsFree ==
  /\ \A t \in Tenant :
       chrome[t] # None => pc[chrome[t]] \in Browsing /\ job[chrome[t]].tenant = t
  /\ \A p \in Worker : pc[p] = "launching" =>
       LET q == chrome[job[p].tenant] IN q = None \/ pc[q] \in {"login", "closing_login"}

\* The archive of a tenant's month is only written by the run that holds the
\* tenant's session, that submitted an export, and whose row tells already
\* that it is archiving: the files of two runs are never mixed by overlapping,
\* and a process killed in the midst of it leaves a row that shows it.
ArchiveHasOneWriter ==
  [][\A t \in Tenant : manifest'[t] # manifest[t] =>
       \E p \in Worker :
         /\ lock[t] = p /\ manifest'[t].run = job[p].run
         /\ runs[job[p].run].state = "ARCHIVING" /\ runs[job[p].run].last = 7
         /\ exports[job[p].run] # "none"]_manifest

\* What run_fetch returned to the CLI or the scheduler is what the runs table
\* says, ended_at is set exactly on terminal rows, and a FAILED row names its
\* error.
ReportMatchesLedger ==
  \A r \in RunId :
    /\ summary[r].state # "none" => runs[r].state = summary[r].state
    /\ runs[r].ended <=> runs[r].state \in TerminalRunStates
    /\ runs[r].state = "FAILED" => runs[r].error # "none"

\* A DONE row is earned: the query was empty (step 3), the run was dry and
\* submitted nothing (step 4), or an export was submitted and the ZIP holds
\* the number of invoices the page announced (unless that count was not to be
\* read, which step 3 takes for 0), as the manifest says too while it is this
\* run's.
DoneIsEarned ==
  \A r \in RunId : runs[r].state = "DONE" =>
    \/ runs[r].last \in {3, 4} /\ exports[r] = "none"
    \/ /\ runs[r].last = 7 /\ exports[r] # "none"
       /\ summary[r].expected \in {0, summary[r].actual}
       /\ LET m == manifest[runs[r].tenant] IN m.run = r => m.count = summary[r].actual

\* The rows follow _RUN_TRANSITIONS: a row appears as PENDING and its state
\* then moves along the table, so a terminal row stays as it is.  Two moves are
\* outside it, and only these: a dry run, which submits nothing, ends in step 4
\* from DOWNLOADING; and a DONE row becomes FAILED when the RUN_END record that
\* follows its commit cannot be written.
RowsFollowTable ==
  [][\A r \in RunId : runs'[r].state # runs[r].state =>
       \/ runs[r].state = "absent" /\ runs'[r].state = "PENDING"
       \/ CanTransition(runs[r].state, runs'[r].state)
       \/ /\ runs[r].state = "DOWNLOADING" /\ runs'[r].state = "DONE"
          /\ runs[r].last = 4 /\ exports[r] = "none"
       \/ /\ runs[r].state = "DONE" /\ runs'[r].state = "FAILED"
          /\ dbFaults > 0 /\ summary[r].state = "none"]_runs

-----------------------------------------------------------------------------
(***************************************************************************)
(* The abstract lifecycle.                                                 *)
(***************************************************************************)

\* The worker that executes run r, if one does.
Owner(r) == {p \in Worker : job[p].run = r}

StageOf(r) ==
  IF runs[r].state = "absent" THEN "none"
  ELSE IF runs[r].state \in TerminalRunStates THEN runs[r].state
  ELSE IF Owner(r) = {} THEN "lost"
  ELSE LET p == CHOOSE q \in Worker : job[q].run = r
       IN  CASE pc[p] \in {"created", "locking"} -> "open"
             [] pc[p] \in Holding -> "inside"
             [] pc[p] = "failing" -> IF job[p].error = "SessionLocked" THEN "refused" ELSE "failing"
             [] OTHER -> "closing"

Lifecycle == INSTANCE RunLifecycle WITH
               stage <- [r \in RunId |-> StageOf(r)],
               site  <- [r \in RunId |-> runs[r].tenant]

\* The workers implement the lifecycle: no run enters an occupied session, a
\* run is refused only when the session is occupied, is DONE only after it
\* gave the session back without an error, ends once, and is never resumed
\* after its process is gone.
ImplementsLifecycle == Lifecycle!Spec

-----------------------------------------------------------------------------
(***************************************************************************)
(* Liveness.                                                               *)
(***************************************************************************)

\* Whoever holds a tenant's session gives it back.
SessionIsReleased ==
  \A t \in Tenant : \A p \in Worker : lock[t] = p ~> lock[t] # p

\* A run whose process is not killed and whose transactions commit reaches a
\* terminal row.
RunEnds ==
  \A r \in RunId :
    (runs[r].state # "absent") ~>
      (runs[r].state \in TerminalRunStates \/ kills + dbFaults > 0)

-----------------------------------------------------------------------------
(***************************************************************************)
(* What the repository says and the code does not do (each has a run that  *)
(* finds the counterexample).                                              *)
(***************************************************************************)

\* "EXPIRED: only via re-login" (state_machine.py): an EXPIRED row changes
\* only to FRESH.
ExpiredNeedsLogin ==
  [][\A t \in Tenant : sessions[t] = "EXPIRED" => sessions'[t] \in {"EXPIRED", "FRESH"}]_sessions

\* Step 6 polls for the task number of this run's own export (architecture.md).
ArchivesOwnExport ==
  \A p \in Worker : job[p].link \in {None, job[p].run}
=============================================================================
