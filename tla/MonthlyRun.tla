----------------------------- MODULE MonthlyRun -----------------------------
(***************************************************************************)
(* `tax-auto run --month` (scheduler/scheduler.py run_for_month): one      *)
(* process that fetches for the active customers one after the other and   *)
(* mails a summary.  Beside it people add and disable customers            *)
(* (storage/customers.py), log in, and fetch by hand.  A fetch is what     *)
(* FetchRun describes; here it opens a row of runs, may miss selectors and *)
(* prompt for a face scan, and ends.  The process keeps the mail window    *)
(* (MailWindow) and the vision budget (Escalation) in memory.              *)
(*                                                                         *)
(* _too_recent_failure and _session_warning_due read a row after its       *)
(* session_scope has committed (which expires the row's attributes) and    *)
(* closed: SQLAlchemy raises DetachedInstanceError as soon as there is a   *)
(* row to read.  What they would decide otherwise is never reached.        *)
(***************************************************************************)
EXTENDS Escalation, MailWindow

CONSTANTS
  None,        \* no customer
  MaxOps,      \* bound: commands people give in one behaviour
  MaxPasses,   \* bound: scheduled passes in one behaviour
  MaxEscapes   \* bound: database errors that leave run_for_month

ASSUME NoneIsNoCustomer == None \notin Customer
ASSUME RunBounds == MaxOps \in Nat /\ MaxPasses \in Nat /\ MaxEscapes \in Nat

VARIABLES
  pc,        \* what the scheduler process does next
  customers, \* customers[c]: c's row in the registry
  runs,      \* runs[c]: the newest row of c in runs
  loggedIn,  \* the customers with a row in sessions
  listed,    \* the customers of this pass
  todo,      \* those the loop has not reached
  cur,       \* the customer being fetched for
  prompted,  \* whether the current fetch has asked for a face scan
  results,   \* results[c]: c's entry in the result list
  outcome,   \* the exit code of the last pass, or "crash"
  ops, passes, escapes

registry == <<customers, runs, loggedIn>>
pass     == <<listed, todo, cur, prompted, results, outcome>>
bounds   == <<ops, passes, escapes>>
vars == <<pc, registry, pass, bounds, visionVars, mailVars>>

RunEnd == {"DONE", "FAILED"}

TypeOK ==
  /\ VisionTypeOK /\ MailTypeOK
  /\ pc \in {"off", "loop", "fetching", "reporting"}
  /\ customers \in [Customer -> {"unknown", "active", "disabled"}]
  /\ runs      \in [Customer -> {"none", "open"} \cup RunEnd]
  /\ loggedIn \subseteq Customer
  /\ listed \subseteq Customer /\ todo \subseteq listed
  /\ cur \in Customer \cup {None} /\ (cur # None <=> pc = "fetching")
  /\ prompted \in BOOLEAN
  /\ results \in [Customer -> {"none"} \cup RunEnd]
  /\ outcome \in {"none", "0", "1", "crash"}
  /\ ops \in 0 .. MaxOps /\ passes \in 0 .. MaxPasses /\ escapes \in 0 .. MaxEscapes

Init ==
  /\ pc = "off" /\ now = 0 /\ log = <<>> /\ sent = <<>>
  /\ calls = 0 /\ spent = [c \in Customer |-> 0] /\ tier = 0
  /\ customers \in [Customer -> {"unknown", "active"}]
  /\ runs = [c \in Customer |-> "none"] /\ loggedIn = {}
  /\ listed = {} /\ todo = {} /\ cur = None /\ prompted = FALSE
  /\ results = [c \in Customer |-> "none"] /\ outcome = "none"
  /\ ops = 0 /\ passes = 0 /\ escapes = 0

-----------------------------------------------------------------------------
(***************************************************************************)
(* The pass.                                                               *)
(***************************************************************************)

\* list_active_customers.
ListActive == {c \in Customer : customers[c] = "active"}

\* A new process: all active customers, or those of them that --tax-id names.
\* With nobody to fetch for it returns [] at once and mails nothing.
Start ==
  /\ pc = "off" /\ passes < MaxPasses
  /\ passes' = passes + 1
  /\ \E ids \in SUBSET Customer :
       listed' = IF ids = {} THEN ListActive ELSE ListActive \cap ids
  /\ todo' = listed'
  /\ results' = [c \in Customer |-> "none"]
  /\ cur' = None /\ prompted' = FALSE
  /\ IF listed' = {} THEN pc' = "off" /\ outcome' = "0" ELSE pc' = "loop" /\ outcome' = "none"
  /\ VisionStart /\ MailStart
  /\ UNCHANGED <<registry, ops, escapes, now>>

\* Plausible bug: the current customer outlives the pass.
CrashKeepsCustomer ==
  /\ pc' = "off" /\ outcome' = "crash"
  /\ UNCHANGED <<registry, listed, todo, cur, prompted, results, ops, passes,
                 visionVars, mailVars>>

\* An exception leaves run_for_month: the result list is gone with the
\* process, and no summary is mailed.
Crash ==
  /\ pc' = "off" /\ outcome' = "crash"
  /\ cur' = None /\ tier' = 0
  /\ UNCHANGED <<registry, listed, todo, prompted, results, ops, passes,
                 calls, spent, mailVars>>

\* Plausible bug: the exception is caught and the customer tried again.
CheckRaisesCaught(c) ==
  /\ pc = "loop" /\ c \in todo
  /\ runs[c] # "none" \/ c \in loggedIn
  /\ UNCHANGED vars

\* DetachedInstanceError out of _too_recent_failure or _session_warning_due.
CheckRaises(c) ==
  /\ pc = "loop" /\ c \in todo
  /\ runs[c] # "none" \/ c \in loggedIn
  /\ Crash /\ UNCHANGED escapes

\* Neither row exists: c is fetched for.
Fetch(c) ==
  /\ pc = "loop" /\ c \in todo
  /\ runs[c] = "none" /\ c \notin loggedIn
  /\ pc' = "fetching" /\ cur' = c /\ todo' = todo \ {c} /\ prompted' = FALSE
  /\ runs' = [runs EXCEPT ![c] = "open"]
  /\ UNCHANGED <<customers, loggedIn, listed, results, outcome, bounds, visionVars, mailVars>>

\* A step of the fetch finds none of its selectors on the page.
MissSelector ==
  /\ pc = "fetching" /\ Miss
  /\ UNCHANGED <<pc, registry, pass, bounds, mailVars>>

\* Plausible bug: a failed fetch is left out of the result list.
EndFetchDone(s) ==
  /\ pc' = "loop" /\ cur' = None
  /\ runs'    = [runs EXCEPT ![cur] = IF @ = "open" THEN s ELSE @]
  /\ results' = IF s = "DONE" THEN [results EXCEPT ![cur] = s] ELSE results
  /\ UNCHANGED <<customers, loggedIn, listed, todo, prompted, outcome, bounds, mailVars>>

\* run_fetch returns and its result is appended.  A fetch by hand that began
\* later has the newest row.
EndFetch(s) ==
  /\ pc' = "loop" /\ cur' = None
  /\ runs'    = [runs EXCEPT ![cur] = IF @ = "open" THEN s ELSE @]
  /\ results' = [results EXCEPT ![cur] = s]
  /\ UNCHANGED <<customers, loggedIn, listed, todo, prompted, outcome, bounds, mailVars>>

\* The vision fallback: with a locator the step goes on, without one
\* SelectorMissError ends the run.
Ask ==
  /\ pc = "fetching"
  /\ \/ Answer(cur, "missed") /\ EndFetch("FAILED")
     \/ \E v \in {"found", "escalate"} :
          Answer(cur, v) /\ UNCHANGED <<pc, registry, pass, bounds, mailVars>>

\* Step 5 meets the face scan; run_fetch prompts for it once.
Prompt ==
  /\ pc = "fetching" /\ tier = 0 /\ ~prompted
  /\ prompted' = TRUE
  /\ Send
  /\ UNCHANGED <<pc, registry, listed, todo, cur, results, outcome, bounds, visionVars>>

FetchEnds ==
  /\ pc = "fetching" /\ tier = 0
  /\ \E s \in RunEnd : EndFetch(s)
  /\ UNCHANGED visionVars

\* The database is locked: in the checks of a customer, in the insert of its
\* run, or in the except clause of run_fetch, which leaves the run open.
DatabaseRaises ==
  /\ \/ pc = "loop" /\ todo # {}
     \/ pc = "fetching" /\ tier = 0
  /\ escapes < MaxEscapes /\ escapes' = escapes + 1
  /\ Crash

EndLoop ==
  /\ pc = "loop" /\ todo = {}
  /\ pc' = "reporting"
  /\ UNCHANGED <<registry, pass, bounds, visionVars, mailVars>>

\* Some result is a failure.
Failed == \E c \in listed : results[c] = "FAILED"

\* _send_aggregate_summary, then run_cmd's exit code.
Report ==
  /\ pc = "reporting"
  /\ Send
  /\ pc' = "off"
  /\ outcome' = IF Failed THEN "1" ELSE "0"
  /\ UNCHANGED <<registry, listed, todo, cur, prompted, results, bounds, visionVars>>

-----------------------------------------------------------------------------
(***************************************************************************)
(* People, while a pass runs or not.                                       *)
(***************************************************************************)

Command ==
  /\ ops < MaxOps /\ ops' = ops + 1
  /\ UNCHANGED <<pc, pass, passes, escapes, visionVars, mailVars>>

\* add_customer: a row that exists becomes active again.
Add(c) ==
  /\ Command
  /\ customers' = [customers EXCEPT ![c] = "active"]
  /\ UNCHANGED <<runs, loggedIn>>

\* disable_customer; an unknown tax id is an error.
Disable(c) ==
  /\ Command
  /\ customers[c] # "unknown"
  /\ customers' = [customers EXCEPT ![c] = "disabled"]
  /\ UNCHANGED <<runs, loggedIn>>

\* A login that succeeds inserts the session row.
Login(c) ==
  /\ Command
  /\ loggedIn' = loggedIn \cup {c}
  /\ UNCHANGED <<customers, runs>>

\* `tax-auto fetch run`, seen from here: it leaves a newer row.  It takes any
\* tax id, registered or not.
FetchByHand(c) ==
  /\ Command
  /\ \E s \in RunEnd : runs' = [runs EXCEPT ![c] = s]
  /\ UNCHANGED <<customers, loggedIn>>

TimePasses == Tick /\ UNCHANGED <<pc, registry, pass, bounds, visionVars>>

Proceed ==
  \/ \E c \in Customer : CheckRaises(c) \/ Fetch(c)
  \/ Ask \/ FetchEnds \/ EndLoop \/ Report

Next ==
  \/ Start \/ Proceed \/ MissSelector \/ Prompt \/ DatabaseRaises \/ TimePasses
  \/ \E c \in Customer : Add(c) \/ Disable(c) \/ Login(c) \/ FetchByHand(c)

Spec == Init /\ [][Next]_vars

\* The loop does not wait for anybody: a fetch ends (RunEnds of FetchRun), the
\* model and SMTP answer or time out.
FairSpec == Spec /\ WF_vars(Proceed)

-----------------------------------------------------------------------------
(***************************************************************************)
(* Properties (those of the mails and of the calls are in their modules).   *)
(***************************************************************************)

\* A pass that ends with an exit code of its own has one result for each
\* customer it listed and for nobody else, and the code is 1 exactly if one of
\* the fetches failed, whatever people do to the registry meanwhile.
ExitCodeCoversListed ==
  outcome \in {"0", "1"} =>
    /\ \A c \in Customer : results[c] # "none" <=> c \in listed
    /\ outcome = "1" <=> \E c \in Customer : results[c] = "FAILED"

\* A pass ends: the loop only goes forward, and a fetch cannot go on missing
\* selectors and asking for ever, because the budget runs out.
PassEnds == pc # "off" ~> pc = "off"

\* "Returns a list of summary dicts, one per attempted customer. Customers in
\* cooldown after a recent failure are skipped (with a `skipped` entry)"
\* (scheduler.py): without a database error, a pass that is over has an entry
\* for every customer it listed.
EveryListedIsReported ==
  pc = "off" /\ escapes = 0 => \A c \in listed : results[c] # "none"
=============================================================================
