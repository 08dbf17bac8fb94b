---------------------------- MODULE WarehouseSync ----------------------------
(***************************************************************************)
(* The synchronisation of the Postgres warehouse with the vendor's API.    *)
(*                                                                         *)
(* A syncer is one process: scripts/sync_daily.py, which a timer starts    *)
(* every night for every company of ours and both directions, or           *)
(* scripts/sync_invoices.py, which a person starts for one company and     *)
(* direction.  Both execute the same sequence (sync_one): commit a pending *)
(* row of sync_runs, call the API, and in one transaction archive the      *)
(* answer, upsert the companies and the invoices, and mark the run.        *)
(*                                                                         *)
(* The transaction locks the row of each company it upserts, the company   *)
(* being synchronised first, and keeps the locks until it ends, so two     *)
(* syncers wait for each other and Postgres may have to abort one of them. *)
(* Row versions stand for the contents of invoices.                        *)
(***************************************************************************)
EXTENDS Naturals, Sequences, FiniteSets

CONSTANTS
  Syncer, Invoice, None,
  TaxNos,         \* the companies, in the order of their tax numbers
  Seller, Buyer,  \* the two companies of each invoice
  Registered,     \* companies that earlier synchronisations registered as ours
  MaxVersion,     \* bound: versions an invoice goes through at the bureau
  MaxSyncs,       \* bound: sync runs opened in one behaviour
  MaxCrashes      \* bound: processes killed, or stopped by a database error

Company == {TaxNos[n] : n \in DOMAIN TaxNos}
Kind    == {"1", "2"}          \* data_type: purchases and sales
SyncRun == 1 .. MaxSyncs
Version == 1 .. MaxVersion

ASSUME InvoicesHaveParties == Seller \in [Invoice -> Company] /\ Buyer \in [Invoice -> Company]
ASSUME InvoicesAreFinite == IsFiniteSet(Invoice)
ASSUME SyncBounds == MaxVersion \in Nat \ {0} /\ MaxSyncs \in Nat /\ MaxCrashes \in Nat
ASSUME NoneIsNobody == None \notin Syncer \cup Company \cup Kind
ASSUME RegisteredAreKnown == Registered \subseteq Company

VARIABLES
  pc,        \* pc[p]: what syncer p does next
  job,       \* job[p]: the local variables of syncer p and its open transaction
  holder,    \* holder[c]: the syncer whose transaction has locked company c
  bureau,    \* bureau[i]: the current version of invoice i
  companies, \* companies[c]: whether c has a row, and whether it is ours
  runs,      \* runs[r]: the row of sync run r
  raw,       \* raw[r]: the rows of raw_payloads that belong to run r
  book,      \* book[k, i]: what invoices and invoice_items say of invoice i
  exit,      \* exit[p]: how the last process that ran as p ended
  slots, crashes

tables == <<companies, runs, raw, book>>
vars == <<pc, job, holder, bureau, tables, exit, slots, crashes>>

\* One invoice of an answer: its version, and whether it came with item lines.
Line == [inv : Invoice, ver : Version, full : BOOLEAN]

Job == [plan : Seq(Company \X Kind), mine : SUBSET SyncRun, failed : SUBSET SyncRun,
        run : SyncRun \cup {0}, lines : SUBSET Line, done : SUBSET Line,
        want : Company \cup {None}, todo : SUBSET Company,
        known : SUBSET SyncRun]  \* history: successful when the answer was given

TypeOK ==
  /\ pc        \in [Syncer -> {"idle", "opening", "calling", "refused", "locking", "upserting"}]
  /\ job       \in [Syncer -> Job]
  /\ holder    \in [Company -> Syncer \cup {None}]
  /\ bureau    \in [Invoice -> Version]
  /\ companies \in [Company -> {"absent", "other", "self"}]
  /\ runs      \in [SyncRun -> [tax : Company \cup {None}, kind : Kind \cup {None},
                                status : {"absent", "pending", "success", "failed"},
                                count : 0 .. Cardinality(Invoice)]]
  /\ raw       \in [SyncRun -> SUBSET SUBSET Line]
  /\ book      \in [Kind \X Invoice -> [ver : 0 .. MaxVersion, run : SyncRun \cup {0},
                                        items : SUBSET Version]]
  /\ exit      \in [Syncer -> [code : {"none", "0", "1", "crash"}, mine : SUBSET SyncRun,
                               asked : SUBSET (Company \X Kind)]]
  /\ slots     \in 0 .. MaxSyncs
  /\ crashes   \in 0 .. MaxCrashes

NoJob == [plan |-> <<>>, mine |-> {}, failed |-> {}, run |-> 0, lines |-> {},
          done |-> {}, want |-> None, todo |-> {}, known |-> {}]

Init ==
  /\ pc        = [p \in Syncer |-> "idle"]
  /\ job       = [p \in Syncer |-> NoJob]
  /\ holder    = [c \in Company |-> None]
  /\ bureau    = [i \in Invoice |-> 1]
  /\ companies = [c \in Company |-> IF c \in Registered THEN "self" ELSE "absent"]
  /\ runs      = [r \in SyncRun |-> [tax |-> None, kind |-> None, status |-> "absent", count |-> 0]]
  /\ raw       = [r \in SyncRun |-> {}]
  /\ book      = [e \in Kind \X Invoice |-> [ver |-> 0, run |-> 0, items |-> {}]]
  /\ exit      = [p \in Syncer |-> [code |-> "none", mine |-> {}, asked |-> {}]]
  /\ slots     = MaxSyncs
  /\ crashes   = 0

-----------------------------------------------------------------------------
(***************************************************************************)
(* Building blocks.                                                        *)
(***************************************************************************)

\* The company and direction syncer p is working on.
Tax(p)  == Head(job[p].plan)[1]
Dir(p)  == Head(job[p].plan)[2]

\* The company whose purchases (1) or sales (2) an invoice is among.
Party(k, i) == IF k = "1" THEN Buyer[i] ELSE Seller[i]

\* The transaction ends: its row locks go.
Release(p) == holder' = [c \in Company |-> IF holder[c] = p THEN None ELSE holder[c]]

\* The rest of the plan after one (company, direction); with nothing left the
\* process ends, with exit code 1 if a sync failed.
Continue(p, failed) ==
  LET rest == Tail(job[p].plan)
  IN  IF rest # <<>>
      THEN /\ pc'  = [pc EXCEPT ![p] = "opening"]
           /\ job' = [job EXCEPT ![p] = [NoJob EXCEPT !.plan = rest, !.mine = job[p].mine,
                                                      !.failed = failed]]
           /\ UNCHANGED exit
      ELSE /\ pc'   = [pc EXCEPT ![p] = "idle"]
           /\ job'  = [job EXCEPT ![p] = NoJob]
           /\ exit' = [exit EXCEPT ![p] = [@ EXCEPT !.code = IF failed = {} THEN "0" ELSE "1",
                                                    !.mine = job[p].mine]]

\* Plausible bug: leaving the session commits what was written so far.
AbortCommits(p) ==
  /\ pc'   = [pc EXCEPT ![p] = "idle"]
  /\ job'  = [job EXCEPT ![p] = NoJob]
  /\ exit' = [exit EXCEPT ![p] = [@ EXCEPT !.code = "crash", !.mine = job[p].mine]]
  /\ Release(p)
  /\ raw' = IF pc[p] \in {"locking", "upserting"}
            THEN [raw EXCEPT ![job[p].run] = {job[p].lines}] ELSE raw
  /\ UNCHANGED <<companies, runs, book>>

\* An exception that sync_one does not catch, or the end of the process: the
\* transaction is rolled back and the remaining companies are not reached.
Abort(p) ==
  /\ pc'   = [pc EXCEPT ![p] = "idle"]
  /\ job'  = [job EXCEPT ![p] = NoJob]
  /\ exit' = [exit EXCEPT ![p] = [@ EXCEPT !.code = "crash", !.mine = job[p].mine]]
  /\ Release(p)
  /\ UNCHANGED tables

-----------------------------------------------------------------------------
(***************************************************************************)
(* Starting.                                                               *)
(***************************************************************************)

Start(p, plan) ==
  /\ pc[p] = "idle"
  /\ plan # <<>> /\ Len(plan) <= slots
  /\ pc'    = [pc EXCEPT ![p] = "opening"]
  /\ job'   = [job EXCEPT ![p] = [NoJob EXCEPT !.plan = plan]]
  /\ exit'  = [exit EXCEPT ![p] = [code |-> "none", mine |-> {},
                                   asked |-> {plan[n] : n \in DOMAIN plan}]]
  /\ slots' = slots - Len(plan)
  /\ UNCHANGED <<holder, bureau, tables, crashes>>

\* The companies marked is_self.
SelfCompanies == {c \in Company : companies[c] = "self"}

\* The order by tax number, and purchases before sales.
Precedes(x, y) ==
  \E m, n \in DOMAIN TaxNos :
    /\ TaxNos[m] = x[1] /\ TaxNos[n] = y[1]
    /\ m < n \/ (m = n /\ x[2] = "1" /\ y[2] = "2")

\* sync_daily.main: each of them in both directions.  (With none it returns 0.)
StartDaily(p) ==
  /\ pc[p] = "idle"
  /\ \E n \in 1 .. slots : \E plan \in [1 .. n -> SelfCompanies \X Kind] :
       /\ \A m \in 1 .. n - 1 : Precedes(plan[m], plan[m + 1])
       /\ {plan[m] : m \in 1 .. n} = SelfCompanies \X Kind
       /\ Start(p, plan)

\* sync_invoices.main: any one company and direction.
StartManual(p) == \E c \in Company, k \in Kind : Start(p, <<<<c, k>>>>)

-----------------------------------------------------------------------------
(***************************************************************************)
(* sync_one.                                                               *)
(***************************************************************************)

\* create_sync_run and its commit.
Open(p) ==
  /\ pc[p] = "opening"
  /\ \E r \in SyncRun :
       /\ runs[r].status = "absent" /\ \A q \in SyncRun : q < r => runs[q].status # "absent"
       /\ runs' = [runs EXCEPT ![r] = [@ EXCEPT !.status = "pending", !.tax = Tax(p), !.kind = Dir(p)]]
       /\ job'  = [job EXCEPT ![p] = [@ EXCEPT !.run = r, !.mine = job[p].mine \cup {r}]]
  /\ pc' = [pc EXCEPT ![p] = "calling"]
  /\ UNCHANGED <<holder, bureau, companies, raw, book, exit, slots, crashes>>

\* The sync runs that are successful.
Successful == {r \in SyncRun : runs[r].status = "success"}

\* Plausible bug: the client answers from a cache that outlives the process.
ReceiveCached(p) ==
  /\ pc[p] = "calling"
  /\ \E shown \in SUBSET {i \in Invoice : Party(Dir(p), i) = Tax(p)} :
     \E ver \in [shown -> Version] :
       /\ \A i \in shown : ver[i] <= bureau[i]
       /\ job' = [job EXCEPT ![p] =
                [@ EXCEPT !.lines = {[inv |-> i, ver |-> ver[i], full |-> TRUE] : i \in shown},
                          !.want  = Tax(p),
                          !.todo  = (UNION {{Seller[i], Buyer[i]} : i \in shown}) \ {Tax(p)},
                          !.known = Successful]]
  /\ pc' = [pc EXCEPT ![p] = "locking"]
  /\ UNCHANGED <<holder, bureau, tables, exit, slots, crashes>>

\* The answer: the invoices of the window (any of the company's: the others are
\* outside the window or not issued yet), each as it is
\* at the bureau now, with item lines if it is listed in XXHZB.  An empty
\* window (NONE_DATA) is an answer without invoices.
Receive(p) ==
  /\ pc[p] = "calling"
  /\ \E shown \in SUBSET {i \in Invoice : Party(Dir(p), i) = Tax(p)} :
     \E listed \in SUBSET shown :
       job' = [job EXCEPT ![p] =
                [@ EXCEPT !.lines = {[inv |-> i, ver |-> bureau[i], full |-> i \in listed] : i \in shown},
                          !.want  = Tax(p),
                          !.todo  = (UNION {{Seller[i], Buyer[i]} : i \in shown}) \ {Tax(p)},
                          !.known = Successful]]
  /\ pc' = [pc EXCEPT ![p] = "locking"]
  /\ UNCHANGED <<holder, bureau, tables, exit, slots, crashes>>

\* FapiaoError: the vendor refused, or its answer cannot be decoded.
Refuse(p) ==
  /\ pc[p] = "calling"
  /\ pc' = [pc EXCEPT ![p] = "refused"]
  /\ UNCHANGED <<job, holder, bureau, tables, exit, slots, crashes>>

\* A transport error (a timeout, a reset connection) is not a FapiaoError.
TransportError(p) ==
  /\ pc[p] = "calling"
  /\ Abort(p)
  /\ UNCHANGED <<bureau, slots, crashes>>

\* Plausible bug: the nightly run forgets the failures before the last one.
MarkFailedForgotten(p) ==
  /\ pc[p] = "refused"
  /\ runs' = [runs EXCEPT ![job[p].run].status = "failed"]
  /\ Continue(p, IF Len(job[p].plan) = 1 THEN {job[p].run} ELSE {})
  /\ UNCHANGED <<holder, bureau, companies, raw, book, slots, crashes>>

\* mark_sync_run_failed and its commit.
MarkFailed(p) ==
  /\ pc[p] = "refused"
  /\ runs' = [runs EXCEPT ![job[p].run].status = "failed"]
  /\ Continue(p, job[p].failed \cup {job[p].run})
  /\ UNCHANGED <<holder, bureau, companies, raw, book, slots, crashes>>

\* Plausible bug: a select for update, which locks nothing while there is no row.
CanLockKnown(p) == holder[job[p].want] = None \/ companies[job[p].want] = "absent"

\* The row a transaction upserts is not locked by another transaction.
CanLock(p) == holder[job[p].want] = None

\* _upsert_company: our own company first, then the parties of the invoices in
\* the order of the answer.
Lock(p) ==
  /\ pc[p] = "locking"
  /\ CanLock(p)
  /\ holder' = [holder EXCEPT ![job[p].want] = p]
  /\ \/ /\ job[p].todo = {}
        /\ job' = [job EXCEPT ![p].want = None]
        /\ pc'  = [pc EXCEPT ![p] = "upserting"]
     \/ /\ \E c \in job[p].todo :
             job' = [job EXCEPT ![p] = [@ EXCEPT !.want = c, !.todo = job[p].todo \ {c}]]
        /\ UNCHANGED pc
  /\ UNCHANGED <<bureau, tables, exit, slots, crashes>>

\* The syncer whose transaction p waits for.
WaitsFor(p) == IF pc[p] = "locking" THEN holder[job[p].want] ELSE None

\* Syncers that wait for one another in a circle.
Circle(S) == S # {} /\ {WaitsFor(q) : q \in S} = S

\* Plausible bug: nothing breaks a circle of two.
BreakDeadlockOfThree(p) ==
  /\ \E S \in SUBSET Syncer : p \in S /\ Circle(S) /\ Cardinality(S) > 2
  /\ Abort(p)
  /\ UNCHANGED <<bureau, slots, crashes>>

\* Postgres aborts a member of the circle, whose sync_one does not catch it.
BreakDeadlock(p) ==
  /\ \E S \in SUBSET Syncer : p \in S /\ Circle(S)
  /\ Abort(p)
  /\ UNCHANGED <<bureau, slots, crashes>>

\* Plausible bug: new item rows are added to the old ones.
EntryAdded(r, l, old) ==
  [ver |-> l.ver, run |-> r, items |-> IF l.full THEN old.items \cup {l.ver} ELSE old.items]

\* What is stored of an invoice after run r stored line l of it: the header
\* always, the items only if the answer has some.
Entry(r, l, old) ==
  [ver |-> l.ver, run |-> r, items |-> IF l.full THEN {l.ver} ELSE old.items]

Stored(r, k, lines) ==
  [e \in Kind \X Invoice |->
     IF e[1] = k /\ \E l \in lines : l.inv = e[2]
     THEN Entry(r, CHOOSE l \in lines : l.inv = e[2], book[e])
     ELSE book[e]]

\* Plausible bug: every upsert commits by itself.
UpsertCommitted(p) ==
  /\ pc[p] = "upserting"
  /\ \E l \in job[p].lines \ job[p].done :
       /\ job'  = [job EXCEPT ![p].done = @ \cup {l}]
       /\ book' = Stored(job[p].run, Dir(p), {l})
  /\ UNCHANGED <<pc, holder, bureau, companies, runs, raw, exit, slots, crashes>>

\* One iteration of ingest_invoices: header and items, not yet committed.
Upsert(p) ==
  /\ pc[p] = "upserting"
  /\ \E l \in job[p].lines \ job[p].done : job' = [job EXCEPT ![p].done = @ \cup {l}]
  /\ UNCHANGED <<pc, holder, bureau, tables, exit, slots, crashes>>

\* Plausible bug: the row of a company is rewritten with is_self = false.
NoteUnflags(c, tax) == IF c = tax THEN "self" ELSE "other"

\* is_self is set for the company being synchronised and never taken back.
Note(c, tax) ==
  IF c = tax \/ companies[c] = "self" THEN "self" ELSE "other"

\* Plausible bug: item rows are counted too.
InvoiceCountWithItems(lines) == Cardinality(lines) + Cardinality({l \in lines : l.full})

\* invoices_upserted of ingest_invoices.
InvoiceCount(lines) == Cardinality(lines)

\* mark_sync_run_complete and the commit of everything since the API call.
Commit(p) ==
  /\ pc[p] = "upserting"
  /\ job[p].done = job[p].lines
  /\ runs'      = [runs EXCEPT ![job[p].run] =
                    [@ EXCEPT !.status = "success", !.count = InvoiceCount(job[p].lines)]]
  /\ raw'       = [raw EXCEPT ![job[p].run] = @ \cup {job[p].lines}]
  /\ book'      = Stored(job[p].run, Dir(p), job[p].lines)
  /\ companies' = [c \in Company |-> IF holder[c] = p THEN Note(c, Tax(p)) ELSE companies[c]]
  /\ Release(p)
  /\ Continue(p, job[p].failed)
  /\ UNCHANGED <<bureau, slots, crashes>>

-----------------------------------------------------------------------------
(***************************************************************************)
(* The environment.                                                        *)
(***************************************************************************)

\* The process is killed, or a statement fails in a way Postgres reports.
Crash(p) ==
  /\ pc[p] # "idle"
  /\ crashes < MaxCrashes
  /\ crashes' = crashes + 1
  /\ Abort(p)
  /\ UNCHANGED <<bureau, slots>>

\* An invoice changes: it is voided, or ticked for deduction.
Amend(i) ==
  /\ bureau[i] < MaxVersion
  /\ bureau' = [bureau EXCEPT ![i] = @ + 1]
  /\ UNCHANGED <<pc, job, holder, tables, exit, slots, crashes>>

\* What a process does once it has started.
Proceed(p) ==
  \/ Open(p) \/ Receive(p) \/ Refuse(p) \/ TransportError(p) \/ MarkFailed(p)
  \/ Lock(p) \/ BreakDeadlock(p) \/ Upsert(p) \/ Commit(p)

Next ==
  \/ \E p \in Syncer : StartDaily(p) \/ StartManual(p) \/ Proceed(p) \/ Crash(p)
  \/ \E i \in Invoice : Amend(i)

Spec == Init /\ [][Next]_vars

\* The API call has a timeout (httpx), Postgres grants free locks and breaks
\* deadlocks; nothing else in sync_one waits.
Fairness == \A p \in Syncer : WF_vars(Proceed(p))
FairSpec == Spec /\ Fairness
-----------------------------------------------------------------------------
(***************************************************************************)
(* Safety.                                                                 *)
(***************************************************************************)

\* Syncer p has locked the row of the company it synchronises.
Inside(p) == pc[p] = "upserting" \/ (pc[p] = "locking" /\ job[p].want # Tax(p))

\* Two syncers never write the invoices of one company at the same time: the
\* upsert of our own company, which comes first and writes the row even if
\* nothing changes, makes the second wait for the first one's commit.
SameCompanyIsSerial ==
  \A p, q \in Syncer : p # q /\ Inside(p) /\ Inside(q) => Tax(p) # Tax(q)

\* Every stored invoice is what the archived answer of its own sync run says,
\* and that run is a successful one for the company and direction it is stored
\* under: nothing of an aborted, refused or unfinished run is visible.
StoredIsArchived ==
  \A e \in Kind \X Invoice : book[e].run # 0 =>
    LET r == book[e].run
    IN  /\ runs[r].status = "success" /\ runs[r].kind = e[1]
        /\ runs[r].tax = Party(e[1], e[2])
        /\ \E lines \in raw[r] : \E l \in lines :
             /\ l.inv = e[2] /\ l.ver = book[e].ver
             /\ l.full => book[e].items = {l.ver}

\* The items of an invoice are those of one answer of one successful run, never
\* a mixture of two answers.
ItemsOfOneAnswer ==
  \A e \in Kind \X Invoice : book[e].items # {} =>
    \E r \in SyncRun : runs[r].status = "success" /\ \E lines \in raw[r] : \E l \in lines :
      l.inv = e[2] /\ l.full /\ book[e].items = {l.ver}

\* An older version of an invoice replaces a newer one only when the two syncs
\* overlapped: the answer with the older one was given before the run that
\* stored the newer one had committed.  (The API is called before the company's
\* row is locked.)  Syncs that follow one another never take a version back.
OnlyOverlapTakesBack ==
  [][\A e \in Kind \X Invoice : book'[e].ver < book[e].ver =>
       \E p \in Syncer : /\ pc[p] = "upserting" /\ pc'[p] # "upserting"
                         /\ book'[e].run = job[p].run
                         /\ book[e].run \notin job[p].known]_vars

\* A run has an archived answer exactly if it is successful, only one, and its
\* invoice_count is the number of invoices of that answer.
SuccessIsArchived ==
  \A r \in SyncRun :
    /\ runs[r].status = "success" <=> raw[r] # {}
    /\ \A lines \in raw[r] : raw[r] = {lines} /\ runs[r].count = Cardinality(lines)

\* A company with a successful run stays on the list of the nightly job, even
\* when it appears as a party in the invoices of another company of ours.
NightlyCoversSynced ==
  \A r \in SyncRun : runs[r].status = "success" => companies[runs[r].tax] = "self"

\* Exit code 0 means that every company and direction the process set out to
\* synchronise has a successful run of this process; exit code 1 that each of
\* them was tried and at least one failed, with its row saying so.
ExitCodeIsHonest ==
  \A p \in Syncer :
    LET tried(s) == {<<runs[r].tax, runs[r].kind>> : r \in {q \in exit[p].mine : runs[q].status = s}}
    IN  /\ exit[p].code = "0" => tried("success") = exit[p].asked
        /\ exit[p].code = "1" => /\ tried("failed") # {}
                                 /\ tried("success") \cup tried("failed") = exit[p].asked

\* A run that is pending and has no process any more is lost.
Owned(r) == \E p \in Syncer : job[p].run = r
Stage(r) ==
  CASE runs[r].status = "absent"  -> "none"
    [] runs[r].status = "pending" -> IF Owned(r) THEN "open" ELSE "lost"
    [] OTHER -> runs[r].status

Ledger == INSTANCE SyncLedger WITH
            stage   <- [r \in SyncRun |-> Stage(r)],
            subject <- [r \in SyncRun |-> <<runs[r].tax, runs[r].kind>>]

\* The synchronisation implements SyncLedger: an answer is stored and archived
\* in one step or not at all.
ImplementsLedger == Ledger!Spec

\* Whatever happens to the API, the locks and the other syncers, a process that
\* was started ends.
SyncEnds == \A p \in Syncer : pc[p] # "idle" ~> pc[p] = "idle"

-----------------------------------------------------------------------------
(***************************************************************************)
(* What the repository says and the code does not do.                      *)
(***************************************************************************)

\* sync_one returns "None on failure" and its row is "pending/success/failed":
\* a row that is still pending has a process working on it.
FailureIsRecorded == \A r \in SyncRun : runs[r].status = "pending" => Owned(r)
=============================================================================
