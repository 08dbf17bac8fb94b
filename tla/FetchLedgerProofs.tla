------------------------- MODULE FetchLedgerProofs -------------------------
(***************************************************************************)
(* Proofs about the rows the workers of FetchRun write, for any number of  *)
(* workers, tenants, runs, kills and failed transactions: what a row says  *)
(* is what its run did and what run_fetch returned, it follows the         *)
(* transition table, and the workers implement RunLifecycle.               *)
(*                                                                         *)
(* None of this is about one worker's variables or about one row alone.    *)
(* LedgerInv ties them together: a run at work has one worker              *)
(* (UniqueInv), the row of its run is where the worker's program counter   *)
(* says it is (WorkFits), and a row no worker is at work for is consistent *)
(* in itself (RowOK).  A worker changes nothing of a run that is not its   *)
(* own (OnlyOwn), so every action is looked at for its own run only.       *)
(***************************************************************************)
EXTENDS FetchRunProofs

-----------------------------------------------------------------------------
(***************************************************************************)
(* The invariant.                                                          *)
(***************************************************************************)

Live == RunState \ TerminalRunStates

\* The state run_fetch gives a run before step n.
StepFits(n, s) ==
  \/ n = 1 /\ s = "AUTHENTICATING"
  \/ n = 2 /\ s = "NAVIGATING"
  \/ n = 3 /\ s = "QUERYING"
  \/ n = 4 /\ s = "DOWNLOADING"
  \/ n = 5 /\ s = "POLLING"
  \/ n = 6 /\ s = "POLLING"
  \/ n = 7 /\ s = "ARCHIVING"

\* A worker at l with local variables j is on its way to a DONE row.
Earning(l, j) ==
  \/ l \in {"closing", "releasing", "unlocking"} /\ j.error = "none"
  \/ l = "ending"

\* What program counter l and local variables j of a worker at work tell of
\* the row w of its run, and of whether its export is submitted.
RowFits(l, j, w, submitted) ==
  /\ w.tenant = j.tenant
  /\ w.state \in Live \/ (l \in {"auditing", "failing"} /\ w.state = "DONE")
  /\ l = "created" => w.state = "PENDING"
  /\ l \in {"locking", "marking", "launching"} =>
       w.state = "AUTHENTICATING" /\ j.state = "AUTHENTICATING"
  /\ l \in {"created", "locking", "marking", "launching"} => ~submitted
  /\ l \in {"saving", "acting", "expiring", "asking"} => StepFits(j.step, j.state)
  /\ l \in {"saving", "acting", "asking", "prompting", "waiting"} => (submitted <=> j.step > 4)
  /\ l = "saving" => (w.state = j.state \/ CanTransition(w.state, j.state))
  /\ l \in {"acting", "expiring", "asking"} => w.state = j.state /\ w.last = j.step
  /\ l \in {"prompting", "waiting"} => w.state = "NEEDS_HUMAN"
  /\ Earning(l, j) =>
       \/ w.state \in {"QUERYING", "ARCHIVING"}
       \/ w.state = "DOWNLOADING" /\ w.last = 4 /\ ~submitted
  /\ l = "auditing" => w.state = "DONE"
  /\ l = "failing" => j.error # "none"
  /\ l # "failing" => j.error # "SessionLocked"

\* Run r did what a DONE row says.
Earned(r) ==
  \/ runs[r].last \in {3, 4} /\ exports[r] = "none"
  \/ /\ runs[r].last = 7 /\ exports[r] # "none"
     /\ summary[r].expected \in {0, summary[r].actual}
     /\ manifest[runs[r].tenant].run = r => manifest[runs[r].tenant].count = summary[r].actual

Submitted(r) == exports[r] # "none"

\* p is at work for its run.
WorkFits(p) ==
  /\ summary[job[p].run].state = "none"
  /\ RowFits(pc[p], job[p], runs[job[p].run], Submitted(job[p].run))
  /\ Earning(pc[p], job[p]) => Earned(job[p].run)
  /\ pc[p] = "failing" /\ runs[job[p].run].state = "DONE" => dbFaults > 0

WorkInv == \A p \in Worker : IF pc[p] \in Outside THEN job[p].run = None ELSE WorkFits(p)

UniqueInv ==
  \A p, q \in Worker :
    pc[p] \notin Outside /\ pc[q] \notin Outside /\ job[p].run = job[q].run => p = q

RowOK(r) ==
  /\ summary[r].state # "none" => runs[r].state = summary[r].state
  /\ runs[r].ended <=> runs[r].state \in TerminalRunStates
  /\ runs[r].state = "FAILED" => runs[r].error # "none"
  /\ runs[r].state = "DONE" => Earned(r)
  /\ runs[r].state = "absent" => summary[r].state = "none" /\ ~Submitted(r)
  /\ runs[r].state # "absent" => runs[r].tenant \in Tenant

RowsInv == \A r \in RunId : RowOK(r)

LedgerInv == WorkInv /\ UniqueInv /\ RowsInv

-----------------------------------------------------------------------------
(***************************************************************************)
(* What a step of worker p at work for run r does to the rows.             *)
(***************************************************************************)

\* Run s is left alone.
Same(s) ==
  /\ runs'[s] = runs[s] /\ summary'[s] = summary[s] /\ (Submitted(s)' <=> Submitted(s))
  /\ \A t \in Tenant : manifest'[t] = manifest[t] \/ manifest'[t].run # s

\* The row of run r moves along the table, or one of the two ways outside it.
RowFollows(r) ==
  runs'[r].state # runs[r].state =>
    \/ runs[r].state = "absent" /\ runs'[r].state = "PENDING"
    \/ CanTransition(runs[r].state, runs'[r].state)
    \/ /\ runs[r].state = "DOWNLOADING" /\ runs'[r].state = "DONE"
       /\ runs[r].last = 4 /\ exports[r] = "none"
    \/ /\ runs[r].state = "DONE" /\ runs'[r].state = "FAILED"
       /\ dbFaults > 0 /\ summary[r].state = "none"

Works(p) ==
  pc[p] \notin Outside /\ pc'[p] \notin Outside /\ job'[p].run = job[p].run /\ WorkFits(p)'

Stops(p) == pc'[p] \in Outside /\ job'[p].run = None

Effect(p, r) ==
  /\ \A s \in RunId : s # r => Same(s)
  /\ Works(p) \/ Stops(p)
  /\ r \in RunId => RowOK(r)' /\ RowFollows(r)

LEMMA TableMoves ==
  /\ CanTransition("PENDING", "AUTHENTICATING") /\ CanTransition("AUTHENTICATING", "NAVIGATING")
  /\ CanTransition("NAVIGATING", "QUERYING") /\ CanTransition("QUERYING", "DOWNLOADING")
  /\ CanTransition("DOWNLOADING", "POLLING") /\ CanTransition("POLLING", "ARCHIVING")
  /\ CanTransition("POLLING", "NEEDS_HUMAN") /\ CanTransition("NEEDS_HUMAN", "POLLING")
  /\ CanTransition("QUERYING", "DONE") /\ CanTransition("ARCHIVING", "DONE")
  /\ \A s \in Live : CanTransition(s, "FAILED")
BY DEF CanTransition, RunTransitions, Live, RunState, TerminalRunStates

\* What is known of a worker at work.
LEMMA AtWork ==
  ASSUME IInv, LedgerInv, NEW p \in Worker, NEW r, r = job[p].run, pc[p] \notin Outside
  PROVE  /\ r \in RunId /\ job[p] \in Job /\ job[p].tenant \in Tenant /\ runs[r] \in Row
         /\ summary[r] \in Summary
         /\ WorkFits(p) /\ RowFits(pc[p], job[p], runs[r], Submitted(r))
         /\ RowOK(r) /\ summary[r].state = "none" /\ runs[r].state # "absent"
<1>1. TypeOK /\ JobInv
  BY DEF IInv
<1>2. r \in RunId /\ job[p] \in Job /\ job[p].tenant \in Tenant
  BY <1>1 DEF TypeOK, JobInv, JobFits, Outside
<1>3. runs[r] \in Row /\ summary[r] \in Summary
  BY <1>1, <1>2 DEF TypeOK
<1>4. WorkFits(p) /\ RowOK(r)
  BY <1>2 DEF LedgerInv, WorkInv, RowsInv
<1>5. RowFits(pc[p], job[p], runs[r], Submitted(r)) /\ summary[r].state = "none"
  BY <1>4 DEF WorkFits
<1>6. runs[r].state # "absent"
  BY <1>5 DEF RowFits, Live, RunState
<1> QED BY <1>2, <1>3, <1>4, <1>5, <1>6

\* A run that is left alone stays as consistent as it was.
LEMMA EarnedStays ==
  ASSUME NEW s, Same(s), runs[s].tenant \in Tenant, Earned(s)
  PROVE  Earned(s)'
<1>1. manifest'[runs[s].tenant] = manifest[runs[s].tenant] \/ manifest'[runs[s].tenant].run # s
  BY DEF Same
<1> QED BY <1>1 DEF Same, Earned, Submitted

LEMMA RowStays ==
  ASSUME NEW s, Same(s), RowOK(s)
  PROVE  RowOK(s)'
<1>1. runs'[s] = runs[s] /\ summary'[s] = summary[s] /\ (Submitted(s)' <=> Submitted(s))
  BY DEF Same
<1>2. runs[s].state = "DONE" => Earned(s)'
  BY EarnedStays DEF RowOK
<1> QED BY <1>1, <1>2 DEF RowOK

LEMMA WorkStays ==
  ASSUME NEW q, NEW s, s = job[q].run, Same(s), RowOK(s), WorkFits(q), pc'[q] = pc[q], job'[q] = job[q],
         dbFaults \in Nat, dbFaults' \in Nat, dbFaults' >= dbFaults, runs[s].state # "absent"
  PROVE  WorkFits(q)'
<1>1. runs'[s] = runs[s] /\ summary'[s] = summary[s] /\ (Submitted(s)' <=> Submitted(s)) /\ s = job'[q].run
  BY DEF Same
<1>2. Earned(s) => Earned(s)'
  BY EarnedStays DEF RowOK
<1>3. RowFits(pc'[q], job'[q], runs'[s], Submitted(s)')
  <2>1. RowFits(pc[q], job[q], runs[s], Submitted(s))
    BY DEF WorkFits
  <2>2. Submitted(s)' = Submitted(s)
    BY <1>1 DEF Submitted
  <2> QED BY <1>1, <2>1, <2>2
<1>4. Earning(pc'[q], job'[q]) => Earned(s)'
  BY <1>2 DEF WorkFits
<1>5. pc'[q] = "failing" /\ runs'[s].state = "DONE" => dbFaults' > 0
  BY <1>1 DEF WorkFits
<1>6. summary'[s].state = "none"
  BY <1>1 DEF WorkFits
<1> QED BY <1>1, <1>3, <1>4, <1>5, <1>6 DEF WorkFits

LEMMA EffectKeeps ==
  ASSUME IInv, IInv', LedgerInv, NEW p \in Worker, Moves(p), NEW r, r = job[p].run, Effect(p, r),
         dbFaults' >= dbFaults
  PROVE  LedgerInv'
<1>1. dbFaults \in Nat /\ dbFaults' \in Nat
  BY BoundsAreNat DEF IInv, TypeOK
<1>2. pc[p] \in Outside => r = None
  BY DEF LedgerInv, WorkInv
<1>3. ASSUME NEW s \in RunId PROVE RowOK(s)'
  <2>1. RowOK(s)
    BY DEF LedgerInv, RowsInv
  <2> QED BY <2>1, RowStays DEF Effect
<1>4. ASSUME NEW q \in Worker, pc'[q] \notin Outside
      PROVE  WorkFits(q)' /\ pc[q] \notin Outside /\ job'[q].run = job[q].run
  <2>1. CASE q = p
    BY <1>4, <2>1 DEF Effect, Works, Stops
  <2>2. CASE q # p
    <3>1. pc'[q] = pc[q] /\ job'[q] = job[q]
      BY <2>2 DEF Moves
    <3>2. PICK s : s = job[q].run
      OBVIOUS
    <3>3. s \in RunId /\ WorkFits(q) /\ RowOK(s) /\ runs[s].state # "absent"
      BY <1>4, <3>1, <3>2, AtWork
    <3>4. s # r
      <4>1. None \notin RunId
        BY NoneIsFresh
      <4> QED BY <1>2, <1>4, <2>2, <3>1, <3>2, <3>3, <4>1 DEF LedgerInv, UniqueInv
    <3>5. Same(s)
      BY <3>3, <3>4 DEF Effect
    <3> QED BY <1>1, <1>4, <3>1, <3>2, <3>3, <3>5, WorkStays
  <2> QED BY <2>1, <2>2
<1>5. ASSUME NEW q \in Worker, pc'[q] \in Outside PROVE job'[q].run = None
  BY <1>5 DEF Effect, Works, Stops, Moves, LedgerInv, WorkInv
<1>6. WorkInv'
  BY <1>4, <1>5 DEF WorkInv
<1>7. UniqueInv'
  BY <1>4 DEF UniqueInv, LedgerInv
<1>8. RowsInv'
  BY <1>3 DEF RowsInv
<1> QED BY <1>6, <1>7, <1>8 DEF LedgerInv

-----------------------------------------------------------------------------
(***************************************************************************)
(* The building blocks keep a worker in step with its row.                 *)
(***************************************************************************)

LEMMA RaisedFields ==
  ASSUME NEW j \in Job, NEW e \in ErrorClass
  PROVE  LET n == [j EXCEPT !.error = e]
         IN  n.error = e /\ n.run = j.run /\ n.tenant = j.tenant /\ n.state = j.state /\ n.step = j.step
BY DEF Job

\* An exception leaves a worker whose run is not over.
LEMMA RaiseFits ==
  ASSUME IInv, LedgerInv, NEW p \in Worker, NEW r, r = job[p].run, pc[p] \notin Outside,
         NEW e \in ErrorClass, NEW h \in Handler, Raise(p, e, h),
         e = "SessionLocked" => h = "failing",
         runs'[r] = runs[r], runs[r].state \in Live, summary'[r] = summary[r]
  PROVE  Works(p)
<1>1. TypeOK /\ JobInv
  BY DEF IInv
<1>2. pc'[p] = h /\ job'[p] = [job[p] EXCEPT !.error = e]
  BY <1>1, RaiseMoves
<1>3. /\ r \in RunId /\ job[p] \in Job /\ RowFits(pc[p], job[p], runs[r], Submitted(r))
      /\ summary[r].state = "none"
  BY AtWork
<1>4. /\ job'[p].error = e /\ job'[p].run = r /\ job'[p].tenant = job[p].tenant
  BY <1>2, <1>3, RaisedFields
<1>5. e # "none"
  BY DEF ErrorClass
<1>6. ~Earning(h, job'[p])
  BY <1>4, <1>5 DEF Earning, Handler
<1>7. ASSUME NEW b PROVE RowFits(h, job'[p], runs[r], b)
  <2>1. runs[r].tenant = job'[p].tenant
    BY <1>3, <1>4 DEF RowFits
  <2> QED BY <1>4, <1>5, <1>6, <2>1 DEF RowFits, Handler
<1>8. RowFits(pc'[p], job'[p], runs'[job'[p].run], Submitted(r)')
  BY <1>2, <1>4, <1>7
<1>9. WorkFits(p)'
  <2>1. runs'[r].state # "DONE"
    BY DEF Live, TerminalRunStates
  <2> QED BY <1>2, <1>3, <1>4, <1>6, <1>8, <2>1 DEF WorkFits
<1>10. pc'[p] \notin Outside
  BY <1>2 DEF Outside, Handler
<1> QED BY <1>4, <1>9, <1>10 DEF Works

LEMMA AdvanceFields ==
  ASSUME TypeOK, NEW p \in Worker, NEW s, Advance(p, s)
  PROVE  /\ job'[p].state = s /\ job'[p].step = (IF s = "DONE" THEN job[p].step ELSE job[p].step + 1)
         /\ job'[p].run = job[p].run /\ job'[p].tenant = job[p].tenant
         /\ job'[p].error = job[p].error /\ job'[p].dry = job[p].dry
         /\ pc'[p] = IF s = "DONE" THEN "closing" ELSE "saving"
<1> DEFINE n == IF s = "DONE" THEN job[p].step ELSE job[p].step + 1
           j == [job[p] EXCEPT !.state = s, !.step = n]
<1>1. pc'[p] = IF s = "DONE" THEN "closing" ELSE "saving"
  BY DEF Advance, Goto, TypeOK
<1>2. job[p] \in Job
  BY DEF TypeOK
<1>3. job'[p] = j
  BY DEF Advance, TypeOK
<1>4. /\ j.state = s /\ j.step = n /\ j.run = job[p].run /\ j.tenant = job[p].tenant
      /\ j.error = job[p].error /\ j.dry = job[p].dry
  <2> HIDE DEF n
  <2> QED BY <1>2 DEF Job
<1> QED BY <1>1, <1>3, <1>4

\* A worker that is to save the next step.
LEMMA SaveFits ==
  ASSUME NEW j, NEW w, NEW b \in BOOLEAN, w.tenant = j.tenant, w.state \in Live,
         StepFits(j.step, j.state), b <=> j.step > 4,
         w.state = j.state \/ CanTransition(w.state, j.state), j.error # "SessionLocked"
  PROVE  RowFits("saving", j, w, b)
BY DEF RowFits, Earning

\* The loop goes on.
LEMMA AdvanceFits ==
  ASSUME IInv, LedgerInv, NEW p \in Worker, NEW r, r = job[p].run,
         pc[p] \in {"acting", "waiting"}, NEW s \in RunState \ {"DONE"}, Advance(p, s),
         runs'[r] = runs[r], summary'[r] = summary[r],
         StepFits(job[p].step + 1, s), runs[r].state = s \/ CanTransition(runs[r].state, s),
         Submitted(r)' <=> job[p].step + 1 > 4
  PROVE  Works(p)
<1>0. TypeOK
  BY DEF IInv
<1>1. pc[p] \notin Outside
  BY DEF Outside
<1>2. /\ r \in RunId /\ RowFits(pc[p], job[p], runs[r], Submitted(r)) /\ summary[r].state = "none"
  BY <1>1, AtWork
<1>3. /\ pc'[p] = "saving" /\ job'[p].state = s /\ job'[p].step = job[p].step + 1
      /\ job'[p].run = r /\ job'[p].tenant = job[p].tenant /\ job'[p].error = job[p].error
  BY <1>0, AdvanceFields
<1>4. runs[r].tenant = job'[p].tenant /\ runs[r].state \in Live /\ job'[p].error # "SessionLocked"
  BY <1>2, <1>3 DEF RowFits
<1>5. Submitted(r)' \in BOOLEAN /\ StepFits(job'[p].step, job'[p].state)
      /\ (Submitted(r)' <=> job'[p].step > 4)
      /\ (runs[r].state = job'[p].state \/ CanTransition(runs[r].state, job'[p].state))
  BY <1>3 DEF Submitted
<1>6. RowFits(pc'[p], job'[p], runs'[r], Submitted(r)')
  BY <1>3, <1>4, <1>5, SaveFits
<1>7. ~Earning(pc'[p], job'[p]) /\ pc'[p] # "failing" /\ pc'[p] \notin Outside
  BY <1>3 DEF Earning, Outside
<1>8. WorkFits(p)'
  BY <1>2, <1>3, <1>6, <1>7 DEF WorkFits
<1> QED BY <1>1, <1>3, <1>7, <1>8 DEF Works

\* The loop breaks.
LEMMA BreakFits ==
  ASSUME IInv, LedgerInv, NEW p \in Worker, NEW r, r = job[p].run,
         pc[p] = "acting", Advance(p, "DONE"), runs'[r] = runs[r], summary'[r].state = summary[r].state,
         Submitted(r)' <=> Submitted(r), Earned(r)',
         \/ runs[r].state \in {"QUERYING", "ARCHIVING"}
         \/ runs[r].state = "DOWNLOADING" /\ runs[r].last = 4 /\ ~Submitted(r)
  PROVE  Works(p)
<1>0. TypeOK
  BY DEF IInv
<1>1. pc[p] \notin Outside
  BY DEF Outside
<1>2. /\ r \in RunId /\ RowFits(pc[p], job[p], runs[r], Submitted(r)) /\ summary[r].state = "none"
  BY <1>1, AtWork
<1>3. /\ pc'[p] = "closing" /\ job'[p].run = r /\ job'[p].tenant = job[p].tenant
      /\ job'[p].error = job[p].error
  BY <1>0, AdvanceFields
<1>4. runs[r].tenant = job'[p].tenant /\ runs[r].state \in Live /\ job'[p].error # "SessionLocked"
  BY <1>2, <1>3 DEF RowFits
<1>5. RowFits(pc'[p], job'[p], runs'[r], Submitted(r)')
  BY <1>3, <1>4 DEF RowFits
<1>6. pc'[p] # "failing" /\ pc'[p] \notin Outside
  BY <1>3 DEF Outside
<1>7. WorkFits(p)'
  BY <1>2, <1>3, <1>5, <1>6 DEF WorkFits
<1> QED BY <1>1, <1>3, <1>6, <1>7 DEF Works

\* Another statement, with the same local variables and rows.
LEMMA GotoFits ==
  ASSUME IInv, LedgerInv, NEW p \in Worker, NEW r, r = job[p].run, pc[p] \notin Outside,
         NEW l \in Pc \ Outside, Goto(p, l), UNCHANGED job,
         runs'[r] = runs[r], summary'[r] = summary[r], Submitted(r)' = Submitted(r),
         RowFits(l, job[p], runs[r], Submitted(r)), Earning(l, job[p]) => Earned(r)',
         runs[r].state # "DONE"
  PROVE  Works(p)
<1>1. r \in RunId /\ summary[r].state = "none"
  BY AtWork
<1>2. pc'[p] = l /\ job'[p] = job[p]
  BY DEF Goto, IInv, TypeOK
<1>3. WorkFits(p)'
  BY <1>1, <1>2 DEF WorkFits
<1> QED BY <1>2, <1>3 DEF Works

\* A step that touches no row of a run.
LEMMA QuietEffect ==
  ASSUME LedgerInv, NEW p \in Worker, NEW r, r = job[p].run,
         UNCHANGED <<runs, summary, portal>>, Works(p) \/ Stops(p)
  PROVE  Effect(p, r)
<1>1. \A s : Same(s)
  BY DEF Same, Submitted, portal
<1>2. r \in RunId => RowOK(r)'
  BY <1>1, RowStays DEF LedgerInv, RowsInv
<1>3. RowFollows(r)
  BY DEF RowFollows
<1> QED BY <1>1, <1>2, <1>3 DEF Effect

-----------------------------------------------------------------------------
(***************************************************************************)
(* The steps that touch no row of a run.                                   *)
(***************************************************************************)

LEMMA QuietRows ==
  ASSUME NEW r, UNCHANGED <<runs, summary, portal>>
  PROVE  /\ runs'[r] = runs[r] /\ summary'[r] = summary[r] /\ Submitted(r)' = Submitted(r)
         /\ Earned(r) => Earned(r)'
BY DEF portal, Submitted, Earned

LEMMA LiveAt ==
  ASSUME IInv, LedgerInv, NEW p \in Worker, NEW r, r = job[p].run,
         pc[p] \notin Outside \cup {"auditing", "failing"}
  PROVE  /\ r \in RunId /\ RowFits(pc[p], job[p], runs[r], Submitted(r))
         /\ runs[r].state \in Live /\ runs[r].state # "DONE"
<1>1. r \in RunId /\ RowFits(pc[p], job[p], runs[r], Submitted(r))
  BY AtWork
<1>2. runs[r].state \in Live
  BY <1>1 DEF RowFits
<1> QED BY <1>1, <1>2 DEF Live, TerminalRunStates

\* Statements that follow each other without a change of state or row.
LEMMA NextFits ==
  ASSUME NEW j, NEW w, NEW b
  PROVE  /\ RowFits("locking", j, w, b) => RowFits("marking", j, w, b)
         /\ RowFits("marking", j, w, b) => RowFits("launching", j, w, b)
         /\ RowFits("acting", j, w, b) => RowFits("expiring", j, w, b) /\ RowFits("asking", j, w, b)
         /\ RowFits("closing", j, w, b) => RowFits("releasing", j, w, b)
         /\ RowFits("releasing", j, w, b) => RowFits("unlocking", j, w, b)
         /\ RowFits("unlocking", j, w, b) /\ j.error = "none" => RowFits("ending", j, w, b)
         /\ RowFits("unlocking", j, w, b) /\ j.error # "none" => RowFits("failing", j, w, b)
BY DEF RowFits, Earning

\* The row of the next step is to be saved.
LEMMA ToSaveFits ==
  ASSUME IInv, LedgerInv, NEW p \in Worker, NEW r, r = job[p].run,
         pc[p] \notin Outside \cup {"auditing", "failing"}, pc'[p] = "saving", NEW n, job'[p] = n,
         n.run = r, n.tenant = job[p].tenant, n.error = job[p].error, UNCHANGED <<runs, summary, portal>>,
         StepFits(n.step, n.state), Submitted(r) <=> n.step > 4,
         runs[r].state = n.state \/ CanTransition(runs[r].state, n.state)
  PROVE  Works(p)
<1>1. /\ r \in RunId /\ RowFits(pc[p], job[p], runs[r], Submitted(r)) /\ runs[r].state \in Live
      /\ summary[r].state = "none"
  BY LiveAt, AtWork
<1>2. runs[r].tenant = n.tenant /\ n.error # "SessionLocked" /\ Submitted(r) \in BOOLEAN
  BY <1>1 DEF RowFits, Submitted
<1>3. RowFits("saving", n, runs[r], Submitted(r))
  BY <1>1, <1>2, SaveFits
<1>4. runs'[r] = runs[r] /\ summary'[r] = summary[r] /\ Submitted(r)' = Submitted(r)
  BY QuietRows
<1>5. ~Earning("saving", n) /\ "saving" \notin Outside
  BY DEF Earning, Outside
<1>6. WorkFits(p)'
  BY <1>1, <1>3, <1>4, <1>5 DEF WorkFits
<1> QED BY <1>5, <1>6 DEF Works

LEMMA QuietActions ==
  ASSUME IInv, LedgerInv, NEW p \in Worker, NEW r, r = job[p].run,
         \/ Flock(p) \/ MarkLocked(p) \/ Launch(p) \/ LoginCheck(p) \/ MarkExpired(p)
         \/ Navigate(p) \/ FillQuery(p) \/ FaceVerify(p) \/ WaitForHuman(p) \/ PollExport(p)
         \/ PollTimeout(p) \/ StepRaises(p) \/ CloseChrome(p) \/ MarkValid(p) \/ Unlock(p)
  PROVE  Effect(p, r)
<1>0. TypeOK /\ JobInv /\ job \in [Worker -> Job]
  BY DEF IInv, TypeOK
<1>1. UNCHANGED <<runs, summary, portal>>
  BY DEF ledger, Flock, MarkLocked, Launch, LoginCheck, MarkExpired, Navigate, FillQuery, FaceVerify,
     WaitForHuman, PollExport, PollTimeout, StepRaises, CloseChrome, MarkValid, Unlock
<1>2. pc[p] \notin Outside \cup {"auditing", "failing"}
  BY DEF Flock, MarkLocked, Launch, LoginCheck, MarkExpired, Navigate, FillQuery, FaceVerify,
     WaitForHuman, PollExport, PollTimeout, StepRaises, CloseChrome, MarkValid, Unlock, AtStep, Outside
<1>3. /\ runs'[r] = runs[r] /\ summary'[r] = summary[r] /\ Submitted(r)' = Submitted(r)
      /\ Earned(r) => Earned(r)'
  BY <1>1, QuietRows
<1>4. /\ r \in RunId /\ RowFits(pc[p], job[p], runs[r], Submitted(r))
      /\ runs[r].state \in Live /\ runs[r].state # "DONE" /\ pc[p] \notin Outside
  BY <1>2, LiveAt
<1>5. job[p] \in Job /\ (Earning(pc[p], job[p]) => Earned(r))
  BY <1>0, <1>4 DEF LedgerInv, WorkInv, WorkFits
<1> SUFFICES Works(p)
  BY <1>1, QuietEffect
<1>6. ASSUME NEW e \in ErrorClass, NEW h \in Handler, Raise(p, e, h),
             e = "SessionLocked" => h = "failing"
      PROVE  Works(p)
  BY <1>3, <1>4, <1>6, RaiseFits
<1>7. ASSUME NEW l \in Pc \ Outside, Goto(p, l), UNCHANGED job,
             RowFits(l, job[p], runs[r], Submitted(r)), Earning(l, job[p]) => Earning(pc[p], job[p])
      PROVE  Works(p)
  BY <1>3, <1>4, <1>5, <1>7, GotoFits
<1>8. ASSUME NEW s \in RunState \ {"DONE"}, pc[p] \in {"acting", "waiting"}, Advance(p, s),
             StepFits(job[p].step + 1, s), runs[r].state = s \/ CanTransition(runs[r].state, s),
             Submitted(r) <=> job[p].step + 1 > 4
      PROVE  Works(p)
  BY <1>3, <1>8, AdvanceFits
<1>9. CASE Flock(p)
  <2>1. CASE Goto(p, "marking") /\ UNCHANGED job
    <3>1. RowFits("marking", job[p], runs[r], Submitted(r)) /\ ~Earning("marking", job[p])
      BY <1>4, <1>9, NextFits DEF Flock, Earning
    <3> QED BY <1>7, <2>1, <3>1 DEF Pc, Holding, Outside
  <2>2. CASE Raise(p, "SessionLocked", "failing")
    BY <1>6, <2>2 DEF ErrorClass, Handler
  <2>3. CASE Raise(p, "Unexpected", "failing")
    BY <1>6, <2>3 DEF ErrorClass, Handler
  <2> QED BY <1>9, <2>1, <2>2, <2>3 DEF Flock
<1>10. CASE MarkLocked(p)
  <2>1. CASE Goto(p, "launching") /\ UNCHANGED job
    <3>1. RowFits("launching", job[p], runs[r], Submitted(r)) /\ ~Earning("launching", job[p])
      BY <1>4, <1>10, NextFits DEF MarkLocked, Earning
    <3> QED BY <1>7, <2>1, <3>1 DEF Pc, Holding, Driving, Outside
  <2>2. CASE Raise(p, "Unexpected", "unlocking")
    BY <1>6, <2>2 DEF ErrorClass, Handler
  <2> QED BY <1>10, <2>1, <2>2 DEF MarkLocked
<1>11. CASE Launch(p)
  <2>1. CASE job' = [job EXCEPT ![p].step = 1] /\ Goto(p, "saving")
    <3>1. PICK n : n = [job[p] EXCEPT !.step = 1]
      OBVIOUS
    <3>2. /\ n.step = 1 /\ n.state = job[p].state /\ n.run = r /\ n.tenant = job[p].tenant
          /\ n.error = job[p].error
      BY <1>5, <3>1 DEF Job
    <3>3. job'[p] = n /\ pc'[p] = "saving"
      BY <1>0, <2>1, <3>1 DEF Goto, TypeOK
    <3>4. /\ runs[r].state = "AUTHENTICATING" /\ job[p].state = "AUTHENTICATING"
          /\ (Submitted(r) <=> FALSE)
      BY <1>4, <1>11 DEF Launch, RowFits
    <3>5. StepFits(n.step, n.state) /\ (Submitted(r) <=> n.step > 4)
      BY <3>2, <3>4 DEF StepFits
    <3> QED BY <1>1, <1>2, <3>2, <3>3, <3>4, <3>5, ToSaveFits
  <2>2. CASE Raise(p, "Unexpected", "releasing")
    BY <1>6, <2>2 DEF ErrorClass, Handler
  <2> QED BY <1>11, <2>1, <2>2 DEF Launch
<1>12. ASSUME pc[p] = "acting"
       PROVE  /\ runs[r].state = job[p].state /\ StepFits(job[p].step, job[p].state)
              /\ runs[r].last = job[p].step /\ job[p].step \in Nat
              /\ (Submitted(r) <=> job[p].step > 4)
  BY <1>4, <1>5, <1>12 DEF RowFits, Job
<1>13. CASE LoginCheck(p)
  <2>1. pc[p] = "acting" /\ job[p].step = 1
    BY <1>13 DEF LoginCheck, AtStep
  <2>2. CASE Goto(p, "expiring") /\ UNCHANGED job
    <3>1. RowFits("expiring", job[p], runs[r], Submitted(r)) /\ ~Earning("expiring", job[p])
      BY <1>4, <2>1, NextFits DEF Earning
    <3> QED BY <1>7, <2>2, <3>1 DEF Pc, Holding, Driving, Outside
  <2>3. CASE Advance(p, "NAVIGATING")
    <3>1. runs[r].state = "AUTHENTICATING" /\ StepFits(job[p].step + 1, "NAVIGATING")
      BY <1>12, <2>1 DEF StepFits
    <3>2. (Submitted(r) <=> job[p].step + 1 > 4) /\ "NAVIGATING" \in RunState \ {"DONE"}
      BY <1>12, <2>1 DEF RunState
    <3> QED BY <1>8, <2>1, <2>3, <3>1, <3>2, TableMoves
  <2> QED BY <1>13, <2>2, <2>3 DEF LoginCheck
<1>14. CASE MarkExpired(p)
  BY <1>6, <1>14 DEF MarkExpired, ErrorClass, Handler
<1>15. CASE Navigate(p)
  <2>1. pc[p] = "acting" /\ job[p].step = 2 /\ Advance(p, "QUERYING")
    BY <1>15 DEF Navigate, AtStep
  <2>2. runs[r].state = "NAVIGATING" /\ StepFits(job[p].step + 1, "QUERYING")
    BY <1>12, <2>1 DEF StepFits
  <2>3. (Submitted(r) <=> job[p].step + 1 > 4) /\ "QUERYING" \in RunState \ {"DONE"}
    BY <1>12, <2>1 DEF RunState
  <2> QED BY <1>8, <2>1, <2>2, <2>3, TableMoves
<1>16. CASE FillQuery(p)
  <2>1. pc[p] = "acting" /\ job[p].step = 3
    BY <1>16 DEF FillQuery, AtStep
  <2>2. runs[r].state = "QUERYING" /\ runs[r].last = 3 /\ ~Submitted(r)
    BY <1>12, <2>1 DEF StepFits
  <2>3. CASE Advance(p, "DONE")
    <3>1. Earned(r)'
      BY <1>3, <2>2 DEF Earned, Submitted
    <3> QED BY <1>3, <2>1, <2>2, <2>3, <3>1, BreakFits
  <2>4. ASSUME NEW c \in Count, Goto(p, "saving"),
               job' = [job EXCEPT ![p] =
                        [@ EXCEPT !.state = "DOWNLOADING", !.step = 4, !.expected = c]]
        PROVE  Works(p)
    <3>1. PICK n : n = [job[p] EXCEPT !.state = "DOWNLOADING", !.step = 4, !.expected = c]
      OBVIOUS
    <3>2. /\ n.step = 4 /\ n.state = "DOWNLOADING" /\ n.run = r /\ n.tenant = job[p].tenant
          /\ n.error = job[p].error
      BY <1>5, <3>1 DEF Job
    <3>3. job'[p] = n /\ pc'[p] = "saving"
      BY <1>0, <2>4, <3>1 DEF Goto, TypeOK
    <3>4. StepFits(n.step, n.state) /\ (Submitted(r) <=> n.step > 4)
      BY <2>2, <3>2 DEF StepFits
    <3>5. CanTransition(runs[r].state, n.state)
      BY <2>2, <3>2, TableMoves
    <3> QED BY <1>1, <1>2, <3>2, <3>3, <3>4, <3>5, ToSaveFits
  <2> QED BY <1>16, <2>3, <2>4 DEF FillQuery
<1>17. CASE FaceVerify(p)
  <2>1. pc[p] = "acting" /\ job[p].step = 5
    BY <1>17 DEF FaceVerify, AtStep
  <2>2. CASE Goto(p, "asking") /\ UNCHANGED job
    <3>1. RowFits("asking", job[p], runs[r], Submitted(r)) /\ ~Earning("asking", job[p])
      BY <1>4, <2>1, NextFits DEF Earning
    <3> QED BY <1>7, <2>2, <3>1 DEF Pc, Holding, Driving, Outside
  <2>3. CASE Advance(p, "POLLING")
    <3>1. runs[r].state = "POLLING" /\ StepFits(job[p].step + 1, "POLLING")
      BY <1>12, <2>1 DEF StepFits
    <3>2. (Submitted(r) <=> job[p].step + 1 > 4) /\ "POLLING" \in RunState \ {"DONE"}
      BY <1>12, <2>1 DEF RunState
    <3> QED BY <1>8, <2>1, <2>3, <3>1, <3>2
  <2> QED BY <1>17, <2>2, <2>3 DEF FaceVerify
<1>18. CASE WaitForHuman(p)
  <2>1. pc[p] = "waiting" /\ job[p].step = 5
    BY <1>0, <1>18 DEF WaitForHuman, JobInv, JobFits
  <2>2. CASE Advance(p, "POLLING")
    <3>1. runs[r].state = "NEEDS_HUMAN" /\ Submitted(r)
      BY <1>4, <2>1 DEF RowFits
    <3>2. StepFits(job[p].step + 1, "POLLING") /\ (Submitted(r) <=> job[p].step + 1 > 4)
      BY <2>1, <3>1 DEF StepFits
    <3>3. "POLLING" \in RunState \ {"DONE"}
      BY DEF RunState
    <3> QED BY <1>8, <2>1, <2>2, <3>1, <3>2, <3>3, TableMoves
  <2>3. CASE \E e \in {"FaceVerifyRequired", "Unexpected"} : Raise(p, e, "closing")
    BY <1>6, <2>3 DEF ErrorClass, Handler
  <2> QED BY <1>18, <2>2, <2>3 DEF WaitForHuman
<1>19. CASE PollExport(p)
  <2>1. pc[p] = "acting" /\ job[p].step = 6 /\ Goto(p, "saving")
    BY <1>19 DEF PollExport, AtStep
  <2>2. runs[r].state = "POLLING" /\ Submitted(r)
    BY <1>12, <2>1 DEF StepFits
  <2>3. PICK x \in RunId :
          job' = [job EXCEPT ![p] = [@ EXCEPT !.state = "ARCHIVING", !.step = 7, !.link = x]]
    BY <1>19 DEF PollExport
  <2>4. PICK n : n = [job[p] EXCEPT !.state = "ARCHIVING", !.step = 7, !.link = x]
    OBVIOUS
  <2>5. /\ n.step = 7 /\ n.state = "ARCHIVING" /\ n.run = r /\ n.tenant = job[p].tenant
        /\ n.error = job[p].error
    BY <1>5, <2>4 DEF Job
  <2>6. job'[p] = n /\ pc'[p] = "saving"
    BY <1>0, <2>1, <2>3, <2>4 DEF Goto, TypeOK
  <2>7. StepFits(n.step, n.state) /\ (Submitted(r) <=> n.step > 4)
    BY <2>2, <2>5 DEF StepFits
  <2>8. CanTransition(runs[r].state, n.state)
    BY <2>2, <2>5, TableMoves
  <2> QED BY <1>1, <1>2, <2>5, <2>6, <2>7, <2>8, ToSaveFits
<1>20. CASE PollTimeout(p)
  BY <1>6, <1>20 DEF PollTimeout, ErrorClass, Handler
<1>21. CASE StepRaises(p)
  BY <1>6, <1>21 DEF StepRaises, ErrorClass, Handler
<1>22. CASE CloseChrome(p)
  <2>1. CASE Goto(p, "releasing") /\ UNCHANGED job
    <3>1. RowFits("releasing", job[p], runs[r], Submitted(r))
      BY <1>4, <1>22, NextFits DEF CloseChrome
    <3>2. Earning("releasing", job[p]) => Earning(pc[p], job[p])
      BY <1>22 DEF CloseChrome, Earning
    <3> QED BY <1>7, <2>1, <3>1, <3>2 DEF Pc, Holding, Outside
  <2>2. CASE Raise(p, "Unexpected", "releasing")
    BY <1>6, <2>2 DEF ErrorClass, Handler
  <2> QED BY <1>22, <2>1, <2>2 DEF CloseChrome
<1>23. CASE MarkValid(p)
  <2>1. CASE Goto(p, "unlocking") /\ UNCHANGED job
    <3>1. RowFits("unlocking", job[p], runs[r], Submitted(r))
      BY <1>4, <1>23, NextFits DEF MarkValid
    <3>2. Earning("unlocking", job[p]) => Earning(pc[p], job[p])
      BY <1>23 DEF MarkValid, Earning
    <3> QED BY <1>7, <2>1, <3>1, <3>2 DEF Pc, Holding, Outside
  <2>2. CASE Raise(p, "Unexpected", IF job[p].error = "none" THEN "releasing" ELSE "unlocking")
    BY <1>6, <2>2 DEF ErrorClass, Handler
  <2> QED BY <1>23, <2>1, <2>2 DEF MarkValid
<1>24. CASE Unlock(p)
  <2>1. CASE Raise(p, "Unexpected", "failing")
    BY <1>6, <2>1 DEF ErrorClass, Handler
  <2>2. CASE job[p].error = "none" /\ Goto(p, "ending") /\ UNCHANGED job
    <3>1. RowFits("ending", job[p], runs[r], Submitted(r))
      BY <1>4, <1>24, <2>2, NextFits DEF Unlock
    <3>2. Earning(pc[p], job[p])
      BY <1>24, <2>2 DEF Unlock, Earning
    <3> QED BY <1>7, <2>2, <3>1, <3>2 DEF Pc, Outside
  <2>3. CASE job[p].error # "none" /\ Goto(p, "failing") /\ UNCHANGED job
    <3>1. RowFits("failing", job[p], runs[r], Submitted(r)) /\ ~Earning("failing", job[p])
      BY <1>4, <1>24, <2>3, NextFits DEF Unlock, Earning
    <3> QED BY <1>7, <2>3, <3>1 DEF Pc, Outside
  <2> QED BY <1>24, <2>1, <2>2, <2>3 DEF Unlock
<1> QED BY <1>9, <1>10, <1>11, <1>13, <1>14, <1>15, <1>16, <1>17, <1>18, <1>19, <1>20, <1>21,
    <1>22, <1>23, <1>24

-----------------------------------------------------------------------------
(***************************************************************************)
(* The steps that write a row.                                             *)
(***************************************************************************)

LEMMA RowFields ==
  ASSUME NEW w \in Row, NEW s, NEW n, NEW e
  PROVE  /\ LET v == [w EXCEPT !.state = s]
            IN  /\ v.state = s /\ v.tenant = w.tenant /\ v.last = w.last /\ v.error = w.error
                /\ v.ended = w.ended
         /\ LET v == [w EXCEPT !.state = s, !.last = n]
            IN  /\ v.state = s /\ v.tenant = w.tenant /\ v.last = n /\ v.error = w.error
                /\ v.ended = w.ended
         /\ LET v == [w EXCEPT !.state = s, !.error = e]
            IN  /\ v.state = s /\ v.tenant = w.tenant /\ v.last = w.last /\ v.error = e
                /\ v.ended = w.ended
         /\ LET v == [w EXCEPT !.state = s, !.ended = TRUE]
            IN  /\ v.state = s /\ v.tenant = w.tenant /\ v.last = w.last /\ v.error = w.error
                /\ v.ended = TRUE
         /\ LET v == [w EXCEPT !.state = s, !.error = e, !.ended = TRUE]
            IN  /\ v.state = s /\ v.tenant = w.tenant /\ v.last = w.last /\ v.error = e
                /\ v.ended = TRUE
BY DEF Row

\* A row that is written while the run goes on.
LEMMA LiveRowOK ==
  ASSUME NEW r, RowOK(r), runs[r].state \in Live, runs'[r].state \in Live,
         runs'[r].ended = runs[r].ended, runs'[r].tenant = runs[r].tenant,
         summary'[r].state = summary[r].state, summary[r].state = "none"
  PROVE  RowOK(r)'
<1>1. \A s \in Live : s \notin {"DONE", "FAILED", "absent"}
  BY DEF Live, RunState, TerminalRunStates
<1>2. ~runs[r].ended /\ runs[r].tenant \in Tenant
  BY <1>1 DEF RowOK, TerminalRunStates
<1> QED BY <1>1, <1>2 DEF RowOK, TerminalRunStates

LEMMA StopActions ==
  ASSUME IInv, LedgerInv, NEW p \in Worker, NEW r, r = job[p].run,
         OpenLogin(p) \/ FinishLogin(p) \/ CloseLogin(p) \/ Kill(p)
  PROVE  Effect(p, r)
<1>1. UNCHANGED <<runs, summary, portal>>
  BY DEF OpenLogin, FinishLogin, CloseLogin, Kill, ledger
<1>2. ASSUME Exit(p) PROVE Stops(p)
  <2>1. pc'[p] = "idle" /\ job'[p] = NoJob
    BY <1>2 DEF Exit, Goto, IInv, TypeOK
  <2> QED BY <2>1 DEF Stops, Outside, NoJob
<1>3. ASSUME OpenLogin(p) PROVE Stops(p)
  <2>1. PICK t \in Tenant : job' = [job EXCEPT ![p] = [@ EXCEPT !.tenant = t]]
    BY <1>3 DEF OpenLogin
  <2>2. job'[p] = [job[p] EXCEPT !.tenant = t] /\ job[p] \in Job
    BY <2>1 DEF IInv, TypeOK
  <2>3. job'[p].run = job[p].run
    BY <2>2 DEF Job
  <2>4. job[p].run = None
    BY <1>3 DEF OpenLogin, LedgerInv, WorkInv, Outside
  <2> QED BY <1>3, <2>3, <2>4 DEF OpenLogin, Goto, Stops, Outside, IInv, TypeOK
<1>4. ASSUME FinishLogin(p) PROVE Stops(p)
  <2>1. job'[p].run = None
    BY <1>4 DEF FinishLogin, LedgerInv, WorkInv, Outside
  <2> QED BY <1>4, <2>1 DEF FinishLogin, Goto, Stops, Outside, IInv, TypeOK
<1>5. Stops(p)
  BY <1>2, <1>3, <1>4 DEF CloseLogin, Kill
<1> QED BY <1>1, <1>5, QuietEffect

LEMMA RowActions ==
  ASSUME IInv, LedgerInv, NEW p \in Worker, NEW r, r = job[p].run,
         \/ Authenticate(p) \/ SaveStep(p) \/ NeedsHuman(p) \/ PromptHuman(p)
         \/ SelectAndExport(p) \/ Archive(p) \/ EndRun(p) \/ AuditEnd(p) \/ FailRun(p)
  PROVE  Effect(p, r)
<1>0. /\ TypeOK /\ JobInv /\ job \in [Worker -> Job] /\ runs \in [RunId -> Row]
      /\ summary \in [RunId -> Summary]
  BY DEF IInv, TypeOK
<1>1. pc[p] \notin Outside
  BY DEF Authenticate, SaveStep, NeedsHuman, PromptHuman, SelectAndExport, Archive, EndRun, AuditEnd,
     FailRun, AtStep, Outside
<1>2. /\ r \in RunId /\ job[p] \in Job /\ job[p].tenant \in Tenant /\ runs[r] \in Row
      /\ summary[r] \in Summary
      /\ WorkFits(p) /\ RowFits(pc[p], job[p], runs[r], Submitted(r)) /\ runs[r].tenant = job[p].tenant
      /\ RowOK(r) /\ summary[r].state = "none" /\ runs[r].state # "absent"
  BY <1>1, AtWork DEF RowFits
<1>3. ASSUME Exit(p) PROVE Stops(p)
  <2>1. pc'[p] = "idle" /\ job'[p] = NoJob
    BY <1>0, <1>3 DEF Exit, Goto, TypeOK
  <2> QED BY <2>1 DEF Stops, Outside, NoJob
<1>4. ASSUME NEW e \in ErrorClass, NEW h \in Handler, Raise(p, e, h), e # "SessionLocked",
             runs'[r] = runs[r], runs[r].state \in Live, summary'[r] = summary[r]
      PROVE  Works(p)
  BY <1>1, <1>4, RaiseFits
<1>5. ASSUME UNCHANGED <<runs, summary, portal>>, Works(p) \/ Stops(p) PROVE Effect(p, r)
  BY <1>5, QuietEffect
<1>6. pc[p] \notin {"auditing", "failing"} => runs[r].state \in Live
  BY <1>2 DEF RowFits
<1>7. ASSUME NEW w, runs' = [runs EXCEPT ![r] = w], UNCHANGED <<summary, portal>>
      PROVE  \A s \in RunId : s # r => Same(s)
  BY <1>0, <1>7 DEF Same, Submitted, portal
<1>8. \A s \in Live : s \in RunState /\ s \notin {"DONE", "FAILED", "absent"}
  BY DEF Live, RunState, TerminalRunStates
<1>9. CASE Authenticate(p)
  <2>1. CASE Exit(p) /\ UNCHANGED runs
    BY <1>3, <1>5, <1>9, <2>1 DEF Authenticate
  <2>2. CASE /\ runs' = [runs EXCEPT ![job[p].run].state = "AUTHENTICATING"]
             /\ job' = [job EXCEPT ![p] = [@ EXCEPT !.state = "AUTHENTICATING"]]
             /\ Goto(p, "locking")
    <3>1. PICK w : w = [runs[r] EXCEPT !.state = "AUTHENTICATING"]
      OBVIOUS
    <3>2. w.state = "AUTHENTICATING" /\ w.tenant = runs[r].tenant /\ w.ended = runs[r].ended
      BY <1>2, <3>1, RowFields
    <3>3. runs' = [runs EXCEPT ![r] = w] /\ runs'[r] = w /\ UNCHANGED <<summary, portal>>
      BY <1>0, <1>2, <1>9, <2>2, <3>1 DEF Authenticate
    <3>4. PICK n : n = [job[p] EXCEPT !.state = "AUTHENTICATING"]
      OBVIOUS
    <3>5. n.state = "AUTHENTICATING" /\ n.run = r /\ n.tenant = job[p].tenant /\ n.error = job[p].error
      BY <1>2, <3>4 DEF Job
    <3>6. job'[p] = n /\ pc'[p] = "locking"
      BY <1>0, <2>2, <3>4 DEF Goto, TypeOK
    <3>7. /\ runs[r].state = "PENDING" /\ job[p].error # "SessionLocked"
          /\ Submitted(r)' = Submitted(r) /\ ~Submitted(r)
      BY <1>2, <1>9, <3>3 DEF Authenticate, RowFits, Submitted, portal
    <3>8. "AUTHENTICATING" \in Live /\ "PENDING" \in Live
      BY DEF Live, RunState, TerminalRunStates
    <3>9. RowFits("locking", n, w, Submitted(r))
      BY <1>2, <3>2, <3>5, <3>7, <3>8 DEF RowFits, Earning
    <3>10. Works(p)
      <4>1. ~Earning("locking", n) /\ "locking" \notin Outside
        BY DEF Earning, Outside
      <4>2. WorkFits(p)'
        BY <1>2, <3>3, <3>5, <3>6, <3>7, <3>9, <4>1 DEF WorkFits
      <4> QED BY <1>1, <3>5, <3>6, <4>1, <4>2 DEF Works
    <3>11. RowOK(r)'
      BY <1>2, <3>2, <3>3, <3>7, <3>8, LiveRowOK
    <3>12. RowFollows(r)
      BY <3>2, <3>3, <3>7, TableMoves DEF RowFollows
    <3> QED BY <1>7, <3>3, <3>10, <3>11, <3>12 DEF Effect
  <2> QED BY <1>9, <2>1, <2>2 DEF Authenticate
<1>10. CASE SaveStep(p)
  <2>1. CASE Raise(p, "Unexpected", "closing") /\ UNCHANGED runs
    BY <1>4, <1>5, <1>6, <1>10, <2>1 DEF SaveStep, ErrorClass, Handler
  <2>2. CASE /\ runs' = [runs EXCEPT ![job[p].run] =
                          [@ EXCEPT !.state = job[p].state, !.last = job[p].step]]
             /\ Goto(p, "acting") /\ UNCHANGED job
    <3>1. PICK w : w = [runs[r] EXCEPT !.state = job[p].state, !.last = job[p].step]
      OBVIOUS
    <3>2. /\ w.state = job[p].state /\ w.last = job[p].step /\ w.tenant = runs[r].tenant
          /\ w.ended = runs[r].ended
      BY <1>2, <3>1, RowFields
    <3>3. runs' = [runs EXCEPT ![r] = w] /\ runs'[r] = w /\ UNCHANGED <<summary, portal>>
      BY <1>0, <1>2, <1>10, <2>2, <3>1 DEF SaveStep
    <3>4. job'[p] = job[p] /\ pc'[p] = "acting" /\ pc[p] = "saving"
      BY <1>0, <1>10, <2>2 DEF SaveStep, Goto, TypeOK
    <3>5. /\ StepFits(job[p].step, job[p].state) /\ job[p].error # "SessionLocked"
          /\ (runs[r].state = job[p].state \/ CanTransition(runs[r].state, job[p].state))
          /\ Submitted(r)' = Submitted(r) /\ (Submitted(r) <=> job[p].step > 4)
      BY <1>2, <3>3, <3>4 DEF RowFits, Submitted, portal
    <3>6. job[p].state \in Live
      BY <3>5 DEF StepFits, Live, RunState, TerminalRunStates
    <3>7. RowFits("acting", job[p], w, Submitted(r))
      BY <1>2, <3>2, <3>5, <3>6 DEF RowFits, Earning
    <3>8. Works(p)
      <4>1. ~Earning("acting", job[p]) /\ "acting" \notin Outside
        BY DEF Earning, Outside
      <4>2. WorkFits(p)'
        BY <1>2, <3>3, <3>4, <3>5, <3>7, <4>1 DEF WorkFits
      <4> QED BY <1>1, <3>4, <4>1, <4>2 DEF Works
    <3>9. RowOK(r)'
      BY <1>2, <1>6, <3>2, <3>3, <3>4, <3>6, LiveRowOK
    <3>10. RowFollows(r)
      BY <3>2, <3>3, <3>5 DEF RowFollows
    <3> QED BY <1>7, <3>3, <3>8, <3>9, <3>10 DEF Effect
  <2> QED BY <1>10, <2>1, <2>2 DEF SaveStep
<1>11. CASE NeedsHuman(p)
  <2>1. CASE Raise(p, "Unexpected", "closing") /\ UNCHANGED runs
    BY <1>4, <1>5, <1>6, <1>11, <2>1 DEF NeedsHuman, ErrorClass, Handler
  <2>2. CASE /\ runs' = [runs EXCEPT ![job[p].run] =
                          [@ EXCEPT !.state = "NEEDS_HUMAN", !.error = "FaceVerifyRequired"]]
             /\ Goto(p, "prompting") /\ UNCHANGED job
    <3>1. PICK w : w = [runs[r] EXCEPT !.state = "NEEDS_HUMAN", !.error = "FaceVerifyRequired"]
      OBVIOUS
    <3>2. w.state = "NEEDS_HUMAN" /\ w.tenant = runs[r].tenant /\ w.ended = runs[r].ended
      BY <1>2, <3>1, RowFields
    <3>3. runs' = [runs EXCEPT ![r] = w] /\ runs'[r] = w /\ UNCHANGED <<summary, portal>>
      BY <1>0, <1>2, <1>11, <2>2, <3>1 DEF NeedsHuman
    <3>4. job'[p] = job[p] /\ pc'[p] = "prompting" /\ pc[p] = "asking"
      BY <1>0, <1>11, <2>2 DEF NeedsHuman, Goto, TypeOK
    <3>5. job[p].step = 5
      BY <1>0, <3>4 DEF JobInv, JobFits
    <3>6. /\ runs[r].state = "POLLING" /\ job[p].error # "SessionLocked"
          /\ Submitted(r)' = Submitted(r) /\ (Submitted(r) <=> job[p].step > 4)
      BY <1>2, <3>3, <3>4, <3>5 DEF RowFits, StepFits, Submitted, portal
    <3>7. "NEEDS_HUMAN" \in Live /\ "POLLING" \in Live
      BY DEF Live, RunState, TerminalRunStates
    <3>8. RowFits("prompting", job[p], w, Submitted(r))
      BY <1>2, <3>2, <3>6, <3>7 DEF RowFits, Earning
    <3>9. Works(p)
      <4>1. ~Earning("prompting", job[p]) /\ "prompting" \notin Outside
        BY DEF Earning, Outside
      <4>2. WorkFits(p)'
        BY <1>2, <3>3, <3>4, <3>6, <3>8, <4>1 DEF WorkFits
      <4> QED BY <1>1, <3>4, <4>1, <4>2 DEF Works
    <3>10. RowOK(r)'
      BY <1>2, <3>2, <3>3, <3>6, <3>7, LiveRowOK
    <3>11. RowFollows(r)
      BY <3>2, <3>3, <3>6, TableMoves DEF RowFollows
    <3> QED BY <1>7, <3>3, <3>9, <3>10, <3>11 DEF Effect
  <2> QED BY <1>11, <2>1, <2>2 DEF NeedsHuman
<1>12. CASE PromptHuman(p)
  <2>1. UNCHANGED <<runs, summary, portal>> /\ pc[p] = "prompting"
    BY <1>12 DEF PromptHuman
  <2>2. CASE Raise(p, "Unexpected", "closing")
    BY <1>4, <1>5, <1>6, <2>1, <2>2 DEF ErrorClass, Handler
  <2>3. CASE Goto(p, "waiting") /\ UNCHANGED job
    <3>1. RowFits("waiting", job[p], runs[r], Submitted(r)) /\ ~Earning("waiting", job[p])
      BY <1>2, <2>1 DEF RowFits, Earning
    <3>2. "waiting" \in Pc \ Outside /\ runs[r].state # "DONE"
      BY <1>6, <1>8, <2>1 DEF Pc, Holding, Driving, Outside
    <3>3. Works(p)
      BY <1>1, <2>1, <2>3, <3>1, <3>2, QuietRows, GotoFits
    <3> QED BY <1>5, <2>1, <3>3
  <2> QED BY <1>12, <2>2, <2>3 DEF PromptHuman
<1>13. ASSUME pc[p] = "acting"
       PROVE  /\ runs[r].state = job[p].state /\ StepFits(job[p].step, job[p].state)
              /\ runs[r].last = job[p].step /\ (Submitted(r) <=> job[p].step > 4)
  BY <1>2, <1>13 DEF RowFits
<1>14. CASE SelectAndExport(p)
  <2>1. pc[p] = "acting" /\ job[p].step = 4 /\ runs' = runs /\ summary' = summary /\ manifest' = manifest
    BY <1>14 DEF SelectAndExport, AtStep, ledger
  <2>2. runs[r].state = "DOWNLOADING" /\ runs[r].last = 4 /\ ~Submitted(r)
    BY <1>13, <2>1 DEF StepFits
  <2>3. CASE Advance(p, "DONE") /\ UNCHANGED exports
    <3>1. UNCHANGED <<runs, summary, portal>>
      BY <2>1, <2>3 DEF portal
    <3>2. Earned(r)' /\ Submitted(r)' = Submitted(r)
      BY <2>2, <3>1 DEF Earned, Submitted, portal
    <3>3. Works(p)
      BY <2>1, <2>2, <2>3, <3>2, BreakFits
    <3> QED BY <1>5, <3>1, <3>3
  <2>4. CASE /\ exports' = [exports EXCEPT ![job[p].run] = "building"]
             /\ Advance(p, "POLLING") \/ Raise(p, "SelectorMissError", "closing")
    <3>1. exports'[r] = "building" /\ \A s \in RunId : s # r => exports'[s] = exports[s]
      BY <1>0, <1>2, <2>4 DEF TypeOK
    <3>2. Submitted(r)' /\ \A s \in RunId : s # r => Same(s)
      BY <2>1, <3>1 DEF Submitted, Same
    <3>3. ASSUME Advance(p, "POLLING") PROVE Works(p)
      <4>1. StepFits(job[p].step + 1, "POLLING") /\ job[p].step + 1 > 4 /\ "POLLING" \in RunState \ {"DONE"}
        BY <2>1 DEF StepFits, RunState
      <4> QED BY <2>1, <2>2, <3>2, <3>3, <4>1, TableMoves, AdvanceFits
    <3>4. ASSUME Raise(p, "SelectorMissError", "closing") PROVE Works(p)
      BY <1>4, <1>6, <2>1, <3>4 DEF ErrorClass, Handler
    <3>5. Works(p)
      BY <2>4, <3>3, <3>4
    <3>6. RowOK(r)'
      BY <1>2, <1>6, <2>1, LiveRowOK
    <3>7. RowFollows(r)
      BY <2>1 DEF RowFollows
    <3> QED BY <3>2, <3>5, <3>6, <3>7 DEF Effect
  <2> QED BY <1>14, <2>3, <2>4 DEF SelectAndExport
<1>15. CASE Archive(p)
  <2>1. pc[p] = "acting" /\ job[p].step = 7 /\ runs' = runs /\ exports' = exports
    BY <1>15 DEF Archive, AtStep
  <2>2. runs[r].state = "ARCHIVING" /\ runs[r].last = 7 /\ Submitted(r)
    BY <1>13, <2>1 DEF StepFits
  <2>3. PICK n \in Count :
          /\ manifest' = [manifest EXCEPT ![job[p].tenant] =
                            [run |-> job[p].run, export |-> job[p].link, count |-> n]]
          /\ \/ /\ Raise(p, "DataIntegrityError", "closing")
                /\ UNCHANGED summary
             \/ /\ Complete(job[p].expected, n)
                /\ Advance(p, "DONE")
                /\ summary' = [summary EXCEPT ![job[p].run] =
                                 [@ EXCEPT !.expected = job[p].expected, !.actual = n]]
    BY <1>15 DEF Archive
  <2>4. /\ manifest'[job[p].tenant] = [run |-> r, export |-> job[p].link, count |-> n]
        /\ \A t \in Tenant : t # job[p].tenant => manifest'[t] = manifest[t]
    BY <1>0, <1>2, <2>3 DEF TypeOK
  <2>5. manifest'[job[p].tenant].run = r /\ manifest'[job[p].tenant].count = n
    BY <2>4
  <2>6. \A s \in RunId : s # r => summary'[s] = summary[s]
    BY <1>0, <2>3
  <2>7. \A s \in RunId : s # r => Same(s)
    BY <2>1, <2>4, <2>5, <2>6 DEF Same, Submitted
  <2>8. Submitted(r)' = Submitted(r)
    BY <2>1 DEF Submitted
  <2>9. CASE Raise(p, "DataIntegrityError", "closing") /\ UNCHANGED summary
    <3>1. Works(p)
      BY <1>4, <1>6, <2>1, <2>9 DEF ErrorClass, Handler
    <3>2. RowOK(r)' /\ RowFollows(r)
      BY <1>2, <1>6, <2>1, <2>9, LiveRowOK DEF RowFollows
    <3> QED BY <2>7, <3>1, <3>2 DEF Effect
  <2>10. CASE /\ Complete(job[p].expected, n) /\ Advance(p, "DONE")
              /\ summary' = [summary EXCEPT ![job[p].run] =
                               [@ EXCEPT !.expected = job[p].expected, !.actual = n]]
    <3>1. summary'[r] = [summary[r] EXCEPT !.expected = job[p].expected, !.actual = n]
      BY <1>0, <1>2, <2>10
    <3>2. /\ summary'[r].state = "none" /\ summary'[r].expected = job[p].expected
          /\ summary'[r].actual = n
      BY <1>2, <3>1 DEF Summary
    <3>3. Earned(r)'
      <4>1. job[p].expected \in {0, n}
        BY <2>10 DEF Complete
      <4>2. runs'[r].last = 7 /\ exports'[r] # "none" /\ runs'[r].tenant = job[p].tenant
        BY <1>2, <2>1, <2>2 DEF Submitted
      <4> QED BY <2>5, <3>2, <4>1, <4>2 DEF Earned
    <3>4. Works(p)
      BY <1>2, <2>1, <2>2, <2>8, <2>10, <3>2, <3>3, BreakFits
    <3>5. RowOK(r)' /\ RowFollows(r)
      BY <1>2, <1>6, <2>1, <3>2, LiveRowOK DEF RowFollows
    <3> QED BY <2>7, <3>4, <3>5 DEF Effect
  <2> QED BY <2>3, <2>9, <2>10
<1>16. CASE EndRun(p)
  <2>1. CASE Raise(p, "Unexpected", "failing") /\ UNCHANGED runs
    BY <1>4, <1>5, <1>6, <1>16, <2>1 DEF EndRun, ErrorClass, Handler
  <2>2. CASE /\ runs' = [runs EXCEPT ![job[p].run] =
                          [@ EXCEPT !.state = job[p].state, !.ended = TRUE]]
             /\ Goto(p, "auditing") /\ UNCHANGED job
    <3>1. PICK w : w = [runs[r] EXCEPT !.state = job[p].state, !.ended = TRUE]
      OBVIOUS
    <3>2. /\ w.state = job[p].state /\ w.last = runs[r].last /\ w.tenant = runs[r].tenant
          /\ w.ended = TRUE
      BY <1>2, <3>1, RowFields
    <3>3. runs' = [runs EXCEPT ![r] = w] /\ runs'[r] = w /\ UNCHANGED <<summary, portal>>
      BY <1>0, <1>2, <1>16, <2>2, <3>1 DEF EndRun
    <3>4. job'[p] = job[p] /\ pc'[p] = "auditing" /\ pc[p] = "ending"
      BY <1>0, <1>16, <2>2 DEF EndRun, Goto, TypeOK
    <3>5. job[p].state = "DONE"
      BY <1>0, <3>4 DEF JobInv, JobFits
    <3>6. /\ job[p].error # "SessionLocked" /\ Submitted(r)' = Submitted(r)
          /\ \/ runs[r].state \in {"QUERYING", "ARCHIVING"}
             \/ runs[r].state = "DOWNLOADING" /\ runs[r].last = 4 /\ ~Submitted(r)
      BY <1>2, <3>3, <3>4 DEF RowFits, Earning, Submitted, portal
    <3>7. Earned(r)'
      <4>1. Earned(r)
        BY <1>2, <3>4 DEF WorkFits, Earning
      <4> QED BY <3>2, <3>3, <4>1 DEF Earned, portal
    <3>8. RowFits("auditing", job[p], w, Submitted(r))
      BY <1>2, <3>2, <3>5, <3>6 DEF RowFits, Earning
    <3>9. Works(p)
      <4>1. ~Earning("auditing", job[p]) /\ "auditing" \notin Outside
        BY DEF Earning, Outside
      <4>2. WorkFits(p)'
        BY <1>2, <3>3, <3>4, <3>6, <3>8, <4>1 DEF WorkFits
      <4> QED BY <1>1, <3>4, <4>1, <4>2 DEF Works
    <3>10. RowOK(r)'
      BY <1>2, <3>2, <3>3, <3>5, <3>7 DEF RowOK, TerminalRunStates
    <3>11. RowFollows(r)
      BY <3>2, <3>3, <3>5, <3>6, TableMoves DEF RowFollows, Submitted
    <3> QED BY <1>7, <3>3, <3>9, <3>10, <3>11 DEF Effect
  <2> QED BY <1>16, <2>1, <2>2 DEF EndRun
<1>17. CASE AuditEnd(p)
  <2>1. /\ pc[p] = "auditing" /\ runs' = runs /\ UNCHANGED portal /\ job[p].state = "DONE"
        /\ runs[r].state = "DONE"
    BY <1>0, <1>2, <1>17 DEF AuditEnd, JobInv, JobFits, RowFits
  <2>2. CASE Fails /\ Raise(p, "Unexpected", "failing") /\ UNCHANGED summary
    <3>1. pc'[p] = "failing" /\ job'[p] = [job[p] EXCEPT !.error = "Unexpected"]
      BY <1>0, <1>1, <2>2, RaiseMoves DEF ErrorClass, Handler
    <3>2. job'[p].error = "Unexpected" /\ job'[p].run = r /\ job'[p].tenant = job[p].tenant
      BY <1>2, <3>1, RaisedFields DEF ErrorClass
    <3>3. Submitted(r)' = Submitted(r) /\ dbFaults' > 0
      BY <1>0, <2>1, <2>2, BoundsAreNat DEF Submitted, portal, Fails, TypeOK
    <3>4. RowFits("failing", job'[p], runs[r], Submitted(r)) /\ ~Earning("failing", job'[p])
      BY <1>2, <2>1, <3>2 DEF RowFits, Earning
    <3>5. WorkFits(p)'
      BY <1>2, <2>1, <2>2, <3>1, <3>2, <3>3, <3>4 DEF WorkFits
    <3>6. Works(p)
      BY <1>1, <3>1, <3>2, <3>5 DEF Works, Outside
    <3> QED BY <1>5, <2>1, <2>2, <3>6
  <2>3. CASE summary' = [summary EXCEPT ![job[p].run].state = job[p].state] /\ Exit(p)
    <3>1. summary'[r] = [summary[r] EXCEPT !.state = "DONE"]
      BY <1>0, <1>2, <2>1, <2>3
    <3>2. /\ summary'[r].state = "DONE" /\ summary'[r].expected = summary[r].expected
          /\ summary'[r].actual = summary[r].actual
      BY <1>2, <3>1 DEF Summary
    <3>3. \A s \in RunId : s # r => Same(s)
      BY <1>0, <2>1, <2>3 DEF Same, Submitted, portal
    <3>4. Earned(r)'
      <4>1. Earned(r)
        BY <1>2, <2>1 DEF RowOK
      <4> QED BY <2>1, <3>2, <4>1 DEF Earned, portal
    <3>5. RowOK(r)'
      BY <1>2, <2>1, <3>2, <3>4 DEF RowOK
    <3>6. RowFollows(r)
      BY <2>1 DEF RowFollows
    <3> QED BY <1>3, <2>3, <3>3, <3>5, <3>6 DEF Effect
  <2> QED BY <1>17, <2>2, <2>3 DEF AuditEnd
<1>18. CASE FailRun(p)
  <2>1. pc[p] = "failing" /\ Exit(p) /\ UNCHANGED portal
    BY <1>18 DEF FailRun
  <2>2. CASE UNCHANGED <<runs, summary>>
    BY <1>3, <1>5, <2>1, <2>2
  <2>3. CASE /\ runs' = [runs EXCEPT ![job[p].run] =
                          [@ EXCEPT !.state = "FAILED", !.error = job[p].error, !.ended = TRUE]]
             /\ summary' = [summary EXCEPT ![job[p].run].state = "FAILED"]
    <3>1. PICK w : w = [runs[r] EXCEPT !.state = "FAILED", !.error = job[p].error, !.ended = TRUE]
      OBVIOUS
    <3>2. w.state = "FAILED" /\ w.error = job[p].error /\ w.tenant = runs[r].tenant /\ w.ended = TRUE
      BY <1>2, <3>1, RowFields
    <3>3. runs'[r] = w /\ \A s \in RunId : s # r => runs'[s] = runs[s]
      BY <1>0, <1>2, <2>3, <3>1
    <3>4. summary'[r].state = "FAILED" /\ \A s \in RunId : s # r => summary'[s] = summary[s]
      <4>1. summary'[r] = [summary[r] EXCEPT !.state = "FAILED"]
        BY <1>0, <1>2, <2>3
      <4>2. summary'[r].state = "FAILED"
        BY <1>2, <4>1 DEF Summary
      <4> QED BY <1>0, <2>3, <4>2
    <3>5. \A s \in RunId : s # r => Same(s)
      BY <2>1, <3>3, <3>4 DEF Same, Submitted, portal
    <3>6. job[p].error # "none"
      BY <1>2, <2>1 DEF RowFits
    <3>7. RowOK(r)'
      BY <1>2, <3>2, <3>3, <3>4, <3>6 DEF RowOK, TerminalRunStates
    <3>8. RowFollows(r)
      <4>1. CASE runs[r].state \in Live
        BY <3>2, <3>3, <4>1, TableMoves DEF RowFollows
      <4>2. CASE runs[r].state = "DONE"
        <5>1. dbFaults > 0
          BY <1>2, <2>1, <4>2 DEF WorkFits
        <5> QED BY <1>2, <3>2, <3>3, <4>2, <5>1 DEF RowFollows
      <4> QED BY <1>2, <4>1, <4>2 DEF RowFits
    <3> QED BY <1>3, <2>1, <3>5, <3>7, <3>8 DEF Effect
  <2> QED BY <1>18, <2>2, <2>3 DEF FailRun
<1> QED BY <1>9, <1>10, <1>11, <1>12, <1>14, <1>15, <1>16, <1>17, <1>18

\* A run is created.
LEMMA CreateRows ==
  ASSUME IInv, LedgerInv, NEW p \in Worker, CreateRun(p), Moves(p)
  PROVE  /\ LedgerInv' /\ pc[p] = "idle" /\ pc'[p] = "created"
         /\ \E r \in RunId : /\ runs[r].state = "absent" /\ runs'[r].state = "PENDING"
                             /\ runs'[r].tenant \in Tenant /\ job'[p].run = r
                             /\ \A s \in RunId : s # r => runs'[s] = runs[s]
<1>0. /\ TypeOK /\ job \in [Worker -> Job] /\ runs \in [RunId -> Row] /\ dbFaults \in Nat
      /\ dbFaults' = dbFaults
  BY BoundsAreNat DEF IInv, TypeOK, CreateRun, budget
<1>1. PICK r \in RunId, t \in Tenant, d \in DryRun :
        /\ runs[r].state = "absent"
        /\ runs'  = [runs EXCEPT ![r] = [@ EXCEPT !.tenant = t, !.state = "PENDING"]]
        /\ audit' = [audit EXCEPT ![r] = {"RUN_START"}]
        /\ job'   = [job EXCEPT ![p] = [NoJob EXCEPT !.run = r, !.tenant = t, !.dry = d]]
  BY DEF CreateRun
<1>2. PICK n : n = [NoJob EXCEPT !.run = r, !.tenant = t, !.dry = d]
  OBVIOUS
<1>3. n.run = r /\ n.tenant = t /\ n.error = "none"
  BY <1>2 DEF NoJob
<1>4. PICK w : w = [runs[r] EXCEPT !.tenant = t, !.state = "PENDING"]
  OBVIOUS
<1>5. w.state = "PENDING" /\ w.tenant = t /\ w.ended = runs[r].ended
  <2>1. runs[r] \in Row
    BY <1>0
  <2> QED BY <1>4, <2>1 DEF Row
<1>6. /\ pc[p] = "idle" /\ pc'[p] = "created" /\ job'[p] = n /\ runs'[r] = w
      /\ UNCHANGED <<summary, portal>> /\ \A s \in RunId : s # r => runs'[s] = runs[s]
  BY <1>0, <1>1, <1>2, <1>4 DEF CreateRun, Goto, TypeOK
<1>7. RowOK(r) /\ Submitted(r)' = Submitted(r)
  BY <1>6 DEF LedgerInv, RowsInv, Submitted, portal
<1>8. ~Submitted(r) /\ summary[r].state = "none" /\ ~runs[r].ended
  BY <1>1, <1>7 DEF RowOK, TerminalRunStates
<1>9. \A s \in RunId : s # r => Same(s)
  BY <1>6 DEF Same, Submitted, portal
<1>10. \A s \in RunId : RowOK(s)'
  <2>1. RowOK(r)'
    BY <1>5, <1>6, <1>7, <1>8 DEF RowOK, TerminalRunStates
  <2>2. ASSUME NEW s \in RunId, s # r PROVE RowOK(s)'
    BY <1>9, <2>2, RowStays DEF LedgerInv, RowsInv
  <2> QED BY <2>1, <2>2
<1>11. WorkFits(p)'
  <2>1. "PENDING" \in Live
    BY DEF Live, RunState, TerminalRunStates
  <2>2. RowFits("created", n, w, Submitted(r)) /\ ~Earning("created", n)
    BY <1>3, <1>5, <1>8, <2>1 DEF RowFits, Earning
  <2> QED BY <1>3, <1>6, <1>7, <1>8, <2>2 DEF WorkFits
<1>12. ASSUME NEW q \in Worker, q # p, pc[q] \notin Outside
       PROVE  job[q].run # r /\ WorkFits(q)'
  <2>1. PICK s : s = job[q].run
    OBVIOUS
  <2>2. s \in RunId /\ WorkFits(q) /\ RowOK(s) /\ runs[s].state # "absent"
    BY <1>12, <2>1, AtWork
  <2>3. s # r /\ Same(s)
    BY <1>1, <1>9, <2>2
  <2>4. pc'[q] = pc[q] /\ job'[q] = job[q]
    BY <1>12 DEF Moves
  <2> QED BY <1>0, <2>1, <2>2, <2>3, <2>4, WorkStays
<1>13. \A q \in Worker : q # p => pc'[q] = pc[q] /\ job'[q] = job[q]
  BY DEF Moves
<1>14. WorkInv'
  <2>1. "created" \notin Outside
    BY DEF Outside
  <2> QED BY <1>6, <1>11, <1>12, <1>13, <2>1 DEF WorkInv, LedgerInv
<1>15. UniqueInv'
  BY <1>3, <1>6, <1>12, <1>13 DEF UniqueInv, LedgerInv, Outside
<1>16. LedgerInv'
  BY <1>10, <1>14, <1>15 DEF LedgerInv, RowsInv
<1> QED BY <1>1, <1>3, <1>5, <1>6, <1>16

-----------------------------------------------------------------------------
(***************************************************************************)
(* Every step.                                                             *)
(***************************************************************************)

\* What a worker can do, by its effect on the rows.
LEMMA WorkerActs ==
  ASSUME IInv, LedgerInv, NEW p \in Worker, NEW r, r = job[p].run,
         OpenLogin(p) \/ Proceed(p) \/ StepRaises(p) \/ Kill(p)
  PROVE  Effect(p, r)
BY StopActions, QuietActions, RowActions DEF Proceed

LEMMA FaultsGrow ==
  ASSUME TypeOK, TypeOK', [Next]_vars
  PROVE  /\ kills \in Nat /\ kills' \in Nat /\ kills' >= kills
         /\ dbFaults \in Nat /\ dbFaults' \in Nat /\ dbFaults' >= dbFaults
<1>1. kills \in Nat /\ kills' \in Nat /\ dbFaults \in Nat /\ dbFaults' \in Nat
  BY BoundsAreNat DEF TypeOK
<1>2. ASSUME NEW p \in Worker, Proceed(p) PROVE UNCHANGED kills /\ (UNCHANGED dbFaults \/ Fails)
  BY <1>2 DEF Proceed, Authenticate, Flock, MarkLocked, Launch, SaveStep, LoginCheck, MarkExpired,
     Navigate, FillQuery, SelectAndExport, FaceVerify, NeedsHuman, PromptHuman, WaitForHuman,
     PollExport, PollTimeout, Archive, CloseChrome, MarkValid, Unlock, EndRun, AuditEnd, FailRun,
     FinishLogin, CloseLogin, budget, Commits
<1>3. ASSUME NEW p \in Worker, CreateRun(p) \/ OpenLogin(p) \/ StepRaises(p) \/ Kill(p)
      PROVE  dbFaults' = dbFaults /\ (kills' = kills \/ kills' = kills + 1)
  BY <1>3 DEF CreateRun, OpenLogin, StepRaises, Kill, budget
<1>4. ASSUME NEW r \in RunId, BuildExport(r) PROVE UNCHANGED <<kills, dbFaults>>
  BY <1>4 DEF BuildExport, budget
<1>5. CASE UNCHANGED vars
  BY <1>1, <1>5 DEF vars, budget
<1> QED BY <1>1, <1>2, <1>3, <1>4, <1>5 DEF Next, Fails

LEMMA InitLedger == Init => LedgerInv
<1> SUFFICES ASSUME Init PROVE LedgerInv
  OBVIOUS
<1>1. \A p \in Worker : pc[p] = "idle" /\ job[p].run = None
  BY DEF Init, NoJob
<1>2. ASSUME NEW r \in RunId PROVE RowOK(r)
  <2>1. /\ runs[r].state = "absent" /\ runs[r].ended = FALSE /\ summary[r].state = "none"
        /\ exports[r] = "none"
    BY DEF Init, NoRow
  <2> QED BY <2>1 DEF RowOK, Submitted, TerminalRunStates
<1> QED BY <1>1, <1>2 DEF LedgerInv, WorkInv, UniqueInv, RowsInv, Outside

LEMMA NextRows ==
  ASSUME IInv, LedgerInv, [Next]_vars
  PROVE  LedgerInv' /\ \A s \in RunId : RowFollows(s)
<1>0. IInv' /\ dbFaults' >= dbFaults /\ dbFaults \in Nat /\ dbFaults' \in Nat
  <2>1. IInv'
    BY NextIInv
  <2> QED BY <2>1, FaultsGrow DEF IInv
<1>1. ASSUME NEW p \in Worker, CreateRun(p)
      PROVE  LedgerInv' /\ \A s \in RunId : RowFollows(s)
  <2>1. Moves(p)
    BY <1>1, WorkerStep DEF IInv
  <2> QED BY <1>1, <2>1, CreateRows DEF RowFollows
<1>2. ASSUME NEW p \in Worker, OpenLogin(p) \/ Proceed(p) \/ StepRaises(p) \/ Kill(p)
      PROVE  LedgerInv' /\ \A s \in RunId : RowFollows(s)
  <2>1. PICK r : r = job[p].run
    OBVIOUS
  <2>2. Effect(p, r)
    BY <1>2, <2>1, WorkerActs
  <2>3. Moves(p)
    BY <1>2, WorkerStep DEF IInv
  <2>4. LedgerInv'
    BY <1>0, <2>1, <2>2, <2>3, EffectKeeps
  <2>5. \A s \in RunId : RowFollows(s)
    BY <2>2 DEF Effect, Same, RowFollows
  <2> QED BY <2>4, <2>5
<1>3. CASE (\E r \in RunId : BuildExport(r)) \/ UNCHANGED vars
  <2>1. UNCHANGED <<pc, job, runs, summary, manifest>> /\ \A s \in RunId : Submitted(s)' <=> Submitted(s)
    <3>1. ASSUME NEW r \in RunId, BuildExport(r)
          PROVE  UNCHANGED <<pc, job, runs, summary, manifest>> /\ \A s \in RunId : Submitted(s)' <=> Submitted(s)
      <4>1. exports[r] = "building" /\ exports' = [exports EXCEPT ![r] = "ready"]
            /\ exports \in [RunId -> {"none", "building", "ready"}]
        BY <3>1 DEF BuildExport, IInv, TypeOK
      <4>2. \A s \in RunId : s # r => exports'[s] = exports[s]
        BY <4>1
      <4>3. exports'[r] = "ready"
        BY <4>1
      <4> QED BY <3>1, <4>1, <4>2, <4>3 DEF BuildExport, Submitted, ledger
    <3>2. CASE UNCHANGED vars
      BY <3>2 DEF vars, ledger, portal, Submitted
    <3> QED BY <1>3, <3>1, <3>2
  <2>2. \A s \in RunId : Same(s)
    BY <2>1 DEF Same
  <2>3. \A s \in RunId : RowOK(s)' /\ RowFollows(s)
    BY <2>1, <2>2, RowStays DEF LedgerInv, RowsInv, RowFollows
  <2>4. ASSUME NEW q \in Worker, pc[q] \notin Outside PROVE WorkFits(q)'
    <3>1. PICK s : s = job[q].run
      OBVIOUS
    <3>2. s \in RunId /\ WorkFits(q) /\ RowOK(s) /\ runs[s].state # "absent"
      BY <2>4, <3>1, AtWork
    <3> QED BY <1>0, <2>1, <2>2, <3>1, <3>2, WorkStays
  <2> QED BY <2>1, <2>3, <2>4 DEF LedgerInv, WorkInv, UniqueInv, RowsInv
<1> QED BY <1>1, <1>2, <1>3 DEF Next

LEMMA LedgerAlways == Spec => []LedgerInv
<1>1. IInv /\ LedgerInv /\ [Next]_vars => LedgerInv'
  BY NextRows
<1> QED BY <1>1, InitLedger, Invariance, PTL DEF Spec

-----------------------------------------------------------------------------
(***************************************************************************)
(* LockedRowIsHeld.  Without a kill or a failed transaction, a LOCKED row  *)
(* has a worker that still has to write VALID into it.                     *)
(***************************************************************************)

Inner == Holding \ {"unlocking"}

HeldInv ==
  kills + dbFaults = 0 =>
    \A t \in Tenant : sessions[t] = "LOCKED" =>
      \E q \in Worker : pc[q] \in Inner /\ job[q].tenant = t

\* A worker inside stays inside or gives the row back, and whoever locks a
\* row is inside.
Keeps(p) ==
  /\ pc[p] \in Inner => pc'[p] \in Inner \/ sessions'[job[p].tenant] # "LOCKED"
  /\ \A t \in Tenant : sessions'[t] = "LOCKED" /\ sessions[t] # "LOCKED" =>
       job[p].tenant = t /\ pc[p] \in Inner /\ pc'[p] \in Inner

LEMMA KeepsHeld ==
  ASSUME HeldInv, NEW p \in Worker, Moves(p), Keeps(p), kills' + dbFaults' = 0, kills + dbFaults = 0
  PROVE  HeldInv'
<1> SUFFICES ASSUME NEW t \in Tenant, sessions'[t] = "LOCKED"
             PROVE  \E q \in Worker : pc'[q] \in Inner /\ job'[q].tenant = t
  BY DEF HeldInv
<1>1. CASE sessions[t] = "LOCKED"
  <2>1. PICK q \in Worker : pc[q] \in Inner /\ job[q].tenant = t
    BY <1>1 DEF HeldInv
  <2>2. CASE q # p
    BY <2>1, <2>2 DEF Moves
  <2>3. CASE q = p
    <3>1. pc'[p] \in Inner /\ pc[p] # "idle" /\ pc'[p] # "idle"
      BY <2>1, <2>3 DEF Keeps, Inner, Holding, Driving
    <3> QED BY <2>1, <2>3, <3>1 DEF Moves
  <2> QED BY <2>2, <2>3
<1>2. CASE sessions[t] # "LOCKED"
  <2>1. job[p].tenant = t /\ pc[p] \in Inner /\ pc'[p] \in Inner
    BY <1>2 DEF Keeps
  <2>2. job'[p].tenant = t
    BY <2>1 DEF Moves, Inner, Holding, Driving
  <2> QED BY <2>1, <2>2
<1> QED BY <1>1, <1>2

\* The steps that write no session row.
LEMMA KeepsQuiet ==
  ASSUME NEW p \in Worker, UNCHANGED sessions, pc[p] \in Inner => pc'[p] \in Inner
  PROVE  Keeps(p)
BY DEF Keeps

\* The statements between launching Chrome and giving the row back.
LEMMA InsideStays ==
  ASSUME IInv, NEW p \in Worker,
         \/ Launch(p) \/ SaveStep(p) \/ LoginCheck(p) \/ Navigate(p) \/ FillQuery(p)
         \/ SelectAndExport(p) \/ FaceVerify(p) \/ NeedsHuman(p) \/ PromptHuman(p)
         \/ WaitForHuman(p) \/ PollExport(p) \/ PollTimeout(p) \/ Archive(p) \/ StepRaises(p)
         \/ CloseChrome(p)
  PROVE  pc[p] \in Inner /\ pc'[p] \in Inner
<1>0. pc \in [Worker -> Pc]
  BY DEF IInv, TypeOK
<1>1. \A l : Goto(p, l) => pc'[p] = l
  BY <1>0 DEF Goto
<1>2. \A e, l : Raise(p, e, l) => pc'[p] = l
  BY <1>1 DEF Raise
<1>3. \A s : Advance(p, s) => pc'[p] \in {"closing", "saving"}
  BY <1>1 DEF Advance
<1>4. pc'[p] \in {"saving", "acting", "expiring", "asking", "prompting", "waiting", "closing", "releasing"}
  <2>1. CASE Launch(p)
    BY <1>1, <1>2, <1>3, <2>1 DEF Launch
  <2>2. CASE SaveStep(p)
    BY <1>1, <1>2, <1>3, <2>2 DEF SaveStep
  <2>3. CASE LoginCheck(p)
    BY <1>1, <1>2, <1>3, <2>3 DEF LoginCheck
  <2>4. CASE Navigate(p)
    BY <1>1, <1>2, <1>3, <2>4 DEF Navigate
  <2>5. CASE FillQuery(p)
    BY <1>1, <1>2, <1>3, <2>5 DEF FillQuery
  <2>6. CASE SelectAndExport(p)
    BY <1>1, <1>2, <1>3, <2>6 DEF SelectAndExport
  <2>7. CASE FaceVerify(p)
    BY <1>1, <1>2, <1>3, <2>7 DEF FaceVerify
  <2>8. CASE NeedsHuman(p)
    BY <1>1, <1>2, <1>3, <2>8 DEF NeedsHuman
  <2>9. CASE PromptHuman(p)
    BY <1>1, <1>2, <1>3, <2>9 DEF PromptHuman
  <2>10. CASE WaitForHuman(p)
    BY <1>1, <1>2, <1>3, <2>10 DEF WaitForHuman
  <2>11. CASE PollExport(p)
    BY <1>1, <1>2, <1>3, <2>11 DEF PollExport
  <2>12. CASE PollTimeout(p)
    BY <1>1, <1>2, <1>3, <2>12 DEF PollTimeout
  <2>13. CASE Archive(p)
    BY <1>1, <1>2, <1>3, <2>13 DEF Archive
  <2>14. CASE StepRaises(p)
    BY <1>1, <1>2, <1>3, <2>14 DEF StepRaises
  <2>15. CASE CloseChrome(p)
    BY <1>1, <1>2, <1>3, <2>15 DEF CloseChrome
  <2> QED BY <2>1, <2>2, <2>3, <2>4, <2>5, <2>6, <2>7, <2>8, <2>9, <2>10, <2>11, <2>12, <2>13, <2>14, <2>15
<1>5. pc[p] \in Inner
  BY DEF Launch, SaveStep, LoginCheck, Navigate, FillQuery, SelectAndExport, FaceVerify, NeedsHuman,
     PromptHuman, WaitForHuman, PollExport, PollTimeout, Archive, StepRaises, CloseChrome, AtStep,
     Inner, Holding, Driving
<1> QED BY <1>4, <1>5 DEF Inner, Holding, Driving

LEMMA WorkerKeeps ==
  ASSUME IInv, NEW p \in Worker, ~Fails, kills' = kills,
         CreateRun(p) \/ OpenLogin(p) \/ Proceed(p) \/ StepRaises(p) \/ Kill(p)
  PROVE  Keeps(p)
<1>0. TypeOK /\ JobInv /\ sessions \in [Tenant -> SessionState \cup {"absent"}] /\ kills \in Nat
  BY BoundsAreNat DEF IInv, TypeOK
<1>1. CASE MarkLocked(p)
  <2>1. pc[p] = "marking" /\ pc'[p] = "launching" /\ MarkStatus(job[p].tenant, "LOCKED")
    BY <1>0, <1>1 DEF MarkLocked, Goto, TypeOK
  <2>2. \A t \in Tenant : t # job[p].tenant => sessions'[t] = sessions[t]
    BY <1>0, <2>1 DEF MarkStatus
  <2> QED BY <2>1, <2>2 DEF Keeps, Inner, Holding, Driving
<1>2. CASE MarkExpired(p)
  <2>1. pc[p] = "expiring" /\ pc'[p] = "closing" /\ MarkStatus(job[p].tenant, "EXPIRED")
    BY <1>0, <1>2 DEF MarkExpired, Raise, Goto, TypeOK
  <2>2. \A t \in Tenant : sessions'[t] # sessions[t] => sessions'[t] = "EXPIRED"
    BY <1>0, <2>1 DEF MarkStatus
  <2> QED BY <2>1, <2>2 DEF Keeps, Inner, Holding, Driving
<1>3. CASE MarkValid(p)
  <2>1. MarkStatus(job[p].tenant, "VALID") /\ job[p].tenant \in Tenant
    BY <1>0, <1>3 DEF MarkValid, JobInv, JobFits
  <2>2. \A t \in Tenant : sessions'[t] # sessions[t] => sessions'[t] = "VALID"
    BY <1>0, <2>1 DEF MarkStatus
  <2>3. sessions'[job[p].tenant] # "LOCKED"
    BY <1>0, <2>1 DEF MarkStatus
  <2> QED BY <2>2, <2>3 DEF Keeps
<1>4. CASE FinishLogin(p)
  <2>1. \A t \in Tenant : sessions'[t] # sessions[t] => sessions'[t] = "FRESH"
    BY <1>0, <1>4 DEF FinishLogin
  <2>2. pc[p] \notin Inner
    BY <1>4 DEF FinishLogin, Inner, Holding, Driving
  <2> QED BY <2>1, <2>2 DEF Keeps
<1>5. CASE Kill(p)
  BY <1>0, <1>5 DEF Kill
<1>6. CASE \/ CreateRun(p) \/ OpenLogin(p) \/ Authenticate(p) \/ Flock(p) \/ Unlock(p)
           \/ EndRun(p) \/ AuditEnd(p) \/ FailRun(p) \/ CloseLogin(p)
  <2>1. UNCHANGED sessions /\ pc[p] \notin Inner
    BY <1>6 DEF CreateRun, OpenLogin, Authenticate, Flock, Unlock, EndRun, AuditEnd, FailRun,
       CloseLogin, Inner, Holding, Driving
  <2> QED BY <2>1, KeepsQuiet
<1>7. CASE \/ Launch(p) \/ SaveStep(p) \/ LoginCheck(p) \/ Navigate(p) \/ FillQuery(p)
           \/ SelectAndExport(p) \/ FaceVerify(p) \/ NeedsHuman(p) \/ PromptHuman(p)
           \/ WaitForHuman(p) \/ PollExport(p) \/ PollTimeout(p) \/ Archive(p) \/ StepRaises(p)
           \/ CloseChrome(p)
  <2>1. UNCHANGED sessions
    BY <1>7 DEF Launch, SaveStep, LoginCheck, Navigate, FillQuery, SelectAndExport, FaceVerify,
       NeedsHuman, PromptHuman, WaitForHuman, PollExport, PollTimeout, Archive, StepRaises, CloseChrome
  <2>2. pc'[p] \in Inner
    BY <1>7, InsideStays
  <2> QED BY <2>1, <2>2, KeepsQuiet
<1> QED BY <1>1, <1>2, <1>3, <1>4, <1>5, <1>6, <1>7 DEF Proceed

LEMMA InitHeld == Init => HeldInv
BY DEF Init, HeldInv

LEMMA NextHeld ==
  ASSUME IInv, HeldInv, [Next]_vars
  PROVE  HeldInv'
<1>0. IInv'
  BY NextIInv
<1> SUFFICES ASSUME kills' + dbFaults' = 0 PROVE HeldInv'
  BY DEF HeldInv
<1>1. /\ kills \in Nat /\ kills' \in Nat /\ kills' >= kills
      /\ dbFaults \in Nat /\ dbFaults' \in Nat /\ dbFaults' >= dbFaults
  BY <1>0, FaultsGrow DEF IInv
<1>2. kills = 0 /\ kills' = 0 /\ dbFaults = 0 /\ dbFaults' = 0
  <2>1. ASSUME NEW a \in Nat, NEW b \in Nat, NEW c \in Nat, NEW d \in Nat, a >= b, c >= d, a + c = 0
        PROVE  a = 0 /\ b = 0 /\ c = 0 /\ d = 0
    BY <2>1
  <2> QED BY <1>1, <2>1
<1>3. ~Fails
  BY <1>2 DEF Fails
<1>4. ASSUME NEW p \in Worker, CreateRun(p) \/ OpenLogin(p) \/ Proceed(p) \/ StepRaises(p) \/ Kill(p)
      PROVE  HeldInv'
  <2>1. Keeps(p)
    BY <1>2, <1>3, <1>4, WorkerKeeps
  <2>2. Moves(p)
    BY <1>4, WorkerStep DEF IInv
  <2> QED BY <1>2, <2>1, <2>2, KeepsHeld
<1>5. CASE (\E r \in RunId : BuildExport(r)) \/ UNCHANGED vars
  <2>1. UNCHANGED <<pc, job, sessions, kills, dbFaults>>
    BY <1>5 DEF BuildExport, vars, budget
  <2> QED BY <2>1 DEF HeldInv
<1> QED BY <1>4, <1>5 DEF Next

-----------------------------------------------------------------------------
(***************************************************************************)
(* The invariants and the action property.                                 *)
(***************************************************************************)

\* Unless a process was killed or a transaction failed, a sessions row that
\* says LOCKED has a worker behind it that holds the tenant's flock.
THEOREM LockedIsHeld == Spec => []LockedRowIsHeld
<1>1. IInv /\ HeldInv /\ [Next]_vars => HeldInv'
  BY NextHeld
<1>2. IInv /\ HeldInv => LockedRowIsHeld
  <2> SUFFICES ASSUME IInv, HeldInv, kills + dbFaults = 0, NEW t \in Tenant, sessions[t] = "LOCKED"
               PROVE  lock[t] # None
    BY DEF LockedRowIsHeld
  <2>1. PICK q \in Worker : pc[q] \in Inner /\ job[q].tenant = t
    BY DEF HeldInv
  <2>2. lock[t] = q
    BY <2>1 DEF IInv, LockInv, Inner
  <2> QED BY <2>2, NoneIsFresh
<1> QED BY <1>1, <1>2, InitHeld, Invariance, PTL DEF Spec

\* What run_fetch returned to its caller is what the runs table says, ended_at
\* is set exactly on terminal rows, and a FAILED row names its error.
THEOREM ReportIsLedger == Spec => []ReportMatchesLedger
<1>1. LedgerInv => ReportMatchesLedger
  BY DEF LedgerInv, RowsInv, RowOK, ReportMatchesLedger
<1> QED BY <1>1, LedgerAlways, PTL

\* A DONE row is earned: by an empty query, by a dry run that submitted
\* nothing, or by a ZIP with the announced number of invoices.
THEOREM DoneEarned == Spec => []DoneIsEarned
<1>1. LedgerInv => DoneIsEarned
  BY DEF LedgerInv, RowsInv, RowOK, Earned, DoneIsEarned
<1> QED BY <1>1, LedgerAlways, PTL

\* The rows of runs follow _RUN_TRANSITIONS, but for the end of a dry run and
\* for a RUN_END record that cannot be written.
THEOREM RowsFollow == Spec => RowsFollowTable
<1>1. IInv /\ LedgerInv /\ [Next]_vars =>
        [\A r \in RunId : runs'[r].state # runs[r].state =>
          \/ runs[r].state = "absent" /\ runs'[r].state = "PENDING"
          \/ CanTransition(runs[r].state, runs'[r].state)
          \/ /\ runs[r].state = "DOWNLOADING" /\ runs'[r].state = "DONE"
             /\ runs[r].last = 4 /\ exports[r] = "none"
          \/ /\ runs[r].state = "DONE" /\ runs'[r].state = "FAILED"
             /\ dbFaults > 0 /\ summary[r].state = "none"]_runs
  BY NextRows DEF RowFollows
<1> QED BY <1>1, LedgerAlways, Invariance, PTL DEF Spec, RowsFollowTable

-----------------------------------------------------------------------------
(***************************************************************************)
(* The refinement of RunLifecycle.                                         *)
(***************************************************************************)

Stages == [r \in RunId |-> StageOf(r)]
Sites  == [r \in RunId |-> runs[r].tenant]

\* The stage of a run that is not over, by its worker.
Phase(l, e) ==
  IF l \in {"created", "locking"} THEN "open"
  ELSE IF l \in Holding THEN "inside"
  ELSE IF l = "failing" THEN (IF e = "SessionLocked" THEN "refused" ELSE "failing")
  ELSE "closing"

\* StageOf as an operator of the row, the workers' variables and the run.
StageFor(w, j, l, r) ==
  IF w.state = "absent" THEN "none"
  ELSE IF w.state \in TerminalRunStates THEN w.state
  ELSE IF {p \in Worker : j[p].run = r} = {} THEN "lost"
  ELSE LET p == CHOOSE q \in Worker : j[q].run = r
       IN  CASE l[p] \in {"created", "locking"} -> "open"
             [] l[p] \in Holding -> "inside"
             [] l[p] = "failing" -> IF j[p].error = "SessionLocked" THEN "refused" ELSE "failing"
             [] OTHER -> "closing"

Over(w) == w.state \in TerminalRunStates \cup {"absent"}

LEMMA StageOver ==
  ASSUME NEW w, NEW j, NEW l, NEW r, Over(w)
  PROVE  StageFor(w, j, l, r) = IF w.state = "absent" THEN "none" ELSE w.state
BY DEF StageFor, Over

LEMMA StageLost ==
  ASSUME NEW w, NEW j, NEW l, NEW r, ~Over(w), \A p \in Worker : j[p].run # r
  PROVE  StageFor(w, j, l, r) = "lost"
<1>1. {p \in Worker : j[p].run = r} = {}
  OBVIOUS
<1> QED BY <1>1 DEF StageFor, Over

LEMMA StageHeld ==
  ASSUME NEW w, NEW j, NEW l, NEW r, ~Over(w), NEW p \in Worker, j[p].run = r,
         \A q \in Worker : j[q].run = r => q = p
  PROVE  StageFor(w, j, l, r) = Phase(l[p], j[p].error)
<1>1. {q \in Worker : j[q].run = r} # {}
  OBVIOUS
<1>2. (CHOOSE q \in Worker : j[q].run = r) = p
  OBVIOUS
<1>3. StageFor(w, j, l, r) =
        CASE l[p] \in {"created", "locking"} -> "open"
          [] l[p] \in Holding -> "inside"
          [] l[p] = "failing" -> IF j[p].error = "SessionLocked" THEN "refused" ELSE "failing"
          [] OTHER -> "closing"
  BY <1>1, <1>2 DEF StageFor, Over
<1>4. CASE l[p] \in {"created", "locking"}
  <2>1. l[p] \notin Holding /\ l[p] # "failing"
    BY <1>4 DEF Holding, Driving
  <2> QED BY <1>3, <1>4, <2>1 DEF Phase
<1>5. CASE l[p] \in Holding
  <2>1. l[p] \notin {"created", "locking"} /\ l[p] # "failing"
    BY <1>5 DEF Holding, Driving
  <2> QED BY <1>3, <1>5, <2>1 DEF Phase
<1>6. CASE l[p] = "failing"
  <2>1. l[p] \notin {"created", "locking"} /\ l[p] \notin Holding
    BY <1>6 DEF Holding, Driving
  <2> QED BY <1>3, <1>6, <2>1 DEF Phase
<1>7. CASE l[p] \notin {"created", "locking", "failing"} /\ l[p] \notin Holding
  BY <1>3, <1>7 DEF Phase
<1> QED BY <1>4, <1>5, <1>6, <1>7

LEMMA StageIs ==
  ASSUME NEW r
  PROVE  StageOf(r) = StageFor(runs[r], job, pc, r) /\ StageOf(r)' = StageFor(runs'[r], job', pc', r)
BY DEF StageOf, StageFor, Owner

\* A run at work has one worker.
LEMMA OneWorker ==
  /\ LedgerInv => \A p, q \in Worker : job[p].run \in RunId /\ job[q].run = job[p].run => q = p
  /\ LedgerInv' => \A p, q \in Worker : job'[p].run \in RunId /\ job'[q].run = job'[p].run => q = p
BY NoneIsFresh DEF LedgerInv, WorkInv, UniqueInv

\* A run nobody touches stays at its stage.
LEMMA OthersStay ==
  ASSUME LedgerInv, LedgerInv', NEW p \in Worker, Moves(p), NEW s \in RunId, runs'[s] = runs[s],
         job[p].run # s, job'[p].run # s
  PROVE  StageOf(s)' = StageOf(s)
<1>1. CASE Over(runs[s])
  BY <1>1, StageIs, StageOver
<1>2. CASE ~Over(runs[s]) /\ \A q \in Worker : job[q].run # s
  <2>1. \A q \in Worker : job'[q].run # s
    BY <1>2 DEF Moves
  <2> QED BY <1>2, <2>1, StageIs, StageLost
<1>3. ASSUME ~Over(runs[s]), NEW q \in Worker, job[q].run = s
      PROVE  StageOf(s)' = StageOf(s)
  <2>1. q # p /\ pc'[q] = pc[q] /\ job'[q] = job[q]
    BY <1>3 DEF Moves
  <2>2. StageOf(s) = Phase(pc[q], job[q].error)
    <3>1. \A k \in Worker : job[k].run = s => k = q
      BY <1>3, OneWorker
    <3> QED BY <1>3, <3>1, StageIs, StageHeld
  <2>3. StageOf(s)' = Phase(pc'[q], job'[q].error)
    <3>1. job'[q].run = s
      BY <1>3, <2>1
    <3>2. \A k \in Worker : job'[k].run = s => k = q
      BY <3>1, OneWorker
    <3> QED BY <1>3, <3>1, <3>2, StageIs, StageHeld
  <2> QED BY <2>1, <2>2, <2>3
<1> QED BY <1>1, <1>2, <1>3

\* The stage of the run p works for.
LEMMA StageBefore ==
  ASSUME IInv, LedgerInv, NEW p \in Worker, pc[p] \notin Outside, NEW r, r = job[p].run
  PROVE  /\ r \in RunId
         /\ runs[r].state \in Live => StageOf(r) = Phase(pc[p], job[p].error)
         /\ runs[r].state \notin Live => StageOf(r) = "DONE" /\ pc[p] \in {"auditing", "failing"}
<1>1. r \in RunId /\ RowFits(pc[p], job[p], runs[r], Submitted(r))
  BY AtWork
<1>2. CASE runs[r].state \in Live
  <2>1. ~Over(runs[r])
    BY <1>2 DEF Over, Live, RunState
  <2>2. \A q \in Worker : job[q].run = r => q = p
    BY <1>1, OneWorker
  <2> QED BY <1>1, <1>2, <2>1, <2>2, StageIs, StageHeld
<1>3. CASE runs[r].state \notin Live
  <2>1. runs[r].state = "DONE" /\ pc[p] \in {"auditing", "failing"}
    BY <1>1, <1>3 DEF RowFits
  <2>2. Over(runs[r])
    BY <2>1 DEF Over, TerminalRunStates
  <2>3. StageOf(r) = "DONE"
    BY <2>1, <2>2, StageIs, StageOver
  <2> QED BY <1>1, <1>3, <2>1, <2>3
<1> QED BY <1>2, <1>3

LEMMA StageAfter ==
  ASSUME LedgerInv', NEW p \in Worker, NEW r \in RunId, r = job[p].run, Works(p)
  PROVE  /\ runs'[r].tenant = job'[p].tenant
         /\ runs'[r].state \in Live => StageOf(r)' = Phase(pc'[p], job'[p].error)
         /\ runs'[r].state \notin Live => StageOf(r)' = "DONE" /\ pc'[p] \in {"auditing", "failing"}
<1>1. job'[p].run = r /\ RowFits(pc'[p], job'[p], runs'[r], Submitted(r)')
  BY DEF Works, WorkFits
<1>2. CASE runs'[r].state \in Live
  <2>1. ~Over(runs'[r])
    BY <1>2 DEF Over, Live, RunState
  <2>2. \A q \in Worker : job'[q].run = r => q = p
    BY <1>1, OneWorker
  <2> QED BY <1>1, <1>2, <2>1, <2>2, StageIs, StageHeld DEF RowFits
<1>3. CASE runs'[r].state \notin Live
  <2>1. runs'[r].state = "DONE" /\ pc'[p] \in {"auditing", "failing"}
    BY <1>1, <1>3 DEF RowFits
  <2>2. Over(runs'[r])
    BY <2>1 DEF Over, TerminalRunStates
  <2>3. StageOf(r)' = "DONE"
    BY <2>1, <2>2, StageIs, StageOver
  <2> QED BY <1>1, <1>3, <2>1, <2>3 DEF RowFits
<1> QED BY <1>2, <1>3

LEMMA StageStopped ==
  ASSUME LedgerInv', NEW p \in Worker, Moves(p), NEW r \in RunId, r = job[p].run, LedgerInv, Stops(p)
  PROVE  /\ ~Over(runs'[r]) => StageOf(r)' = "lost"
         /\ Over(runs'[r]) => StageOf(r)' = IF runs'[r].state = "absent" THEN "none" ELSE runs'[r].state
<1>1. \A q \in Worker : job'[q].run # r
  <2>1. None # r
    BY NoneIsFresh
  <2>2. job'[p].run # r
    BY <2>1 DEF Stops
  <2>3. ASSUME NEW q \in Worker, q # p PROVE job'[q].run # r
    BY <2>3, OneWorker DEF Moves
  <2> QED BY <2>2, <2>3
<1>2. ~Over(runs'[r]) => StageOf(r)' = "lost"
  BY <1>1, StageIs, StageLost
<1> QED BY <1>2, StageIs, StageOver

\* What the step of a worker at work is for its run.
Turn(p, r) ==
  \/ pc[p] \in Holding /\ pc'[p] \in Holding
  \/ pc[p] = "created" /\ pc'[p] = "locking"
  \/ pc[p] = "locking" /\ pc'[p] = "marking" /\ lock[job[p].tenant] = None
  \/ /\ pc[p] = "locking" /\ pc'[p] = "failing" /\ lock[job[p].tenant] # None
     /\ job'[p].error = "SessionLocked" /\ runs'[r] = runs[r]
  \/ /\ pc[p] \in {"locking", "unlocking"} /\ pc'[p] = "failing"
     /\ job'[p].error # "SessionLocked" /\ runs'[r] = runs[r]
  \/ pc[p] = "unlocking" /\ pc'[p] = "ending" /\ runs'[r] = runs[r]
  \/ pc[p] = "ending" /\ (pc'[p] = "auditing" \/ (pc'[p] = "failing" /\ job'[p].error = "Unexpected"))
  \/ pc[p] = "auditing" /\ pc'[p] = "failing" /\ runs'[r] = runs[r]

Halt(p, r) ==
  \/ runs'[r] = runs[r]
  \/ pc[p] = "failing" /\ runs'[r].state = "FAILED" /\ runs'[r].tenant = runs[r].tenant

LEMMA WorkerTurns ==
  ASSUME IInv, LedgerInv, NEW p \in Worker, pc[p] \notin Outside, NEW r, r = job[p].run,
         OpenLogin(p) \/ Proceed(p) \/ StepRaises(p) \/ Kill(p)
  PROVE  Turn(p, r) \/ (pc'[p] \in Outside /\ Halt(p, r))
<1>0. pc \in [Worker -> Pc] /\ job \in [Worker -> Job] /\ runs \in [RunId -> Row] /\ r \in RunId
  BY AtWork DEF IInv, TypeOK
<1>1. \A l : Goto(p, l) => pc'[p] = l
  BY <1>0 DEF Goto
<1>2. \A e \in ErrorClass : \A l : Raise(p, e, l) => pc'[p] = l /\ job'[p].error = e
  <2> SUFFICES ASSUME NEW e \in ErrorClass, NEW l, Raise(p, e, l) PROVE pc'[p] = l /\ job'[p].error = e
    OBVIOUS
  <2>1. pc'[p] = l
    BY <1>1 DEF Raise
  <2>2. job'[p] = [job[p] EXCEPT !.error = e] /\ job[p] \in Job
    BY <1>0 DEF Raise
  <2> QED BY <2>1, <2>2, RaisedFields
<1>3. "SessionLocked" \in ErrorClass /\ "Unexpected" \in ErrorClass /\ "SessionExpired" \in ErrorClass
  BY DEF ErrorClass
<1>4. Exit(p) => pc'[p] \in Outside
  BY <1>1 DEF Exit, Outside
<1>5. CASE Authenticate(p)
  BY <1>1, <1>4, <1>5 DEF Authenticate, Turn, Halt
<1>6. CASE Flock(p)
  <2>1. runs' = runs /\ pc[p] = "locking"
    BY <1>6 DEF Flock, ledger
  <2>2. CASE Granted(job[p].tenant) /\ Goto(p, "marking")
    BY <1>1, <2>1, <2>2 DEF Granted, Turn
  <2>3. CASE ~Granted(job[p].tenant) /\ Raise(p, "SessionLocked", "failing")
    BY <1>2, <1>3, <2>1, <2>3 DEF Granted, Turn
  <2>4. CASE Raise(p, "Unexpected", "failing")
    BY <1>2, <1>3, <2>1, <2>4 DEF Turn
  <2> QED BY <1>6, <2>2, <2>3, <2>4 DEF Flock
<1>7. CASE MarkLocked(p) \/ MarkExpired(p) \/ MarkValid(p)
  <2>1. pc[p] \in Holding
    BY <1>7 DEF MarkLocked, MarkExpired, MarkValid, Holding, Driving
  <2>2. pc'[p] \in {"launching", "unlocking", "closing", "releasing"}
    BY <1>1, <1>2, <1>3, <1>7 DEF MarkLocked, MarkExpired, MarkValid
  <2>3. pc'[p] \in Holding
    BY <2>2 DEF Holding, Driving
  <2> QED BY <2>1, <2>3 DEF Turn
<1>8. CASE \/ Launch(p) \/ SaveStep(p) \/ LoginCheck(p) \/ Navigate(p) \/ FillQuery(p)
           \/ SelectAndExport(p) \/ FaceVerify(p) \/ NeedsHuman(p) \/ PromptHuman(p)
           \/ WaitForHuman(p) \/ PollExport(p) \/ PollTimeout(p) \/ Archive(p) \/ StepRaises(p)
           \/ CloseChrome(p)
  <2>1. pc[p] \in Inner /\ pc'[p] \in Inner
    BY <1>8, InsideStays
  <2> QED BY <2>1 DEF Turn, Inner
<1>9. CASE Unlock(p)
  <2>1. pc[p] = "unlocking" /\ runs' = runs
    BY <1>9 DEF Unlock, ledger
  <2>2. CASE Raise(p, "Unexpected", "failing")
    BY <1>2, <1>3, <2>1, <2>2 DEF Turn
  <2>3. CASE Goto(p, IF job[p].error = "none" THEN "ending" ELSE "failing") /\ UNCHANGED job
    <3>1. job[p].error # "SessionLocked"
      BY <2>1, AtWork DEF RowFits
    <3>2. pc'[p] = "ending" \/ pc'[p] = "failing"
      BY <1>1, <2>3
    <3> QED BY <2>1, <2>3, <3>1, <3>2 DEF Turn
  <2> QED BY <1>9, <2>2, <2>3 DEF Unlock
<1>10. CASE EndRun(p)
  <2>1. pc[p] = "ending"
    BY <1>10 DEF EndRun
  <2>2. CASE Goto(p, "auditing")
    <3>1. pc'[p] = "auditing"
      BY <1>1, <2>2
    <3> QED BY <2>1, <3>1 DEF Turn
  <2>3. CASE Raise(p, "Unexpected", "failing")
    <3>1. pc'[p] = "failing" /\ job'[p].error = "Unexpected"
      BY <1>2, <1>3, <2>3
    <3> QED BY <2>1, <3>1 DEF Turn
  <2> QED BY <1>10, <2>2, <2>3 DEF EndRun
<1>11. CASE AuditEnd(p)
  <2>1. runs' = runs
    BY <1>11 DEF AuditEnd
  <2> QED BY <1>2, <1>3, <1>4, <1>11, <2>1 DEF AuditEnd, Turn, Halt
<1>12. CASE FailRun(p)
  <2>1. pc[p] = "failing" /\ pc'[p] \in Outside
    BY <1>4, <1>12 DEF FailRun
  <2>2. CASE runs' = runs
    BY <2>1, <2>2 DEF Halt
  <2>3. CASE runs' = [runs EXCEPT ![job[p].run] =
                        [@ EXCEPT !.state = "FAILED", !.error = job[p].error, !.ended = TRUE]]
    <3>1. PICK w : w = [runs[r] EXCEPT !.state = "FAILED", !.error = job[p].error, !.ended = TRUE]
      OBVIOUS
    <3>2. w.state = "FAILED" /\ w.tenant = runs[r].tenant
      <4>1. runs[r] \in Row
        BY <1>0
      <4> QED BY <3>1, <4>1 DEF Row
    <3>3. runs'[r] = w
      BY <1>0, <2>3, <3>1
    <3> QED BY <2>1, <3>2, <3>3 DEF Halt
  <2> QED BY <1>12, <2>2, <2>3 DEF FailRun
<1>13. CASE Kill(p)
  BY <1>4, <1>13 DEF Kill, ledger, Halt
<1>14. CASE OpenLogin(p) \/ FinishLogin(p) \/ CloseLogin(p)
  BY <1>14 DEF OpenLogin, FinishLogin, CloseLogin, Outside
<1> QED BY <1>5, <1>6, <1>7, <1>8, <1>9, <1>10, <1>11, <1>12, <1>13, <1>14 DEF Proceed

LifeStays == UNCHANGED <<Stages, Sites>>

\* The moves of one run between the stages of the lifecycle.
LEMMA RunMoves ==
  ASSUME NEW r \in RunId, NEW s, StageOf(r)' = s, UNCHANGED Sites,
         \A q \in RunId : q # r => StageOf(q)' = StageOf(q),
         \/ StageOf(r) = s
         \/ /\ StageOf(r) = "open" /\ s = "inside"
            /\ \A q \in RunId : ~(StageOf(q) = "inside" /\ runs[q].tenant = runs[r].tenant)
         \/ /\ StageOf(r) = "open" /\ s = "refused"
            /\ \E q \in RunId : StageOf(q) = "inside" /\ runs[q].tenant = runs[r].tenant
         \/ StageOf(r) = "inside" /\ s = "closing"
         \/ StageOf(r) \in {"open", "inside", "closing"} /\ s = "failing"
         \/ StageOf(r) = "closing" /\ s = "DONE"
         \/ StageOf(r) \in {"refused", "failing", "DONE"} /\ s = "FAILED"
         \/ StageOf(r) \in {"open", "refused", "inside", "closing", "failing"} /\ s = "lost"
  PROVE  Lifecycle!Next \/ LifeStays
<1>1. Stages' = [Stages EXCEPT ![r] = s]
  BY DEF Stages
<1>2. Stages[r] = StageOf(r) /\ Sites[r] = runs[r].tenant
  BY DEF Stages, Sites
<1>3. CASE StageOf(r) = s
  BY <1>3 DEF LifeStays, Stages
<1>4. ASSUME \/ Lifecycle!Enter(r) \/ Lifecycle!Refuse(r) \/ Lifecycle!Leave(r)
             \/ Lifecycle!Break(r) \/ Lifecycle!Close(r) \/ Lifecycle!Lose(r),
             StageOf(r) # s
      PROVE  Lifecycle!Next
  <2>1. Stages' # Stages
    BY <1>1, <1>2, <1>4 DEF Stages
  <2> QED BY <1>4, <2>1 DEF Lifecycle!Next, Stages
<1>5. CASE /\ StageOf(r) = "open" /\ s = "inside"
           /\ \A q \in RunId : ~(StageOf(q) = "inside" /\ runs[q].tenant = runs[r].tenant)
  <2>1. Lifecycle!Inside(Sites[r]) = {}
    BY <1>2, <1>5 DEF Lifecycle!Inside
  <2>2. Lifecycle!Enter(r)
    BY <1>1, <1>2, <1>5, <2>1 DEF Lifecycle!Enter, Stages, Sites
  <2> QED BY <1>4, <1>5, <2>2
<1>6. CASE /\ StageOf(r) = "open" /\ s = "refused"
           /\ \E q \in RunId : StageOf(q) = "inside" /\ runs[q].tenant = runs[r].tenant
  <2>1. Lifecycle!Inside(Sites[r]) # {}
    BY <1>2, <1>6 DEF Lifecycle!Inside
  <2>2. Lifecycle!Refuse(r)
    BY <1>1, <1>2, <1>6, <2>1 DEF Lifecycle!Refuse, Stages, Sites
  <2> QED BY <1>4, <1>6, <2>2
<1>7. CASE StageOf(r) = "inside" /\ s = "closing"
  <2>1. Lifecycle!Leave(r)
    BY <1>1, <1>2, <1>7 DEF Lifecycle!Leave, Stages, Sites
  <2> QED BY <1>4, <1>7, <2>1
<1>8. CASE \/ StageOf(r) = "closing" /\ s = "DONE"
           \/ StageOf(r) \in {"refused", "failing", "DONE"} /\ s = "FAILED"
  <2>1. Lifecycle!Close(r)
    BY <1>1, <1>2, <1>8 DEF Lifecycle!Close, Stages, Sites
  <2> QED BY <1>3, <1>4, <2>1
<1>9. CASE StageOf(r) \in {"open", "refused", "inside", "closing", "failing"} /\ s = "lost"
  <2>1. Lifecycle!Lose(r)
    BY <1>1, <1>2, <1>9 DEF Lifecycle!Lose, Stages, Sites
  <2> QED BY <1>4, <1>9, <2>1
<1>10. CASE StageOf(r) \in {"open", "inside", "closing"} /\ s = "failing"
  <2>1. Lifecycle!Break(r)
    BY <1>1, <1>2, <1>10 DEF Lifecycle!Break, Stages, Sites
  <2> QED BY <1>4, <1>10, <2>1
<1> QED BY <1>3, <1>5, <1>6, <1>7, <1>8, <1>9, <1>10

\* A run that is inside has a worker that holds the session, and the other way
\* round.
LEMMA HeldInside ==
  ASSUME IInv, LedgerInv, NEW k \in Worker, pc[k] \in Holding
  PROVE  \E q \in RunId : StageOf(q) = "inside" /\ runs[q].tenant = job[k].tenant
<1>1. pc[k] \notin Outside
  BY DEF Outside, Holding, Driving
<1>2. PICK q : q = job[k].run
  OBVIOUS
<1>3. q \in RunId /\ RowFits(pc[k], job[k], runs[q], Submitted(q))
  BY <1>1, <1>2, AtWork
<1>4. /\ runs[q].state \in Live => StageOf(q) = Phase(pc[k], job[k].error)
      /\ runs[q].state \notin Live => pc[k] \in {"auditing", "failing"}
  BY <1>1, <1>2, StageBefore
<1>5. StageOf(q) = "inside"
  BY <1>4 DEF Phase, Holding, Driving
<1> QED BY <1>3, <1>5 DEF RowFits

LEMMA InsideHeld ==
  ASSUME IInv, LedgerInv, NEW q \in RunId, StageOf(q) = "inside"
  PROVE  \E k \in Worker : pc[k] \in Holding /\ job[k].tenant = runs[q].tenant
<1>1. ~Over(runs[q])
  BY StageIs, StageOver DEF Over, TerminalRunStates
<1>2. PICK k \in Worker : job[k].run = q
  BY <1>1, StageIs, StageLost
<1>3. pc[k] \notin Outside
  BY <1>2, NoneIsFresh DEF LedgerInv, WorkInv
<1>4. RowFits(pc[k], job[k], runs[q], Submitted(q)) /\ StageOf(q) = Phase(pc[k], job[k].error)
  BY <1>1, <1>2, <1>3, AtWork, StageBefore
<1> QED BY <1>4 DEF RowFits, Phase

\* A worker at work moves its run along the lifecycle.
LEMMA WorkerLives ==
  ASSUME IInv, LedgerInv, IInv', LedgerInv', NEW p \in Worker, pc[p] \notin Outside, NEW r, r = job[p].run,
         OpenLogin(p) \/ Proceed(p) \/ StepRaises(p) \/ Kill(p), Moves(p), Effect(p, r)
  PROVE  Lifecycle!Next \/ LifeStays
<1>1. /\ r \in RunId /\ job[p].tenant \in Tenant /\ runs[r].state # "absent"
      /\ RowFits(pc[p], job[p], runs[r], Submitted(r))
  BY AtWork
<1>2. runs[r].tenant = job[p].tenant /\ (pc[p] # "failing" => job[p].error # "SessionLocked")
      /\ (runs[r].state \in Live \/ runs[r].state = "DONE") /\ (pc[p] = "auditing" => runs[r].state = "DONE")
  BY <1>1 DEF RowFits
<1>3. /\ runs[r].state \in Live => StageOf(r) = Phase(pc[p], job[p].error)
      /\ runs[r].state \notin Live => StageOf(r) = "DONE" /\ pc[p] \in {"auditing", "failing"}
  BY StageBefore
<1>4. \A q \in RunId : q # r => runs'[q] = runs[q]
  BY DEF Effect, Same
<1>5. job'[p].run = r \/ job'[p].run = None
  BY DEF Effect, Works, Stops
<1>6. \A q \in RunId : q # r => StageOf(q)' = StageOf(q)
  <2> SUFFICES ASSUME NEW q \in RunId, q # r PROVE StageOf(q)' = StageOf(q)
    OBVIOUS
  <2>1. q # None
    BY NoneIsFresh
  <2> QED BY <1>4, <1>5, <2>1, OthersStay
<1>7. Turn(p, r) \/ (pc'[p] \in Outside /\ Halt(p, r))
  BY WorkerTurns
<1>8. CASE pc'[p] \in Outside /\ Halt(p, r)
  <2>1. Stops(p)
    BY <1>8 DEF Effect, Works
  <2>2. UNCHANGED Sites
    BY <1>4, <1>8 DEF Sites, Halt
  <2>3. /\ ~Over(runs'[r]) => StageOf(r)' = "lost"
        /\ Over(runs'[r]) => StageOf(r)' = IF runs'[r].state = "absent" THEN "none" ELSE runs'[r].state
    BY <1>1, <2>1, StageStopped
  <2>5. CASE runs'[r] = runs[r] /\ runs[r].state \in Live
    <3>1. StageOf(r)' = "lost"
      BY <2>3, <2>5 DEF Over, Live, RunState
    <3>2. StageOf(r) \in {"open", "inside", "refused", "closing", "failing"}
      BY <1>3, <2>5 DEF Phase
    <3> QED BY <1>1, <1>6, <2>2, <3>1, <3>2, RunMoves
  <2>6. CASE runs'[r] = runs[r] /\ runs[r].state = "DONE"
    <3>1. StageOf(r)' = "DONE" /\ StageOf(r) = "DONE"
      BY <1>3, <2>3, <2>6 DEF Over, Live, TerminalRunStates
    <3> QED BY <1>1, <1>6, <2>2, <3>1, RunMoves
  <2>7. CASE pc[p] = "failing" /\ runs'[r].state = "FAILED"
    <3>1. StageOf(r)' = "FAILED"
      BY <2>3, <2>7 DEF Over, TerminalRunStates
    <3>2. StageOf(r) \in {"failing", "refused", "DONE"}
      BY <1>3, <2>7 DEF Phase, Holding, Driving
    <3> QED BY <1>1, <1>6, <2>2, <3>1, <3>2, RunMoves
  <2> QED BY <1>2, <1>8, <2>5, <2>6, <2>7 DEF Halt
<1>9. CASE Turn(p, r)
  <2>1. pc[p] \notin {"idle"} /\ pc'[p] \notin Outside
    BY <1>9 DEF Turn, Outside, Holding, Driving
  <2>2. Works(p)
    <3>1. Stops(p) => pc'[p] \in Outside
      BY DEF Stops
    <3> QED BY <2>1, <3>1 DEF Effect
  <2>3. /\ runs'[r].tenant = job'[p].tenant
        /\ runs'[r].state \in Live => StageOf(r)' = Phase(pc'[p], job'[p].error)
        /\ runs'[r].state \notin Live => StageOf(r)' = "DONE" /\ pc'[p] \in {"auditing", "failing"}
    BY <1>1, <2>2, StageAfter
  <2>4. job'[p].tenant = job[p].tenant
    BY <2>1 DEF Moves, Outside
  <2>5. UNCHANGED Sites
    BY <1>2, <1>4, <2>3, <2>4 DEF Sites
  <2>6. CASE pc[p] \in Holding /\ pc'[p] \in Holding
    <3>1. StageOf(r) = "inside" /\ StageOf(r)' = "inside"
      BY <1>3, <2>3, <2>6 DEF Phase, Holding, Driving
    <3> QED BY <1>1, <1>6, <2>5, <3>1, RunMoves
  <2>7. CASE pc[p] = "created" /\ pc'[p] = "locking"
    <3>1. StageOf(r) = "open" /\ StageOf(r)' = "open"
      BY <1>3, <2>3, <2>7 DEF Phase
    <3> QED BY <1>1, <1>6, <2>5, <3>1, RunMoves
  <2>8. CASE pc[p] = "locking" /\ pc'[p] = "marking" /\ lock[job[p].tenant] = None
    <3>1. StageOf(r) = "open" /\ StageOf(r)' = "inside"
      BY <1>3, <2>3, <2>8 DEF Phase, Holding
    <3>2. ASSUME NEW q \in RunId, StageOf(q) = "inside", runs[q].tenant = runs[r].tenant PROVE FALSE
      <4>1. PICK k \in Worker : pc[k] \in Holding /\ job[k].tenant = runs[q].tenant
        BY <3>2, InsideHeld
      <4>2. lock[job[p].tenant] = k
        BY <1>1, <1>2, <3>2, <4>1 DEF IInv, LockInv
      <4> QED BY <2>8, <4>2, NoneIsFresh
    <3> QED BY <1>1, <1>6, <2>5, <3>1, <3>2, RunMoves
  <2>9. CASE /\ pc[p] = "locking" /\ pc'[p] = "failing" /\ lock[job[p].tenant] # None
             /\ job'[p].error = "SessionLocked" /\ runs'[r] = runs[r]
    <3>1. StageOf(r) = "open" /\ StageOf(r)' = "refused"
      BY <1>3, <2>3, <2>9 DEF Phase, Holding, Driving
    <3>2. PICK k : k = lock[job[p].tenant]
      OBVIOUS
    <3>3. k \in Worker
      BY <1>1, <2>9, <3>2 DEF IInv, TypeOK
    <3>4. pc[k] \in Holding /\ job[k].tenant = job[p].tenant
      BY <1>1, <3>2, <3>3 DEF IInv, LockInv
    <3>5. \E q \in RunId : StageOf(q) = "inside" /\ runs[q].tenant = runs[r].tenant
      <4>1. \E q \in RunId : StageOf(q) = "inside" /\ runs[q].tenant = job[k].tenant
        BY <3>3, <3>4, HeldInside
      <4> QED BY <1>2, <3>4, <4>1
    <3> QED BY <1>1, <1>6, <2>5, <3>1, <3>5, RunMoves
  <2>10. CASE pc[p] = "unlocking" /\ pc'[p] = "ending" /\ runs'[r] = runs[r]
    <3>1. StageOf(r) = "inside" /\ StageOf(r)' = "closing"
      BY <1>3, <2>3, <2>10 DEF Phase, Holding, Driving
    <3> QED BY <1>1, <1>6, <2>5, <3>1, RunMoves
  <2>11. CASE pc[p] = "ending" /\ (pc'[p] = "auditing" \/ (pc'[p] = "failing" /\ job'[p].error = "Unexpected"))
    <3>1. StageOf(r) = "closing"
      BY <1>3, <2>11 DEF Phase, Holding, Driving
    <3>2. StageOf(r)' \in {"closing", "failing", "DONE"}
      BY <2>3, <2>11 DEF Phase, Holding, Driving
    <3> QED BY <1>1, <1>6, <2>5, <3>1, <3>2, RunMoves
  <2>12. CASE pc[p] = "auditing" /\ pc'[p] = "failing" /\ runs'[r] = runs[r]
    <3>1. StageOf(r) = "DONE" /\ StageOf(r)' = "DONE"
      BY <1>2, <1>3, <2>3, <2>12 DEF Live, TerminalRunStates
    <3> QED BY <1>1, <1>6, <2>5, <3>1, RunMoves
  <2>13. CASE /\ pc[p] \in {"locking", "unlocking"} /\ pc'[p] = "failing"
              /\ job'[p].error # "SessionLocked" /\ runs'[r] = runs[r]
    <3>1. StageOf(r) \in {"open", "inside"}
      BY <1>3, <2>13 DEF Phase, Holding
    <3>2. StageOf(r)' = "failing"
      BY <1>3, <2>3, <2>13 DEF Phase, Holding, Driving
    <3> QED BY <1>1, <1>6, <2>5, <3>1, <3>2, RunMoves
  <2> QED BY <1>9, <2>6, <2>7, <2>8, <2>9, <2>10, <2>11, <2>12, <2>13 DEF Turn
<1> QED BY <1>7, <1>8, <1>9

\* A created run is opened.
LEMMA CreateLives ==
  ASSUME IInv, LedgerInv, LedgerInv', NEW p \in Worker, CreateRun(p), Moves(p)
  PROVE  Lifecycle!Next
<1>1. pc[p] = "idle" /\ pc'[p] = "created"
  BY CreateRows
<1>2. PICK r \in RunId :
        /\ runs[r].state = "absent" /\ runs'[r].state = "PENDING" /\ runs'[r].tenant \in Tenant
        /\ job'[p].run = r /\ \A s \in RunId : s # r => runs'[s] = runs[s]
  BY CreateRows
<1>3. job[p].run = None
  BY <1>1 DEF LedgerInv, WorkInv, Outside
<1>4. StageOf(r) = "none"
  BY <1>2, StageIs, StageOver DEF Over
<1>5. StageOf(r)' = "open"
  <2>1. \A q \in Worker : job'[q].run = r => q = p
    BY <1>2, OneWorker
  <2>2. ~Over(runs'[r])
    BY <1>2 DEF Over, TerminalRunStates
  <2>3. StageOf(r)' = Phase(pc'[p], job'[p].error)
    BY <1>2, <2>1, <2>2, StageIs, StageHeld
  <2> QED BY <1>1, <2>3 DEF Phase
<1>6. \A q \in RunId : q # r => StageOf(q)' = StageOf(q)
  <2> SUFFICES ASSUME NEW q \in RunId, q # r PROVE StageOf(q)' = StageOf(q)
    OBVIOUS
  <2>1. q # None
    BY NoneIsFresh
  <2> QED BY <1>2, <1>3, <2>1, OthersStay
<1>7. Stages' = [Stages EXCEPT ![r] = "open"] /\ Stages[r] = "none" /\ Stages' # Stages
  <2>1. Stages[r] = "none" /\ Stages'[r] = "open"
    BY <1>4, <1>5 DEF Stages
  <2>2. Stages' = [Stages EXCEPT ![r] = "open"]
    BY <1>5, <1>6 DEF Stages
  <2> QED BY <2>1, <2>2
<1>8. Sites' = [Sites EXCEPT ![r] = runs'[r].tenant]
  BY <1>2 DEF Sites
<1>9. Lifecycle!Open(r)
  <2>1. \E t \in Tenant : Sites' = [Sites EXCEPT ![r] = t]
    BY <1>2, <1>8
  <2> QED BY <1>7, <2>1 DEF Lifecycle!Open, Stages, Sites
<1> QED BY <1>7, <1>9 DEF Lifecycle!Next, Stages

LEMMA InitLife == Init => Lifecycle!Init
<1> SUFFICES ASSUME Init PROVE Lifecycle!Init
  OBVIOUS
<1>1. ASSUME NEW r \in RunId PROVE StageOf(r) = "none" /\ runs[r].tenant = None
  <2>1. runs[r].state = "absent" /\ runs[r].tenant = None
    BY DEF Init, NoRow
  <2> QED BY <2>1, StageIs, StageOver DEF Over
<1> QED BY <1>1 DEF Lifecycle!Init

LEMMA NextLife ==
  ASSUME IInv, LedgerInv, [Next]_vars
  PROVE  Lifecycle!Next \/ LifeStays
<1>0. IInv' /\ LedgerInv'
  BY NextIInv, NextRows
<1>1. ASSUME NEW p \in Worker, CreateRun(p)
      PROVE  Lifecycle!Next
  <2>1. Moves(p)
    BY <1>1, WorkerStep DEF IInv
  <2> QED BY <1>0, <1>1, <2>1, CreateLives
<1>2. ASSUME NEW p \in Worker, OpenLogin(p) \/ Proceed(p) \/ StepRaises(p) \/ Kill(p)
      PROVE  Lifecycle!Next \/ LifeStays
  <2>1. PICK r : r = job[p].run
    OBVIOUS
  <2>2. Moves(p) /\ Effect(p, r)
    BY <1>2, <2>1, WorkerStep, WorkerActs DEF IInv
  <2>3. CASE pc[p] \notin Outside
    BY <1>0, <1>2, <2>1, <2>2, <2>3, WorkerLives
  <2>4. CASE pc[p] \in Outside
    <3>1. r = None
      BY <2>1, <2>4 DEF LedgerInv, WorkInv
    <3>2. job'[p].run = None
      BY <2>1, <2>2, <3>1 DEF Effect, Works, Stops
    <3>3. ASSUME NEW s \in RunId PROVE StageOf(s)' = StageOf(s) /\ runs'[s] = runs[s]
      <4>1. s # None
        BY NoneIsFresh
      <4>2. runs'[s] = runs[s]
        BY <2>2, <3>1, <4>1 DEF Effect, Same
      <4> QED BY <1>0, <2>1, <2>2, <3>1, <3>2, <4>1, <4>2, OthersStay
    <3> QED BY <3>3 DEF LifeStays, Stages, Sites
  <2> QED BY <2>3, <2>4
<1>3. CASE (\E r \in RunId : BuildExport(r)) \/ UNCHANGED vars
  <2>1. UNCHANGED <<pc, job, runs>>
    BY <1>3 DEF BuildExport, vars, ledger
  <2>2. \A s \in RunId : StageOf(s)' = StageOf(s)
    BY <2>1, StageIs
  <2> QED BY <2>1, <2>2 DEF LifeStays, Stages, Sites
<1> QED BY <1>1, <1>2, <1>3 DEF Next

\* The workers implement the lifecycle: no run enters an occupied session, a
\* run is refused only when the session is occupied, is DONE only after it
\* gave the session back without an error, ends once, and is never resumed
\* after its process is gone.
THEOREM WorkersImplementLifecycle == Spec => ImplementsLifecycle
<1>1. IInv /\ LedgerInv /\ [Next]_vars => [Lifecycle!Next]_Lifecycle!vars
  <2> SUFFICES ASSUME IInv, LedgerInv, [Next]_vars PROVE Lifecycle!Next \/ UNCHANGED Lifecycle!vars
    OBVIOUS
  <2>1. Lifecycle!Next \/ LifeStays
    BY NextLife
  <2>2. LifeStays => UNCHANGED Lifecycle!vars
    BY DEF LifeStays, Stages, Sites, Lifecycle!vars
  <2> QED BY <2>1, <2>2
<1> QED BY <1>1, InitLife, LedgerAlways, Invariance, PTL DEF Spec, ImplementsLifecycle, Lifecycle!Spec
=============================================================================
