--------------------------- MODULE FetchRunProofs ---------------------------
(***************************************************************************)
(* Proofs about FetchRun for any number of workers, tenants, runs, kills   *)
(* and failed transactions.                                                *)
(*                                                                         *)
(* TypeOK is not inductive: AuditEnd reports job[p].state, which is        *)
(* terminal only because of how the worker got there, and WaitForHuman     *)
(* increments a step that is 5 only because of how it got there.  JobInv   *)
(* carries those facts.  ExclusiveSession and NoOrphanLock both follow     *)
(* from LockInv: the flock of a tenant belongs to p exactly while p is     *)
(* between open_session's lock and unlock for that tenant.                 *)
(***************************************************************************)
EXTENDS FetchRun, TLAPS

\* The program counters of a worker that runs no run_fetch.
Outside == {"idle", "login", "closing_login"}

\* What program counter l tells of the local variables j.
JobFits(l, j) ==
  /\ l # "idle" => j.tenant \in Tenant
  /\ l \notin Outside => j.run \in RunId
  /\ l \in {"asking", "prompting", "waiting"} => j.step = 5
  /\ l \in {"closing", "releasing", "unlocking"} /\ j.error = "none" => j.state = "DONE"
  /\ l \in {"ending", "auditing"} => j.state = "DONE"

JobInv == \A p \in Worker : JobFits(pc[p], job[p])

\* p holds the flock of t exactly while it is inside open_session for t.
LockInv ==
  \A p \in Worker, t \in Tenant :
    lock[t] = p <=> pc[p] \in Holding /\ job[p].tenant = t

IInv == TypeOK /\ JobInv /\ LockInv

-----------------------------------------------------------------------------
(***************************************************************************)
(* Updates that keep the records typed.                                    *)
(***************************************************************************)

LEMMA RowTyped ==
  ASSUME NEW row \in Row, NEW s \in RunState, NEW n \in 0 .. 7
  PROVE  /\ [row EXCEPT !.state = s, !.last = n] \in Row
         /\ [row EXCEPT !.state = s, !.ended = TRUE] \in Row
BY DEF Row

LEMMA QueriedTyped ==
  ASSUME NEW j \in Job, NEW c \in Count
  PROVE  [j EXCEPT !.state = "DOWNLOADING", !.step = 4, !.expected = c] \in Job
<1>1. "DOWNLOADING" \in RunState /\ 4 \in 0 .. 7
  BY DEF RunState
<1>2. ASSUME NEW s \in RunState, NEW n \in 0 .. 7
      PROVE  [j EXCEPT !.state = s, !.step = n, !.expected = c] \in Job
  BY DEF Job
<1> QED BY <1>1, <1>2, Zenon

LEMMA LinkedTyped ==
  ASSUME NEW j \in Job, NEW r \in RunId
  PROVE  [j EXCEPT !.state = "ARCHIVING", !.step = 7, !.link = r] \in Job
<1>1. "ARCHIVING" \in RunState /\ 7 \in 0 .. 7
  BY DEF RunState
<1>2. ASSUME NEW s \in RunState, NEW n \in 0 .. 7
      PROVE  [j EXCEPT !.state = s, !.step = n, !.link = r] \in Job
  BY DEF Job
<1> QED BY <1>1, <1>2, Zenon

LEMMA NoJobTyped == NoJob \in Job
<1>1. 0 \in Count /\ "PENDING" \in RunState
  BY BoundsAreNat DEF Count, RunState
<1> QED BY <1>1 DEF NoJob, Job

-----------------------------------------------------------------------------
(***************************************************************************)
(* The building blocks move one worker and keep the rest.                  *)
(***************************************************************************)

Moves(p) ==
  /\ pc'  \in [Worker -> Pc]
  /\ job' \in [Worker -> Job]
  /\ \A q \in Worker \ {p} : pc'[q] = pc[q] /\ job'[q] = job[q]
  /\ pc[p] # "idle" /\ pc'[p] # "idle" => job'[p].tenant = job[p].tenant
  /\ JobInv'

\* Where exceptions land.
Handler == {"closing", "releasing", "unlocking", "failing"}

LEMMA GotoMoves ==
  ASSUME TypeOK, JobInv, NEW p \in Worker, NEW l \in Pc,
         Goto(p, l), UNCHANGED job, JobFits(l, job[p])
  PROVE  Moves(p) /\ pc'[p] = l
<1>1. pc' \in [Worker -> Pc] /\ pc'[p] = l /\ \A q \in Worker \ {p} : pc'[q] = pc[q]
  BY DEF Goto, TypeOK
<1> QED BY <1>1 DEF Moves, JobInv, TypeOK

LEMMA JobMoves ==
  ASSUME TypeOK, JobInv, NEW p \in Worker, NEW l \in Pc, NEW j \in Job,
         Goto(p, l), job' = [job EXCEPT ![p] = j], JobFits(l, j),
         pc[p] = "idle" \/ j.tenant = job[p].tenant
  PROVE  Moves(p) /\ pc'[p] = l
<1>1. pc' \in [Worker -> Pc] /\ pc'[p] = l /\ \A q \in Worker \ {p} : pc'[q] = pc[q]
  BY DEF Goto, TypeOK
<1>2. job' \in [Worker -> Job] /\ job'[p] = j /\ \A q \in Worker \ {p} : job'[q] = job[q]
  BY DEF TypeOK
<1> QED BY <1>1, <1>2 DEF Moves, JobInv

LEMMA RaiseMoves ==
  ASSUME TypeOK, JobInv, NEW p \in Worker, NEW e \in ErrorClass, NEW l \in Handler,
         pc[p] \notin Outside, Raise(p, e, l)
  PROVE  Moves(p) /\ pc'[p] = l /\ job'[p] = [job[p] EXCEPT !.error = e]
<1>1. /\ pc' \in [Worker -> Pc] /\ pc'[p] = l
      /\ \A q \in Worker \ {p} : pc'[q] = pc[q]
  BY DEF Raise, Goto, TypeOK, Handler, Pc, Holding, Driving
<1>2. /\ job' = [job EXCEPT ![p].error = e] /\ job \in [Worker -> Job]
  BY DEF Raise, TypeOK
<1>3. /\ job' \in [Worker -> Job] /\ job'[p] = [job[p] EXCEPT !.error = e]
      /\ \A q \in Worker \ {p} : job'[q] = job[q]
  BY <1>2 DEF Job
<1>4. JobFits(l, job'[p])
  <2>1. job[p].tenant \in Tenant /\ job[p].run \in RunId /\ job[p] \in Job
    BY <1>2 DEF JobInv, JobFits, Outside
  <2>2. job'[p].tenant \in Tenant /\ job'[p].run \in RunId /\ job'[p].error # "none"
    BY <2>1, <1>3 DEF Job, ErrorClass
  <2> QED BY <2>2 DEF JobFits, Handler
<1> QED BY <1>1, <1>3, <1>4 DEF Moves, JobInv

LEMMA AdvanceMoves ==
  ASSUME TypeOK, JobInv, NEW p \in Worker, NEW s \in RunState,
         pc[p] \notin Outside, job[p].step \in 0 .. 6 \/ s = "DONE", Advance(p, s)
  PROVE  /\ Moves(p)
         /\ pc'[p] = IF s = "DONE" THEN "closing" ELSE "saving"
<1> DEFINE n == IF s = "DONE" THEN job[p].step ELSE job[p].step + 1
           j == [job[p] EXCEPT !.state = s, !.step = n]
<1>1. /\ pc' \in [Worker -> Pc]
      /\ pc'[p] = IF s = "DONE" THEN "closing" ELSE "saving"
      /\ \A q \in Worker \ {p} : pc'[q] = pc[q]
  BY DEF Advance, Goto, TypeOK, Pc, Holding, Driving
<1>2. job \in [Worker -> Job] /\ job[p] \in Job
  BY DEF TypeOK
<1>3. n \in 0 .. 7
  BY <1>2 DEF Job
<1>4. job' = [job EXCEPT ![p] = j]
  BY DEF Advance
<1>5. j \in Job /\ j.tenant = job[p].tenant /\ j.run = job[p].run /\ j.state = s
  <2> HIDE DEF n
  <2> QED BY <1>2, <1>3 DEF Job
<1>6. /\ job' \in [Worker -> Job] /\ job'[p] = j
      /\ \A q \in Worker \ {p} : job'[q] = job[q]
  <2> HIDE DEF j
  <2> QED BY <1>2, <1>4, <1>5
<1>7. JobFits(pc'[p], job'[p])
  BY <1>1, <1>5, <1>6 DEF JobInv, JobFits, Outside
<1> QED BY <1>1, <1>5, <1>6, <1>7 DEF Moves, JobInv

LEMMA ExitMoves ==
  ASSUME TypeOK, JobInv, NEW p \in Worker, Exit(p)
  PROVE  Moves(p) /\ pc'[p] = "idle"
<1>1. /\ pc' \in [Worker -> Pc] /\ pc'[p] = "idle"
      /\ \A q \in Worker \ {p} : pc'[q] = pc[q]
  BY DEF Exit, Goto, TypeOK, Pc
<1>2. NoJob \in Job
  BY BoundsAreNat DEF NoJob, Job, RunState, Count
<1>3. /\ job' \in [Worker -> Job] /\ \A q \in Worker \ {p} : job'[q] = job[q]
  BY <1>2 DEF Exit, TypeOK
<1>4. JobFits(pc'[p], job'[p])
  BY <1>1 DEF JobFits, Outside
<1> QED BY <1>1, <1>3, <1>4 DEF Moves, JobInv

\* A step that neither takes nor releases a flock keeps LockInv.
Stays(p) == Moves(p) /\ (pc'[p] \in Holding <=> pc[p] \in Holding)

LEMMA LockStays ==
  ASSUME LockInv, NEW p \in Worker, Stays(p), UNCHANGED lock
  PROVE  LockInv'
BY DEF LockInv, Stays, Moves, Holding, Driving


-----------------------------------------------------------------------------
(***************************************************************************)
(* Every action preserves IInv.                                            *)
(***************************************************************************)

LEMMA WorkerStep ==
  ASSUME TypeOK, JobInv, LockInv, NEW p \in Worker,
         CreateRun(p) \/ OpenLogin(p) \/ Proceed(p) \/ StepRaises(p) \/ Kill(p)
  PROVE  TypeOK' /\ Moves(p) /\ LockInv'
<1>1. CASE CreateRun(p)
  <2>1. PICK r \in RunId, t \in Tenant, d \in DryRun :
          /\ runs[r].state = "absent"
          /\ runs'  = [runs EXCEPT ![r] = [@ EXCEPT !.tenant = t, !.state = "PENDING"]]
          /\ audit' = [audit EXCEPT ![r] = {"RUN_START"}]
          /\ job' = [job EXCEPT ![p] = [NoJob EXCEPT !.run = r, !.tenant = t, !.dry = d]]
    BY <1>1 DEF CreateRun
  <2>2. [NoJob EXCEPT !.run = r, !.tenant = t, !.dry = d] \in Job
    <3>1. 0 \in Count /\ "PENDING" \in RunState /\ d \in BOOLEAN
      BY BoundsAreNat, DryRunIsBoolean DEF Count, RunState
    <3> QED BY <3>1, NoJobTyped DEF Job
  <2>3. Stays(p)
    <3> DEFINE j == [NoJob EXCEPT !.run = r, !.tenant = t, !.dry = d]
    <3>1. j.run = r /\ j.tenant = t
      BY DEF NoJob
    <3>2. JobFits("created", j)
      BY <3>1 DEF JobFits
    <3>3. Moves(p) /\ pc'[p] = "created" /\ pc[p] = "idle"
      <4> HIDE DEF j
      <4>1. j \in Job /\ job' = [job EXCEPT ![p] = j] /\ "created" \in Pc
        BY <2>1, <2>2 DEF j, Pc
      <4> QED BY <1>1, <3>2, <4>1, JobMoves DEF CreateRun
    <3> QED BY <3>3 DEF Stays, Holding, Driving
  <2>4. LockInv'
    BY <1>1, <2>3, LockStays DEF CreateRun
  <2>5. [runs[r] EXCEPT !.tenant = t, !.state = "PENDING"] \in Row
    <3>1. runs[r] \in Row /\ "PENDING" \in RunState
      BY DEF TypeOK, RunState
    <3> QED BY <3>1 DEF Row
  <2>6. /\ runs' \in [RunId -> Row]
        /\ audit' \in [RunId -> SUBSET {"RUN_START", "FACE_VERIFY_PROMPT", "RUN_END"}]
    BY <2>1, <2>5 DEF TypeOK
  <2>7. TypeOK'
    BY <1>1, <2>3, <2>6 DEF CreateRun, Stays, Moves, portal, budget, TypeOK
  <2> QED BY <2>3, <2>4, <2>7 DEF Stays, Moves
<1>2. CASE Authenticate(p)
  <2>1. Stays(p)
    <3>1. CASE Exit(p)
      BY <1>2, <3>1, ExitMoves DEF Authenticate, Stays, Holding, Driving
    <3>2. CASE /\ job' = [job EXCEPT ![p] = [@ EXCEPT !.state = "AUTHENTICATING"]]
               /\ Goto(p, "locking")
      <4> DEFINE j == [job[p] EXCEPT !.state = "AUTHENTICATING"]
      <4>1. /\ job[p] \in Job /\ job[p].tenant \in Tenant /\ job[p].run \in RunId
            /\ "AUTHENTICATING" \in RunState /\ pc[p] = "created"
        BY <1>2 DEF Authenticate, TypeOK, JobInv, JobFits, Outside, RunState
      <4>2. j \in Job /\ j.tenant = job[p].tenant /\ j.run = job[p].run
        BY <4>1 DEF Job
      <4>3. JobFits("locking", j)
        BY <4>1, <4>2 DEF JobFits
      <4>4. Moves(p) /\ pc'[p] = "locking"
        <5> HIDE DEF j
        <5>1. job' = [job EXCEPT ![p] = j] /\ "locking" \in Pc
          BY <3>2 DEF j, Pc
        <5> QED BY <3>2, <4>2, <4>3, <5>1, JobMoves
      <4> QED BY <4>1, <4>4 DEF Stays, Holding, Driving
    <3> QED BY <1>2, <3>1, <3>2 DEF Authenticate
  <2>2. LockInv'
    BY <1>2, <2>1, LockStays DEF Authenticate
  <2>3. runs' \in [RunId -> Row]
    <3>1. runs \in [RunId -> Row] /\ job[p] \in Job /\ job[p].run \in RunId
      BY <1>2 DEF Authenticate, TypeOK, JobInv, JobFits, Outside
    <3>2. /\ job[p].state \in RunState /\ job[p].step \in 0 .. 7
          /\ job[p].error \in ErrorClass \cup {"none"}
      BY <3>1 DEF Job
    <3>3. [runs[job[p].run] EXCEPT !.state = "AUTHENTICATING"] \in Row
      BY <3>1, <3>2 DEF Row, RunState
    <3> QED BY <1>2, <3>1, <3>3 DEF Authenticate
  <2>4. TypeOK'
    BY <1>2, <2>1, <2>3, BoundsAreNat DEF Authenticate, Stays, Moves,
       Commits, Fails, portal, TypeOK
  <2> QED BY <2>1, <2>2, <2>4 DEF Stays
<1>3. CASE Flock(p)
  <2>1. CASE \E e \in {"SessionLocked", "Unexpected"} : Raise(p, e, "failing") /\ UNCHANGED lock
    <3>1. Stays(p)
      BY <1>3, <2>1, RaiseMoves
      DEF Flock, Outside, Handler, ErrorClass, Stays, Holding, Driving
    <3> QED BY <1>3, <2>1, <3>1, LockStays
            DEF Flock, Stays, Moves, ledger, portal, budget, TypeOK
  <2>2. CASE /\ Granted(job[p].tenant)
             /\ lock' = [lock EXCEPT ![job[p].tenant] = p]
             /\ Goto(p, "marking")
             /\ UNCHANGED job
    <3>1. pc[p] = "locking" /\ job[p].tenant \in Tenant /\ lock[job[p].tenant] = None
      BY <1>3, <2>2 DEF Flock, Granted, JobInv, JobFits
    <3>2. Moves(p) /\ pc'[p] = "marking"
      BY <2>2, <3>1, GotoMoves DEF JobInv, JobFits, Outside, Pc, Holding
    <3>3. lock' \in [Tenant -> Worker \cup {None}]
      BY <2>2 DEF TypeOK
    <3>4. TypeOK'
      BY <1>3, <3>2, <3>3 DEF Flock, Moves, ledger, portal, budget, TypeOK
    <3>5. LockInv'
      BY <2>2, <3>1, <3>2, NoneIsFresh DEF LockInv, Moves, TypeOK, Holding, Driving
    <3> QED BY <3>2, <3>4, <3>5 DEF Moves
  <2> QED BY <1>3, <2>1, <2>2 DEF Flock
<1>4. CASE MarkLocked(p)
  <2>1. Stays(p)
    BY <1>4, GotoMoves, RaiseMoves DEF MarkLocked, JobInv, JobFits, Outside,
       Handler, ErrorClass, Stays, Pc, Holding, Driving
  <2>2. LockInv'
    BY <1>4, <2>1, LockStays DEF MarkLocked
  <2>3. sessions' \in [Tenant -> SessionState \cup {"absent"}]
    BY <1>4 DEF MarkLocked, MarkStatus, TypeOK, SessionState
  <2>4. TypeOK'
    BY <1>4, <2>1, <2>3, BoundsAreNat DEF MarkLocked, Stays, Moves, Commits,
       Fails, ledger, portal, TypeOK
  <2> QED BY <2>1, <2>2, <2>4 DEF Stays
<1>5. CASE Launch(p)
  <2>1. Stays(p)
    <3>1. CASE Raise(p, "Unexpected", "releasing")
      BY <1>5, <3>1, RaiseMoves
      DEF Launch, Outside, Handler, ErrorClass, Stays, Holding, Driving
    <3>2. CASE job' = [job EXCEPT ![p].step = 1] /\ Goto(p, "saving")
      <4>1. /\ [job[p] EXCEPT !.step = 1] \in Job
            /\ JobFits("saving", [job[p] EXCEPT !.step = 1])
        BY <1>5 DEF Launch, TypeOK, JobInv, JobFits, Outside, Job
      <4> QED BY <1>5, <3>2, <4>1, JobMoves
              DEF Launch, TypeOK, Job, Stays, Pc, Holding, Driving
    <3> QED BY <1>5, <3>1, <3>2 DEF Launch
  <2>2. LockInv'
    BY <1>5, <2>1, LockStays DEF Launch
  <2>3. chrome' \in [Tenant -> Worker \cup {None}]
    BY <1>5 DEF Launch, TypeOK
  <2>4. TypeOK'
    BY <1>5, <2>1, <2>3, BoundsAreNat DEF Launch, Stays, Moves, ledger,
       portal, budget, TypeOK
  <2> QED BY <2>1, <2>2, <2>4 DEF Stays
<1>6. CASE SaveStep(p)
  <2>1. Stays(p)
    BY <1>6, GotoMoves, RaiseMoves DEF SaveStep, JobInv, JobFits, Outside,
       Handler, ErrorClass, Stays, Pc, Holding, Driving
  <2>2. LockInv'
    BY <1>6, <2>1, LockStays DEF SaveStep
  <2>3. runs' \in [RunId -> Row]
    <3>1. runs \in [RunId -> Row] /\ job[p] \in Job /\ job[p].run \in RunId
      BY <1>6 DEF SaveStep, TypeOK, JobInv, JobFits, Outside
    <3>2. /\ job[p].state \in RunState /\ job[p].step \in 0 .. 7
          /\ job[p].error \in ErrorClass \cup {"none"}
      BY <3>1 DEF Job
    <3>3. [runs[job[p].run] EXCEPT !.state = job[p].state, !.last =
       job[p].step] \in Row
      BY <3>1, <3>2, RowTyped
    <3> QED BY <1>6, <3>1, <3>3 DEF SaveStep
  <2>4. TypeOK'
    BY <1>6, <2>1, <2>3, BoundsAreNat DEF SaveStep, Stays, Moves, Commits,
       Fails, portal, TypeOK
  <2> QED BY <2>1, <2>2, <2>4 DEF Stays
<1>7. CASE LoginCheck(p)
  <2>1. Stays(p)
    BY <1>7, GotoMoves, AdvanceMoves DEF LoginCheck, AtStep, JobInv, JobFits,
       Outside, RunState, Stays, Pc, Holding, Driving
  <2>2. LockInv'
    BY <1>7, <2>1, LockStays DEF LoginCheck
  <2>3. TypeOK'
    BY <1>7, <2>1, BoundsAreNat DEF LoginCheck, Stays, Moves, ledger, portal,
       budget, TypeOK
  <2> QED BY <2>1, <2>2, <2>3 DEF Stays
<1>8. CASE MarkExpired(p)
  <2>1. Stays(p)
    BY <1>8, RaiseMoves DEF MarkExpired, JobInv, JobFits, Outside, Handler,
       ErrorClass, Stays, Pc, Holding, Driving
  <2>2. LockInv'
    BY <1>8, <2>1, LockStays DEF MarkExpired
  <2>3. sessions' \in [Tenant -> SessionState \cup {"absent"}]
    BY <1>8 DEF MarkExpired, MarkStatus, TypeOK, SessionState
  <2>4. TypeOK'
    BY <1>8, <2>1, <2>3, BoundsAreNat DEF MarkExpired, Stays, Moves, Commits,
       Fails, ledger, portal, TypeOK
  <2> QED BY <2>1, <2>2, <2>4 DEF Stays
<1>9. CASE Navigate(p)
  <2>1. Stays(p)
    BY <1>9, AdvanceMoves DEF Navigate, AtStep, JobInv, JobFits, Outside,
       RunState, Stays, Pc, Holding, Driving
  <2>2. LockInv'
    BY <1>9, <2>1, LockStays DEF Navigate
  <2>3. TypeOK'
    BY <1>9, <2>1, BoundsAreNat DEF Navigate, Stays, Moves, ledger, portal,
       budget, TypeOK
  <2> QED BY <2>1, <2>2, <2>3 DEF Stays
<1>10. CASE FillQuery(p)
  <2>1. Stays(p)
    <3>1. CASE Advance(p, "DONE")
      BY <1>10, <3>1, AdvanceMoves
      DEF FillQuery, AtStep, Outside, RunState, Stays, Holding, Driving
    <3>2. ASSUME NEW n \in Count, Goto(p, "saving"),
                 job' = [job EXCEPT ![p] =
                          [@ EXCEPT !.state = "DOWNLOADING", !.step = 4, !.expected = n]]
          PROVE  Stays(p)
      <4> DEFINE j == [job[p] EXCEPT !.state = "DOWNLOADING", !.step = 4, !.expected = n]
      <4>1. /\ job[p] \in Job /\ job[p].tenant \in Tenant /\ job[p].run \in RunId
            /\ "DOWNLOADING" \in RunState
        BY <1>10 DEF FillQuery, AtStep, TypeOK, JobInv, JobFits, Outside, RunState
      <4>2. j \in Job /\ j.tenant = job[p].tenant /\ j.run = job[p].run
        <5>1. j \in Job
          BY <4>1, QueriedTyped
        <5> QED BY <4>1, <5>1 DEF Job
      <4>3. JobFits("saving", j)
        BY <4>1, <4>2 DEF JobFits
      <4> QED BY <1>10, <3>2, <4>2, <4>3, JobMoves
              DEF FillQuery, AtStep, Stays, Pc, Holding, Driving
    <3> QED BY <1>10, <3>1, <3>2 DEF FillQuery
  <2>2. LockInv'
    BY <1>10, <2>1, LockStays DEF FillQuery
  <2>3. TypeOK'
    BY <1>10, <2>1, BoundsAreNat DEF FillQuery, Stays, Moves, ledger, portal,
       budget, TypeOK
  <2> QED BY <2>1, <2>2, <2>3 DEF Stays
<1>11. CASE SelectAndExport(p)
  <2>1. Stays(p)
    <3>1. CASE Advance(p, "DONE") \/ Advance(p, "POLLING")
      BY <1>11, <3>1, AdvanceMoves
      DEF SelectAndExport, AtStep, Outside, RunState, Stays, Holding, Driving
    <3>2. CASE Raise(p, "SelectorMissError", "closing")
      BY <1>11, <3>2, RaiseMoves
      DEF SelectAndExport, AtStep, Outside, Handler, ErrorClass, Stays, Holding, Driving
    <3> QED BY <1>11, <3>1, <3>2 DEF SelectAndExport
  <2>2. LockInv'
    BY <1>11, <2>1, LockStays DEF SelectAndExport
  <2>3. exports' \in [RunId -> {"none", "building", "ready"}]
    BY <1>11 DEF SelectAndExport, TypeOK
  <2>4. TypeOK'
    BY <1>11, <2>1, <2>3, BoundsAreNat DEF SelectAndExport, Stays, Moves,
       ledger, budget, TypeOK
  <2> QED BY <2>1, <2>2, <2>4 DEF Stays
<1>12. CASE FaceVerify(p)
  <2>1. Stays(p)
    BY <1>12, GotoMoves, AdvanceMoves DEF FaceVerify, AtStep, JobInv,
       JobFits, Outside, RunState, Stays, Pc, Holding, Driving
  <2>2. LockInv'
    BY <1>12, <2>1, LockStays DEF FaceVerify
  <2>3. TypeOK'
    BY <1>12, <2>1, BoundsAreNat DEF FaceVerify, Stays, Moves, ledger,
       portal, budget, TypeOK
  <2> QED BY <2>1, <2>2, <2>3 DEF Stays
<1>13. CASE NeedsHuman(p)
  <2>1. Stays(p)
    BY <1>13, GotoMoves, RaiseMoves DEF NeedsHuman, JobInv, JobFits, Outside,
       Handler, ErrorClass, Stays, Pc, Holding, Driving
  <2>2. LockInv'
    BY <1>13, <2>1, LockStays DEF NeedsHuman
  <2>3. runs' \in [RunId -> Row]
    <3>1. runs \in [RunId -> Row] /\ job[p] \in Job /\ job[p].run \in RunId
      BY <1>13 DEF NeedsHuman, TypeOK, JobInv, JobFits, Outside
    <3>2. /\ job[p].state \in RunState /\ job[p].step \in 0 .. 7
          /\ job[p].error \in ErrorClass \cup {"none"}
      BY <3>1 DEF Job
    <3>3. [runs[job[p].run] EXCEPT !.state = "NEEDS_HUMAN", !.error =
       "FaceVerifyRequired"] \in Row
      BY <3>1, <3>2 DEF Row, RunState, ErrorClass
    <3> QED BY <1>13, <3>1, <3>3 DEF NeedsHuman
  <2>4. TypeOK'
    BY <1>13, <2>1, <2>3, BoundsAreNat DEF NeedsHuman, Stays, Moves, Commits,
       Fails, portal, TypeOK
  <2> QED BY <2>1, <2>2, <2>4 DEF Stays
<1>14. CASE PromptHuman(p)
  <2>1. Stays(p)
    BY <1>14, GotoMoves, RaiseMoves DEF PromptHuman, JobInv, JobFits,
       Outside, Handler, ErrorClass, Stays, Pc, Holding, Driving
  <2>2. LockInv'
    BY <1>14, <2>1, LockStays DEF PromptHuman
  <2>3. audit' \in [RunId -> SUBSET {"RUN_START", "FACE_VERIFY_PROMPT", "RUN_END"}]
    BY <1>14 DEF PromptHuman, TypeOK
  <2>4. TypeOK'
    BY <1>14, <2>1, <2>3, BoundsAreNat DEF PromptHuman, Stays, Moves,
       Commits, Fails, portal, TypeOK
  <2> QED BY <2>1, <2>2, <2>4 DEF Stays
<1>15. CASE WaitForHuman(p)
  <2>1. Stays(p)
    <3>1. pc[p] = "waiting" /\ job[p].step = 5
      BY <1>15 DEF WaitForHuman, JobInv, JobFits
    <3>2. CASE Advance(p, "POLLING")
      BY <3>1, <3>2, AdvanceMoves DEF Outside, RunState, Stays, Holding, Driving
    <3>3. CASE \E e \in {"FaceVerifyRequired", "Unexpected"} : Raise(p, e, "closing")
      BY <3>1, <3>3, RaiseMoves DEF Outside, Handler, ErrorClass, Stays, Holding, Driving
    <3> QED BY <1>15, <3>2, <3>3 DEF WaitForHuman
  <2>2. LockInv'
    BY <1>15, <2>1, LockStays DEF WaitForHuman
  <2>3. TypeOK'
    BY <1>15, <2>1, BoundsAreNat DEF WaitForHuman, Stays, Moves, ledger,
       portal, budget, TypeOK
  <2> QED BY <2>1, <2>2, <2>3 DEF Stays
<1>16. CASE PollExport(p)
  <2>1. Stays(p)
    <3>1. PICK r \in RunId :
            job' = [job EXCEPT ![p] =
                     [@ EXCEPT !.state = "ARCHIVING", !.step = 7, !.link = r]]
      BY <1>16 DEF PollExport
    <3> DEFINE j == [job[p] EXCEPT !.state = "ARCHIVING", !.step = 7, !.link = r]
    <3>2. /\ job[p] \in Job /\ job[p].tenant \in Tenant /\ job[p].run \in RunId
          /\ "ARCHIVING" \in RunState
      BY <1>16 DEF PollExport, AtStep, TypeOK, JobInv, JobFits, Outside, RunState
    <3>3. j \in Job /\ j.tenant = job[p].tenant /\ j.run = job[p].run
      <4>1. j \in Job
        BY <3>2, LinkedTyped
      <4> QED BY <3>2, <4>1 DEF Job
    <3>4. JobFits("saving", j)
      BY <3>2, <3>3 DEF JobFits
    <3> QED BY <1>16, <3>1, <3>3, <3>4, JobMoves
            DEF PollExport, AtStep, Stays, Pc, Holding, Driving
  <2>2. LockInv'
    BY <1>16, <2>1, LockStays DEF PollExport
  <2>3. TypeOK'
    BY <1>16, <2>1, BoundsAreNat DEF PollExport, Stays, Moves, ledger,
       portal, budget, TypeOK
  <2> QED BY <2>1, <2>2, <2>3 DEF Stays
<1>17. CASE PollTimeout(p)
  <2>1. Stays(p)
    BY <1>17, RaiseMoves DEF PollTimeout, AtStep, JobInv, JobFits, Outside,
       Handler, ErrorClass, Stays, Pc, Holding, Driving
  <2>2. LockInv'
    BY <1>17, <2>1, LockStays DEF PollTimeout
  <2>3. TypeOK'
    BY <1>17, <2>1, BoundsAreNat DEF PollTimeout, Stays, Moves, ledger,
       portal, budget, TypeOK
  <2> QED BY <2>1, <2>2, <2>3 DEF Stays
<1>18. CASE Archive(p)
  <2>1. Stays(p)
    BY <1>18, RaiseMoves, AdvanceMoves DEF Archive, AtStep, JobInv, JobFits,
       Outside, Handler, ErrorClass, RunState, Stays, Pc, Holding, Driving
  <2>2. LockInv'
    BY <1>18, <2>1, LockStays DEF Archive
  <2>3. summary' \in [RunId -> Summary]
    <3>1. job[p] \in Job /\ job[p].run \in RunId
      BY <1>18 DEF Archive, AtStep, TypeOK, JobInv, JobFits, Outside
    <3>2. ASSUME NEW n \in Count
          PROVE  [summary[job[p].run] EXCEPT !.expected = job[p].expected, !.actual = n]
                   \in Summary
      <4>1. summary[job[p].run] \in Summary /\ job[p].expected \in Count
        BY <3>1 DEF TypeOK, Job
      <4> QED BY <4>1 DEF Summary
    <3>3. summary \in [RunId -> Summary]
      BY DEF TypeOK
    <3> QED BY <1>18, <3>1, <3>2, <3>3 DEF Archive
  <2>4. manifest' \in [Tenant -> Manifest]
    <3>1. job[p] \in Job
      BY DEF TypeOK
    <3>2. ASSUME NEW n \in Count
          PROVE  [run |-> job[p].run, export |-> job[p].link, count |-> n] \in Manifest
      BY <3>1 DEF Manifest, Job
    <3>3. manifest \in [Tenant -> Manifest]
      BY DEF TypeOK
    <3> QED BY <1>18, <3>2, <3>3 DEF Archive
  <2>5. TypeOK'
    BY <1>18, <2>1, <2>3, <2>4, BoundsAreNat DEF Archive, Stays, Moves,
       budget, TypeOK
  <2> QED BY <2>1, <2>2, <2>5 DEF Stays
<1>19. CASE StepRaises(p)
  <2>1. Stays(p)
    BY <1>19, RaiseMoves DEF StepRaises, JobInv, JobFits, Outside, Handler,
       ErrorClass, Stays, Pc, Holding, Driving
  <2>2. LockInv'
    BY <1>19, <2>1, LockStays DEF StepRaises
  <2>3. TypeOK'
    BY <1>19, <2>1, BoundsAreNat DEF StepRaises, Stays, Moves, ledger,
       portal, budget, TypeOK
  <2> QED BY <2>1, <2>2, <2>3 DEF Stays
<1>20. CASE CloseChrome(p)
  <2>1. Stays(p)
    BY <1>20, GotoMoves, RaiseMoves DEF CloseChrome, JobInv, JobFits,
       Outside, Handler, ErrorClass, Stays, Pc, Holding, Driving
  <2>2. LockInv'
    BY <1>20, <2>1, LockStays DEF CloseChrome
  <2>3. chrome' \in [Tenant -> Worker \cup {None}]
    BY <1>20 DEF CloseChrome, TypeOK
  <2>4. TypeOK'
    BY <1>20, <2>1, <2>3, BoundsAreNat DEF CloseChrome, Stays, Moves, ledger,
       portal, budget, TypeOK
  <2> QED BY <2>1, <2>2, <2>4 DEF Stays
<1>21. CASE MarkValid(p)
  <2>1. Stays(p)
    BY <1>21, GotoMoves, RaiseMoves DEF MarkValid, JobInv, JobFits, Outside,
       Handler, ErrorClass, Stays, Pc, Holding, Driving
  <2>2. LockInv'
    BY <1>21, <2>1, LockStays DEF MarkValid
  <2>3. sessions' \in [Tenant -> SessionState \cup {"absent"}]
    BY <1>21 DEF MarkValid, MarkStatus, TypeOK, SessionState
  <2>4. TypeOK'
    BY <1>21, <2>1, <2>3, BoundsAreNat DEF MarkValid, Stays, Moves, Commits,
       Fails, ledger, portal, TypeOK
  <2> QED BY <2>1, <2>2, <2>4 DEF Stays
<1>22. CASE Unlock(p)
  <2>1. /\ pc[p] = "unlocking" /\ job[p].tenant \in Tenant
        /\ lock' = [lock EXCEPT ![job[p].tenant] = None]
    BY <1>22 DEF Unlock, JobInv, JobFits
  <2>2. Moves(p) /\ pc'[p] \in {"ending", "failing"}
    <3>1. CASE Raise(p, "Unexpected", "failing")
      BY <2>1, <3>1, RaiseMoves DEF Outside, Handler, ErrorClass
    <3>2. CASE Goto(p, IF job[p].error = "none" THEN "ending" ELSE "failing") /\ UNCHANGED job
      BY <2>1, <3>2, GotoMoves DEF JobInv, JobFits, Outside, Pc
    <3> QED BY <1>22, <3>1, <3>2 DEF Unlock
  <2>3. lock' \in [Tenant -> Worker \cup {None}]
    BY <2>1 DEF TypeOK
  <2>4. TypeOK'
    BY <1>22, <2>2, <2>3 DEF Unlock, Moves, ledger, portal, budget, TypeOK
  <2>5. LockInv'
    BY <2>1, <2>2, NoneIsFresh DEF LockInv, Moves, TypeOK, Holding, Driving
  <2> QED BY <2>2, <2>4, <2>5 DEF Moves
<1>23. CASE EndRun(p)
  <2>1. Stays(p)
    <3>1. CASE Goto(p, "auditing") /\ UNCHANGED job
      BY <1>23, <3>1, GotoMoves
      DEF EndRun, JobInv, JobFits, Outside, Stays, Pc, Holding, Driving
    <3>2. CASE Raise(p, "Unexpected", "failing")
      BY <1>23, <3>2, RaiseMoves
      DEF EndRun, Outside, Handler, ErrorClass, Stays, Holding, Driving
    <3> QED BY <1>23, <3>1, <3>2 DEF EndRun
  <2>2. LockInv'
    BY <1>23, <2>1, LockStays DEF EndRun
  <2>3. runs' \in [RunId -> Row]
    <3>1. runs \in [RunId -> Row] /\ job[p] \in Job /\ job[p].run \in RunId
      BY <1>23 DEF EndRun, TypeOK, JobInv, JobFits, Outside
    <3>2. /\ job[p].state \in RunState /\ job[p].step \in 0 .. 7
          /\ job[p].error \in ErrorClass \cup {"none"}
      BY <3>1 DEF Job
    <3>3. [runs[job[p].run] EXCEPT !.state = job[p].state, !.ended = TRUE]
       \in Row
      BY <3>1, <3>2, RowTyped
    <3> QED BY <1>23, <3>1, <3>3 DEF EndRun
  <2>4. TypeOK'
    BY <1>23, <2>1, <2>3, BoundsAreNat DEF EndRun, Stays, Moves, Commits,
       Fails, portal, TypeOK
  <2> QED BY <2>1, <2>2, <2>4 DEF Stays
<1>24. CASE AuditEnd(p)
  <2>1. Stays(p)
    BY <1>24, RaiseMoves, ExitMoves DEF AuditEnd, JobInv, JobFits, Outside,
       Handler, ErrorClass, Stays, Pc, Holding, Driving
  <2>2. LockInv'
    BY <1>24, <2>1, LockStays DEF AuditEnd
  <2>3. audit' \in [RunId -> SUBSET {"RUN_START", "FACE_VERIFY_PROMPT", "RUN_END"}]
    BY <1>24 DEF AuditEnd, TypeOK
  <2>4. summary' \in [RunId -> Summary]
    BY <1>24 DEF AuditEnd, TypeOK, JobInv, JobFits, Outside, Summary, Job,
       TerminalRunStates
  <2>5. TypeOK'
    BY <1>24, <2>1, <2>3, <2>4, BoundsAreNat DEF AuditEnd, Stays, Moves,
       Commits, Fails, portal, TypeOK
  <2> QED BY <2>1, <2>2, <2>5 DEF Stays
<1>25. CASE FailRun(p)
  <2>1. Stays(p)
    BY <1>25, ExitMoves DEF FailRun, JobInv, JobFits, Outside, Stays, Pc,
       Holding, Driving
  <2>2. LockInv'
    BY <1>25, <2>1, LockStays DEF FailRun
  <2>3. runs' \in [RunId -> Row]
    <3>1. runs \in [RunId -> Row] /\ job[p] \in Job /\ job[p].run \in RunId
      BY <1>25 DEF FailRun, TypeOK, JobInv, JobFits, Outside
    <3>2. /\ job[p].state \in RunState /\ job[p].step \in 0 .. 7
          /\ job[p].error \in ErrorClass \cup {"none"}
      BY <3>1 DEF Job
    <3>3. [runs[job[p].run] EXCEPT !.state = "FAILED", !.error =
       job[p].error, !.ended = TRUE] \in Row
      BY <3>1, <3>2 DEF Row, RunState
    <3> QED BY <1>25, <3>1, <3>3 DEF FailRun
  <2>4. summary' \in [RunId -> Summary]
    BY <1>25 DEF FailRun, TypeOK, JobInv, JobFits, Outside, Summary, Job,
       TerminalRunStates
  <2>5. TypeOK'
    BY <1>25, <2>1, <2>3, <2>4, BoundsAreNat DEF FailRun, Stays, Moves,
       Commits, Fails, portal, TypeOK
  <2> QED BY <2>1, <2>2, <2>5 DEF Stays
<1>26. CASE OpenLogin(p)
  <2>1. Stays(p)
    <3>1. PICK t \in Tenant : job' = [job EXCEPT ![p] = [@ EXCEPT !.tenant = t]]
      BY <1>26 DEF OpenLogin
    <3> DEFINE j == [job[p] EXCEPT !.tenant = t]
    <3>2. job[p] \in Job
      BY DEF TypeOK
    <3>3. j \in Job /\ j.tenant = t
      BY <3>2 DEF Job
    <3>4. JobFits("login", j)
      BY <3>3 DEF JobFits, Outside
    <3>5. Moves(p) /\ pc'[p] = "login" /\ pc[p] = "idle"
      <4> HIDE DEF j
      <4>1. job' = [job EXCEPT ![p] = j] /\ "login" \in Pc
        BY <3>1 DEF j, Pc, Browsing
      <4> QED BY <1>26, <3>3, <3>4, <4>1, JobMoves DEF OpenLogin
    <3> QED BY <3>5 DEF Stays, Holding, Driving
  <2>2. LockInv'
    BY <1>26, <2>1, LockStays DEF OpenLogin
  <2>3. chrome' \in [Tenant -> Worker \cup {None}]
    BY <1>26 DEF OpenLogin, TypeOK
  <2>4. TypeOK'
    BY <1>26, <2>1, <2>3, BoundsAreNat DEF OpenLogin, Stays, Moves, ledger,
       portal, budget, TypeOK
  <2> QED BY <2>1, <2>2, <2>4 DEF Stays
<1>27. CASE FinishLogin(p)
  <2>1. Stays(p)
    BY <1>27, GotoMoves
    DEF FinishLogin, JobInv, JobFits, Outside, Stays, Pc, Browsing, Holding, Driving
  <2>2. LockInv'
    BY <1>27, <2>1, LockStays DEF FinishLogin
  <2>3. sessions' \in [Tenant -> SessionState \cup {"absent"}]
    BY <1>27 DEF FinishLogin, TypeOK, SessionState
  <2>4. TypeOK'
    BY <1>27, <2>1, <2>3, BoundsAreNat DEF FinishLogin, Stays, Moves,
       Commits, Fails, ledger, portal, TypeOK
  <2> QED BY <2>1, <2>2, <2>4 DEF Stays
<1>28. CASE CloseLogin(p)
  <2>1. Stays(p)
    BY <1>28, ExitMoves DEF CloseLogin, JobInv, JobFits, Outside, Stays, Pc,
       Holding, Driving
  <2>2. LockInv'
    BY <1>28, <2>1, LockStays DEF CloseLogin
  <2>3. chrome' \in [Tenant -> Worker \cup {None}]
    BY <1>28 DEF CloseLogin, TypeOK
  <2>4. TypeOK'
    BY <1>28, <2>1, <2>3, BoundsAreNat DEF CloseLogin, Stays, Moves, ledger,
       portal, budget, TypeOK
  <2> QED BY <2>1, <2>2, <2>4 DEF Stays
<1>29. CASE Kill(p)
  <2>1. Moves(p) /\ pc'[p] = "idle"
    BY <1>29, ExitMoves DEF Kill
  <2>2. /\ lock' = [t \in Tenant |-> IF lock[t] = p THEN None ELSE lock[t]]
        /\ lock' \in [Tenant -> Worker \cup {None}]
        /\ chrome' \in [Tenant -> Worker \cup {None}]
        /\ kills' \in 0 .. MaxKills
    BY <1>29, BoundsAreNat DEF Kill, TypeOK
  <2>3. TypeOK'
    BY <1>29, <2>1, <2>2 DEF Kill, Moves, ledger, portal, TypeOK
  <2>4. LockInv'
    <3> SUFFICES ASSUME NEW q \in Worker, NEW t \in Tenant
                 PROVE  lock'[t] = q <=> pc'[q] \in Holding /\ job'[q].tenant = t
      BY DEF LockInv
    <3>1. CASE q = p
      BY <2>1, <2>2, <3>1, NoneIsFresh DEF TypeOK, Holding, Driving
    <3>2. CASE q # p
      BY <2>1, <2>2, <3>2, NoneIsFresh DEF LockInv, Moves
    <3> QED BY <3>1, <3>2
  <2> QED BY <2>1, <2>3, <2>4 DEF Moves
<1> QED BY <1>1, <1>2, <1>3, <1>4, <1>5, <1>6, <1>7, <1>8, <1>9, <1>10,
   <1>11, <1>12, <1>13, <1>14, <1>15, <1>16, <1>17, <1>18, <1>19, <1>20,
   <1>21, <1>22, <1>23, <1>24, <1>25, <1>26, <1>27, <1>28, <1>29 DEF Proceed

LEMMA InitIInv == Init => IInv
<1> SUFFICES ASSUME Init PROVE IInv
  OBVIOUS
<1>1. job \in [Worker -> Job]
  BY NoJobTyped DEF Init
<1>2. runs \in [RunId -> Row]
  BY DEF Init, NoRow, Row
<1>3. summary \in [RunId -> Summary] /\ manifest \in [Tenant -> Manifest]
  BY BoundsAreNat DEF Init, Summary, Manifest, Count
<1>4. TypeOK
  BY <1>1, <1>2, <1>3, BoundsAreNat DEF Init, TypeOK, Pc
<1>5. JobInv /\ LockInv
  BY NoneIsFresh DEF Init, JobInv, JobFits, Outside, LockInv, Holding, Driving
<1> QED BY <1>4, <1>5 DEF IInv

LEMMA NextIInv == IInv /\ [Next]_vars => IInv'
<1> SUFFICES ASSUME IInv, [Next]_vars PROVE IInv'
  OBVIOUS
<1>1. ASSUME NEW p \in Worker,
             CreateRun(p) \/ OpenLogin(p) \/ Proceed(p) \/ StepRaises(p) \/ Kill(p)
      PROVE  IInv'
  BY <1>1, WorkerStep DEF IInv, Moves
<1>2. ASSUME NEW r \in RunId, BuildExport(r) PROVE IInv'
  <2>1. TypeOK'
    BY <1>2 DEF BuildExport, ledger, budget, IInv, TypeOK
  <2>2. JobInv' /\ LockInv'
    BY <1>2 DEF BuildExport, IInv, JobInv, LockInv
  <2> QED BY <2>1, <2>2 DEF IInv
<1>3. CASE UNCHANGED vars
  BY <1>3 DEF vars, ledger, portal, budget, IInv, TypeOK, JobInv, LockInv
<1> QED BY <1>1, <1>2, <1>3 DEF Next

LEMMA Invariance == Spec => []IInv
BY InitIInv, NextIInv, PTL DEF Spec

-----------------------------------------------------------------------------
(***************************************************************************)
(* The theorems.                                                           *)
(***************************************************************************)

\* The variables keep their types: in particular every error class, step and
\* state a worker writes into a row or returns is one the code declares.
THEOREM TypeCorrect == Spec => []TypeOK
<1>1. IInv => TypeOK
  BY DEF IInv
<1> QED BY <1>1, Invariance, PTL

\* However many workers start for a tenant, whatever fails and whoever is
\* killed, at most one of them is between open_session's lock and unlock.
THEOREM SessionExclusive == Spec => []ExclusiveSession
<1>1. IInv => ExclusiveSession
  <2> SUFFICES ASSUME IInv, NEW p \in Worker, NEW q \in Worker, p # q,
                      pc[p] \in Holding, pc[q] \in Holding, job[p].tenant = job[q].tenant
               PROVE  FALSE
    BY DEF ExclusiveSession
  <2>1. job[p].tenant \in Tenant
    BY DEF IInv, JobInv, JobFits, Holding, Driving
  <2>2. lock[job[p].tenant] = p /\ lock[job[p].tenant] = q
    BY <2>1 DEF IInv, LockInv
  <2> QED BY <2>2
<1> QED BY <1>1, Invariance, PTL

\* A flock that is held belongs to a worker that is still inside open_session
\* for that tenant: no exception path and no kill leaves one behind.
THEOREM LockNotOrphaned == Spec => []NoOrphanLock
<1>1. IInv => NoOrphanLock
  BY DEF IInv, TypeOK, LockInv, NoOrphanLock
<1> QED BY <1>1, Invariance, PTL

-----------------------------------------------------------------------------
(***************************************************************************)
(* NoForeignRelease.  The row can say EXPIRED only between the worker's    *)
(* own login check and the closing of its Chrome, which DriveInv adds.     *)
(***************************************************************************)

DriveInv ==
  \A p \in Worker : pc[p] \in Driving =>
    /\ sessions[job[p].tenant] # "VALID"
    /\ sessions[job[p].tenant] = "EXPIRED" =>
         pc[p] = "closing" /\ job[p].error = "SessionExpired"

\* A step that writes no session row and starts no driving keeps DriveInv.
LEMMA DriveQuiet ==
  ASSUME DriveInv, NEW p \in Worker, Moves(p), UNCHANGED sessions,
         pc'[p] \in Driving => pc[p] \in Driving \ {"closing"}
  PROVE  DriveInv'
<1>1. ASSUME NEW q \in Worker, pc'[q] \in Driving
      PROVE  /\ sessions'[job'[q].tenant] # "VALID"
             /\ sessions'[job'[q].tenant] = "EXPIRED" =>
                  pc'[q] = "closing" /\ job'[q].error = "SessionExpired"
  <2>1. CASE q # p
    BY <1>1, <2>1 DEF DriveInv, Moves
  <2>2. CASE q = p
    BY <1>1, <2>2 DEF DriveInv, Moves, Driving
  <2> QED BY <2>1, <2>2
<1> QED BY <1>1 DEF DriveInv

\* A write to the row of the tenant a worker holds meets no other driver.
LEMMA DriveAlone ==
  ASSUME DriveInv, LockInv, JobInv, NEW p \in Worker, Moves(p), pc[p] \in Holding,
         NEW s, sessions' = [sessions EXCEPT ![job[p].tenant] = s],
         sessions \in [Tenant -> SessionState \cup {"absent"}],
         pc'[p] \in Driving =>
           s # "VALID" /\ (s = "EXPIRED" => pc'[p] = "closing" /\ job'[p].error = "SessionExpired")
  PROVE  DriveInv'
<1> DEFINE t == job[p].tenant
<1>1. t \in Tenant /\ lock[t] = p
  BY DEF JobInv, JobFits, LockInv, Holding, Driving
<1>2. ASSUME NEW q \in Worker, q # p, pc[q] \in Driving
      PROVE  job[q].tenant \in Tenant /\ job[q].tenant # t
  BY <1>1, <1>2 DEF JobInv, JobFits, LockInv, Holding, Driving
<1>3. ASSUME NEW q \in Worker, pc'[q] \in Driving
      PROVE  /\ sessions'[job'[q].tenant] # "VALID"
             /\ sessions'[job'[q].tenant] = "EXPIRED" =>
                  pc'[q] = "closing" /\ job'[q].error = "SessionExpired"
  <2>1. CASE q # p
    BY <1>1, <1>2, <1>3, <2>1 DEF DriveInv, Moves
  <2>2. CASE q = p
    BY <1>1, <1>3, <2>2 DEF Moves, Holding, Driving
  <2> QED BY <2>1, <2>2
<1> QED BY <1>3 DEF DriveInv

LEMMA WorkerDrives ==
  ASSUME IInv, DriveInv, NEW p \in Worker,
         CreateRun(p) \/ OpenLogin(p) \/ Proceed(p) \/ StepRaises(p) \/ Kill(p)
  PROVE  DriveInv'
<1>0. TypeOK /\ JobInv /\ LockInv /\ Moves(p)
  BY WorkerStep DEF IInv
<1>1. CASE MarkLocked(p)
  <2>1. CASE Raise(p, "Unexpected", "unlocking") /\ UNCHANGED sessions
    BY <1>0, <2>1, DriveQuiet DEF Raise, Goto, TypeOK, Driving
  <2>2. CASE MarkStatus(job[p].tenant, "LOCKED") /\ Goto(p, "launching")
    <3> DEFINE s == IF sessions[job[p].tenant] = "absent" THEN "absent" ELSE "LOCKED"
    <3>1. sessions' = [sessions EXCEPT ![job[p].tenant] = s]
      BY <2>2 DEF MarkStatus
    <3>2. s # "VALID" /\ s # "EXPIRED" /\ pc[p] \in Holding
      BY <1>1 DEF MarkLocked, Holding
    <3> HIDE DEF s
    <3> QED BY <1>0, <3>1, <3>2, DriveAlone DEF TypeOK
  <2> QED BY <1>1, <2>1, <2>2 DEF MarkLocked
<1>2. CASE MarkExpired(p)
  <2>1. CASE Raise(p, "Unexpected", "closing") /\ UNCHANGED sessions
    BY <1>0, <1>2, <2>1, DriveQuiet DEF MarkExpired, Driving
  <2>2. CASE MarkStatus(job[p].tenant, "EXPIRED") /\ Raise(p, "SessionExpired", "closing")
    <3> DEFINE s == IF sessions[job[p].tenant] = "absent" THEN "absent" ELSE "EXPIRED"
    <3>1. sessions' = [sessions EXCEPT ![job[p].tenant] = s]
      BY <2>2 DEF MarkStatus
    <3>2. s # "VALID" /\ pc[p] \in Holding
      BY <1>2 DEF MarkExpired, Holding, Driving
    <3>3. pc'[p] = "closing" /\ job'[p].error = "SessionExpired"
      <4>1. job \in [Worker -> Job]
        BY <1>0 DEF TypeOK
      <4> QED BY <1>0, <2>2, <4>1 DEF Raise, Goto, TypeOK, Job
    <3> HIDE DEF s
    <3> QED BY <1>0, <3>1, <3>2, <3>3, DriveAlone DEF TypeOK
  <2> QED BY <1>2, <2>1, <2>2 DEF MarkExpired
<1>3. CASE MarkValid(p)
  <2>1. pc[p] \in Holding /\ pc'[p] \notin Driving
    BY <1>0, <1>3 DEF MarkValid, Raise, Goto, TypeOK, Holding, Driving
  <2>2. CASE UNCHANGED sessions
    BY <1>0, <2>1, <2>2, DriveQuiet
  <2>3. CASE MarkStatus(job[p].tenant, "VALID")
    <3> DEFINE s == IF sessions[job[p].tenant] = "absent" THEN "absent" ELSE "VALID"
    <3>1. sessions' = [sessions EXCEPT ![job[p].tenant] = s]
      BY <2>3 DEF MarkStatus
    <3> HIDE DEF s
    <3> QED BY <1>0, <2>1, <3>1, DriveAlone DEF TypeOK
  <2> QED BY <1>3, <2>2, <2>3 DEF MarkValid
<1>4. CASE FinishLogin(p)
  <2>1. pc'[p] \notin Driving
    BY <1>0, <1>4 DEF FinishLogin, Goto, TypeOK, Driving
  <2>2. CASE UNCHANGED sessions
    BY <1>0, <2>1, <2>2, DriveQuiet
  <2>3. CASE sessions' = [sessions EXCEPT ![job[p].tenant] = "FRESH"]
    <3>1. ASSUME NEW q \in Worker, pc'[q] \in Driving
          PROVE  pc[q] \in Driving /\ pc'[q] = pc[q] /\ job'[q] = job[q] /\ job[q].tenant \in Tenant
      BY <1>0, <2>1, <3>1 DEF Moves, JobInv, JobFits, Driving
    <3>2. sessions \in [Tenant -> SessionState \cup {"absent"}]
      BY <1>0 DEF TypeOK
    <3> QED BY <2>3, <3>1, <3>2 DEF DriveInv
  <2> QED BY <1>4, <2>2, <2>3 DEF FinishLogin
<1>5. CASE CreateRun(p)
  BY <1>0, <1>5, DriveQuiet DEF CreateRun, Goto, TypeOK, Driving
<1>6. CASE Authenticate(p)
  BY <1>0, <1>6, DriveQuiet DEF Authenticate, Goto, Exit, TypeOK, Driving
<1>7. CASE Flock(p)
  BY <1>0, <1>7, DriveQuiet DEF Flock, Goto, Raise, TypeOK, Driving
<1>8. CASE Launch(p)
  BY <1>0, <1>8, DriveQuiet DEF Launch, Goto, Raise, TypeOK, Driving
<1>9. CASE SaveStep(p)
  BY <1>0, <1>9, DriveQuiet DEF SaveStep, Goto, Raise, TypeOK, Driving
<1>10. CASE LoginCheck(p)
  BY <1>0, <1>10, DriveQuiet DEF LoginCheck, Goto, Advance, AtStep, TypeOK,
     Driving
<1>11. CASE Navigate(p)
  BY <1>0, <1>11, DriveQuiet DEF Navigate, Advance, AtStep, Goto, TypeOK,
     Driving
<1>12. CASE FillQuery(p)
  BY <1>0, <1>12, DriveQuiet DEF FillQuery, Goto, Advance, AtStep, TypeOK,
     Driving
<1>13. CASE SelectAndExport(p)
  BY <1>0, <1>13, DriveQuiet DEF SelectAndExport, Raise, Advance, AtStep,
     Goto, TypeOK, Driving
<1>14. CASE FaceVerify(p)
  BY <1>0, <1>14, DriveQuiet DEF FaceVerify, Goto, Advance, AtStep, TypeOK,
     Driving
<1>15. CASE NeedsHuman(p)
  BY <1>0, <1>15, DriveQuiet DEF NeedsHuman, Goto, Raise, TypeOK, Driving
<1>16. CASE PromptHuman(p)
  BY <1>0, <1>16, DriveQuiet DEF PromptHuman, Goto, Raise, TypeOK, Driving
<1>17. CASE WaitForHuman(p)
  BY <1>0, <1>17, DriveQuiet DEF WaitForHuman, Raise, Advance, Goto, TypeOK,
     Driving
<1>18. CASE PollExport(p)
  BY <1>0, <1>18, DriveQuiet DEF PollExport, Goto, AtStep, TypeOK, Driving
<1>19. CASE PollTimeout(p)
  BY <1>0, <1>19, DriveQuiet DEF PollTimeout, Raise, AtStep, Goto, TypeOK,
     Driving
<1>20. CASE Archive(p)
  BY <1>0, <1>20, DriveQuiet DEF Archive, Raise, Advance, AtStep, Goto,
     TypeOK, Driving
<1>21. CASE StepRaises(p)
  BY <1>0, <1>21, DriveQuiet DEF StepRaises, Raise, Goto, TypeOK, Driving
<1>22. CASE CloseChrome(p)
  BY <1>0, <1>22, DriveQuiet DEF CloseChrome, Goto, Raise, TypeOK, Driving
<1>23. CASE Unlock(p)
  BY <1>0, <1>23, DriveQuiet DEF Unlock, Goto, Raise, TypeOK, Driving
<1>24. CASE EndRun(p)
  BY <1>0, <1>24, DriveQuiet DEF EndRun, Goto, Raise, TypeOK, Driving
<1>25. CASE AuditEnd(p)
  BY <1>0, <1>25, DriveQuiet DEF AuditEnd, Raise, Exit, Goto, TypeOK, Driving
<1>26. CASE FailRun(p)
  BY <1>0, <1>26, DriveQuiet DEF FailRun, Exit, Goto, TypeOK, Driving
<1>27. CASE OpenLogin(p)
  BY <1>0, <1>27, DriveQuiet DEF OpenLogin, Goto, TypeOK, Driving
<1>28. CASE CloseLogin(p)
  BY <1>0, <1>28, DriveQuiet DEF CloseLogin, Exit, Goto, TypeOK, Driving
<1>29. CASE Kill(p)
  BY <1>0, <1>29, DriveQuiet DEF Kill, Exit, Goto, TypeOK, Driving
<1> QED BY <1>1, <1>2, <1>3, <1>4, <1>5, <1>6, <1>7, <1>8, <1>9, <1>10, <1>11,
    <1>12, <1>13, <1>14, <1>15, <1>16, <1>17, <1>18, <1>19, <1>20, <1>21,
    <1>22, <1>23, <1>24, <1>25, <1>26, <1>27, <1>28, <1>29 DEF Proceed

\* While a worker drives a session nobody else writes VALID or EXPIRED into
\* its row, however logins, losers of the flock and failures interleave.
THEOREM ReleasedByHolderOnly == Spec => []NoForeignRelease
<1>1. Init => DriveInv
  BY DEF Init, DriveInv, Driving
<1>2. IInv /\ DriveInv /\ [Next]_vars => DriveInv'
  <2> SUFFICES ASSUME IInv, DriveInv, [Next]_vars PROVE DriveInv'
    OBVIOUS
  <2>1. ASSUME NEW r \in RunId, BuildExport(r) PROVE DriveInv'
    BY <2>1 DEF BuildExport, DriveInv
  <2>2. CASE UNCHANGED vars
    BY <2>2 DEF vars, DriveInv
  <2> QED BY <2>1, <2>2, WorkerDrives DEF Next
<1>3. DriveInv => NoForeignRelease
  BY DEF DriveInv, NoForeignRelease
<1> QED BY <1>1, <1>2, <1>3, Invariance, PTL DEF Spec
=============================================================================
