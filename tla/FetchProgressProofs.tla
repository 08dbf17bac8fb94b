------------------------ MODULE FetchProgressProofs ------------------------
(***************************************************************************)
(* More proofs about FetchRun, for any number of workers, tenants, runs,   *)
(* kills and failed transactions: how far a worker still has to go, which  *)
(* Chrome is whose, who writes an archive, what the audit log tells, and   *)
(* how many runs can be lost.                                              *)
(*                                                                         *)
(* Flow is the control flow of a worker, taken from its actions once; the  *)
(* variant and the invariant of the profile are read off it.               *)
(***************************************************************************)
EXTENDS FetchLedgerProofs, FiniteSets, FiniteSetTheorems

-----------------------------------------------------------------------------
(***************************************************************************)
(* The control flow of a worker.                                           *)
(***************************************************************************)

\* The loop of run_fetch: p is at a step or between two of them.
Looping == {"saving", "acting", "expiring", "asking", "prompting", "waiting"}

\* From l with local variables j to m with local variables k, in one step of
\* the worker's own.
Flow(l, j, m, k) ==
  \/ l = "created" /\ m \in {"locking", "idle"}
  \/ l = "locking" /\ m \in {"marking", "failing"}
  \/ l = "marking" /\ m \in {"launching", "unlocking"}
  \/ l = "launching" /\ ((m = "saving" /\ k.step = 1) \/ m = "releasing")
  \/ l = "saving" /\ m = "acting" /\ k = j
  \/ l = "acting" /\ m \in {"expiring", "asking"} /\ k = j
  \/ l = "asking" /\ m = "prompting" /\ k = j
  \/ l = "prompting" /\ m = "waiting" /\ k = j
  \/ l \in {"acting", "waiting"} /\ m = "saving" /\ k.step = j.step + 1
  \/ l \in Looping /\ m = "closing"
  \/ l = "closing" /\ m = "releasing"
  \/ l = "releasing" /\ (m = "unlocking" \/ (m = "releasing" /\ j.error = "none" /\ k.error # "none"))
  \/ l = "unlocking" /\ m \in {"ending", "failing"}
  \/ l = "ending" /\ m \in {"auditing", "failing"}
  \/ l = "auditing" /\ m \in {"idle", "failing"}
  \/ l = "failing" /\ m = "idle"
  \/ l = "login" /\ m = "closing_login"
  \/ l = "closing_login" /\ m = "idle"

LEMMA WorkerFlow ==
  ASSUME TypeOK, NEW p \in Worker, Proceed(p) \/ StepRaises(p)
  PROVE  Flow(pc[p], job[p], pc'[p], job'[p])
<1>0. pc \in [Worker -> Pc] /\ job \in [Worker -> Job] /\ job[p] \in Job
  BY DEF TypeOK
<1>1. \A l : Goto(p, l) => pc'[p] = l
  BY <1>0 DEF Goto
<1>2. \A e \in ErrorClass : \A l : Raise(p, e, l) => pc'[p] = l /\ job'[p].error = e
  <2> SUFFICES ASSUME NEW e \in ErrorClass, NEW l, Raise(p, e, l) PROVE pc'[p] = l /\ job'[p].error = e
    OBVIOUS
  <2>1. pc'[p] = l
    BY <1>1 DEF Raise
  <2>2. job'[p] = [job[p] EXCEPT !.error = e]
    BY <1>0 DEF Raise
  <2> QED BY <1>0, <2>1, <2>2, RaisedFields
<1>3. /\ "SessionLocked" \in ErrorClass /\ "Unexpected" \in ErrorClass /\ "SessionExpired" \in ErrorClass
      /\ "SelectorMissError" \in ErrorClass /\ "FaceVerifyRequired" \in ErrorClass
      /\ "ExportTimeout" \in ErrorClass /\ "DataIntegrityError" \in ErrorClass /\ "none" \notin ErrorClass
  BY DEF ErrorClass
<1>4. Exit(p) => pc'[p] = "idle"
  BY <1>1 DEF Exit
<1>5. Advance(p, "DONE") => pc'[p] = "closing"
  BY <1>1 DEF Advance
<1>6. \A s : s # "DONE" /\ Advance(p, s) => pc'[p] = "saving" /\ job'[p].step = job[p].step + 1
  BY AdvanceFields
<1>7. CASE Authenticate(p)
  BY <1>1, <1>4, <1>7 DEF Authenticate, Flow
<1>8. CASE Flock(p)
  BY <1>1, <1>2, <1>3, <1>8 DEF Flock, Flow
<1>9. CASE MarkLocked(p)
  BY <1>1, <1>2, <1>3, <1>9 DEF MarkLocked, Flow
<1>10. CASE Launch(p)
  <2>1. CASE Raise(p, "Unexpected", "releasing")
    BY <1>2, <1>3, <1>10, <2>1 DEF Launch, Flow
  <2>2. CASE job' = [job EXCEPT ![p].step = 1] /\ Goto(p, "saving")
    <3>1. job'[p].step = 1
      BY <1>0, <2>2 DEF Job
    <3> QED BY <1>1, <1>10, <2>2, <3>1 DEF Launch, Flow
  <2> QED BY <1>10, <2>1, <2>2 DEF Launch
<1>11. CASE SaveStep(p)
  <2>1. pc[p] = "saving" /\ (pc'[p] = "closing" \/ (pc'[p] = "acting" /\ job'[p] = job[p]))
    BY <1>1, <1>2, <1>3, <1>11 DEF SaveStep
  <2> QED BY <2>1 DEF Flow, Looping
<1>12. CASE LoginCheck(p)
  <2>1. CASE Advance(p, "NAVIGATING")
    BY <1>6, <1>12, <2>1 DEF LoginCheck, AtStep, Flow
  <2>2. CASE Goto(p, "expiring") /\ UNCHANGED job
    BY <1>1, <1>12, <2>2 DEF LoginCheck, AtStep, Flow
  <2> QED BY <1>12, <2>1, <2>2 DEF LoginCheck
<1>13. CASE MarkExpired(p)
  <2>1. pc[p] = "expiring" /\ pc'[p] = "closing"
    BY <1>2, <1>3, <1>13 DEF MarkExpired
  <2> QED BY <2>1 DEF Flow, Looping
<1>14. CASE Navigate(p)
  BY <1>6, <1>14 DEF Navigate, AtStep, Flow
<1>15. CASE FillQuery(p)
  <2>1. CASE Advance(p, "DONE")
    BY <1>5, <1>15, <2>1 DEF FillQuery, AtStep, Flow, Looping
  <2>2. ASSUME NEW n \in Count, Goto(p, "saving"),
               job' = [job EXCEPT ![p] = [@ EXCEPT !.state = "DOWNLOADING", !.step = 4, !.expected = n]]
        PROVE  Flow(pc[p], job[p], pc'[p], job'[p])
    <3>1. job'[p].step = 4
      BY <1>0, <2>2 DEF Job
    <3>2. pc[p] = "acting" /\ job[p].step = 3 /\ pc'[p] = "saving"
      BY <1>1, <1>15, <2>2 DEF FillQuery, AtStep
    <3> QED BY <3>1, <3>2 DEF Flow
  <2> QED BY <1>15, <2>1, <2>2 DEF FillQuery
<1>16. CASE SelectAndExport(p)
  <2>1. pc[p] = "acting"
    BY <1>16 DEF SelectAndExport, AtStep
  <2>2. pc'[p] = "closing" \/ (pc'[p] = "saving" /\ job'[p].step = job[p].step + 1)
    BY <1>2, <1>3, <1>5, <1>6, <1>16 DEF SelectAndExport
  <2> QED BY <2>1, <2>2 DEF Flow, Looping
<1>17. CASE FaceVerify(p)
  <2>1. CASE Advance(p, "POLLING")
    BY <1>6, <1>17, <2>1 DEF FaceVerify, AtStep, Flow
  <2>2. CASE Goto(p, "asking") /\ UNCHANGED job
    BY <1>1, <1>17, <2>2 DEF FaceVerify, AtStep, Flow
  <2> QED BY <1>17, <2>1, <2>2 DEF FaceVerify
<1>18. CASE NeedsHuman(p)
  <2>1. pc[p] = "asking" /\ (pc'[p] = "closing" \/ (pc'[p] = "prompting" /\ job'[p] = job[p]))
    BY <1>1, <1>2, <1>3, <1>18 DEF NeedsHuman
  <2> QED BY <2>1 DEF Flow, Looping
<1>19. CASE PromptHuman(p)
  <2>1. pc[p] = "prompting" /\ (pc'[p] = "closing" \/ (pc'[p] = "waiting" /\ job'[p] = job[p]))
    BY <1>1, <1>2, <1>3, <1>19 DEF PromptHuman
  <2> QED BY <2>1 DEF Flow, Looping
<1>20. CASE WaitForHuman(p)
  <2>1. pc[p] = "waiting"
    BY <1>20 DEF WaitForHuman
  <2>2. CASE Advance(p, "POLLING")
    BY <1>6, <2>1, <2>2 DEF Flow
  <2>3. ASSUME NEW e \in {"FaceVerifyRequired", "Unexpected"}, Raise(p, e, "closing")
        PROVE  Flow(pc[p], job[p], pc'[p], job'[p])
    <3>1. pc'[p] = "closing"
      BY <1>2, <1>3, <2>3
    <3> QED BY <2>1, <3>1 DEF Flow, Looping
  <2> QED BY <1>20, <2>2, <2>3 DEF WaitForHuman
<1>21. CASE PollExport(p)
  <2>1. PICK r \in RunId :
          job' = [job EXCEPT ![p] = [@ EXCEPT !.state = "ARCHIVING", !.step = 7, !.link = r]]
    BY <1>21 DEF PollExport
  <2>2. job'[p].step = 7
    BY <1>0, <2>1 DEF Job
  <2>3. pc[p] = "acting" /\ job[p].step = 6 /\ pc'[p] = "saving"
    BY <1>1, <1>21 DEF PollExport, AtStep
  <2> QED BY <2>2, <2>3 DEF Flow
<1>22. CASE PollTimeout(p) \/ StepRaises(p)
  <2>1. pc[p] = "acting" /\ pc'[p] = "closing"
    BY <1>2, <1>3, <1>22 DEF PollTimeout, StepRaises, AtStep
  <2> QED BY <2>1 DEF Flow, Looping
<1>23. CASE Archive(p)
  <2>1. pc[p] = "acting" /\ pc'[p] = "closing"
    BY <1>2, <1>3, <1>5, <1>23 DEF Archive, AtStep
  <2> QED BY <2>1 DEF Flow, Looping
<1>24. CASE CloseChrome(p)
  BY <1>1, <1>2, <1>3, <1>24 DEF CloseChrome, Flow
<1>25. CASE MarkValid(p)
  <2>1. CASE Goto(p, "unlocking")
    BY <1>1, <1>25, <2>1 DEF MarkValid, Flow
  <2>2. CASE Raise(p, "Unexpected", IF job[p].error = "none" THEN "releasing" ELSE "unlocking")
    <3>1. /\ pc[p] = "releasing" /\ job'[p].error = "Unexpected"
          /\ pc'[p] = IF job[p].error = "none" THEN "releasing" ELSE "unlocking"
      BY <1>2, <1>3, <1>25, <2>2 DEF MarkValid
    <3> QED BY <3>1 DEF Flow
  <2> QED BY <1>25, <2>1, <2>2 DEF MarkValid
<1>26. CASE Unlock(p)
  <2>1. pc[p] = "unlocking" /\ pc'[p] \in {"ending", "failing"}
    BY <1>1, <1>2, <1>3, <1>26 DEF Unlock
  <2> QED BY <2>1 DEF Flow
<1>27. CASE EndRun(p)
  BY <1>1, <1>2, <1>3, <1>27 DEF EndRun, Flow
<1>28. CASE AuditEnd(p)
  BY <1>2, <1>3, <1>4, <1>28 DEF AuditEnd, Flow
<1>29. CASE FailRun(p)
  BY <1>4, <1>29 DEF FailRun, Flow
<1>30. CASE FinishLogin(p)
  BY <1>1, <1>30 DEF FinishLogin, Flow
<1>31. CASE CloseLogin(p)
  BY <1>4, <1>31 DEF CloseLogin, Flow
<1> QED BY <1>7, <1>8, <1>9, <1>10, <1>11, <1>12, <1>13, <1>14, <1>15, <1>16, <1>17, <1>18, <1>19,
    <1>20, <1>21, <1>22, <1>23, <1>24, <1>25, <1>26, <1>27, <1>28, <1>29, <1>30, <1>31 DEF Proceed

-----------------------------------------------------------------------------
(***************************************************************************)
(* How far a worker still has to go.                                       *)
(***************************************************************************)

\* The statements left of the step being executed, its own included.
Rest(l) ==
  CASE l = "saving" -> 5
    [] l = "acting" -> 4
    [] l \in {"expiring", "asking"} -> 3
    [] l = "prompting" -> 2
    [] OTHER -> 1

\* A bound on the statements a worker at l with local variables j still
\* executes: five for each of the seven steps, and seven to give back the
\* session and to end the run.
Ahead(l, j) ==
  CASE l = "created"                   -> 46
    [] l = "locking"                   -> 45
    [] l = "marking"                   -> 44
    [] l = "launching"                 -> 43
    [] l \in Looping                   -> 7 + 5 * (7 - j.step) + Rest(l)
    [] l = "closing"                   -> 7
    [] l = "releasing"                 -> IF j.error = "none" THEN 6 ELSE 5
    [] l = "unlocking"                 -> 4
    [] l = "ending"                    -> 3
    [] l \in {"auditing", "login"}     -> 2
    [] l \in {"failing", "closing_login"} -> 1
    [] OTHER                           -> 0

Longest == 46

\* A worker in the loop is at one of the seven steps.
StepsInv == \A p \in Worker : pc[p] \in Looping => job[p].step \in 1 .. 7

LEMMA AheadTyped ==
  ASSUME NEW l \in Pc, NEW j \in Job, l \in Looping => j.step \in 1 .. 7
  PROVE  Ahead(l, j) \in 0 .. Longest /\ (Ahead(l, j) = 0 <=> l = "idle")
<1>1. CASE l \in Looping
  <2>1. Ahead(l, j) = 7 + 5 * (7 - j.step) + Rest(l)
    BY <1>1 DEF Looping, Ahead
  <2>2. Rest(l) \in 1 .. 5 /\ j.step \in 1 .. 7
    BY <1>1 DEF Rest
  <2>3. ASSUME NEW s \in 1 .. 7, NEW e \in 1 .. 5
        PROVE  7 + 5 * (7 - s) + e \in 1 .. 42
    OBVIOUS
  <2>4. Ahead(l, j) \in 1 .. 42 /\ l # "idle"
    BY <1>1, <2>1, <2>2, <2>3 DEF Looping
  <2> QED BY <2>4 DEF Longest
<1>2. CASE l \notin Looping
  BY <1>2 DEF Ahead, Longest, Looping, Pc, Holding, Driving, Browsing
<1> QED BY <1>1, <1>2

\* Every step of the control flow comes nearer to the end.
LEMMA FlowFalls ==
  ASSUME NEW l \in Pc, NEW m \in Pc, NEW j \in Job, NEW k \in Job, Flow(l, j, m, k),
         l \in Looping => j.step \in 1 .. 7, m \in Looping => k.step \in 1 .. 7
  PROVE  Ahead(m, k) < Ahead(l, j)
<1>1. ASSUME NEW s \in 1 .. 7, NEW t \in 1 .. 7
      PROVE  /\ 7 + 5 * (7 - s) + 5 < 43 /\ 7 + 5 * (7 - s) + 5 > 7 + 5 * (7 - s) + 4
             /\ 7 + 5 * (7 - s) + 4 > 7 + 5 * (7 - s) + 3 /\ 7 + 5 * (7 - s) + 3 > 7 + 5 * (7 - s) + 2
             /\ 7 + 5 * (7 - s) + 2 > 7 + 5 * (7 - s) + 1 /\ 7 + 5 * (7 - s) + 1 > 7
             /\ t = s + 1 => 7 + 5 * (7 - t) + 5 < 7 + 5 * (7 - s) + 1
  OBVIOUS
<1>2. \A i \in Looping : \A v : Ahead(i, v) = 7 + 5 * (7 - v.step) + Rest(i)
  BY DEF Looping, Ahead
<1>3. CASE l \notin Looping /\ m \notin Looping
  BY <1>3 DEF Flow, Ahead, Looping
<1>4. CASE l \notin Looping /\ m \in Looping
  <2>1. l = "launching" /\ m = "saving" /\ k.step = 1
    BY <1>4 DEF Flow, Looping
  <2>2. Ahead(l, j) = 43 /\ Ahead(m, k) = 7 + 5 * (7 - 1) + 5
    BY <1>2, <2>1 DEF Ahead, Looping, Rest
  <2> QED BY <2>2
<1>5. CASE l \in Looping /\ m \notin Looping
  <2>1. m = "closing"
    BY <1>5 DEF Flow, Looping
  <2>2. Ahead(m, k) = 7 /\ Ahead(l, j) > 7
    <3>1. Rest(l) \in 1 .. 5 /\ j.step \in 1 .. 7
      BY <1>5 DEF Rest
    <3>2. ASSUME NEW s \in 1 .. 7, NEW e \in 1 .. 5 PROVE 7 + 5 * (7 - s) + e > 7
      OBVIOUS
    <3>3. Ahead(m, k) = 7
      BY <2>1 DEF Ahead, Looping
    <3> QED BY <1>2, <1>5, <3>1, <3>2, <3>3
  <2> QED BY <2>2
<1>6. CASE l \in Looping /\ m \in Looping
  <2>1. \/ k = j /\ l = "saving" /\ m = "acting"
        \/ k = j /\ l = "acting" /\ m \in {"expiring", "asking"}
        \/ k = j /\ l = "asking" /\ m = "prompting"
        \/ k = j /\ l = "prompting" /\ m = "waiting"
        \/ k.step = j.step + 1 /\ l \in {"acting", "waiting"} /\ m = "saving"
    BY <1>6 DEF Flow, Looping
  <2>2. CASE k = j
    <3>1. k.step # j.step + 1
      BY <1>6, <2>2
    <3>2. Rest(m) < Rest(l) /\ Rest(m) \in 1 .. 5 /\ Rest(l) \in 1 .. 5
      BY <2>1, <3>1 DEF Rest
    <3>3. ASSUME NEW s \in 1 .. 7, NEW d \in 1 .. 5, NEW e \in 1 .. 5, d < e
          PROVE  7 + 5 * (7 - s) + d < 7 + 5 * (7 - s) + e
      BY <3>3
    <3> QED BY <1>2, <1>6, <2>2, <3>1, <3>2, <3>3
  <2>3. CASE k.step = j.step + 1 /\ l \in {"acting", "waiting"} /\ m = "saving"
    <3>1. Rest(m) = 5 /\ Rest(l) \in 1 .. 5
      BY <2>3 DEF Rest
    <3>2. ASSUME NEW s \in 1 .. 7, NEW t \in 1 .. 7, NEW e \in 1 .. 5, t = s + 1
          PROVE  7 + 5 * (7 - t) + 5 < 7 + 5 * (7 - s) + e
      BY <3>2
    <3> QED BY <1>2, <1>6, <2>3, <3>1, <3>2
  <2> QED BY <2>1, <2>2, <2>3
<1> QED BY <1>3, <1>4, <1>5, <1>6

LEMMA StepsFit ==
  ASSUME IInv, LedgerInv
  PROVE  StepsInv
<1> SUFFICES ASSUME NEW p \in Worker, pc[p] \in Looping PROVE job[p].step \in 1 .. 7
  BY DEF StepsInv
<1>1. CASE pc[p] \in {"prompting", "waiting", "asking"}
  BY <1>1 DEF IInv, JobInv, JobFits
<1>2. CASE pc[p] \in {"saving", "acting", "expiring"}
  <2>1. pc[p] \notin Outside
    BY <1>2 DEF Outside
  <2>2. RowFits(pc[p], job[p], runs[job[p].run], Submitted(job[p].run))
    BY <2>1, AtWork
  <2>3. StepFits(job[p].step, job[p].state)
    BY <1>2, <2>2 DEF RowFits
  <2> QED BY <2>3 DEF StepFits
<1> QED BY <1>1, <1>2 DEF Looping

\* The statements worker p still has ahead of it, at most.
Left(p) == Ahead(pc[p], job[p])

LeftInv == \A p \in Worker : Left(p) \in 0 .. Longest /\ (Left(p) = 0 <=> pc[p] = "idle")

\* Every statement of a worker brings it nearer to its end, whatever it
\* raises; nobody else's step takes it back, and once a worker has ended only
\* a new command starts it.
ComesNearer(p) ==
  /\ Proceed(p) \/ StepRaises(p) => Left(p)' < Left(p)
  /\ pc[p] # "idle" => Left(p)' <= Left(p)

LEMMA StepComesNearer ==
  ASSUME IInv, IInv', StepsInv, StepsInv', [Next]_vars, NEW p \in Worker
  PROVE  ComesNearer(p)
<1>0. /\ pc[p] \in Pc /\ pc'[p] \in Pc /\ job[p] \in Job /\ job'[p] \in Job
      /\ pc[p] \in Looping => job[p].step \in 1 .. 7
      /\ pc'[p] \in Looping => job'[p].step \in 1 .. 7
  BY DEF IInv, TypeOK, StepsInv
<1>1. Left(p) \in Nat /\ Left(p)' \in Nat /\ (pc'[p] = "idle" => Left(p)' = 0)
  <2>1. ASSUME NEW a \in 0 .. Longest PROVE a \in Nat
    BY DEF Longest
  <2> QED BY <1>0, <2>1, AheadTyped DEF Left
<1>2. ASSUME Proceed(p) \/ StepRaises(p) PROVE Left(p)' < Left(p)
  <2>1. Flow(pc[p], job[p], pc'[p], job'[p])
    BY <1>2, WorkerFlow DEF IInv
  <2> QED BY <1>0, <2>1, FlowFalls DEF Left
<1>3. CASE UNCHANGED <<pc[p], job[p]>>
  BY <1>1, <1>2, <1>3 DEF Left, ComesNearer
<1>4. CASE Kill(p)
  <2>1. pc'[p] = "idle"
    BY <1>4 DEF Kill, Exit, Goto, IInv, TypeOK
  <2> QED BY <1>1, <1>2, <2>1 DEF ComesNearer
<1>5. CASE CreateRun(p) \/ OpenLogin(p)
  BY <1>2, <1>5 DEF CreateRun, OpenLogin, ComesNearer
<1>6. CASE Proceed(p) \/ StepRaises(p)
  BY <1>1, <1>2, <1>6 DEF ComesNearer
<1>7. ASSUME NEW q \in Worker, q # p,
             CreateRun(q) \/ OpenLogin(q) \/ Proceed(q) \/ StepRaises(q) \/ Kill(q)
      PROVE  UNCHANGED <<pc[p], job[p]>>
  BY <1>7, WorkerStep DEF IInv, Moves
<1>8. CASE (\E r \in RunId : BuildExport(r)) \/ UNCHANGED vars
  BY <1>3, <1>8 DEF BuildExport, vars
<1> QED BY <1>3, <1>4, <1>5, <1>6, <1>7, <1>8 DEF Next

LEMMA StepsAlways == Spec => []StepsInv
<1>1. IInv /\ LedgerInv => StepsInv
  BY StepsFit
<1> QED BY <1>1, Invariance, LedgerAlways, PTL

\* A worker that has started executes at most Longest statements: there is a
\* number that each of its statements lowers, exceptions, retries, the wait for
\* a human and failed transactions included, that no other process raises, and
\* that is 0 exactly when the worker has ended.  In the loop it is always at one
\* of the seven steps, so that no statement is without a successor.  With the
\* fairness of Proceed this is why SessionIsReleased and RunEnds hold.
THEOREM WorkIsBounded == Spec => [](LeftInv /\ StepsInv) /\ [][\A p \in Worker : ComesNearer(p)]_vars
<1>1. IInv /\ StepsInv => LeftInv
  <2> SUFFICES ASSUME IInv, StepsInv, NEW p \in Worker
               PROVE  Left(p) \in 0 .. Longest /\ (Left(p) = 0 <=> pc[p] = "idle")
    BY DEF LeftInv
  <2>1. pc[p] \in Pc /\ job[p] \in Job /\ (pc[p] \in Looping => job[p].step \in 1 .. 7)
    BY DEF IInv, TypeOK, StepsInv
  <2> QED BY <2>1, AheadTyped DEF Left
<1>2. IInv /\ IInv' /\ StepsInv /\ StepsInv' /\ [Next]_vars => [\A p \in Worker : ComesNearer(p)]_vars
  BY StepComesNearer
<1> QED BY <1>1, <1>2, Invariance, StepsAlways, PTL DEF Spec

-----------------------------------------------------------------------------
(***************************************************************************)
(* The Chrome profile of a tenant.                                         *)
(***************************************************************************)

\* p has t's profile open exactly while it is between the launch and the end
\* of its Chrome for t, in a run or in a login.
ChromeInv ==
  \A p \in Worker, t \in Tenant :
    chrome[t] = p <=> pc[p] \in Browsing /\ job[p].tenant = t

\* A step that neither opens nor closes a Chrome.
LEMMA ChromeStays ==
  ASSUME ChromeInv, NEW p \in Worker, Moves(p), UNCHANGED chrome,
         pc'[p] \in Browsing <=> pc[p] \in Browsing
  PROVE  ChromeInv'
BY DEF ChromeInv, Moves, Browsing, Driving

LEMMA ChromeOpens ==
  ASSUME TypeOK, ChromeInv, NEW p \in Worker, Moves(p), NEW t \in Tenant, chrome[t] = None,
         chrome' = [chrome EXCEPT ![t] = p], pc[p] \notin Browsing, pc'[p] \in Browsing,
         job'[p].tenant = t
  PROVE  ChromeInv'
<1>1. None # p /\ chrome \in [Tenant -> Worker \cup {None}]
  BY NoneIsFresh DEF TypeOK
<1>2. \A u \in Tenant : chrome[u] # p
  BY DEF ChromeInv
<1>3. ASSUME NEW q \in Worker, NEW u \in Tenant
      PROVE  chrome'[u] = q <=> pc'[q] \in Browsing /\ job'[q].tenant = u
  <2>1. CASE q = p
    BY <1>1, <1>2, <2>1
  <2>2. CASE q # p
    <3>1. pc'[q] = pc[q] /\ job'[q] = job[q] /\ q # None
      BY <2>2, NoneIsFresh DEF Moves
    <3> QED BY <1>1, <2>2, <3>1 DEF ChromeInv
  <2> QED BY <2>1, <2>2
<1> QED BY <1>3 DEF ChromeInv

LEMMA ChromeCloses ==
  ASSUME TypeOK, ChromeInv, NEW p \in Worker, Moves(p), pc'[p] \notin Browsing,
         \A u \in Tenant : chrome'[u] = IF chrome[u] = p THEN None ELSE chrome[u]
  PROVE  ChromeInv'
<1>1. ASSUME NEW q \in Worker, NEW u \in Tenant
      PROVE  chrome'[u] = q <=> pc'[q] \in Browsing /\ job'[q].tenant = u
  <2>0. q # None
    BY NoneIsFresh
  <2>1. CASE q = p
    BY <2>0, <2>1
  <2>2. CASE q # p
    BY <2>0, <2>2 DEF ChromeInv, Moves
  <2> QED BY <2>1, <2>2
<1> QED BY <1>1 DEF ChromeInv

LEMMA WorkerChrome ==
  ASSUME IInv, ChromeInv, NEW p \in Worker,
         CreateRun(p) \/ OpenLogin(p) \/ Proceed(p) \/ StepRaises(p) \/ Kill(p)
  PROVE  ChromeInv'
<1>0. /\ TypeOK /\ JobInv /\ Moves(p) /\ pc \in [Worker -> Pc] /\ job \in [Worker -> Job]
      /\ chrome \in [Tenant -> Worker \cup {None}]
  BY WorkerStep DEF IInv, TypeOK
<1>1. CASE CreateRun(p)
  <2>1. UNCHANGED chrome /\ pc[p] = "idle" /\ pc'[p] = "created"
    BY <1>0, <1>1 DEF CreateRun, Goto
  <2>2. pc[p] \notin Browsing /\ pc'[p] \notin Browsing
    BY <2>1 DEF Browsing, Driving
  <2> QED BY <1>0, <2>1, <2>2, ChromeStays
<1>2. CASE OpenLogin(p)
  <2>1. PICK t \in Tenant : /\ chrome[t] = None /\ chrome' = [chrome EXCEPT ![t] = p]
                            /\ job' = [job EXCEPT ![p] = [@ EXCEPT !.tenant = t]]
    BY <1>2 DEF OpenLogin
  <2>2. job'[p].tenant = t
    BY <1>0, <2>1 DEF Job
  <2>3. pc[p] \notin Browsing /\ pc'[p] \in Browsing
    BY <1>0, <1>2 DEF OpenLogin, Goto, Browsing, Driving
  <2> QED BY <1>0, <2>1, <2>2, <2>3, ChromeOpens
<1>3. CASE Launch(p)
  <2>1. CASE Raise(p, "Unexpected", "releasing") /\ UNCHANGED chrome
    BY <1>0, <1>3, <2>1, ChromeStays DEF Launch, Raise, Goto, Browsing, Driving
  <2>2. CASE /\ chrome[job[p].tenant] = None
             /\ chrome' = [chrome EXCEPT ![job[p].tenant] = p]
             /\ job'    = [job EXCEPT ![p].step = 1]
             /\ Goto(p, "saving")
    <3>1. pc[p] = "launching" /\ pc'[p] = "saving" /\ job[p].tenant \in Tenant
      BY <1>0, <1>3, <2>2 DEF Launch, Goto, JobInv, JobFits
    <3>2. job'[p].tenant = job[p].tenant
      BY <1>0, <3>1 DEF Moves
    <3>3. pc[p] \notin Browsing /\ pc'[p] \in Browsing
      BY <3>1 DEF Browsing, Driving
    <3> QED BY <1>0, <2>2, <3>1, <3>2, <3>3, ChromeOpens
  <2> QED BY <1>3, <2>1, <2>2 DEF Launch
<1>4. CASE CloseChrome(p) \/ CloseLogin(p)
  <2>1. /\ chrome' = [chrome EXCEPT ![job[p].tenant] = None] /\ pc[p] \in Browsing
        /\ pc[p] \in {"closing", "closing_login"}
    BY <1>4 DEF CloseChrome, CloseLogin, Browsing, Driving
  <2>2. job[p].tenant \in Tenant /\ chrome[job[p].tenant] = p
    BY <1>0, <2>1 DEF JobInv, JobFits, ChromeInv
  <2>3. \A u \in Tenant : chrome[u] = p => u = job[p].tenant
    BY DEF ChromeInv
  <2>4. \A u \in Tenant : chrome'[u] = IF chrome[u] = p THEN None ELSE chrome[u]
    BY <1>0, <2>1, <2>2, <2>3
  <2>5. pc'[p] \notin Browsing
    BY <1>0, <1>4 DEF CloseChrome, CloseLogin, Raise, Exit, Goto, Browsing, Driving
  <2> QED BY <1>0, <2>4, <2>5, ChromeCloses
<1>5. CASE Kill(p)
  <2>1. \A u \in Tenant : chrome'[u] = IF chrome[u] = p THEN None ELSE chrome[u]
    BY <1>5 DEF Kill
  <2>2. pc'[p] \notin Browsing
    BY <1>0, <1>5 DEF Kill, Exit, Goto, Browsing, Driving
  <2> QED BY <1>0, <2>1, <2>2, ChromeCloses
<1>6. ASSUME Proceed(p) \/ StepRaises(p), ~Launch(p), ~CloseChrome(p), ~CloseLogin(p)
      PROVE  ChromeInv'
  <2>1. UNCHANGED chrome /\ pc[p] \notin {"launching", "closing", "closing_login"}
    BY <1>6 DEF Proceed, Authenticate, Flock, MarkLocked, SaveStep, LoginCheck, MarkExpired,
       Navigate, FillQuery, SelectAndExport, FaceVerify, NeedsHuman, PromptHuman, WaitForHuman,
       PollExport, PollTimeout, Archive, StepRaises, MarkValid, Unlock, EndRun, AuditEnd, FailRun,
       FinishLogin, AtStep
  <2>2. Flow(pc[p], job[p], pc'[p], job'[p])
    BY <1>0, <1>6, WorkerFlow
  <2>3. pc'[p] \in Browsing <=> pc[p] \in Browsing
    BY <2>1, <2>2 DEF Flow, Looping, Browsing, Driving
  <2> QED BY <1>0, <2>1, <2>3, ChromeStays
<1> QED BY <1>1, <1>2, <1>3, <1>4, <1>5, <1>6

LEMMA ChromeAlways == Spec => []ChromeInv
<1>1. Init => ChromeInv
  BY NoneIsFresh DEF Init, ChromeInv, Browsing, Driving
<1>2. IInv /\ ChromeInv /\ [Next]_vars => ChromeInv'
  <2> SUFFICES ASSUME IInv, ChromeInv, [Next]_vars PROVE ChromeInv'
    OBVIOUS
  <2>1. CASE (\E r \in RunId : BuildExport(r)) \/ UNCHANGED vars
    BY <2>1 DEF BuildExport, vars, ChromeInv
  <2> QED BY <2>1, WorkerChrome DEF Next
<1> QED BY <1>1, <1>2, Invariance, PTL DEF Spec

\* A tenant's Chrome profile is never left open, and never in the way of a
\* run's launch but for a login.  The login takes no flock, so that the profile
\* needs an invariant of its own (ChromeInv); that no other run is in the way
\* follows from it and from the flock (LockInv) together, because Chrome is
\* closed before the flock is given back.
THEOREM ProfilesAreFree == Spec => []ProfileIsFree
<1>1. IInv /\ ChromeInv => ProfileIsFree
  <2> SUFFICES ASSUME IInv, ChromeInv PROVE ProfileIsFree
    OBVIOUS
  <2>1. ASSUME NEW t \in Tenant, chrome[t] # None
        PROVE  pc[chrome[t]] \in Browsing /\ job[chrome[t]].tenant = t
    BY <2>1 DEF IInv, TypeOK, ChromeInv
  <2>2. ASSUME NEW p \in Worker, pc[p] = "launching", NEW q, q = chrome[job[p].tenant], q # None
        PROVE  pc[q] \in {"login", "closing_login"}
    <3>1. job[p].tenant \in Tenant /\ lock[job[p].tenant] = p
      BY <2>2 DEF IInv, JobInv, JobFits, LockInv, Holding, Driving
    <3>2. q \in Worker /\ pc[q] \in Browsing /\ job[q].tenant = job[p].tenant
      BY <2>1, <2>2, <3>1 DEF IInv, TypeOK
    <3>3. ASSUME pc[q] \in Driving PROVE FALSE
      <4>1. lock[job[p].tenant] = q
        BY <3>1, <3>2, <3>3 DEF IInv, LockInv, Holding
      <4>2. pc[p] \notin Browsing
        BY <2>2 DEF Browsing, Driving
      <4> QED BY <3>1, <3>2, <4>1, <4>2
    <3> QED BY <3>2, <3>3 DEF Browsing
  <2> QED BY <2>1, <2>2 DEF ProfileIsFree
<1> QED BY <1>1, Invariance, ChromeAlways, PTL

-----------------------------------------------------------------------------
(***************************************************************************)
(* Every fault loses at most one run.                                      *)
(***************************************************************************)

\* Run r has a row, but whoever executed it is gone and told nobody: its
\* caller got no summary.
Unreported == {r \in RunId : runs[r].state # "absent" /\ summary[r].state = "none" /\ Owner(r) = {}}

LossInv == IsFiniteSet(Unreported) /\ Cardinality(Unreported) <= kills + dbFaults

\* A worker that stops has reported, or was killed, or a transaction failed.
LEMMA StopIsCounted ==
  ASSUME IInv, LedgerInv, NEW p \in Worker, pc[p] \notin Outside, NEW r, r = job[p].run,
         Proceed(p) \/ StepRaises(p) \/ Kill(p), pc'[p] \in Outside, summary'[r].state = "none"
  PROVE  kills' + dbFaults' = kills + dbFaults + 1
<1>0. /\ TypeOK /\ pc \in [Worker -> Pc] /\ kills \in Nat /\ dbFaults \in Nat
      /\ summary \in [RunId -> Summary] /\ r \in RunId /\ summary[r] \in Summary
  BY BoundsAreNat, AtWork DEF IInv, TypeOK
<1>1. CASE Kill(p)
  <2>1. kills' = kills + 1 /\ dbFaults' = dbFaults
    BY <1>1 DEF Kill
  <2> QED BY <1>0, <2>1
<1>2. CASE Proceed(p) \/ StepRaises(p)
  <2>1. pc[p] \in {"created", "auditing", "failing"} /\ pc'[p] = "idle"
    <3>1. Flow(pc[p], job[p], pc'[p], job'[p])
      BY <1>0, <1>2, WorkerFlow
    <3> QED BY <3>1 DEF Flow, Outside, Looping
  <2>2. Authenticate(p) \/ AuditEnd(p) \/ FailRun(p)
    BY <1>2, <2>1 DEF Proceed, Flock, MarkLocked, Launch, SaveStep, LoginCheck, MarkExpired,
       Navigate, FillQuery, SelectAndExport, FaceVerify, NeedsHuman, PromptHuman, WaitForHuman,
       PollExport, PollTimeout, Archive, StepRaises, CloseChrome, MarkValid, Unlock, EndRun,
       FinishLogin, CloseLogin, AtStep
  <2>3. \A l : Goto(p, l) => pc'[p] = l
    BY <1>0 DEF Goto
  <2>4. CASE Authenticate(p)
    <3>1. Fails /\ kills' = kills
      BY <2>1, <2>3, <2>4 DEF Authenticate
    <3> QED BY <1>0, <3>1 DEF Fails
  <2>5. CASE AuditEnd(p)
    <3>1. job[p].state = "DONE"
      BY <1>0, <2>5 DEF AuditEnd, IInv, JobInv, JobFits
    <3>2. summary' = [summary EXCEPT ![r].state = job[p].state]
      BY <2>1, <2>3, <2>5 DEF AuditEnd, Raise
    <3>3. summary'[r].state = "DONE"
      <4>1. summary'[r] = [summary[r] EXCEPT !.state = "DONE"]
        BY <1>0, <3>1, <3>2
      <4> QED BY <1>0, <4>1 DEF Summary
    <3> QED BY <3>3
  <2>6. CASE FailRun(p)
    <3>1. CASE summary' = [summary EXCEPT ![job[p].run].state = "FAILED"]
      <4>1. summary'[r] = [summary[r] EXCEPT !.state = "FAILED"]
        BY <1>0, <3>1
      <4>2. summary'[r].state = "FAILED"
        BY <1>0, <4>1 DEF Summary
      <4> QED BY <4>2
    <3>2. CASE Fails
      <4>1. kills' = kills
        BY <2>6 DEF FailRun
      <4> QED BY <1>0, <3>2, <4>1 DEF Fails
    <3> QED BY <2>6, <3>1, <3>2 DEF FailRun
  <2> QED BY <2>2, <2>4, <2>5, <2>6
<1> QED BY <1>1, <1>2

\* At most the run of the worker that moves becomes unreported.
LEMMA LossGrows ==
  ASSUME IInv, LedgerInv, NEW p \in Worker, NEW r, r = job[p].run, Moves(p), Effect(p, r),
         OpenLogin(p) \/ Proceed(p) \/ StepRaises(p) \/ Kill(p), NEW s \in RunId,
         runs'[s].state # "absent", summary'[s].state = "none", \A q \in Worker : job'[q].run # s
  PROVE  s \in Unreported \/ (s = r /\ kills' + dbFaults' = kills + dbFaults + 1)
<1>1. CASE s # r
  <2>1. runs'[s] = runs[s] /\ summary'[s] = summary[s]
    BY <1>1 DEF Effect, Same
  <2>2. \A q \in Worker : job[q].run # s
    BY <1>1 DEF Moves
  <2> QED BY <2>1, <2>2 DEF Unreported, Owner
<1>2. CASE s = r
  <2>1. pc[p] \notin Outside
    BY <1>2, NoneIsFresh DEF LedgerInv, WorkInv
  <2>2. pc'[p] \in Outside
    BY <1>2 DEF Effect, Works, Stops
  <2>3. ~OpenLogin(p)
    BY <2>1 DEF OpenLogin, Outside
  <2> QED BY <1>2, <2>1, <2>2, <2>3, StopIsCounted
<1> QED BY <1>1, <1>2

LEMMA FaultsAddUp ==
  ASSUME NEW a \in Nat, NEW b \in Nat, NEW k \in Nat, NEW d \in Nat, NEW l \in Nat, NEW e \in Nat,
         a <= k + d
  PROVE  /\ b <= a /\ l >= k /\ e >= d => b <= l + e
         /\ b <= a + 1 /\ l + e = k + d + 1 => b <= l + e
OBVIOUS

LEMMA LossStep ==
  ASSUME IInv, LedgerInv, LossInv, [Next]_vars, IInv'
  PROVE  LossInv'
<1>0. /\ kills \in Nat /\ kills' \in Nat /\ kills' >= kills
      /\ dbFaults \in Nat /\ dbFaults' \in Nat /\ dbFaults' >= dbFaults
  BY FaultsGrow DEF IInv
<1>1. ASSUME Unreported' \subseteq Unreported PROVE LossInv'
  <2>1. IsFiniteSet(Unreported)' /\ Cardinality(Unreported)' <= Cardinality(Unreported)
    <3>1. IsFiniteSet(Unreported)
      BY DEF LossInv
    <3> QED BY <1>1, <3>1, FS_Subset
  <2>2. Cardinality(Unreported) \in Nat /\ Cardinality(Unreported)' \in Nat
    BY <2>1, FS_CardinalityType DEF LossInv
  <2>3. Cardinality(Unreported) <= kills + dbFaults
    BY DEF LossInv
  <2>4. Cardinality(Unreported)' <= kills' + dbFaults'
    BY <1>0, <2>1, <2>2, <2>3, FaultsAddUp
  <2> QED BY <2>1, <2>4 DEF LossInv
<1>2. ASSUME NEW r, Unreported' \subseteq Unreported \cup {r}, kills' + dbFaults' = kills + dbFaults + 1
      PROVE  LossInv'
  <2>1. IsFiniteSet(Unreported) /\ Cardinality(Unreported) \in Nat
    BY FS_CardinalityType DEF LossInv
  <2>2. /\ IsFiniteSet(Unreported \cup {r}) /\ Cardinality(Unreported \cup {r}) \in Nat
        /\ Cardinality(Unreported \cup {r}) <= Cardinality(Unreported) + 1
    <3>1. IsFiniteSet(Unreported \cup {r})
      BY <2>1, FS_AddElement
    <3>2. Cardinality(Unreported \cup {r}) \in {Cardinality(Unreported), Cardinality(Unreported) + 1}
      BY <2>1, FS_AddElement
    <3> QED BY <2>1, <3>1, <3>2
  <2>3. IsFiniteSet(Unreported)' /\ Cardinality(Unreported)' <= Cardinality(Unreported \cup {r})
    BY <1>2, <2>2, FS_Subset
  <2>4. Cardinality(Unreported)' \in Nat
    BY <2>3, FS_CardinalityType
  <2>5. Cardinality(Unreported) <= kills + dbFaults
    BY DEF LossInv
  <2>6. Cardinality(Unreported)' <= Cardinality(Unreported) + 1
    <3>1. ASSUME NEW a \in Nat, NEW b \in Nat, NEW c \in Nat, a <= b, b <= c + 1 PROVE a <= c + 1
      BY <3>1
    <3> QED BY <2>1, <2>2, <2>3, <2>4, <3>1
  <2>7. Cardinality(Unreported)' <= kills' + dbFaults'
    BY <1>0, <1>2, <2>1, <2>4, <2>5, <2>6, FaultsAddUp
  <2> QED BY <2>3, <2>7 DEF LossInv
<1>3. ASSUME NEW p \in Worker, OpenLogin(p) \/ Proceed(p) \/ StepRaises(p) \/ Kill(p) PROVE LossInv'
  <2>1. PICK r : r = job[p].run
    OBVIOUS
  <2>2. Moves(p) /\ Effect(p, r)
    BY <1>3, <2>1, WorkerStep, WorkerActs DEF IInv
  <2>3. \A s \in Unreported' : s \in Unreported \/ (s = r /\ kills' + dbFaults' = kills + dbFaults + 1)
    <3> SUFFICES ASSUME NEW s \in RunId, runs'[s].state # "absent", summary'[s].state = "none",
                        \A q \in Worker : job'[q].run # s
                 PROVE  s \in Unreported \/ (s = r /\ kills' + dbFaults' = kills + dbFaults + 1)
      BY DEF Unreported, Owner
    <3> QED BY <1>3, <2>1, <2>2, LossGrows
  <2>4. CASE kills' + dbFaults' = kills + dbFaults + 1
    BY <1>2, <2>3, <2>4
  <2>5. CASE kills' + dbFaults' # kills + dbFaults + 1
    BY <1>1, <2>3, <2>5
  <2> QED BY <2>4, <2>5
<1>4. ASSUME NEW p \in Worker, CreateRun(p) PROVE LossInv'
  <2>1. Moves(p)
    BY <1>4, WorkerStep DEF IInv
  <2>2. /\ pc[p] = "idle"
        /\ \E r \in RunId : /\ runs[r].state = "absent" /\ runs'[r].state = "PENDING"
                             /\ runs'[r].tenant \in Tenant /\ job'[p].run = r
                             /\ \A s \in RunId : s # r => runs'[s] = runs[s]
    BY <1>4, <2>1, CreateRows
  <2>3. PICK r \in RunId : job'[p].run = r /\ \A s \in RunId : s # r => runs'[s] = runs[s]
    BY <2>2
  <2>4. summary' = summary /\ job[p].run = None
    BY <1>4, <2>2 DEF CreateRun, LedgerInv, WorkInv, Outside
  <2>5. ASSUME NEW s \in Unreported' PROVE s \in Unreported
    <3>1. s \in RunId /\ \A q \in Worker : job'[q].run # s
      BY <2>5 DEF Unreported, Owner
    <3>2. s # r
      BY <2>3, <3>1
    <3>3. \A q \in Worker : job[q].run # s
      BY <2>1, <2>4, <3>1, NoneIsFresh DEF Moves
    <3> QED BY <2>3, <2>4, <2>5, <3>1, <3>2, <3>3 DEF Unreported, Owner
  <2> QED BY <1>1, <2>5
<1>5. CASE (\E r \in RunId : BuildExport(r)) \/ UNCHANGED vars
  <2>1. UNCHANGED <<runs, summary, job>>
    BY <1>5 DEF BuildExport, vars, ledger
  <2> QED BY <1>1, <2>1 DEF Unreported, Owner
<1> QED BY <1>3, <1>4, <1>5 DEF Next

\* Every kill and every failed transaction loses at most one run: the rows left
\* behind without a worker and without a summary to the caller are no more than
\* the faults so far.  In particular, as long as nothing is killed and no
\* transaction fails, a run that is not over has a live worker.
THEOREM LossesAreCounted == Spec => []LossInv
<1>1. Init => LossInv
  <2> SUFFICES ASSUME Init PROVE LossInv
    OBVIOUS
  <2>1. Unreported = {}
    BY DEF Init, Unreported, NoRow
  <2>2. IsFiniteSet(Unreported) /\ Cardinality(Unreported) = 0 /\ kills = 0 /\ dbFaults = 0
    BY <2>1, FS_EmptySet DEF Init
  <2> QED BY <2>2 DEF LossInv
<1>2. IInv /\ IInv' /\ LedgerInv /\ LossInv /\ [Next]_vars => LossInv'
  BY LossStep
<1> QED BY <1>1, <1>2, Invariance, LedgerAlways, PTL DEF Spec

\* Without faults no run is lost.
NoRunIsLost ==
  kills + dbFaults = 0 =>
    \A r \in RunId : runs[r].state \in TerminalRunStates \cup {"absent"} \/ Owner(r) # {}

\* A run whose row is not terminal has a live worker unless something was
\* killed or a transaction failed: no path through run_fetch, no exception and
\* no lost race for the flock, leaves a row behind that nobody will close.
THEOREM RunsAreNotLost == Spec => []NoRunIsLost
<1>1. IInv /\ LedgerInv /\ LossInv => NoRunIsLost
  <2> SUFFICES ASSUME IInv, LedgerInv, LossInv, kills + dbFaults = 0, NEW r \in RunId, Owner(r) = {},
                      runs[r].state \notin TerminalRunStates \cup {"absent"}
               PROVE  FALSE
    BY DEF NoRunIsLost
  <2>1. summary[r].state = "none"
    <3>1. RowOK(r) /\ summary[r] \in Summary
      BY DEF LedgerInv, RowsInv, IInv, TypeOK
    <3>2. summary[r].state \in TerminalRunStates \cup {"none"}
      BY <3>1 DEF Summary
    <3> QED BY <3>1, <3>2 DEF RowOK
  <2>2. r \in Unreported
    BY <2>1 DEF Unreported
  <2>3. IsFiniteSet(Unreported) /\ Cardinality(Unreported) \in Nat /\ Cardinality(Unreported) <= 0
    BY FS_CardinalityType DEF LossInv
  <2>4. Cardinality(Unreported) = 0
    BY <2>3
  <2> QED BY <2>2, <2>3, <2>4, FS_EmptySet
<1> QED BY <1>1, Invariance, LedgerAlways, LossesAreCounted, PTL

-----------------------------------------------------------------------------
(***************************************************************************)
(* Who writes an archive.  Step 6 may take another run's export (the run   *)
(* says_own_export shows it), but never another run's place.               *)
(***************************************************************************)

\* The archive of a tenant's month is only written by the run that holds the
\* tenant's session, that submitted an export, and whose row tells already
\* that it is archiving.
THEOREM ArchivesHaveOneWriter == Spec => ArchiveHasOneWriter
<1>1. ASSUME IInv, LedgerInv, NEW p \in Worker, Archive(p), NEW t \in Tenant, manifest'[t] # manifest[t]
      PROVE  /\ lock[t] = p /\ manifest'[t].run = job[p].run
             /\ runs[job[p].run].state = "ARCHIVING" /\ runs[job[p].run].last = 7
             /\ exports[job[p].run] # "none"
  <2>1. pc[p] = "acting" /\ job[p].step = 7 /\ pc[p] \notin Outside
    BY <1>1 DEF Archive, AtStep, Outside
  <2>2. RowFits(pc[p], job[p], runs[job[p].run], Submitted(job[p].run)) /\ job[p].tenant \in Tenant
    BY <1>1, <2>1, AtWork
  <2>3. /\ runs[job[p].run].state = "ARCHIVING" /\ runs[job[p].run].last = 7
        /\ exports[job[p].run] # "none"
    <3>1. job[p].state = "ARCHIVING"
      BY <2>1, <2>2 DEF RowFits, StepFits
    <3> QED BY <2>1, <2>2, <3>1 DEF RowFits, Submitted
  <2>4. PICK n \in Count : manifest' = [manifest EXCEPT ![job[p].tenant] =
                                         [run |-> job[p].run, export |-> job[p].link, count |-> n]]
    BY <1>1 DEF Archive
  <2>5. t = job[p].tenant /\ manifest'[t].run = job[p].run
    BY <1>1, <2>2, <2>4 DEF IInv, TypeOK
  <2>6. lock[t] = p
    BY <1>1, <2>1, <2>5 DEF IInv, LockInv, Holding, Driving
  <2> QED BY <2>3, <2>5, <2>6
<1>2. ASSUME NEW p \in Worker, ~Archive(p),
             CreateRun(p) \/ OpenLogin(p) \/ Proceed(p) \/ StepRaises(p) \/ Kill(p)
      PROVE  UNCHANGED manifest
  BY <1>2 DEF CreateRun, OpenLogin, Proceed, StepRaises, Kill, Authenticate, Flock, MarkLocked,
     Launch, SaveStep, LoginCheck, MarkExpired, Navigate, FillQuery, SelectAndExport, FaceVerify,
     NeedsHuman, PromptHuman, WaitForHuman, PollExport, PollTimeout, CloseChrome, MarkValid, Unlock,
     EndRun, AuditEnd, FailRun, FinishLogin, CloseLogin, portal
<1>3. ASSUME (\E r \in RunId : BuildExport(r)) \/ UNCHANGED vars
      PROVE  UNCHANGED manifest
  BY <1>3 DEF BuildExport, vars, portal
<1>4. ASSUME IInv, LedgerInv, [Next]_vars, NEW t \in Tenant, manifest'[t] # manifest[t]
      PROVE  \E p \in Worker :
               /\ lock[t] = p /\ manifest'[t].run = job[p].run
               /\ runs[job[p].run].state = "ARCHIVING" /\ runs[job[p].run].last = 7
               /\ exports[job[p].run] # "none"
  <2>1. \E p \in Worker : Archive(p)
    BY <1>2, <1>3, <1>4 DEF Next
  <2> QED BY <1>1, <1>4, <2>1
<1>5. IInv /\ LedgerInv /\ [Next]_vars =>
        [\A t \in Tenant : manifest'[t] # manifest[t] =>
           \E p \in Worker :
             /\ lock[t] = p /\ manifest'[t].run = job[p].run
             /\ runs[job[p].run].state = "ARCHIVING" /\ runs[job[p].run].last = 7
             /\ exports[job[p].run] # "none"]_manifest
  BY <1>4
<1> QED BY <1>5, Invariance, LedgerAlways, PTL DEF Spec, ArchiveHasOneWriter

-----------------------------------------------------------------------------
(***************************************************************************)
(* What the audit log tells of a run.                                      *)
(***************************************************************************)

\* The row of the run at work keeps its tenant.
LEMMA WorkerRow ==
  ASSUME IInv, LedgerInv, NEW p \in Worker, pc[p] \notin Outside, NEW r, r = job[p].run,
         OpenLogin(p) \/ Proceed(p) \/ StepRaises(p) \/ Kill(p), Moves(p), Effect(p, r)
  PROVE  r \in RunId /\ runs'[r].tenant = runs[r].tenant /\ runs'[r].state # "absent"
<1>1. /\ r \in RunId /\ runs[r].state # "absent" /\ runs[r].tenant = job[p].tenant
  BY AtWork DEF RowFits
<1>2. CASE Works(p)
  <2>1. RowFits(pc'[p], job'[p], runs'[r], Submitted(r)')
    BY <1>2 DEF Works, WorkFits
  <2>2. job'[p].tenant = job[p].tenant
    BY <1>2 DEF Works, Moves, Outside
  <2>3. runs'[r].tenant = job'[p].tenant /\ runs'[r].state \in Live \cup {"DONE"}
    BY <2>1 DEF RowFits
  <2> QED BY <1>1, <2>2, <2>3 DEF Live, RunState
<1>3. CASE Stops(p)
  <2>1. Turn(p, r) \/ (pc'[p] \in Outside /\ Halt(p, r))
    BY WorkerTurns
  <2>2. Halt(p, r)
    BY <1>3, <2>1 DEF Stops, Turn, Outside, Holding, Driving
  <2> QED BY <1>1, <2>2 DEF Halt
<1> QED BY <1>1, <1>2, <1>3 DEF Effect

\* An export that is submitted stays so, and one that is ready stays ready.
LEMMA ExportsStay ==
  ASSUME IInv, LedgerInv, [Next]_vars, NEW s \in RunId
  PROVE  (Submitted(s) => Submitted(s)') /\ (exports[s] = "ready" => exports'[s] = "ready")
<1>0. exports \in [RunId -> {"none", "building", "ready"}]
  BY DEF IInv, TypeOK
<1>1. ASSUME NEW p \in Worker, SelectAndExport(p)
      PROVE  (Submitted(s) => Submitted(s)') /\ (exports[s] = "ready" => exports'[s] = "ready")
  <2>1. pc[p] = "acting" /\ job[p].step = 4 /\ pc[p] \notin Outside
    BY <1>1 DEF SelectAndExport, AtStep, Outside
  <2>2. RowFits(pc[p], job[p], runs[job[p].run], Submitted(job[p].run)) /\ job[p].run \in RunId
    BY <2>1, AtWork
  <2>3. ~Submitted(job[p].run)
    BY <2>1, <2>2 DEF RowFits
  <2>4. exports' = exports \/ exports' = [exports EXCEPT ![job[p].run] = "building"]
    BY <1>1 DEF SelectAndExport
  <2> QED BY <1>0, <2>2, <2>3, <2>4 DEF Submitted
<1>2. ASSUME NEW r \in RunId, BuildExport(r)
      PROVE  (Submitted(s) => Submitted(s)') /\ (exports[s] = "ready" => exports'[s] = "ready")
  BY <1>0, <1>2 DEF BuildExport, Submitted
<1>3. CASE UNCHANGED exports
  BY <1>3 DEF Submitted
<1>4. ASSUME NEW p \in Worker, ~SelectAndExport(p),
             CreateRun(p) \/ OpenLogin(p) \/ Proceed(p) \/ StepRaises(p) \/ Kill(p)
      PROVE  UNCHANGED exports
  BY <1>4 DEF CreateRun, OpenLogin, Proceed, StepRaises, Kill, Authenticate, Flock, MarkLocked,
     Launch, SaveStep, LoginCheck, MarkExpired, Navigate, FillQuery, FaceVerify, NeedsHuman,
     PromptHuman, WaitForHuman, PollExport, PollTimeout, Archive, CloseChrome, MarkValid, Unlock,
     EndRun, AuditEnd, FailRun, FinishLogin, CloseLogin, portal
<1>5. CASE UNCHANGED vars
  BY <1>3, <1>5 DEF vars, portal
<1> QED BY <1>1, <1>2, <1>3, <1>4, <1>5 DEF Next

AuditOK(r) ==
  /\ "RUN_START" \in audit[r] <=> runs[r].state # "absent"
  /\ "RUN_END" \in audit[r] <=> summary[r].state = "DONE"
  /\ "FACE_VERIFY_PROMPT" \in audit[r] =>
       Submitted(r) /\ (runs[r].error = "FaceVerifyRequired" \/ runs[r].state = "FAILED")

\* The audit log tells how each run went: RUN_START exactly for the runs that
\* have a row, RUN_END exactly for those whose caller was told DONE (the except
\* clauses write none), and FACE_VERIFY_PROMPT only for a run that had submitted
\* its export, whose row still names the face scan unless the run failed.
AuditTellsRuns == \A r \in RunId : AuditOK(r)

\* A human is prompted only after the row says why.
PromptInv ==
  \A p \in Worker : pc[p] = "prompting" => runs[job[p].run].error = "FaceVerifyRequired"

\* A step that writes no record of run r.
LEMMA AuditKept ==
  ASSUME NEW r, AuditOK(r), audit'[r] = audit[r], runs'[r].state = "absent" <=> runs[r].state = "absent",
         summary'[r].state = "DONE" <=> summary[r].state = "DONE", Submitted(r) => Submitted(r)',
         \/ runs'[r].error = runs[r].error /\ (runs[r].state = "FAILED" => runs'[r].state = "FAILED")
         \/ runs'[r].error = "FaceVerifyRequired" \/ runs'[r].state = "FAILED"
  PROVE  AuditOK(r)'
BY DEF AuditOK

\* What a statement of worker p does to the record of its run r.
Records(p, r) ==
  \/ /\ audit'[r] = audit[r] /\ summary'[r].state = summary[r].state
     /\ runs'[r].error = runs[r].error /\ pc'[p] # "prompting"
  \/ /\ audit'[r] = audit[r] /\ summary'[r].state = summary[r].state
     /\ runs'[r].error = "FaceVerifyRequired"
  \/ /\ audit'[r] = audit[r] /\ summary'[r].state = "FAILED"
     /\ runs'[r].state = "FAILED" /\ pc'[p] = "idle"
  \/ /\ audit'[r] = audit[r] \cup {"FACE_VERIFY_PROMPT"} /\ pc[p] = "prompting" /\ pc'[p] = "waiting"
     /\ UNCHANGED <<runs, summary>>
  \/ /\ audit'[r] = audit[r] \cup {"RUN_END"} /\ summary'[r].state = "DONE" /\ UNCHANGED runs
     /\ pc'[p] = "idle"

LEMMA SummaryFields ==
  ASSUME NEW v \in Summary, NEW x, NEW y
  PROVE  /\ [v EXCEPT !.state = x].state = x
         /\ [v EXCEPT !.expected = x, !.actual = y].state = v.state
BY DEF Summary

LEMMA WorkerRecords ==
  ASSUME IInv, LedgerInv, NEW p \in Worker, pc[p] \notin Outside, NEW r, r = job[p].run,
         Proceed(p) \/ StepRaises(p) \/ Kill(p)
  PROVE  Records(p, r) /\ \A s \in RunId : s # r => audit'[s] = audit[s]
<1>0. /\ pc \in [Worker -> Pc] /\ job \in [Worker -> Job] /\ r \in RunId
      /\ runs \in [RunId -> Row] /\ runs[r] \in Row /\ summary \in [RunId -> Summary] /\ summary[r] \in Summary
      /\ audit \in [RunId -> SUBSET {"RUN_START", "FACE_VERIFY_PROMPT", "RUN_END"}]
  BY AtWork DEF IInv, TypeOK
<1>1. \A l : Goto(p, l) => pc'[p] = l
  BY <1>0 DEF Goto
<1>2. \A e, l : Raise(p, e, l) => pc'[p] = l
  BY <1>1 DEF Raise
<1>3. Exit(p) => pc'[p] = "idle"
  BY <1>1 DEF Exit
<1>4. ASSUME UNCHANGED <<runs, summary, audit>>, pc'[p] # "prompting"
      PROVE  Records(p, r) /\ \A s \in RunId : s # r => audit'[s] = audit[s]
  BY <1>4 DEF Records
<1>5. CASE Authenticate(p)
  <2>1. UNCHANGED <<summary, audit>> /\ pc'[p] # "prompting"
    BY <1>1, <1>3, <1>5 DEF Authenticate
  <2>2. CASE runs' = [runs EXCEPT ![job[p].run].state = "AUTHENTICATING"]
    <3>1. PICK w : w = [runs[r] EXCEPT !.state = "AUTHENTICATING"]
      OBVIOUS
    <3>2. w.error = runs[r].error
      BY <1>0, <3>1, RowFields
    <3>3. runs'[r] = w
      BY <1>0, <2>2, <3>1
    <3> QED BY <2>1, <3>2, <3>3 DEF Records
  <2> QED BY <1>4, <1>5, <2>1, <2>2 DEF Authenticate
<1>6. CASE SaveStep(p)
  <2>1. UNCHANGED <<summary, audit>> /\ pc'[p] # "prompting"
    BY <1>1, <1>2, <1>6 DEF SaveStep
  <2>2. CASE runs' = [runs EXCEPT ![job[p].run] = [@ EXCEPT !.state = job[p].state, !.last = job[p].step]]
    <3>1. PICK w : w = [runs[r] EXCEPT !.state = job[p].state, !.last = job[p].step]
      OBVIOUS
    <3>2. w.error = runs[r].error
      BY <1>0, <3>1, RowFields
    <3>3. runs'[r] = w
      BY <1>0, <2>2, <3>1
    <3> QED BY <2>1, <3>2, <3>3 DEF Records
  <2> QED BY <1>4, <1>6, <2>1, <2>2 DEF SaveStep
<1>7. CASE NeedsHuman(p)
  <2>1. UNCHANGED <<summary, audit>>
    BY <1>7 DEF NeedsHuman
  <2>2. CASE runs' = [runs EXCEPT ![job[p].run] = [@ EXCEPT !.state = "NEEDS_HUMAN", !.error = "FaceVerifyRequired"]]
    <3>1. PICK w : w = [runs[r] EXCEPT !.state = "NEEDS_HUMAN", !.error = "FaceVerifyRequired"]
      OBVIOUS
    <3>2. w.error = "FaceVerifyRequired"
      BY <1>0, <3>1, RowFields
    <3>3. runs'[r] = w
      BY <1>0, <2>2, <3>1
    <3> QED BY <2>1, <3>2, <3>3 DEF Records
  <2>3. CASE Raise(p, "Unexpected", "closing") /\ UNCHANGED runs
    <3>1. pc'[p] # "prompting"
      BY <1>2, <2>3
    <3> QED BY <1>4, <2>1, <2>3, <3>1
  <2> QED BY <1>7, <2>2, <2>3 DEF NeedsHuman
<1>8. CASE PromptHuman(p)
  <2>1. UNCHANGED <<runs, summary>> /\ pc[p] = "prompting"
    BY <1>8 DEF PromptHuman
  <2>2. CASE audit' = [audit EXCEPT ![job[p].run] = @ \cup {"FACE_VERIFY_PROMPT"}] /\ Goto(p, "waiting")
    <3>1. audit'[r] = audit[r] \cup {"FACE_VERIFY_PROMPT"} /\ \A s \in RunId : s # r => audit'[s] = audit[s]
      BY <1>0, <2>2
    <3> QED BY <1>1, <2>1, <2>2, <3>1 DEF Records
  <2>3. CASE Raise(p, "Unexpected", "closing") /\ UNCHANGED audit
    BY <1>2, <1>4, <2>1, <2>3
  <2> QED BY <1>8, <2>2, <2>3 DEF PromptHuman
<1>9. CASE Archive(p)
  <2>1. UNCHANGED <<runs, audit>> /\ pc'[p] = "closing"
    BY <1>1, <1>2, <1>9 DEF Archive, Advance
  <2>2. ASSUME NEW n, summary' = [summary EXCEPT ![job[p].run] = [@ EXCEPT !.expected = job[p].expected, !.actual = n]]
        PROVE  summary'[r].state = summary[r].state
    <3>1. PICK v : v = [summary[r] EXCEPT !.expected = job[p].expected, !.actual = n]
      OBVIOUS
    <3>2. v.state = summary[r].state
      BY <1>0, <3>1, SummaryFields
    <3>3. summary'[r] = v
      BY <1>0, <2>2, <3>1
    <3> QED BY <3>2, <3>3
  <2>3. summary'[r].state = summary[r].state
    BY <1>9, <2>2 DEF Archive
  <2> QED BY <2>1, <2>3 DEF Records
<1>10. CASE EndRun(p)
  <2>1. UNCHANGED <<summary, audit>> /\ pc'[p] # "prompting"
    BY <1>1, <1>2, <1>10 DEF EndRun
  <2>2. CASE runs' = [runs EXCEPT ![job[p].run] = [@ EXCEPT !.state = job[p].state, !.ended = TRUE]]
    <3>1. PICK w : w = [runs[r] EXCEPT !.state = job[p].state, !.ended = TRUE]
      OBVIOUS
    <3>2. w.error = runs[r].error
      BY <1>0, <3>1, RowFields
    <3>3. runs'[r] = w
      BY <1>0, <2>2, <3>1
    <3> QED BY <2>1, <3>2, <3>3 DEF Records
  <2> QED BY <1>4, <1>10, <2>1, <2>2 DEF EndRun
<1>11. CASE AuditEnd(p)
  <2>1. UNCHANGED runs /\ job[p].state = "DONE"
    BY <1>0, <1>11 DEF AuditEnd, IInv, JobInv, JobFits
  <2>2. CASE /\ audit' = [audit EXCEPT ![job[p].run] = @ \cup {"RUN_END"}] /\ Exit(p)
             /\ summary' = [summary EXCEPT ![job[p].run].state = job[p].state]
    <3>1. audit'[r] = audit[r] \cup {"RUN_END"} /\ \A s \in RunId : s # r => audit'[s] = audit[s]
      BY <1>0, <2>2
    <3>2. PICK v : v = [summary[r] EXCEPT !.state = "DONE"]
      OBVIOUS
    <3>3. summary'[r] = v /\ v.state = "DONE"
      BY <1>0, <2>1, <2>2, <3>2, SummaryFields
    <3> QED BY <1>3, <2>1, <2>2, <3>1, <3>3 DEF Records
  <2>3. CASE Raise(p, "Unexpected", "failing") /\ UNCHANGED <<audit, summary>>
    BY <1>2, <1>4, <2>1, <2>3
  <2> QED BY <1>11, <2>2, <2>3 DEF AuditEnd
<1>12. CASE FailRun(p)
  <2>1. UNCHANGED audit /\ pc'[p] = "idle"
    BY <1>3, <1>12 DEF FailRun
  <2>2. CASE /\ runs' = [runs EXCEPT ![job[p].run] =
                            [@ EXCEPT !.state = "FAILED", !.error = job[p].error, !.ended = TRUE]]
             /\ summary' = [summary EXCEPT ![job[p].run].state = "FAILED"]
    <3>1. PICK w, v : /\ w = [runs[r] EXCEPT !.state = "FAILED", !.error = job[p].error, !.ended = TRUE]
                      /\ v = [summary[r] EXCEPT !.state = "FAILED"]
      OBVIOUS
    <3>2. w.state = "FAILED" /\ v.state = "FAILED"
      BY <1>0, <3>1, RowFields, SummaryFields
    <3>3. runs'[r] = w /\ summary'[r] = v
      BY <1>0, <2>2, <3>1
    <3> QED BY <2>1, <3>2, <3>3 DEF Records
  <2>3. CASE UNCHANGED <<runs, summary>>
    BY <1>4, <2>1, <2>3
  <2> QED BY <1>12, <2>2, <2>3 DEF FailRun
<1>13. CASE Kill(p)
  BY <1>3, <1>4, <1>13 DEF Kill, ledger
<1>14. ASSUME Proceed(p) \/ StepRaises(p), ~Authenticate(p), ~SaveStep(p), ~NeedsHuman(p), ~PromptHuman(p),
              ~Archive(p), ~EndRun(p), ~AuditEnd(p), ~FailRun(p)
       PROVE  UNCHANGED <<runs, summary, audit>> /\ pc'[p] # "prompting"
  <2>1. UNCHANGED <<runs, summary, audit>> /\ pc[p] # "asking"
    BY <1>14 DEF Proceed, StepRaises, Flock, MarkLocked, Launch, LoginCheck, MarkExpired, Navigate,
       FillQuery, SelectAndExport, FaceVerify, WaitForHuman, PollExport, PollTimeout, CloseChrome,
       MarkValid, Unlock, FinishLogin, CloseLogin, AtStep, ledger
  <2>2. Flow(pc[p], job[p], pc'[p], job'[p])
    BY <1>14, WorkerFlow DEF IInv
  <2> QED BY <2>1, <2>2 DEF Flow
<1> QED BY <1>4, <1>5, <1>6, <1>7, <1>8, <1>9, <1>10, <1>11, <1>12, <1>13, <1>14

\* A worker at work keeps the record of its run.
LEMMA RecordsKept ==
  ASSUME IInv, LedgerInv, PromptInv, NEW p \in Worker, pc[p] \notin Outside, NEW r, r = job[p].run,
         AuditOK(r), Proceed(p) \/ StepRaises(p) \/ Kill(p), Records(p, r), r \in RunId,
         Submitted(r) => Submitted(r)', runs'[r].state # "absent"
  PROVE  AuditOK(r)'
<1>1. /\ runs[r].state \notin {"absent", "FAILED"} /\ summary[r].state = "none"
      /\ RowFits(pc[p], job[p], runs[r], Submitted(r))
  <2>1. /\ RowFits(pc[p], job[p], runs[r], Submitted(r)) /\ summary[r].state = "none"
        /\ runs[r].state # "absent"
    BY AtWork
  <2>2. runs[r].state \in Live \cup {"DONE"}
    BY <2>1 DEF RowFits
  <2> QED BY <2>1, <2>2 DEF Live, TerminalRunStates
<1>2. CASE audit'[r] = audit[r] /\ summary'[r].state = summary[r].state
           /\ (runs'[r].error = runs[r].error \/ runs'[r].error = "FaceVerifyRequired")
  BY <1>1, <1>2, AuditKept
<1>3. CASE audit'[r] = audit[r] /\ summary'[r].state = "FAILED" /\ runs'[r].state = "FAILED"
  BY <1>1, <1>3, AuditKept
<1>4. CASE /\ audit'[r] = audit[r] \cup {"FACE_VERIFY_PROMPT"} /\ pc[p] = "prompting"
           /\ UNCHANGED <<runs, summary>>
  <2>1. job[p].step = 5
    BY <1>4 DEF IInv, JobInv, JobFits
  <2>2. Submitted(r)
    BY <1>1, <1>4, <2>1 DEF RowFits
  <2>3. runs[r].error = "FaceVerifyRequired"
    BY <1>4 DEF PromptInv
  <2> QED BY <1>1, <1>4, <2>2, <2>3 DEF AuditOK
<1>5. CASE audit'[r] = audit[r] \cup {"RUN_END"} /\ summary'[r].state = "DONE" /\ UNCHANGED runs
  BY <1>1, <1>5 DEF AuditOK
<1> QED BY <1>2, <1>3, <1>4, <1>5 DEF Records

LEMMA AuditStep ==
  ASSUME IInv, LedgerInv, PromptInv, AuditTellsRuns, [Next]_vars
  PROVE  AuditTellsRuns'
<1>0. /\ \A s \in RunId : AuditOK(s) /\ (Submitted(s) => Submitted(s)') /\ RowOK(s)
      /\ runs \in [RunId -> Row]
      /\ audit \in [RunId -> SUBSET {"RUN_START", "FACE_VERIFY_PROMPT", "RUN_END"}]
  BY ExportsStay DEF AuditTellsRuns, LedgerInv, RowsInv, IInv, TypeOK
<1>1. ASSUME NEW s \in RunId, audit'[s] = audit[s], runs'[s] = runs[s], summary'[s] = summary[s]
      PROVE  AuditOK(s)'
  BY <1>0, <1>1, AuditKept
<1>2. ASSUME NEW p \in Worker, pc[p] \notin Outside, Proceed(p) \/ StepRaises(p) \/ Kill(p)
      PROVE  AuditTellsRuns'
  <2>1. PICK r : r = job[p].run
    OBVIOUS
  <2>2. r \in RunId /\ Moves(p) /\ Effect(p, r) /\ Records(p, r) /\ \A s \in RunId : s # r => audit'[s] = audit[s]
    BY <1>2, <2>1, AtWork, WorkerStep, WorkerActs, WorkerRecords DEF IInv
  <2>3. runs'[r].state # "absent"
    BY <1>2, <2>1, <2>2, WorkerRow
  <2>4. AuditOK(r)'
    BY <1>0, <1>2, <2>1, <2>2, <2>3, RecordsKept
  <2>5. ASSUME NEW s \in RunId, s # r PROVE AuditOK(s)'
    <3>1. Same(s)
      BY <2>2, <2>5 DEF Effect
    <3> QED BY <1>1, <2>2, <2>5, <3>1 DEF Same
  <2> QED BY <2>4, <2>5 DEF AuditTellsRuns
<1>3. ASSUME UNCHANGED <<audit, runs, summary>> PROVE AuditTellsRuns'
  BY <1>1, <1>3 DEF AuditTellsRuns
<1>4. ASSUME NEW p \in Worker, pc[p] \in Outside, OpenLogin(p) \/ Proceed(p) \/ StepRaises(p) \/ Kill(p)
      PROVE  UNCHANGED <<audit, runs, summary>>
  BY <1>4 DEF OpenLogin, Proceed, StepRaises, Kill, Authenticate, Flock, MarkLocked, Launch, SaveStep,
     LoginCheck, MarkExpired, Navigate, FillQuery, SelectAndExport, FaceVerify, NeedsHuman, PromptHuman,
     WaitForHuman, PollExport, PollTimeout, Archive, CloseChrome, MarkValid, Unlock, EndRun, AuditEnd,
     FailRun, FinishLogin, CloseLogin, AtStep, ledger, Outside
<1>5. ASSUME NEW p \in Worker, OpenLogin(p) PROVE UNCHANGED <<audit, runs, summary>>
  BY <1>5 DEF OpenLogin, ledger
<1>6. ASSUME NEW p \in Worker, CreateRun(p) PROVE AuditTellsRuns'
  <2>1. PICK r \in RunId, t \in Tenant, d \in DryRun :
          /\ runs[r].state = "absent"
          /\ runs'  = [runs EXCEPT ![r] = [@ EXCEPT !.tenant = t, !.state = "PENDING"]]
          /\ audit' = [audit EXCEPT ![r] = {"RUN_START"}]
          /\ job'   = [job EXCEPT ![p] = [NoJob EXCEPT !.run = r, !.tenant = t, !.dry = d]]
    BY <1>6 DEF CreateRun
  <2>2. UNCHANGED summary
    BY <1>6 DEF CreateRun
  <2>3. audit'[r] = {"RUN_START"} /\ \A s \in RunId : s # r => audit'[s] = audit[s] /\ runs'[s] = runs[s]
    BY <1>0, <2>1
  <2>4. PICK w : w = [runs[r] EXCEPT !.tenant = t, !.state = "PENDING"]
    OBVIOUS
  <2>5. w.state = "PENDING"
    <3>1. runs[r] \in Row
      BY <1>0
    <3> QED BY <2>4, <3>1 DEF Row
  <2>6. runs'[r] = w
    BY <1>0, <2>1, <2>4
  <2>7. summary[r].state = "none"
    BY <1>0, <2>1 DEF RowOK
  <2>8. AuditOK(r)'
    BY <2>2, <2>3, <2>5, <2>6, <2>7 DEF AuditOK
  <2>9. ASSUME NEW s \in RunId, s # r PROVE AuditOK(s)'
    BY <1>1, <2>2, <2>3, <2>9
  <2> QED BY <2>8, <2>9 DEF AuditTellsRuns
<1>7. CASE (\E r \in RunId : BuildExport(r)) \/ UNCHANGED vars
  BY <1>3, <1>7 DEF BuildExport, vars, ledger
<1> QED BY <1>2, <1>3, <1>4, <1>5, <1>6, <1>7 DEF Next

LEMMA PromptStep ==
  ASSUME IInv, LedgerInv, PromptInv, [Next]_vars
  PROVE  PromptInv'
<1>1. ASSUME NEW q \in Worker, pc'[q] = pc[q], job'[q] = job[q], pc[q] = "prompting" => runs'[job[q].run] = runs[job[q].run],
             pc'[q] = "prompting"
      PROVE  runs'[job'[q].run].error = "FaceVerifyRequired"
  BY <1>1 DEF PromptInv
<1>2. ASSUME NEW p \in Worker, OpenLogin(p) \/ Proceed(p) \/ StepRaises(p) \/ Kill(p) PROVE PromptInv'
  <2>1. PICK r : r = job[p].run
    OBVIOUS
  <2>2. Moves(p) /\ Effect(p, r) /\ "prompting" \notin Outside
    BY <1>2, <2>1, WorkerStep, WorkerActs DEF IInv, Outside
  <2>3. ASSUME NEW q \in Worker, q # p, pc'[q] = "prompting" PROVE runs'[job'[q].run].error = "FaceVerifyRequired"
    <3>1. pc'[q] = pc[q] /\ job'[q] = job[q] /\ pc[q] \notin Outside
      BY <2>2, <2>3 DEF Moves
    <3>2. job[q].run \in RunId /\ job[q].run # r
      <4>1. job[q].run \in RunId
        BY <3>1, AtWork
      <4>2. CASE pc[p] \in Outside
        BY <2>1, <4>1, <4>2, NoneIsFresh DEF LedgerInv, WorkInv
      <4>3. CASE pc[p] \notin Outside
        <5>1. pc[q] \notin Outside /\ job[p].run = job[q].run => p = q
          BY <4>3 DEF LedgerInv, UniqueInv
        <5> QED BY <2>1, <2>3, <3>1, <4>1, <5>1
      <4> QED BY <4>1, <4>2, <4>3
    <3>3. Same(job[q].run)
      BY <2>2, <3>2 DEF Effect
    <3> QED BY <1>1, <2>3, <3>1, <3>3 DEF Same
  <2>4. ASSUME pc'[p] = "prompting" PROVE runs'[job'[p].run].error = "FaceVerifyRequired"
    <3>1. pc[p] \notin Outside
      <4>1. Flow(pc[p], job[p], pc'[p], job'[p]) \/ OpenLogin(p) \/ Kill(p)
        BY <1>2, WorkerFlow DEF IInv
      <4>2. OpenLogin(p) \/ Kill(p) => pc'[p] # "prompting"
        <5>1. pc \in [Worker -> Pc]
          BY DEF IInv, TypeOK
        <5> QED BY <5>1 DEF OpenLogin, Kill, Exit, Goto
      <4>3. Flow(pc[p], job[p], pc'[p], job'[p])
        BY <2>4, <4>1, <4>2
      <4>4. pc[p] = "asking"
        BY <2>4, <4>3 DEF Flow
      <4> QED BY <4>4 DEF Outside
    <3>2. job'[p].run = r
      BY <2>1, <2>2, <2>4 DEF Effect, Works, Stops
    <3>3. Proceed(p) \/ StepRaises(p) \/ Kill(p)
      BY <1>2, <3>1 DEF OpenLogin, Outside
    <3>4. Records(p, r)
      BY <2>1, <3>1, <3>3, WorkerRecords
    <3> QED BY <2>4, <3>2, <3>4 DEF Records
  <2> QED BY <2>3, <2>4 DEF PromptInv
<1>3. ASSUME NEW p \in Worker, CreateRun(p) PROVE PromptInv'
  <2>1. Moves(p)
    BY <1>3, WorkerStep DEF IInv
  <2>2. PICK r \in RunId : /\ runs[r].state = "absent"
                           /\ \A s \in RunId : s # r => runs'[s] = runs[s]
    BY <1>3, <2>1, CreateRows
  <2>3. pc'[p] = "created"
    BY <1>3, <2>1, CreateRows
  <2>4. ASSUME NEW q \in Worker, q # p, pc'[q] = "prompting" PROVE runs'[job'[q].run].error = "FaceVerifyRequired"
    <3>1. pc'[q] = pc[q] /\ job'[q] = job[q] /\ pc[q] \notin Outside
      BY <2>1, <2>4 DEF Moves, Outside
    <3>2. PICK s : s = job[q].run
      OBVIOUS
    <3>3. s \in RunId /\ runs[s].state # "absent"
      BY <3>1, <3>2, AtWork
    <3> QED BY <1>1, <2>2, <2>4, <3>1, <3>2, <3>3
  <2> QED BY <2>3, <2>4 DEF PromptInv
<1>4. CASE (\E r \in RunId : BuildExport(r)) \/ UNCHANGED vars
  BY <1>4 DEF BuildExport, vars, ledger, PromptInv
<1> QED BY <1>2, <1>3, <1>4 DEF Next

\* The audit log is as true as the runs table: RUN_START is there for every run
\* that has a row and for no other, RUN_END exactly for those whose caller was
\* told DONE (so a run that failed, was killed or could not write the record
\* shows none), and a FACE_VERIFY_PROMPT record always follows a submitted export
\* and a row that names the face scan.
THEOREM AuditTells == Spec => []AuditTellsRuns
<1>1. Init => PromptInv /\ AuditTellsRuns
  BY DEF Init, PromptInv, AuditTellsRuns, AuditOK, NoRow
<1>2. IInv /\ LedgerInv /\ PromptInv /\ [Next]_vars => PromptInv'
  BY PromptStep
<1>3. IInv /\ LedgerInv /\ PromptInv /\ AuditTellsRuns /\ [Next]_vars => AuditTellsRuns'
  BY AuditStep
<1> QED BY <1>1, <1>2, <1>3, Invariance, LedgerAlways, PTL DEF Spec

=============================================================================
