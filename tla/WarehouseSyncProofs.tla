------------------------- MODULE WarehouseSyncProofs -------------------------
(***************************************************************************)
(* Proofs about WarehouseSync for any number of syncers, companies,        *)
(* invoices, versions, sync runs and crashes.                              *)
(*                                                                         *)
(* The invariant SyncInv is inductive; its parts are                       *)
(*   TypeInv     types, and which local variables a program counter fits,  *)
(*   LockInv     who holds which company row,                              *)
(*   RunInv      a syncer at work owns one pending row of its own,         *)
(*   ArchiveInv  what is stored is archived, and complete,                 *)
(*   VersionInv  what a syncer can overwrite with something older,         *)
(*   NightlyInv  a synchronised company is one of ours,                    *)
(*   CodeInv     what the exit code of a process stands for.               *)
(* Two more parts are added at the end: ClaimInv, the rows that a          *)
(* transaction holds and is going to ask for, and RemainInv, how much of   *)
(* a pass remains.                                                         *)
(* The lemmas "...Effect" say once what each action does to every field;   *)
(* the steps of the invariant and of the refinement of SyncLedger cite     *)
(* them instead of the actions.                                            *)
(***************************************************************************)
EXTENDS WarehouseSync, FiniteSetTheorems, SequenceTheorems, TLAPS

-----------------------------------------------------------------------------
(***************************************************************************)
(* The local variables of a syncer.                                        *)
(***************************************************************************)

Pair == Company \X Kind

\* How the steps change them.
PlanOf(a) == [NoJob EXCEPT !.plan = a]
RestOf(a, m, f) == [NoJob EXCEPT !.plan = a, !.mine = m, !.failed = f]
WithRun(j, r) == [j EXCEPT !.run = r, !.mine = j.mine \cup {r}]
WithAnswer(j, l, w, t, k) == [j EXCEPT !.lines = l, !.want = w, !.todo = t, !.known = k]
WithoutWant(j) == [j EXCEPT !.want = None]
WithWant(j, w) == [j EXCEPT !.want = w, !.todo = j.todo \ {w}]
WithDone(j, d) == [j EXCEPT !.done = d]

LEMMA NoJobType ==
  /\ NoJob \in Job
  /\ NoJob.run = 0
<1>1. <<>> \in Seq(Pair)
  BY EmptySeq
<1> QED BY <1>1 DEF NoJob, Job, Pair

\* A new process, and the next company and direction of one.
LEMMA PlanSet ==
  ASSUME NEW a \in Seq(Pair)
  PROVE  PlanOf(a) \in Job
BY NoJobType DEF PlanOf, NoJob, Job, Pair

LEMMA PlanFields ==
  ASSUME NEW a
  PROVE  PlanOf(a).plan = a /\ PlanOf(a).run = 0 /\ PlanOf(a).mine = {} /\ PlanOf(a).failed = {}
BY DEF PlanOf, NoJob

LEMMA RestSet ==
  ASSUME NEW a \in Seq(Pair), NEW m \in SUBSET SyncRun, NEW f \in SUBSET SyncRun
  PROVE  RestOf(a, m, f) \in Job
BY NoJobType DEF RestOf, NoJob, Job, Pair

LEMMA RestFields ==
  ASSUME NEW a, NEW m, NEW f
  PROVE  /\ RestOf(a, m, f).plan = a /\ RestOf(a, m, f).run = 0
         /\ RestOf(a, m, f).mine = m /\ RestOf(a, m, f).failed = f
BY DEF RestOf, NoJob

LEMMA RunSet ==
  ASSUME NEW j \in Job, NEW r \in SyncRun
  PROVE  LET n == WithRun(j, r)
         IN  /\ n \in Job
             /\ n.run = r /\ n.mine = j.mine \cup {r}
             /\ n.plan = j.plan /\ n.failed = j.failed /\ n.lines = j.lines /\ n.done = j.done
BY DEF WithRun, Job

LEMMA AnswerSet ==
  ASSUME NEW j \in Job, NEW l \in SUBSET Line, NEW w \in Company, NEW t \in SUBSET Company,
         NEW k \in SUBSET SyncRun
  PROVE  LET n == WithAnswer(j, l, w, t, k)
         IN  /\ n \in Job
             /\ n.lines = l /\ n.want = w /\ n.todo = t /\ n.known = k
             /\ n.plan = j.plan /\ n.mine = j.mine /\ n.failed = j.failed /\ n.run = j.run
             /\ n.done = j.done
BY DEF WithAnswer, Job

LEMMA LastWantSet ==
  ASSUME NEW j \in Job
  PROVE  LET n == WithoutWant(j)
         IN  /\ n \in Job
             /\ n.lines = j.lines /\ n.want = None /\ n.todo = j.todo /\ n.known = j.known
             /\ n.plan = j.plan /\ n.mine = j.mine /\ n.failed = j.failed /\ n.run = j.run
             /\ n.done = j.done
BY DEF WithoutWant, Job

LEMMA WantSet ==
  ASSUME NEW j \in Job, NEW w \in Company
  PROVE  LET n == WithWant(j, w)
         IN  /\ n \in Job
             /\ n.lines = j.lines /\ n.want = w /\ n.todo = j.todo \ {w} /\ n.known = j.known
             /\ n.plan = j.plan /\ n.mine = j.mine /\ n.failed = j.failed /\ n.run = j.run
             /\ n.done = j.done
BY DEF WithWant, Job

LEMMA DoneSet ==
  ASSUME NEW j \in Job, NEW d \in SUBSET Line
  PROVE  LET n == WithDone(j, d)
         IN  /\ n \in Job
             /\ n.lines = j.lines /\ n.want = j.want /\ n.todo = j.todo /\ n.known = j.known
             /\ n.plan = j.plan /\ n.mine = j.mine /\ n.failed = j.failed /\ n.run = j.run
             /\ n.done = d
BY DEF WithDone, Job

LEMMA JobIs ==
  ASSUME NEW j \in Job
  PROVE  /\ j.plan \in Seq(Pair) /\ j.mine \in SUBSET SyncRun /\ j.failed \in SUBSET SyncRun
         /\ j.run \in SyncRun \cup {0} /\ j.lines \in SUBSET Line /\ j.done \in SUBSET Line
         /\ j.want \in Company \cup {None} /\ j.todo \in SUBSET Company
         /\ j.known \in SUBSET SyncRun
BY DEF Job, Pair

LEMMA PlanHead ==
  ASSUME NEW a \in Seq(Pair), a # <<>>
  PROVE  /\ Head(a)[1] \in Company /\ Head(a)[2] \in Kind
         /\ Head(a) = <<Head(a)[1], Head(a)[2]>>
         /\ Tail(a) \in Seq(Pair)
         /\ {a[n] : n \in DOMAIN a} = {Head(a)} \cup {Tail(a)[n] : n \in DOMAIN Tail(a)}
<1>1. Head(a) = a[1] /\ Len(a) \in Nat /\ Len(a) >= 1 /\ DOMAIN a = 1 .. Len(a)
  BY EmptySeq, LenProperties, HeadTailProperties
<1>2. a[1] \in Pair
  BY <1>1, ElementOfSeq
<1>3. /\ Tail(a) \in Seq(Pair) /\ Len(Tail(a)) = Len(a) - 1
      /\ \A n \in 1 .. Len(Tail(a)) : Tail(a)[n] = a[n + 1]
  BY HeadTailProperties
<1>4. DOMAIN Tail(a) = 1 .. Len(a) - 1
  BY <1>3, LenProperties
<1>5. ASSUME NEW n \in 1 .. Len(a) PROVE a[n] = Head(a) \/ \E m \in 1 .. Len(a) - 1 : a[n] = Tail(a)[m]
  <2>1. CASE n = 1
    BY <1>1, <2>1
  <2>2. CASE n # 1
    <3>1. n - 1 \in 1 .. Len(a) - 1 /\ a[n] = Tail(a)[n - 1]
      BY <1>1, <1>3, <2>2
    <3> QED BY <3>1
  <2> QED BY <2>1, <2>2
<1>6. ASSUME NEW m \in 1 .. Len(a) - 1 PROVE \E n \in 1 .. Len(a) : Tail(a)[m] = a[n]
  <2>1. m + 1 \in 1 .. Len(a) /\ Tail(a)[m] = a[m + 1]
    BY <1>1, <1>3
  <2> QED BY <2>1
<1>7. {a[n] : n \in DOMAIN a} = {Head(a)} \cup {Tail(a)[n] : n \in DOMAIN Tail(a)}
  <2>1. Head(a) \in {a[n] : n \in DOMAIN a}
    BY <1>1
  <2>2. \A x \in {a[n] : n \in DOMAIN a} : x \in {Head(a)} \cup {Tail(a)[n] : n \in DOMAIN Tail(a)}
    <3> SUFFICES ASSUME NEW n \in 1 .. Len(a)
                 PROVE  a[n] \in {Head(a)} \cup {Tail(a)[m] : m \in DOMAIN Tail(a)}
      BY <1>1
    <3>1. CASE a[n] = Head(a)
      BY <3>1
    <3>2. CASE \E m \in 1 .. Len(a) - 1 : a[n] = Tail(a)[m]
      BY <1>4, <3>2
    <3> QED BY <1>5, <3>1, <3>2
  <2>3. \A x \in {Tail(a)[n] : n \in DOMAIN Tail(a)} : x \in {a[n] : n \in DOMAIN a}
    BY <1>1, <1>4, <1>6
  <2> QED BY <2>1, <2>2, <2>3
<1>8. Head(a) \in Pair
  BY <1>1, <1>2
<1>9. Head(a)[1] \in Company /\ Head(a)[2] \in Kind /\ Head(a) = <<Head(a)[1], Head(a)[2]>>
  BY <1>8 DEF Pair
<1> QED BY <1>3, <1>7, <1>9

LEMMA ZeroIsNoRun == 0 \notin SyncRun /\ SyncRun \subseteq Nat
BY SyncBounds DEF SyncRun

-----------------------------------------------------------------------------
(***************************************************************************)
(* Types, and what the program counter says about the local variables.     *)
(***************************************************************************)

Working == {"calling", "refused", "locking", "upserting"}
Writing == {"locking", "upserting"}

\* The lines of one answer about company c in direction k.
AnswerFor(lines, c, k) ==
  /\ \A l, m \in lines : l.inv = m.inv => l = m
  /\ \A l \in lines : Party(k, l.inv) = c

JobFits(p) ==
  /\ pc[p] # "idle" => job[p].plan # <<>>
  /\ pc[p] \notin Working => job[p].run = 0
  /\ pc[p] \in Working => job[p].run \in job[p].mine
  /\ pc[p] = "locking" => job[p].want \in Company
  /\ pc[p] \in Writing => AnswerFor(job[p].lines, Tax(p), Dir(p))

TypeInv == TypeOK /\ \A p \in Syncer : JobFits(p)

LEMMA PairOf ==
  ASSUME TypeInv, NEW p \in Syncer, pc[p] # "idle"
  PROVE  /\ job[p].plan \in Seq(Pair) /\ job[p].plan # <<>>
         /\ Tax(p) \in Company /\ Dir(p) \in Kind
         /\ Tail(job[p].plan) \in Seq(Pair)
<1>1. job[p] \in Job /\ job[p].plan # <<>>
  BY DEF TypeInv, TypeOK, JobFits
<1>2. job[p].plan \in Seq(Pair)
  BY <1>1, JobIs
<1> QED BY <1>1, <1>2, PlanHead DEF Tax, Dir

LEMMA RunOf ==
  ASSUME TypeInv, NEW p \in Syncer, pc[p] \in Working
  PROVE  job[p].run \in SyncRun
<1>1. job[p] \in Job /\ job[p].run \in job[p].mine
  BY DEF TypeInv, TypeOK, JobFits
<1> QED BY <1>1, JobIs

LEMMA LinesAreFew ==
  ASSUME NEW lines \in SUBSET Line, \A l, m \in lines : l.inv = m.inv => l = m
  PROVE  /\ IsFiniteSet(lines) /\ Cardinality(lines) \in 0 .. Cardinality(Invoice)
<1> DEFINE f == [l \in lines |-> l.inv]
<1>1. f \in Injection(lines, Invoice)
  <2>1. f \in [lines -> Invoice]
    BY DEF Line
  <2> QED BY <2>1 DEF Injection, IsInjective
<1>2. IsFiniteSet(lines) /\ Cardinality(lines) <= Cardinality(Invoice)
  BY <1>1, InvoicesAreFinite, FS_Injection
<1>3. Cardinality(lines) \in Nat /\ Cardinality(Invoice) \in Nat
  BY <1>2, InvoicesAreFinite, FS_CardinalityType
<1> QED BY <1>2, <1>3

-----------------------------------------------------------------------------
(***************************************************************************)
(* What each step does, field by field.                                    *)
(***************************************************************************)

\* The other syncers keep what they have.
OnlyMoves(p) ==
  \A q \in Syncer : q # p => pc'[q] = pc[q] /\ job'[q] = job[q] /\ exit'[q] = exit[q]

\* pc, job and exit keep their types, and the local variables fit.
StillFits ==
  /\ pc'   \in [Syncer -> {"idle"} \cup {"opening"} \cup Working]
  /\ job'  \in [Syncer -> Job]
  /\ exit' \in [Syncer -> [code : {"none", "0", "1", "crash"}, mine : SUBSET SyncRun,
                           asked : SUBSET Pair]]

Place(p, c, j) == pc' = [pc EXCEPT ![p] = c] /\ job' = [job EXCEPT ![p] = j]

LEMMA Placed ==
  ASSUME TypeInv, NEW p \in Syncer, NEW c \in {"idle"} \cup {"opening"} \cup Working, NEW j \in Job,
         Place(p, c, j)
  PROVE  /\ pc'   \in [Syncer -> {"idle"} \cup {"opening"} \cup Working]
         /\ job'  \in [Syncer -> Job]
         /\ pc'[p] = c /\ job'[p] = j
         /\ \A q \in Syncer : q # p => pc'[q] = pc[q] /\ job'[q] = job[q]
<1>1. pc \in [Syncer -> {"idle"} \cup {"opening"} \cup Working] /\ job \in [Syncer -> Job]
  BY DEF TypeInv, TypeOK, Working
<1> QED BY <1>1 DEF Place

\* The process ends with exit code c.
Ended(p, c) ==
  /\ pc'[p] = "idle" /\ job'[p].run = 0
  /\ exit'[p].code = c /\ exit'[p].mine = job[p].mine /\ exit'[p].asked = exit[p].asked

LEMMA ExitSet ==
  ASSUME TypeInv, NEW p \in Syncer, NEW c \in {"none", "0", "1", "crash"},
         exit' = [exit EXCEPT ![p] = [@ EXCEPT !.code = c, !.mine = job[p].mine]]
  PROVE  /\ exit' \in [Syncer -> [code : {"none", "0", "1", "crash"}, mine : SUBSET SyncRun,
                                  asked : SUBSET Pair]]
         /\ exit'[p].code = c /\ exit'[p].mine = job[p].mine /\ exit'[p].asked = exit[p].asked
         /\ \A q \in Syncer : q # p => exit'[q] = exit[q]
<1> DEFINE E == [code : {"none", "0", "1", "crash"}, mine : SUBSET SyncRun, asked : SUBSET Pair]
           e == exit[p]
           m == job[p].mine
           n == [e EXCEPT !.code = c, !.mine = m]
<1>1. exit \in [Syncer -> E] /\ job[p] \in Job
  BY DEF TypeInv, TypeOK, Pair
<1>2. m \in SUBSET SyncRun /\ e \in E
  BY <1>1, JobIs
<1>3. exit' = [exit EXCEPT ![p] = n]
  OBVIOUS
<1> HIDE DEF m, e
<1>4. n \in E /\ n.code = c /\ n.mine = m /\ n.asked = e.asked
  BY <1>2
<1> HIDE DEF n, E
<1>5. exit' \in [Syncer -> E] /\ exit'[p] = n /\ \A q \in Syncer : q # p => exit'[q] = exit[q]
  BY <1>1, <1>3, <1>4
<1> QED BY <1>4, <1>5 DEF e, m, E

LEMMA AbortEffect ==
  ASSUME TypeInv, NEW p \in Syncer, Abort(p)
  PROVE  /\ StillFits /\ OnlyMoves(p) /\ Ended(p, "crash")
         /\ Release(p) /\ UNCHANGED tables
<1>1. Place(p, "idle", NoJob) /\ NoJob \in Job /\ NoJob.run = 0
  BY NoJobType DEF Abort, Place
<1>2. exit' = [exit EXCEPT ![p] = [@ EXCEPT !.code = "crash", !.mine = job[p].mine]]
  BY DEF Abort
<1>3. /\ pc'   \in [Syncer -> {"idle"} \cup {"opening"} \cup Working]
      /\ job'  \in [Syncer -> Job]
      /\ pc'[p] = "idle" /\ job'[p] = NoJob
      /\ \A q \in Syncer : q # p => pc'[q] = pc[q] /\ job'[q] = job[q]
  BY <1>1, Placed
<1>4. /\ exit' \in [Syncer -> [code : {"none", "0", "1", "crash"}, mine : SUBSET SyncRun,
                               asked : SUBSET Pair]]
      /\ exit'[p].code = "crash" /\ exit'[p].mine = job[p].mine /\ exit'[p].asked = exit[p].asked
      /\ \A q \in Syncer : q # p => exit'[q] = exit[q]
  BY <1>2, ExitSet
<1>5. Release(p) /\ UNCHANGED tables
  BY DEF Abort
<1>6. OnlyMoves(p) /\ StillFits /\ Ended(p, "crash")
  BY <1>1, <1>3, <1>4 DEF OnlyMoves, StillFits, Ended
<1> QED BY <1>5, <1>6

\* One (company, direction) is done, with f failed so far.
Continued(p, f) ==
  \/ /\ pc'[p] = "opening" /\ exit' = exit
     /\ job'[p].plan = Tail(job[p].plan) /\ job'[p].plan # <<>>
     /\ job'[p].mine = job[p].mine /\ job'[p].failed = f /\ job'[p].run = 0
  \/ /\ Tail(job[p].plan) = <<>>
     /\ Ended(p, IF f = {} THEN "0" ELSE "1")

LEMMA ContinueEffect ==
  ASSUME TypeInv, NEW p \in Syncer, pc[p] # "idle", NEW f \in SUBSET SyncRun, Continue(p, f)
  PROVE  StillFits /\ OnlyMoves(p) /\ Continued(p, f)
<1>1. /\ job[p].plan \in Seq(Pair) /\ Tail(job[p].plan) \in Seq(Pair)
      /\ job[p].mine \in SUBSET SyncRun
  <2>1. job[p] \in Job
    BY DEF TypeInv, TypeOK
  <2> QED BY <2>1, PairOf, JobIs
<1>2. CASE Tail(job[p].plan) # <<>>
  <2> DEFINE a == Tail(job[p].plan)
             m == job[p].mine
             n == RestOf(a, m, f)
  <2>1. a \in Seq(Pair) /\ m \in SUBSET SyncRun /\ a # <<>>
    BY <1>1, <1>2
  <2>2. Place(p, "opening", n) /\ exit' = exit
    BY <1>2 DEF Continue, Place, RestOf
  <2>3. n \in Job /\ n.plan = a /\ n.run = 0 /\ n.mine = m /\ n.failed = f
    <3> HIDE DEF a, m
    <3> QED BY <2>1, RestSet, RestFields
  <2> HIDE DEF n
  <2>4. /\ pc'   \in [Syncer -> {"idle"} \cup {"opening"} \cup Working]
        /\ job'  \in [Syncer -> Job]
        /\ pc'[p] = "opening" /\ job'[p] = n
        /\ \A q \in Syncer : q # p => pc'[q] = pc[q] /\ job'[q] = job[q]
    BY <2>2, <2>3, Placed
  <2>5. exit' \in [Syncer -> [code : {"none", "0", "1", "crash"}, mine : SUBSET SyncRun,
                              asked : SUBSET Pair]]
    BY <2>2 DEF TypeInv, TypeOK, Pair
  <2>6. OnlyMoves(p) /\ StillFits
    BY <2>2, <2>4, <2>5 DEF OnlyMoves, StillFits
  <2>7. Continued(p, f)
    BY <2>1, <2>2, <2>3, <2>4 DEF Continued
  <2> QED BY <2>6, <2>7
<1>3. CASE Tail(job[p].plan) = <<>>
  <2> DEFINE c == IF f = {} THEN "0" ELSE "1"
  <2>1. Place(p, "idle", NoJob) /\ NoJob \in Job /\ NoJob.run = 0
    BY <1>3, NoJobType DEF Continue, Place
  <2>2. c \in {"none", "0", "1", "crash"}
        /\ exit' = [exit EXCEPT ![p] = [@ EXCEPT !.code = c, !.mine = job[p].mine]]
    BY <1>3 DEF Continue
  <2> HIDE DEF c
  <2>3. /\ pc'   \in [Syncer -> {"idle"} \cup {"opening"} \cup Working]
        /\ job'  \in [Syncer -> Job]
        /\ pc'[p] = "idle" /\ job'[p] = NoJob
        /\ \A q \in Syncer : q # p => pc'[q] = pc[q] /\ job'[q] = job[q]
    BY <2>1, Placed
  <2>4. /\ exit' \in [Syncer -> [code : {"none", "0", "1", "crash"}, mine : SUBSET SyncRun,
                                 asked : SUBSET Pair]]
        /\ exit'[p].code = c /\ exit'[p].mine = job[p].mine /\ exit'[p].asked = exit[p].asked
        /\ \A q \in Syncer : q # p => exit'[q] = exit[q]
    BY <2>2, ExitSet
  <2>5. OnlyMoves(p) /\ StillFits /\ Ended(p, c)
    BY <2>1, <2>3, <2>4 DEF OnlyMoves, StillFits, Ended
  <2>6. Continued(p, f)
    BY <1>3, <2>5 DEF Continued, c
  <2> QED BY <2>5, <2>6
<1> QED BY <1>2, <1>3

Started(p) ==
  /\ pc[p] = "idle" /\ pc'[p] = "opening"
  /\ job'[p].plan # <<>> /\ job'[p].run = 0 /\ job'[p].mine = {} /\ job'[p].failed = {}
  /\ exit'[p].code = "none"
  /\ exit'[p].asked = {job'[p].plan[n] : n \in DOMAIN job'[p].plan}

LEMMA StartEffect ==
  ASSUME TypeInv, NEW p \in Syncer, NEW plan \in Seq(Pair), Start(p, plan)
  PROVE  /\ StillFits /\ OnlyMoves(p) /\ Started(p)
         /\ UNCHANGED <<holder, bureau, tables, crashes>> /\ slots' \in 0 .. MaxSyncs
<1> DEFINE n == PlanOf(plan)
           e == [code |-> "none", mine |-> {}, asked |-> {plan[i] : i \in DOMAIN plan}]
           E == [code : {"none", "0", "1", "crash"}, mine : SUBSET SyncRun, asked : SUBSET Pair]
<1>1. n \in Job /\ n.plan = plan /\ n.run = 0 /\ n.mine = {} /\ n.failed = {}
  BY PlanSet, PlanFields
<1>2. \A i \in DOMAIN plan : plan[i] \in Pair
  BY LenProperties, ElementOfSeq
<1>3. e \in E /\ e.code = "none" /\ e.asked = {plan[i] : i \in DOMAIN plan}
  BY <1>2
<1>4. /\ Place(p, "opening", n) /\ pc[p] = "idle" /\ plan # <<>>
      /\ exit' = [exit EXCEPT ![p] = e]
      /\ Len(plan) <= slots /\ slots' = slots - Len(plan)
      /\ UNCHANGED <<holder, bureau, tables, crashes>>
  BY DEF Start, Place, PlanOf
<1> HIDE DEF n, e
<1>5. /\ pc'   \in [Syncer -> {"idle"} \cup {"opening"} \cup Working]
      /\ job'  \in [Syncer -> Job]
      /\ pc'[p] = "opening" /\ job'[p] = n
      /\ \A q \in Syncer : q # p => pc'[q] = pc[q] /\ job'[q] = job[q]
  BY <1>1, <1>4, Placed
<1>6. exit' \in [Syncer -> E] /\ exit'[p] = e /\ \A q \in Syncer : q # p => exit'[q] = exit[q]
  <2>1. exit \in [Syncer -> E]
    BY DEF TypeInv, TypeOK, Pair
  <2> HIDE DEF E
  <2> QED BY <1>3, <1>4, <2>1
<1>7. OnlyMoves(p) /\ StillFits
  BY <1>5, <1>6 DEF OnlyMoves, StillFits
<1>8. Started(p)
  BY <1>1, <1>3, <1>4, <1>5, <1>6 DEF Started
<1>9. slots' \in 0 .. MaxSyncs
  <2>1. Len(plan) \in Nat /\ slots \in 0 .. MaxSyncs /\ MaxSyncs \in Nat
    BY LenProperties, SyncBounds DEF TypeInv, TypeOK
  <2> QED BY <1>4, <2>1
<1> QED BY <1>4, <1>7, <1>8, <1>9

Starts(p) == StartDaily(p) \/ StartManual(p)

LEMMA StartsEffect ==
  ASSUME TypeInv, NEW p \in Syncer, Starts(p)
  PROVE  /\ StillFits /\ OnlyMoves(p) /\ Started(p)
         /\ UNCHANGED <<holder, bureau, tables, crashes>> /\ slots' \in 0 .. MaxSyncs
<1>1. \E plan \in Seq(Pair) : Start(p, plan)
  <2>1. CASE StartDaily(p)
    <3>1. PICK n \in 1 .. slots : \E plan \in [1 .. n -> SelfCompanies \X Kind] : Start(p, plan)
      BY <2>1 DEF StartDaily
    <3>2. PICK plan \in [1 .. n -> SelfCompanies \X Kind] : Start(p, plan)
      BY <3>1
    <3>3. n \in Nat
      BY <3>1, SyncBounds DEF TypeInv, TypeOK
    <3>4. plan \in [1 .. n -> Pair]
      BY <3>2 DEF SelfCompanies, Pair
    <3>5. plan \in Seq(Pair)
      BY <3>3, <3>4, SeqDef
    <3> QED BY <3>2, <3>5
  <2>2. CASE StartManual(p)
    <3>1. PICK c \in Company, k \in Kind : Start(p, <<<<c, k>>>>)
      BY <2>2 DEF StartManual
    <3>2. <<<<c, k>>>> \in Seq(Pair)
      BY DEF Pair
    <3> QED BY <3>1, <3>2
  <2> QED BY <2>1, <2>2 DEF Starts
<1> QED BY <1>1, StartEffect

\* The company, the direction and the runs a syncer works on stay.
SameWork(p) ==
  /\ job'[p].plan = job[p].plan /\ job'[p].run = job[p].run
  /\ job'[p].mine = job[p].mine /\ job'[p].failed = job[p].failed
  /\ exit' = exit

SameAnswer(p) == job'[p].lines = job[p].lines /\ job'[p].known = job[p].known

SyncRow == [tax : Company \cup {None}, kind : Kind \cup {None},
            status : {"absent", "pending", "success", "failed"}, count : 0 .. Cardinality(Invoice)]

ExitType == [code : {"none", "0", "1", "crash"}, mine : SUBSET SyncRun, asked : SUBSET Pair]

\* A row with a new status.
OpenRow(w, c, k)  == [w EXCEPT !.status = "pending", !.tax = c, !.kind = k]
DoneRow(w, n)     == [w EXCEPT !.status = "success", !.count = n]
FailedRow(w)      == [w EXCEPT !.status = "failed"]

LEMMA RowSet ==
  ASSUME NEW w \in SyncRow, NEW c \in Company, NEW k \in Kind, NEW n \in 0 .. Cardinality(Invoice)
  PROVE  /\ OpenRow(w, c, k) \in SyncRow /\ OpenRow(w, c, k).status = "pending"
         /\ OpenRow(w, c, k).tax = c /\ OpenRow(w, c, k).kind = k
         /\ DoneRow(w, n) \in SyncRow /\ DoneRow(w, n).status = "success" /\ DoneRow(w, n).count = n
         /\ DoneRow(w, n).tax = w.tax /\ DoneRow(w, n).kind = w.kind
         /\ FailedRow(w) \in SyncRow /\ FailedRow(w).status = "failed"
         /\ FailedRow(w).tax = w.tax /\ FailedRow(w).kind = w.kind
<1>1. w \in [tax : Company \cup {None}, kind : Kind \cup {None},
             status : {"absent", "pending", "success", "failed"}, count : 0 .. Cardinality(Invoice)]
  BY DEF SyncRow
<1>2. /\ OpenRow(w, c, k) \in SyncRow /\ OpenRow(w, c, k).status = "pending"
      /\ OpenRow(w, c, k).tax = c /\ OpenRow(w, c, k).kind = k
  BY <1>1 DEF SyncRow, OpenRow
<1>3. /\ DoneRow(w, n) \in SyncRow /\ DoneRow(w, n).status = "success" /\ DoneRow(w, n).count = n
      /\ DoneRow(w, n).tax = w.tax /\ DoneRow(w, n).kind = w.kind
  BY <1>1 DEF SyncRow, DoneRow
<1>4. /\ FailedRow(w) \in SyncRow /\ FailedRow(w).status = "failed"
      /\ FailedRow(w).tax = w.tax /\ FailedRow(w).kind = w.kind
  BY <1>1 DEF SyncRow, FailedRow
<1> QED BY <1>2, <1>3, <1>4

\* What becomes of the row of one sync run.
RowMoves(r, w) ==
  /\ runs' \in [SyncRun -> SyncRow] /\ runs'[r] = w
  /\ \A q \in SyncRun : q # r => runs'[q] = runs[q]

LEMMA RowMoved ==
  ASSUME TypeInv, NEW r \in SyncRun, NEW w \in SyncRow, runs' = [runs EXCEPT ![r] = w]
  PROVE  RowMoves(r, w)
<1>1. runs \in [SyncRun -> SyncRow]
  BY DEF TypeInv, TypeOK, SyncRow
<1> QED BY <1>1 DEF RowMoves

LEMMA Before ==
  ASSUME TypeInv, NEW p \in Syncer
  PROVE  /\ job[p] \in Job /\ pc[p] \in {"idle"} \cup {"opening"} \cup Working
         /\ exit \in [Syncer -> ExitType] /\ exit[p] \in ExitType
         /\ \A r \in SyncRun : runs[r] \in SyncRow
         /\ holder \in [Company -> Syncer \cup {None}]
BY DEF TypeInv, TypeOK, Working, SyncRow, ExitType, Pair

Opened(p, r) ==
  /\ pc'[p] = "calling"
  /\ job'[p].run = r /\ job'[p].mine = job[p].mine \cup {r}
  /\ job'[p].plan = job[p].plan /\ job'[p].failed = job[p].failed
  /\ runs[r].status = "absent" /\ RowMoves(r, OpenRow(runs[r], Tax(p), Dir(p)))
  /\ UNCHANGED <<holder, bureau, companies, raw, book, exit, slots, crashes>>

LEMMA OpenEffect ==
  ASSUME TypeInv, NEW p \in Syncer, Open(p)
  PROVE  StillFits /\ OnlyMoves(p) /\ pc[p] = "opening" /\ \E r \in SyncRun : Opened(p, r)
<1>1. pc[p] = "opening" /\ UNCHANGED <<holder, bureau, companies, raw, book, exit, slots, crashes>>
  BY DEF Open
<1>2. PICK r \in SyncRun :
        /\ runs[r].status = "absent"
        /\ runs' = [runs EXCEPT ![r] = [@ EXCEPT !.status = "pending", !.tax = Tax(p), !.kind = Dir(p)]]
        /\ job'  = [job EXCEPT ![p] = [@ EXCEPT !.run = r, !.mine = job[p].mine \cup {r}]]
  BY DEF Open
<1> DEFINE m == job[p].mine \cup {r}
           n == WithRun(job[p], r)
<1>3. job[p] \in Job
  BY Before
<1>4. Place(p, "calling", n)
  BY <1>2 DEF Open, Place, WithRun
<1>5. n \in Job /\ n.run = r /\ n.mine = m /\ n.plan = job[p].plan /\ n.failed = job[p].failed
  BY <1>3, RunSet
<1> HIDE DEF n
<1>6. /\ pc'   \in [Syncer -> {"idle"} \cup {"opening"} \cup Working]
      /\ job'  \in [Syncer -> Job]
      /\ pc'[p] = "calling" /\ job'[p] = n
      /\ \A q \in Syncer : q # p => pc'[q] = pc[q] /\ job'[q] = job[q]
  <2>1. "calling" \in Working
    BY DEF Working
  <2> QED BY <1>4, <1>5, <2>1, Placed
<1>7. StillFits /\ OnlyMoves(p)
  BY <1>1, <1>6, Before DEF StillFits, OnlyMoves, ExitType
<1>8. RowMoves(r, OpenRow(runs[r], Tax(p), Dir(p)))
  <2>1. runs[r] \in SyncRow /\ Tax(p) \in Company /\ Dir(p) \in Kind
    BY <1>1, Before, PairOf
  <2>2. runs' = [runs EXCEPT ![r] = OpenRow(runs[r], Tax(p), Dir(p))]
    BY <1>2 DEF OpenRow
  <2>3. OpenRow(runs[r], Tax(p), Dir(p)) \in SyncRow
    <3>1. 0 \in 0 .. Cardinality(Invoice)
      BY InvoicesAreFinite, FS_CardinalityType
    <3> QED BY <2>1, <3>1, RowSet
  <2> QED BY <2>2, <2>3, RowMoved
<1>9. Opened(p, r)
  BY <1>1, <1>2, <1>5, <1>6, <1>8 DEF Opened
<1> QED BY <1>1, <1>7, <1>9

\* What the vendor says about company and direction of p.
Answered(p) ==
  /\ pc'[p] = "locking" /\ job'[p].want = Tax(p)
  /\ job'[p].known = Successful
  /\ AnswerFor(job'[p].lines, Tax(p), Dir(p))
  /\ \A l \in job'[p].lines : l.ver = bureau[l.inv]

LEMMA ReceiveEffect ==
  ASSUME TypeInv, NEW p \in Syncer, Receive(p)
  PROVE  /\ StillFits /\ OnlyMoves(p) /\ pc[p] = "calling" /\ Answered(p) /\ SameWork(p)
         /\ UNCHANGED <<holder, bureau, tables, slots, crashes>>
<1>1. pc[p] = "calling" /\ UNCHANGED <<holder, bureau, tables, exit, slots, crashes>>
  BY DEF Receive
<1>2. PICK shown \in SUBSET {i \in Invoice : Party(Dir(p), i) = Tax(p)} : \E listed \in SUBSET shown :
       job' = [job EXCEPT ![p] =
                [@ EXCEPT !.lines = {[inv |-> i, ver |-> bureau[i], full |-> i \in listed] : i \in shown},
                          !.want  = Tax(p),
                          !.todo  = (UNION {{Seller[i], Buyer[i]} : i \in shown}) \ {Tax(p)},
                          !.known = Successful]]
  BY DEF Receive
<1>3. PICK listed \in SUBSET shown :
       job' = [job EXCEPT ![p] =
                [@ EXCEPT !.lines = {[inv |-> i, ver |-> bureau[i], full |-> i \in listed] : i \in shown},
                          !.want  = Tax(p),
                          !.todo  = (UNION {{Seller[i], Buyer[i]} : i \in shown}) \ {Tax(p)},
                          !.known = Successful]]
  BY <1>2
<1> DEFINE l == {[inv |-> i, ver |-> bureau[i], full |-> i \in listed] : i \in shown}
           t == (UNION {{Seller[i], Buyer[i]} : i \in shown}) \ {Tax(p)}
           n == WithAnswer(job[p], l, Tax(p), t, Successful)
<1>4. job[p] \in Job /\ Tax(p) \in Company /\ shown \in SUBSET Invoice
  BY <1>1, <1>2, Before, PairOf
<1>5. l \in SUBSET Line
  <2>1. bureau \in [Invoice -> Version]
    BY DEF TypeInv, TypeOK
  <2>2. ASSUME NEW i \in shown PROVE [inv |-> i, ver |-> bureau[i], full |-> i \in listed] \in Line
    <3>1. i \in Invoice /\ bureau[i] \in Version /\ (i \in listed) \in BOOLEAN
      BY <1>4, <2>1
    <3> QED BY <3>1 DEF Line
  <2> QED BY <2>2
<1>6. t \in SUBSET Company /\ Successful \in SUBSET SyncRun
  BY <1>4, InvoicesHaveParties DEF Successful
<1>7. AnswerFor(l, Tax(p), Dir(p)) /\ \A x \in l : x.ver = bureau[x.inv]
  BY <1>2 DEF AnswerFor
<1>8. Place(p, "locking", n)
  BY <1>3 DEF Receive, Place, WithAnswer
<1>9. /\ n \in Job /\ n.lines = l /\ n.want = Tax(p) /\ n.known = Successful
      /\ n.plan = job[p].plan /\ n.mine = job[p].mine /\ n.failed = job[p].failed /\ n.run = job[p].run
  <2> HIDE DEF l, t
  <2> QED BY <1>4, <1>5, <1>6, AnswerSet
<1> HIDE DEF n, l
<1>10. /\ pc'   \in [Syncer -> {"idle"} \cup {"opening"} \cup Working]
       /\ job'  \in [Syncer -> Job]
       /\ pc'[p] = "locking" /\ job'[p] = n
       /\ \A q \in Syncer : q # p => pc'[q] = pc[q] /\ job'[q] = job[q]
  <2>1. "locking" \in Working
    BY DEF Working
  <2> QED BY <1>8, <1>9, <2>1, Placed
<1>11. StillFits /\ OnlyMoves(p)
  BY <1>1, <1>10, Before DEF StillFits, OnlyMoves, ExitType
<1>12. Answered(p) /\ SameWork(p)
  BY <1>1, <1>7, <1>9, <1>10 DEF Answered, SameWork
<1> QED BY <1>1, <1>11, <1>12

LEMMA RefuseEffect ==
  ASSUME TypeInv, NEW p \in Syncer, Refuse(p)
  PROVE  /\ StillFits /\ OnlyMoves(p) /\ SameWork(p) /\ pc[p] = "calling" /\ pc'[p] = "refused"
         /\ UNCHANGED <<holder, bureau, tables, slots, crashes>>
<1>1. /\ pc[p] = "calling" /\ pc' = [pc EXCEPT ![p] = "refused"]
      /\ UNCHANGED <<job, holder, bureau, tables, exit, slots, crashes>>
  BY DEF Refuse
<1>2. pc \in [Syncer -> {"idle"} \cup {"opening"} \cup Working] /\ job \in [Syncer -> Job]
  BY DEF TypeInv, TypeOK, Working
<1>3. StillFits
  BY <1>1, <1>2, Before DEF StillFits, Working, ExitType
<1> QED BY <1>1, <1>2, <1>3 DEF OnlyMoves, SameWork

Failing(p) ==
  /\ RowMoves(job[p].run, FailedRow(runs[job[p].run]))
  /\ Continued(p, job[p].failed \cup {job[p].run})
  /\ UNCHANGED <<holder, bureau, companies, raw, book, slots, crashes>>

LEMMA MarkFailedEffect ==
  ASSUME TypeInv, NEW p \in Syncer, MarkFailed(p)
  PROVE  StillFits /\ OnlyMoves(p) /\ pc[p] = "refused" /\ Failing(p)
<1>1. /\ pc[p] = "refused" /\ runs' = [runs EXCEPT ![job[p].run].status = "failed"]
      /\ Continue(p, job[p].failed \cup {job[p].run})
      /\ UNCHANGED <<holder, bureau, companies, raw, book, slots, crashes>>
  BY DEF MarkFailed
<1> DEFINE r == job[p].run
<1>2. r \in SyncRun /\ job[p].failed \in SUBSET SyncRun /\ runs[r] \in SyncRow
  <2>1. r \in SyncRun
    BY <1>1, RunOf DEF Working
  <2> QED BY <2>1, Before, JobIs
<1>3. runs' = [runs EXCEPT ![r] = FailedRow(runs[r])]
  BY <1>1 DEF FailedRow
<1> HIDE DEF r
<1>4. RowMoves(r, FailedRow(runs[r]))
  <2>1. FailedRow(runs[r]) \in SyncRow
    BY <1>2 DEF FailedRow, SyncRow
  <2> QED BY <1>2, <1>3, <2>1, RowMoved
<1>5. job[p].failed \cup {r} \in SUBSET SyncRun
  BY <1>2
<1>6. StillFits /\ OnlyMoves(p) /\ Continued(p, job[p].failed \cup {r})
  <2>1. Continue(p, job[p].failed \cup {r}) /\ pc[p] # "idle"
    BY <1>1 DEF r
  <2> QED BY <1>5, <2>1, ContinueEffect
<1> QED BY <1>1, <1>4, <1>6 DEF Failing, r

Locked(p) ==
  /\ pc[p] = "locking" /\ job[p].want \in Company /\ holder[job[p].want] = None
  /\ holder' = [holder EXCEPT ![job[p].want] = p]
  /\ \/ pc'[p] = "upserting"
     \/ pc'[p] = "locking" /\ job'[p].want \in Company

LEMMA LockEffect ==
  ASSUME TypeInv, NEW p \in Syncer, Lock(p)
  PROVE  /\ StillFits /\ OnlyMoves(p) /\ Locked(p) /\ SameWork(p) /\ SameAnswer(p)
         /\ UNCHANGED <<bureau, tables, slots, crashes>>
<1>1. /\ pc[p] = "locking" /\ CanLock(p) /\ holder' = [holder EXCEPT ![job[p].want] = p]
      /\ UNCHANGED <<bureau, tables, exit, slots, crashes>>
  BY DEF Lock
<1>2. job[p] \in Job /\ job[p].want \in Company /\ job[p].todo \in SUBSET Company
  BY <1>1, Before, JobIs DEF TypeInv, JobFits
<1>3. \E c \in {"locking", "upserting"}, n \in Job :
        /\ Place(p, c, n) /\ (c = "locking" => n.want \in Company)
        /\ n.plan = job[p].plan /\ n.run = job[p].run /\ n.mine = job[p].mine
        /\ n.failed = job[p].failed /\ n.lines = job[p].lines /\ n.known = job[p].known
  <2>1. CASE /\ job' = [job EXCEPT ![p].want = None]
             /\ pc'  = [pc EXCEPT ![p] = "upserting"]
    <3> DEFINE n == WithoutWant(job[p])
    <3>1. Place(p, "upserting", n)
      BY <2>1 DEF Place, WithoutWant
    <3>2. /\ n \in Job /\ n.plan = job[p].plan /\ n.run = job[p].run /\ n.mine = job[p].mine
          /\ n.failed = job[p].failed /\ n.lines = job[p].lines /\ n.known = job[p].known
      BY <1>2, LastWantSet
    <3> HIDE DEF n
    <3> QED BY <3>1, <3>2
  <2>2. CASE /\ \E c \in job[p].todo : job' = [job EXCEPT ![p] = [@ EXCEPT !.want = c, !.todo = job[p].todo \ {c}]]
             /\ UNCHANGED pc
    <3>1. PICK c \in job[p].todo : job' = [job EXCEPT ![p] = [@ EXCEPT !.want = c, !.todo = job[p].todo \ {c}]]
      BY <2>2
    <3> DEFINE n == WithWant(job[p], c)
    <3>2. pc' = [pc EXCEPT ![p] = "locking"]
      <4>1. pc \in [Syncer -> {"idle"} \cup {"opening"} \cup Working]
        BY DEF TypeInv, TypeOK, Working
      <4> QED BY <1>1, <2>2, <4>1
    <3>3. Place(p, "locking", n)
      BY <3>1, <3>2 DEF Place, WithWant
    <3>4. c \in Company
      BY <1>2
    <3>5. /\ n \in Job /\ n.plan = job[p].plan /\ n.run = job[p].run /\ n.mine = job[p].mine
          /\ n.failed = job[p].failed /\ n.lines = job[p].lines /\ n.known = job[p].known
          /\ n.want = c
      BY <1>2, <3>4, WantSet
    <3> HIDE DEF n
    <3> QED BY <3>3, <3>4, <3>5
  <2> QED BY <2>1, <2>2 DEF Lock
<1>4. PICK c \in {"locking", "upserting"} : \E n \in Job :
        /\ Place(p, c, n) /\ (c = "locking" => n.want \in Company)
        /\ n.plan = job[p].plan /\ n.run = job[p].run /\ n.mine = job[p].mine
        /\ n.failed = job[p].failed /\ n.lines = job[p].lines /\ n.known = job[p].known
  BY <1>3
<1>5. PICK n \in Job :
        /\ Place(p, c, n) /\ (c = "locking" => n.want \in Company)
        /\ n.plan = job[p].plan /\ n.run = job[p].run /\ n.mine = job[p].mine
        /\ n.failed = job[p].failed /\ n.lines = job[p].lines /\ n.known = job[p].known
  BY <1>4
<1>6. /\ pc'   \in [Syncer -> {"idle"} \cup {"opening"} \cup Working]
      /\ job'  \in [Syncer -> Job]
      /\ pc'[p] = c /\ job'[p] = n
      /\ \A q \in Syncer : q # p => pc'[q] = pc[q] /\ job'[q] = job[q]
  <2>1. c \in Working
    BY DEF Working
  <2> QED BY <1>5, <2>1, Placed
<1>7. StillFits /\ OnlyMoves(p)
  BY <1>1, <1>6, Before DEF StillFits, OnlyMoves, ExitType
<1>8. Locked(p) /\ SameWork(p) /\ SameAnswer(p)
  BY <1>1, <1>2, <1>5, <1>6 DEF Locked, SameWork, SameAnswer, CanLock
<1> QED BY <1>1, <1>7, <1>8

LEMMA UpsertEffect ==
  ASSUME TypeInv, NEW p \in Syncer, Upsert(p)
  PROVE  /\ StillFits /\ OnlyMoves(p) /\ SameWork(p) /\ SameAnswer(p)
         /\ pc[p] = "upserting" /\ pc'[p] = "upserting"
         /\ UNCHANGED <<holder, bureau, tables, slots, crashes>>
<1>1. pc[p] = "upserting" /\ UNCHANGED <<pc, holder, bureau, tables, exit, slots, crashes>>
  BY DEF Upsert
<1>2. PICK l \in job[p].lines \ job[p].done : job' = [job EXCEPT ![p].done = @ \cup {l}]
  BY DEF Upsert
<1> DEFINE d == job[p].done \cup {l}
           n == WithDone(job[p], d)
<1>3. job[p] \in Job /\ d \in SUBSET Line
  BY Before, JobIs
<1>4. /\ n \in Job /\ n.plan = job[p].plan /\ n.run = job[p].run /\ n.mine = job[p].mine
      /\ n.failed = job[p].failed /\ n.lines = job[p].lines /\ n.known = job[p].known
  <2> HIDE DEF d
  <2> QED BY <1>3, DoneSet
<1>5. job' = [job EXCEPT ![p] = n]
  BY <1>2 DEF WithDone
<1> HIDE DEF n
<1>6. pc \in [Syncer -> {"idle"} \cup {"opening"} \cup Working] /\ job \in [Syncer -> Job]
  BY DEF TypeInv, TypeOK, Working
<1>7. StillFits
  BY <1>1, <1>4, <1>5, <1>6, Before DEF StillFits, ExitType
<1> QED BY <1>1, <1>4, <1>5, <1>6, <1>7 DEF OnlyMoves, SameWork, SameAnswer

Committed(p) ==
  /\ RowMoves(job[p].run, DoneRow(runs[job[p].run], Cardinality(job[p].lines)))
  /\ raw'       = [raw EXCEPT ![job[p].run] = @ \cup {job[p].lines}]
  /\ book'      = Stored(job[p].run, Dir(p), job[p].lines)
  /\ companies' = [c \in Company |-> IF holder[c] = p THEN Note(c, Tax(p)) ELSE companies[c]]
  /\ Release(p)
  /\ Continued(p, job[p].failed)
  /\ UNCHANGED <<bureau, slots, crashes>>

LEMMA CommitEffect ==
  ASSUME TypeInv, NEW p \in Syncer, Commit(p)
  PROVE  StillFits /\ OnlyMoves(p) /\ pc[p] = "upserting" /\ Committed(p)
<1> DEFINE r == job[p].run
           n == Cardinality(job[p].lines)
<1>1. /\ pc[p] = "upserting"
      /\ runs' = [runs EXCEPT ![r] = [@ EXCEPT !.status = "success", !.count = n]]
      /\ Continue(p, job[p].failed)
      /\ UNCHANGED <<bureau, slots, crashes>>
  BY DEF Commit, InvoiceCount
<1>2. /\ raw'       = [raw EXCEPT ![r] = @ \cup {job[p].lines}]
      /\ book'      = Stored(r, Dir(p), job[p].lines)
      /\ companies' = [c \in Company |-> IF holder[c] = p THEN Note(c, Tax(p)) ELSE companies[c]]
      /\ Release(p)
  BY DEF Commit
<1>3. r \in SyncRun /\ job[p].failed \in SUBSET SyncRun /\ runs[r] \in SyncRow
  <2>1. r \in SyncRun
    BY <1>1, RunOf DEF Working
  <2> QED BY <2>1, Before, JobIs
<1>4. n \in 0 .. Cardinality(Invoice)
  <2>1. job[p].lines \in SUBSET Line /\ AnswerFor(job[p].lines, Tax(p), Dir(p))
    BY <1>1, Before, JobIs DEF TypeInv, JobFits, Writing
  <2>2. \A l, m \in job[p].lines : l.inv = m.inv => l = m
    BY <2>1 DEF AnswerFor
  <2> QED BY <2>1, <2>2, LinesAreFew
<1>5. runs' = [runs EXCEPT ![r] = DoneRow(runs[r], n)]
  BY <1>1 DEF DoneRow
<1> HIDE DEF r, n
<1>6. RowMoves(r, DoneRow(runs[r], n))
  <2>1. DoneRow(runs[r], n) \in SyncRow
    BY <1>3, <1>4 DEF DoneRow, SyncRow
  <2> QED BY <1>3, <1>5, <2>1, RowMoved
<1>7. StillFits /\ OnlyMoves(p) /\ Continued(p, job[p].failed)
  <2>1. pc[p] # "idle"
    BY <1>1
  <2> QED BY <1>1, <1>3, <2>1, ContinueEffect
<1>8. Committed(p)
  BY <1>1, <1>2, <1>6, <1>7 DEF Committed, r, n
<1> QED BY <1>1, <1>7, <1>8

LEMMA AmendEffect ==
  ASSUME TypeInv, NEW i \in Invoice, Amend(i)
  PROVE  /\ bureau' \in [Invoice -> Version] /\ \A j \in Invoice : bureau[j] <= bureau'[j]
         /\ UNCHANGED <<pc, job, holder, tables, exit, slots, crashes>>
<1>1. bureau \in [Invoice -> Version] /\ MaxVersion \in Nat \ {0}
  BY SyncBounds DEF TypeInv, TypeOK
<1>2. bureau[i] \in Nat /\ \A j \in Invoice : bureau[j] \in 1 .. MaxVersion
  BY <1>1 DEF Version
<1>3. bureau[i] < MaxVersion /\ bureau' = [bureau EXCEPT ![i] = bureau[i] + 1]
  BY DEF Amend
<1>4. bureau[i] + 1 \in Version
  BY <1>1, <1>2, <1>3 DEF Version
<1>5. bureau' \in [Invoice -> Version]
  BY <1>1, <1>3, <1>4
<1>6. \A j \in Invoice : bureau[j] <= bureau'[j]
  BY <1>1, <1>2, <1>3
<1> QED BY <1>5, <1>6 DEF Amend

LEMMA OthersFit ==
  ASSUME TypeInv, NEW p \in Syncer, OnlyMoves(p), NEW q \in Syncer, q # p
  PROVE  JobFits(q)'
<1>1. JobFits(q) /\ pc'[q] = pc[q] /\ job'[q] = job[q]
  BY DEF TypeInv, OnlyMoves
<1> QED BY <1>1 DEF JobFits, Tax, Dir, AnswerFor

\* Every step of a process is one of these.
LEMMA Steps ==
  ASSUME [Next]_vars
  PROVE  \/ UNCHANGED vars
         \/ \E i \in Invoice : Amend(i)
         \/ \E p \in Syncer :
              \/ Starts(p) \/ Open(p) \/ Receive(p) \/ Refuse(p) \/ MarkFailed(p)
              \/ Lock(p) \/ Upsert(p) \/ Commit(p)
              \/ /\ pc[p] # "idle" /\ Abort(p)
                 /\ crashes' \in {crashes, crashes + 1} /\ (crashes' # crashes => crashes < MaxCrashes)
                 /\ UNCHANGED <<bureau, slots>>
<1>1. CASE \E p \in Syncer : StartDaily(p) \/ StartManual(p)
  BY <1>1 DEF Starts
<1>2. ASSUME NEW p \in Syncer, Proceed(p)
      PROVE  \/ Open(p) \/ Receive(p) \/ Refuse(p) \/ MarkFailed(p) \/ Lock(p) \/ Upsert(p) \/ Commit(p)
             \/ pc[p] # "idle" /\ Abort(p) /\ UNCHANGED <<bureau, slots, crashes>>
  <2>1. TransportError(p) => pc[p] # "idle" /\ Abort(p) /\ UNCHANGED <<bureau, slots, crashes>>
    BY DEF TransportError
  <2>2. BreakDeadlock(p) => pc[p] # "idle" /\ Abort(p) /\ UNCHANGED <<bureau, slots, crashes>>
    <3> SUFFICES ASSUME BreakDeadlock(p) PROVE pc[p] # "idle"
      BY DEF BreakDeadlock
    <3>1. PICK S \in SUBSET Syncer : p \in S /\ Circle(S)
      BY DEF BreakDeadlock
    <3>2. WaitsFor(p) \in S
      BY <3>1 DEF Circle
    <3>3. WaitsFor(p) # None
      BY <3>2, NoneIsNobody
    <3> QED BY <3>3 DEF WaitsFor
  <2> QED BY <1>2, <2>1, <2>2 DEF Proceed
<1>3. ASSUME NEW p \in Syncer, Crash(p)
      PROVE  /\ pc[p] # "idle" /\ Abort(p) /\ crashes' = crashes + 1 /\ crashes < MaxCrashes
             /\ UNCHANGED <<bureau, slots>>
  BY <1>3 DEF Crash
<1>4. CASE \E p \in Syncer : Proceed(p)
  BY <1>2, <1>4
<1>5. CASE \E p \in Syncer : Crash(p)
  BY <1>3, <1>5
<1> QED BY <1>1, <1>4, <1>5 DEF Next

\* The locks of a transaction that ends.
LEMMA Released ==
  ASSUME TypeInv, NEW p \in Syncer, Release(p)
  PROVE  /\ holder' \in [Company -> Syncer \cup {None}]
         /\ \A c \in Company : holder'[c] = IF holder[c] = p THEN None ELSE holder[c]
BY Before DEF Release

LEMMA TypeKept ==
  ASSUME TypeInv, StillFits,
         holder' \in [Company -> Syncer \cup {None}],
         bureau' = bureau,
         companies' \in [Company -> {"absent", "other", "self"}],
         runs' \in [SyncRun -> SyncRow],
         raw' \in [SyncRun -> SUBSET SUBSET Line],
         book' \in [Kind \X Invoice -> [ver : 0 .. MaxVersion, run : SyncRun \cup {0},
                                        items : SUBSET Version]],
         slots' \in 0 .. MaxSyncs, crashes' \in 0 .. MaxCrashes
  PROVE  TypeOK'
<1>1. bureau' \in [Invoice -> Version]
  BY DEF TypeInv, TypeOK
<1>2. pc' \in [Syncer -> {"idle", "opening", "calling", "refused", "locking", "upserting"}]
      /\ job' \in [Syncer -> Job]
  BY DEF StillFits, Working
<1>3. exit' \in [Syncer -> [code : {"none", "0", "1", "crash"}, mine : SUBSET SyncRun,
                            asked : SUBSET (Company \X Kind)]]
  BY DEF StillFits, Pair
<1>4. runs' \in [SyncRun -> [tax : Company \cup {None}, kind : Kind \cup {None},
                             status : {"absent", "pending", "success", "failed"},
                             count : 0 .. Cardinality(Invoice)]]
  BY DEF SyncRow
<1> QED BY <1>1, <1>2, <1>3, <1>4 DEF TypeOK

LEMMA TypeNow ==
  ASSUME TypeInv
  PROVE  /\ holder \in [Company -> Syncer \cup {None}]
         /\ companies \in [Company -> {"absent", "other", "self"}]
         /\ runs \in [SyncRun -> SyncRow]
         /\ raw \in [SyncRun -> SUBSET SUBSET Line]
         /\ book \in [Kind \X Invoice -> [ver : 0 .. MaxVersion, run : SyncRun \cup {0},
                                          items : SUBSET Version]]
         /\ slots \in 0 .. MaxSyncs /\ crashes \in 0 .. MaxCrashes
BY DEF TypeInv, TypeOK, SyncRow

LEMMA InitTyped == Init => TypeInv
<1> SUFFICES ASSUME Init PROVE TypeInv
  OBVIOUS
<1>1. \A p \in Syncer : pc[p] = "idle" /\ job[p] = NoJob
  BY DEF Init
<1>2. \A p \in Syncer : JobFits(p)
  BY <1>1, NoJobType DEF JobFits, Working, Writing
<1>3. /\ pc        \in [Syncer -> {"idle", "opening", "calling", "refused", "locking", "upserting"}]
      /\ job       \in [Syncer -> Job]
      /\ holder    \in [Company -> Syncer \cup {None}]
  BY NoJobType DEF Init
<1>4. bureau \in [Invoice -> Version]
  BY SyncBounds DEF Init, Version
<1>5. companies \in [Company -> {"absent", "other", "self"}]
  BY DEF Init
<1>6. runs \in [SyncRun -> [tax : Company \cup {None}, kind : Kind \cup {None},
                            status : {"absent", "pending", "success", "failed"},
                            count : 0 .. Cardinality(Invoice)]]
  <2>1. 0 \in 0 .. Cardinality(Invoice)
    BY InvoicesAreFinite, FS_CardinalityType
  <2>2. [tax |-> None, kind |-> None, status |-> "absent", count |-> 0] \in SyncRow
    BY <2>1 DEF SyncRow
  <2> QED BY <2>2 DEF Init, SyncRow
<1>7. raw \in [SyncRun -> SUBSET SUBSET Line]
  BY DEF Init
<1>8. book \in [Kind \X Invoice -> [ver : 0 .. MaxVersion, run : SyncRun \cup {0},
                                    items : SUBSET Version]]
  <2>1. 0 \in 0 .. MaxVersion
    BY SyncBounds
  <2> QED BY <2>1 DEF Init
<1>9. exit \in [Syncer -> [code : {"none", "0", "1", "crash"}, mine : SUBSET SyncRun,
                           asked : SUBSET (Company \X Kind)]]
  BY DEF Init
<1>10. slots \in 0 .. MaxSyncs /\ crashes \in 0 .. MaxCrashes
  BY SyncBounds DEF Init
<1> QED BY <1>2, <1>3, <1>4, <1>5, <1>6, <1>7, <1>8, <1>9, <1>10 DEF TypeInv, TypeOK

\* What the answer of p is written over.
LEMMA StoredIs ==
  ASSUME TypeInv, NEW p \in Syncer, pc[p] = "upserting", Committed(p)
  PROVE  /\ book' \in [Kind \X Invoice -> [ver : 0 .. MaxVersion, run : SyncRun \cup {0},
                                           items : SUBSET Version]]
         /\ \A e \in Kind \X Invoice :
              \/ book'[e] = book[e] /\ ~(e[1] = Dir(p) /\ \E l \in job[p].lines : l.inv = e[2])
              \/ \E l \in job[p].lines :
                   /\ e[1] = Dir(p) /\ l.inv = e[2]
                   /\ l = CHOOSE m \in job[p].lines : m.inv = e[2]
                   /\ book'[e] = Entry(job[p].run, l, book[e])
                   /\ book'[e].ver = l.ver /\ book'[e].run = job[p].run
                   /\ book'[e].items = IF l.full THEN {l.ver} ELSE book[e].items
<1> DEFINE B == [ver : 0 .. MaxVersion, run : SyncRun \cup {0}, items : SUBSET Version]
           lines == job[p].lines
           r == job[p].run
<1>1. r \in SyncRun /\ lines \in SUBSET Line
  BY RunOf, Before, JobIs DEF Working
<1>2. book' = Stored(r, Dir(p), lines) /\ book \in [Kind \X Invoice -> B]
  BY TypeNow DEF Committed
<1> HIDE DEF lines, r
<1>3. ASSUME NEW e \in Kind \X Invoice
      PROVE  /\ book'[e] \in B
             /\ \/ book'[e] = book[e] /\ ~(e[1] = Dir(p) /\ \E l \in lines : l.inv = e[2])
                \/ \E l \in lines :
                     /\ e[1] = Dir(p) /\ l.inv = e[2]
                     /\ l = CHOOSE m \in lines : m.inv = e[2]
                     /\ book'[e] = Entry(r, l, book[e])
                     /\ book'[e].ver = l.ver /\ book'[e].run = r
                     /\ book'[e].items = IF l.full THEN {l.ver} ELSE book[e].items
  <2>1. CASE ~(e[1] = Dir(p) /\ \E l \in lines : l.inv = e[2])
    <3>1. book'[e] = book[e]
      BY <1>2, <2>1 DEF Stored
    <3>2. book[e] \in B
      BY <1>2
    <3> HIDE DEF B
    <3> QED BY <2>1, <3>1, <3>2
  <2>2. CASE e[1] = Dir(p) /\ \E l \in lines : l.inv = e[2]
    <3> DEFINE l == CHOOSE m \in lines : m.inv = e[2]
    <3>1. l \in lines /\ l.inv = e[2]
      BY <2>2
    <3>2. book'[e] = Entry(r, l, book[e])
      BY <1>2, <2>2 DEF Stored
    <3>3. l = CHOOSE m \in lines : m.inv = e[2]
      OBVIOUS
    <3> HIDE DEF l
    <3>4. l \in [inv : Invoice, ver : Version, full : BOOLEAN] /\ book[e] \in B
      BY <1>1, <1>2, <3>1 DEF Line
    <3>5. l.ver \in Version /\ l.ver \in 0 .. MaxVersion /\ book[e].items \in SUBSET Version
      BY <3>4, SyncBounds DEF Version
    <3>6. /\ Entry(r, l, book[e]) \in B
          /\ Entry(r, l, book[e]).ver = l.ver /\ Entry(r, l, book[e]).run = r
          /\ Entry(r, l, book[e]).items = IF l.full THEN {l.ver} ELSE book[e].items
      BY <1>1, <3>5 DEF Entry
    <3> HIDE DEF B
    <3> QED BY <2>2, <3>1, <3>2, <3>3, <3>6
  <2> QED BY <2>1, <2>2
<1>4. book' \in [Kind \X Invoice -> B]
  <2>1. book' = [e \in Kind \X Invoice |-> book'[e]]
    BY <1>2 DEF Stored
  <2> HIDE DEF B
  <2> QED BY <1>3, <2>1
<1> QED BY <1>3, <1>4 DEF lines, r

LEMMA NextTyped == TypeInv /\ [Next]_vars => TypeInv'
<1> SUFFICES ASSUME TypeInv, [Next]_vars PROVE TypeInv'
  OBVIOUS
<1>1. CASE UNCHANGED vars
  BY <1>1 DEF vars, tables, TypeInv, TypeOK, JobFits, Tax, Dir, AnswerFor
<1>2. CASE \E i \in Invoice : Amend(i)
  <2>1. PICK i \in Invoice : Amend(i)
    BY <1>2
  <2>2. /\ bureau' \in [Invoice -> Version]
        /\ UNCHANGED <<pc, job, holder, tables, exit, slots, crashes>>
    BY <2>1, AmendEffect
  <2> QED BY <2>2 DEF tables, TypeInv, TypeOK, JobFits, Tax, Dir, AnswerFor
<1>3. ASSUME NEW p \in Syncer, Starts(p)
      PROVE  TypeInv'
  <2>1. /\ StillFits /\ OnlyMoves(p) /\ Started(p)
        /\ UNCHANGED <<holder, bureau, tables, crashes>> /\ slots' \in 0 .. MaxSyncs
    BY <1>3, StartsEffect
  <2>2. TypeOK'
    BY <2>1, TypeNow, TypeKept DEF tables
  <2>3. JobFits(p)'
    BY <2>1 DEF Started, JobFits, Working, Writing
  <2> QED BY <2>1, <2>2, <2>3, OthersFit DEF TypeInv
<1>4. ASSUME NEW p \in Syncer, Open(p)
      PROVE  TypeInv'
  <2>1. StillFits /\ OnlyMoves(p) /\ pc[p] = "opening"
    BY <1>4, OpenEffect
  <2>2. PICK r \in SyncRun : Opened(p, r)
    BY <1>4, OpenEffect
  <2>3. TypeOK'
    BY <2>1, <2>2, TypeNow, TypeKept DEF Opened, RowMoves
  <2>4. JobFits(p)'
    BY <2>1, <2>2 DEF Opened, TypeInv, JobFits, Working, Writing
  <2> QED BY <2>1, <2>3, <2>4, OthersFit DEF TypeInv
<1>5. ASSUME NEW p \in Syncer, Receive(p)
      PROVE  TypeInv'
  <2>1. /\ StillFits /\ OnlyMoves(p) /\ pc[p] = "calling" /\ Answered(p) /\ SameWork(p)
        /\ UNCHANGED <<holder, bureau, tables, slots, crashes>>
    BY <1>5, ReceiveEffect
  <2>2. TypeOK'
    BY <2>1, TypeNow, TypeKept DEF tables
  <2>3. Tax(p)' = Tax(p) /\ Dir(p)' = Dir(p) /\ Tax(p) \in Company
    BY <2>1, PairOf DEF SameWork, Tax, Dir
  <2>4. AnswerFor(job[p].lines, Tax(p), Dir(p))'
    BY <2>1, <2>3 DEF Answered, AnswerFor
  <2>5. JobFits(p)'
    BY <2>1, <2>3, <2>4 DEF Answered, SameWork, TypeInv, JobFits, Working, Writing
  <2> QED BY <2>1, <2>2, <2>5, OthersFit DEF TypeInv
<1>6. ASSUME NEW p \in Syncer, Refuse(p)
      PROVE  TypeInv'
  <2>1. /\ StillFits /\ OnlyMoves(p) /\ SameWork(p) /\ pc[p] = "calling" /\ pc'[p] = "refused"
        /\ UNCHANGED <<holder, bureau, tables, slots, crashes>>
    BY <1>6, RefuseEffect
  <2>2. TypeOK'
    BY <2>1, TypeNow, TypeKept DEF tables
  <2>3. JobFits(p)'
    BY <2>1 DEF SameWork, TypeInv, JobFits, Working, Writing
  <2> QED BY <2>1, <2>2, <2>3, OthersFit DEF TypeInv
<1>7. ASSUME NEW p \in Syncer, MarkFailed(p)
      PROVE  TypeInv'
  <2>1. StillFits /\ OnlyMoves(p) /\ pc[p] = "refused" /\ Failing(p)
    BY <1>7, MarkFailedEffect
  <2>2. TypeOK'
    BY <2>1, TypeNow, TypeKept DEF Failing, RowMoves
  <2>3. JobFits(p)'
    BY <2>1 DEF Failing, Continued, Ended, JobFits, Working, Writing
  <2> QED BY <2>1, <2>2, <2>3, OthersFit DEF TypeInv
<1>8. ASSUME NEW p \in Syncer, Lock(p)
      PROVE  TypeInv'
  <2>1. /\ StillFits /\ OnlyMoves(p) /\ Locked(p) /\ SameWork(p) /\ SameAnswer(p)
        /\ UNCHANGED <<bureau, tables, slots, crashes>>
    BY <1>8, LockEffect
  <2>2. holder' \in [Company -> Syncer \cup {None}]
    BY <2>1, TypeNow DEF Locked
  <2>3. TypeOK'
    BY <2>1, <2>2, TypeNow, TypeKept DEF tables
  <2>4. Tax(p)' = Tax(p) /\ Dir(p)' = Dir(p) /\ AnswerFor(job[p].lines, Tax(p), Dir(p))
    BY <2>1 DEF SameWork, Tax, Dir, Locked, TypeInv, JobFits, Writing
  <2>5. AnswerFor(job[p].lines, Tax(p), Dir(p))'
    BY <2>1, <2>4 DEF SameAnswer, AnswerFor
  <2>6. JobFits(p)'
    BY <2>1, <2>4, <2>5 DEF Locked, SameWork, TypeInv, JobFits, Working, Writing
  <2> QED BY <2>1, <2>3, <2>6, OthersFit DEF TypeInv
<1>9. ASSUME NEW p \in Syncer, Upsert(p)
      PROVE  TypeInv'
  <2>1. /\ StillFits /\ OnlyMoves(p) /\ SameWork(p) /\ SameAnswer(p)
        /\ pc[p] = "upserting" /\ pc'[p] = "upserting"
        /\ UNCHANGED <<holder, bureau, tables, slots, crashes>>
    BY <1>9, UpsertEffect
  <2>2. TypeOK'
    BY <2>1, TypeNow, TypeKept DEF tables
  <2>3. Tax(p)' = Tax(p) /\ Dir(p)' = Dir(p) /\ AnswerFor(job[p].lines, Tax(p), Dir(p))
    BY <2>1 DEF SameWork, Tax, Dir, TypeInv, JobFits, Writing
  <2>4. AnswerFor(job[p].lines, Tax(p), Dir(p))'
    BY <2>1, <2>3 DEF SameAnswer, AnswerFor
  <2>5. JobFits(p)'
    BY <2>1, <2>3, <2>4 DEF SameWork, TypeInv, JobFits, Working, Writing
  <2> QED BY <2>1, <2>2, <2>5, OthersFit DEF TypeInv
<1>10. ASSUME NEW p \in Syncer, Commit(p)
       PROVE  TypeInv'
  <2>1. StillFits /\ OnlyMoves(p) /\ pc[p] = "upserting" /\ Committed(p)
    BY <1>10, CommitEffect
  <2>2. job[p].run \in SyncRun /\ job[p].lines \in SUBSET Line
    BY <2>1, RunOf, Before, JobIs DEF Working
  <2>3. raw' \in [SyncRun -> SUBSET SUBSET Line]
    BY <2>1, <2>2, TypeNow DEF Committed
  <2>4. companies' \in [Company -> {"absent", "other", "self"}]
    BY <2>1, TypeNow DEF Committed, Note
  <2>5. book' \in [Kind \X Invoice -> [ver : 0 .. MaxVersion, run : SyncRun \cup {0},
                                       items : SUBSET Version]]
    BY <2>1, StoredIs
  <2>6. holder' \in [Company -> Syncer \cup {None}]
    BY <2>1, Released DEF Committed
  <2>7. runs' \in [SyncRun -> SyncRow] /\ bureau' = bureau /\ slots' = slots /\ crashes' = crashes
    BY <2>1 DEF Committed, RowMoves
  <2>8. TypeOK'
    BY <2>1, <2>3, <2>4, <2>5, <2>6, <2>7, TypeNow, TypeKept
  <2>9. JobFits(p)'
    BY <2>1 DEF Committed, Continued, Ended, JobFits, Working, Writing
  <2> QED BY <2>1, <2>8, <2>9, OthersFit DEF TypeInv
<1>11. ASSUME NEW p \in Syncer, Abort(p), UNCHANGED <<bureau, slots>>,
              crashes' \in {crashes, crashes + 1}, crashes' # crashes => crashes < MaxCrashes
       PROVE  TypeInv'
  <2>1. StillFits /\ OnlyMoves(p) /\ Ended(p, "crash") /\ Release(p) /\ UNCHANGED tables
    BY <1>11, AbortEffect
  <2>2. holder' \in [Company -> Syncer \cup {None}]
    BY <2>1, Released
  <2>3. crashes' \in 0 .. MaxCrashes
    BY <1>11, TypeNow, SyncBounds
  <2>4. TypeOK'
    BY <1>11, <2>1, <2>2, <2>3, TypeNow, TypeKept DEF tables
  <2>5. JobFits(p)'
    BY <2>1 DEF Ended, JobFits, Working, Writing
  <2> QED BY <2>1, <2>4, <2>5, OthersFit DEF TypeInv
<1> QED BY <1>1, <1>2, <1>3, <1>4, <1>5, <1>6, <1>7, <1>8, <1>9, <1>10, <1>11, Steps

-----------------------------------------------------------------------------
(***************************************************************************)
(* Locks.                                                                  *)
(***************************************************************************)

\* A row is locked by a transaction under way, and from the first upsert on
\* a transaction holds the row of its own company.
LockInv ==
  /\ \A c \in Company, p \in Syncer : holder[c] = p => pc[p] \in Writing
  /\ \A p \in Syncer : Inside(p) => holder[Tax(p)] = p

LEMMA InsideLocks ==
  ASSUME TypeInv, LockInv
  PROVE  SameCompanyIsSerial
BY DEF LockInv, SameCompanyIsSerial

\* p alone moves, and no row is newly locked.
LEMMA LocksKept ==
  ASSUME TypeInv, LockInv, NEW p \in Syncer, OnlyMoves(p),
         \A c \in Company : holder'[c] = holder[c] \/ (holder[c] = p /\ holder'[c] = None),
         pc'[p] \in Writing \/ \A c \in Company : holder'[c] # p,
         Inside(p)' => holder'[Tax(p)'] = p
  PROVE  LockInv'
<1>1. ASSUME NEW c \in Company, NEW q \in Syncer, holder'[c] = q
      PROVE  pc'[q] \in Writing
  <2>1. CASE q = p
    BY <1>1, <2>1
  <2>2. CASE q # p
    <3>1. holder[c] = q
      BY <1>1, NoneIsNobody
    <3> QED BY <2>2, <3>1 DEF OnlyMoves, LockInv
  <2> QED BY <2>1, <2>2
<1>2. ASSUME NEW q \in Syncer, Inside(q)', q # p
      PROVE  holder'[Tax(q)'] = q
  <2>1. pc'[q] = pc[q] /\ job'[q] = job[q]
    BY <1>2 DEF OnlyMoves
  <2>2. Inside(q) /\ Tax(q)' = Tax(q) /\ pc[q] # "idle"
    BY <1>2, <2>1 DEF Inside, Tax
  <2>3. holder[Tax(q)] = q /\ Tax(q) \in Company
    BY <2>2, PairOf DEF LockInv
  <2> QED BY <1>2, <2>2, <2>3
<1>3. \A q \in Syncer : Inside(q)' => holder'[Tax(q)'] = q
  BY <1>2
<1>4. \A c \in Company, q \in Syncer : holder'[c] = q => pc'[q] \in Writing
  BY <1>1
<1>5. Writing' = Writing
  BY DEF Writing
<1> QED BY <1>3, <1>4, <1>5 DEF LockInv

LEMMA NextLocks == TypeInv /\ LockInv /\ [Next]_vars => LockInv'
<1> SUFFICES ASSUME TypeInv, LockInv, [Next]_vars PROVE LockInv'
  OBVIOUS
<1>1. CASE UNCHANGED vars
  BY <1>1 DEF vars, LockInv, Inside, Tax, Writing
<1>2. CASE \E i \in Invoice : Amend(i)
  <2>1. UNCHANGED <<pc, job, holder>>
    BY <1>2 DEF Amend
  <2> QED BY <2>1 DEF LockInv, Inside, Tax, Writing
<1>3. ASSUME NEW p \in Syncer, Starts(p)
      PROVE  LockInv'
  <2>1. OnlyMoves(p) /\ Started(p) /\ UNCHANGED holder
    BY <1>3, StartsEffect
  <2>2. \A c \in Company : holder[c] # p
    BY <2>1 DEF Started, LockInv, Writing
  <2>3. ~Inside(p)'
    BY <2>1 DEF Started, Inside
  <2> QED BY <2>1, <2>2, <2>3, LocksKept
<1>4. ASSUME NEW p \in Syncer, Open(p)
      PROVE  LockInv'
  <2>1. OnlyMoves(p) /\ pc[p] = "opening" /\ pc'[p] = "calling" /\ UNCHANGED holder
    BY <1>4, OpenEffect DEF Opened
  <2>2. \A c \in Company : holder[c] # p
    BY <2>1 DEF LockInv, Writing
  <2>3. ~Inside(p)'
    BY <2>1 DEF Inside
  <2> QED BY <2>1, <2>2, <2>3, LocksKept
<1>5. ASSUME NEW p \in Syncer, Receive(p)
      PROVE  LockInv'
  <2>1. OnlyMoves(p) /\ Answered(p) /\ SameWork(p) /\ UNCHANGED holder
    BY <1>5, ReceiveEffect
  <2>2. pc'[p] \in Writing /\ ~Inside(p)'
    BY <2>1 DEF Answered, SameWork, Inside, Tax, Writing
  <2> QED BY <2>1, <2>2, LocksKept
<1>6. ASSUME NEW p \in Syncer, Refuse(p)
      PROVE  LockInv'
  <2>1. OnlyMoves(p) /\ pc[p] = "calling" /\ pc'[p] = "refused" /\ UNCHANGED holder
    BY <1>6, RefuseEffect
  <2>2. \A c \in Company : holder[c] # p
    BY <2>1 DEF LockInv, Writing
  <2>3. ~Inside(p)'
    BY <2>1 DEF Inside
  <2> QED BY <2>1, <2>2, <2>3, LocksKept
<1>7. ASSUME NEW p \in Syncer, MarkFailed(p)
      PROVE  LockInv'
  <2>1. OnlyMoves(p) /\ pc[p] = "refused" /\ Failing(p)
    BY <1>7, MarkFailedEffect
  <2>2. pc'[p] \in {"opening", "idle"} /\ UNCHANGED holder
    BY <2>1 DEF Failing, Continued, Ended
  <2>3. \A c \in Company : holder[c] # p
    BY <2>1 DEF LockInv, Writing
  <2>4. ~Inside(p)'
    BY <2>2 DEF Inside
  <2> QED BY <2>1, <2>2, <2>3, <2>4, LocksKept
<1>8. ASSUME NEW p \in Syncer, Lock(p)
      PROVE  LockInv'
  <2>1. OnlyMoves(p) /\ Locked(p) /\ SameWork(p)
    BY <1>8, LockEffect
  <2>2. Tax(p)' = Tax(p) /\ Tax(p) \in Company /\ pc'[p] \in Writing
    BY <2>1, PairOf DEF SameWork, Tax, Locked, Writing
  <2>3. \A c \in Company : holder'[c] = IF c = job[p].want THEN p ELSE holder[c]
    BY <2>1, TypeNow DEF Locked
  <2>4. holder'[Tax(p)] = p
    <3>1. CASE job[p].want = Tax(p)
      BY <2>2, <2>3, <3>1
    <3>2. CASE job[p].want # Tax(p)
      <4>1. Inside(p)
        BY <2>1, <3>2 DEF Inside, Locked
      <4> QED BY <2>2, <2>3, <4>1 DEF LockInv
    <3> QED BY <3>1, <3>2
  <2>5. ASSUME NEW c \in Company, NEW q \in Syncer, holder'[c] = q
        PROVE  pc'[q] \in Writing
    <3>1. CASE q = p
      BY <2>2, <3>1
    <3>2. CASE q # p
      <4>1. holder[c] = q /\ pc'[q] = pc[q]
        BY <2>1, <2>3, <2>5, <3>2 DEF OnlyMoves
      <4> QED BY <4>1 DEF LockInv
    <3> QED BY <3>1, <3>2
  <2>6. ASSUME NEW q \in Syncer, Inside(q)'
        PROVE  holder'[Tax(q)'] = q
    <3>1. CASE q = p
      BY <2>2, <2>4, <3>1
    <3>2. CASE q # p
      <4>1. pc'[q] = pc[q] /\ job'[q] = job[q]
        BY <2>1, <3>2 DEF OnlyMoves
      <4>2. Inside(q) /\ Tax(q)' = Tax(q) /\ pc[q] # "idle"
        BY <2>6, <4>1 DEF Inside, Tax
      <4>3. holder[Tax(q)] = q /\ Tax(q) \in Company
        BY <4>2, PairOf DEF LockInv
      <4>4. Tax(q) # job[p].want
        BY <2>1, <4>3, NoneIsNobody DEF Locked
      <4> QED BY <2>3, <4>2, <4>3, <4>4
    <3> QED BY <3>1, <3>2
  <2>7. Writing' = Writing
    BY DEF Writing
  <2> QED BY <2>5, <2>6, <2>7 DEF LockInv
<1>9. ASSUME NEW p \in Syncer, Upsert(p)
      PROVE  LockInv'
  <2>1. OnlyMoves(p) /\ SameWork(p) /\ pc[p] = "upserting" /\ pc'[p] = "upserting" /\ UNCHANGED holder
    BY <1>9, UpsertEffect
  <2>2. Tax(p)' = Tax(p) /\ Inside(p) /\ pc'[p] \in Writing
    BY <2>1 DEF SameWork, Tax, Inside, Writing
  <2>3. holder'[Tax(p)'] = p
    BY <2>1, <2>2 DEF LockInv
  <2> QED BY <2>1, <2>2, <2>3, LocksKept
<1>10. ASSUME NEW p \in Syncer, OnlyMoves(p), Release(p), pc'[p] \in {"opening", "idle"}
       PROVE  LockInv'
  <2>1. \A c \in Company : holder'[c] = IF holder[c] = p THEN None ELSE holder[c]
    BY <1>10, Released
  <2>2. \A c \in Company : holder'[c] # p
    BY <2>1, NoneIsNobody
  <2>3. ~Inside(p)'
    BY <1>10 DEF Inside
  <2> QED BY <1>10, <2>1, <2>2, <2>3, LocksKept
<1>11. ASSUME NEW p \in Syncer, Commit(p)
       PROVE  LockInv'
  <2>1. OnlyMoves(p) /\ Committed(p)
    BY <1>11, CommitEffect
  <2>2. Release(p) /\ pc'[p] \in {"opening", "idle"}
    BY <2>1 DEF Committed, Continued, Ended
  <2> QED BY <1>10, <2>1, <2>2
<1>12. ASSUME NEW p \in Syncer, Abort(p)
       PROVE  LockInv'
  <2>1. OnlyMoves(p) /\ Ended(p, "crash") /\ Release(p)
    BY <1>12, AbortEffect
  <2> QED BY <1>10, <2>1 DEF Ended
<1> QED BY <1>1, <1>2, <1>3, <1>4, <1>5, <1>6, <1>7, <1>8, <1>9, <1>11, <1>12, Steps

-----------------------------------------------------------------------------
(***************************************************************************)
(* The rows of sync_runs.                                                  *)
(***************************************************************************)

\* A syncer at work has a pending row of its own.
RunInv ==
  /\ \A p \in Syncer : pc[p] \in Working =>
       /\ runs[job[p].run].status = "pending"
       /\ runs[job[p].run].tax = Tax(p) /\ runs[job[p].run].kind = Dir(p)
  /\ \A p, q \in Syncer : pc[p] \in Working /\ pc[q] \in Working /\ job[p].run = job[q].run => p = q

Settled == {"success", "failed"}

\* A row that is settled is not touched again.
RowsStay == \A r \in SyncRun : runs[r].status \in Settled => runs'[r] = runs[r]

\* p alone moves, and of the rows in use at most its own changes.
LEMMA RunsKept ==
  ASSUME TypeInv, RunInv, NEW p \in Syncer, OnlyMoves(p),
         pc'[p] \in Working => /\ pc[p] \in Working /\ job'[p].run = job[p].run
                               /\ job'[p].plan = job[p].plan /\ runs' = runs,
         \A r \in SyncRun : runs'[r] = runs[r] \/ (pc[p] \in Working /\ r = job[p].run)
  PROVE  RunInv' /\ RowsStay
<1>1. ASSUME NEW q \in Syncer, pc'[q] \in Working
      PROVE  /\ pc[q] \in Working /\ job'[q].run = job[q].run /\ runs'[job[q].run] = runs[job[q].run]
             /\ Tax(q)' = Tax(q) /\ Dir(q)' = Dir(q)
  <2>1. CASE q = p
    BY <1>1, <2>1 DEF Tax, Dir
  <2>2. CASE q # p
    <3>1. pc'[q] = pc[q] /\ job'[q] = job[q]
      BY <2>2 DEF OnlyMoves
    <3>2. pc[q] \in Working /\ job[q].run \in SyncRun
      BY <1>1, <3>1, RunOf
    <3>3. ~(pc[p] \in Working /\ job[q].run = job[p].run)
      BY <2>2, <3>2 DEF RunInv
    <3> QED BY <3>1, <3>2, <3>3 DEF Tax, Dir
  <2> QED BY <2>1, <2>2
<1>2. ASSUME NEW q \in Syncer, pc'[q] \in Working
      PROVE  /\ runs'[job'[q].run].status = "pending"
             /\ runs'[job'[q].run].tax = Tax(q)' /\ runs'[job'[q].run].kind = Dir(q)'
  BY <1>1, <1>2 DEF RunInv
<1>3. \A q, s \in Syncer : pc'[q] \in Working /\ pc'[s] \in Working /\ job'[q].run = job'[s].run => q = s
  BY <1>1 DEF RunInv
<1>4. Working' = Working
  BY DEF Working
<1>5. RunInv'
  BY <1>2, <1>3, <1>4 DEF RunInv
<1>6. RowsStay
  BY DEF RowsStay, RunInv, Settled
<1> QED BY <1>5, <1>6

\* No step but a commit changes what is archived, stored or successful.
Quiet ==
  /\ UNCHANGED <<raw, book, companies>>
  /\ \A r \in SyncRun : /\ runs'[r].status = "success" <=> runs[r].status = "success"
                        /\ runs[r].status = "success" => runs'[r] = runs[r]

LEMMA NextRuns ==
  ASSUME TypeInv, RunInv, [Next]_vars
  PROVE  RunInv' /\ RowsStay /\ (Quiet \/ \E p \in Syncer : Commit(p))
<1>1. CASE UNCHANGED vars
  BY <1>1 DEF vars, tables, RunInv, Working, Tax, Dir, RowsStay, Quiet
<1>2. CASE \E i \in Invoice : Amend(i)
  <2>1. UNCHANGED <<pc, job, runs, raw, book, companies>>
    BY <1>2 DEF Amend, tables
  <2> QED BY <2>1 DEF RunInv, Working, Tax, Dir, RowsStay, Quiet
<1>3. ASSUME NEW p \in Syncer, Starts(p)
      PROVE  RunInv' /\ RowsStay /\ Quiet
  <2>1. OnlyMoves(p) /\ Started(p) /\ UNCHANGED <<runs, raw, book, companies>>
    BY <1>3, StartsEffect DEF tables
  <2>2. pc'[p] \notin Working
    BY <2>1 DEF Started, Working
  <2> QED BY <2>1, <2>2, RunsKept DEF Quiet
<1>4. ASSUME NEW p \in Syncer, Open(p)
      PROVE  RunInv' /\ RowsStay /\ Quiet
  <2>1. OnlyMoves(p) /\ pc[p] = "opening"
    BY <1>4, OpenEffect
  <2>2. PICK r \in SyncRun : Opened(p, r)
    BY <1>4, OpenEffect
  <2>3. /\ runs[r].status = "absent" /\ runs'[r].status = "pending"
        /\ runs'[r].tax = Tax(p) /\ runs'[r].kind = Dir(p)
        /\ \A s \in SyncRun : s # r => runs'[s] = runs[s]
    <3>1. runs[r] \in SyncRow /\ Tax(p) \in Company /\ Dir(p) \in Kind
      BY <2>1, Before, PairOf
    <3>2. 0 \in 0 .. Cardinality(Invoice)
      BY InvoicesAreFinite, FS_CardinalityType
    <3>3. /\ OpenRow(runs[r], Tax(p), Dir(p)).status = "pending"
          /\ OpenRow(runs[r], Tax(p), Dir(p)).tax = Tax(p)
          /\ OpenRow(runs[r], Tax(p), Dir(p)).kind = Dir(p)
      BY <3>1, <3>2, RowSet
    <3> QED BY <2>2, <3>3 DEF Opened, RowMoves
  <2>4. ASSUME NEW q \in Syncer, q # p, pc'[q] \in Working
        PROVE  /\ pc[q] \in Working /\ job'[q] = job[q] /\ job[q].run # r /\ job[q].run \in SyncRun
               /\ runs'[job'[q].run].status = "pending"
               /\ runs'[job'[q].run].tax = Tax(q)' /\ runs'[job'[q].run].kind = Dir(q)'
    <3>1. pc[q] \in Working /\ job'[q] = job[q]
      BY <2>1, <2>4 DEF OnlyMoves
    <3>2. runs[job[q].run].status = "pending" /\ job[q].run \in SyncRun
      BY <3>1, RunOf DEF RunInv
    <3>3. job[q].run # r
      BY <2>3, <3>2
    <3>4. Tax(q)' = Tax(q) /\ Dir(q)' = Dir(q) /\ runs'[job[q].run] = runs[job[q].run]
      BY <2>3, <3>1, <3>2, <3>3 DEF Tax, Dir
    <3> QED BY <3>1, <3>2, <3>3, <3>4 DEF RunInv
  <2>5. job'[p].run = r /\ Tax(p)' = Tax(p) /\ Dir(p)' = Dir(p)
    BY <2>2 DEF Opened, Tax, Dir
  <2>6. \A q \in Syncer : pc'[q] \in Working =>
          /\ runs'[job'[q].run].status = "pending"
          /\ runs'[job'[q].run].tax = Tax(q)' /\ runs'[job'[q].run].kind = Dir(q)'
    BY <2>3, <2>4, <2>5
  <2>7. ASSUME NEW q \in Syncer, NEW s \in Syncer, pc'[q] \in Working, pc'[s] \in Working,
               job'[q].run = job'[s].run
        PROVE  q = s
    BY <2>4, <2>5, <2>7 DEF RunInv
  <2>8. Working' = Working
    BY DEF Working
  <2>9. RunInv'
    BY <2>6, <2>7, <2>8 DEF RunInv
  <2>10. RowsStay
    BY <2>3 DEF RowsStay, Settled
  <2>11. Quiet
    BY <2>2, <2>3 DEF Quiet, Opened
  <2> QED BY <2>9, <2>10, <2>11
<1>5. ASSUME NEW p \in Syncer, OnlyMoves(p), SameWork(p), pc[p] \in Working, UNCHANGED tables
      PROVE  RunInv' /\ RowsStay /\ Quiet
  <2>1. UNCHANGED <<runs, raw, book, companies>>
    BY <1>5 DEF tables
  <2>2. job'[p].run = job[p].run /\ job'[p].plan = job[p].plan
    BY <1>5 DEF SameWork
  <2> QED BY <1>5, <2>1, <2>2, RunsKept DEF Quiet
<1>6. ASSUME NEW p \in Syncer, Receive(p) \/ Refuse(p) \/ Lock(p) \/ Upsert(p)
      PROVE  RunInv' /\ RowsStay /\ Quiet
  <2>1. OnlyMoves(p) /\ SameWork(p) /\ pc[p] \in Working /\ UNCHANGED tables
    BY <1>6, ReceiveEffect, RefuseEffect, LockEffect, UpsertEffect DEF Locked, Working
  <2> QED BY <1>5, <2>1
<1>7. ASSUME NEW p \in Syncer, MarkFailed(p)
      PROVE  RunInv' /\ RowsStay /\ Quiet
  <2>1. OnlyMoves(p) /\ pc[p] = "refused" /\ Failing(p)
    BY <1>7, MarkFailedEffect
  <2>2. /\ job[p].run \in SyncRun /\ pc[p] \in Working /\ runs[job[p].run].status = "pending"
        /\ runs[job[p].run] \in SyncRow
    BY <2>1, RunOf, Before DEF Working, RunInv
  <2>3. runs'[job[p].run].status = "failed" /\ \A r \in SyncRun : r # job[p].run => runs'[r] = runs[r]
    BY <2>1, <2>2 DEF Failing, RowMoves, FailedRow, SyncRow
  <2>4. pc'[p] \notin Working /\ UNCHANGED <<raw, book, companies>>
    BY <2>1 DEF Failing, Continued, Ended, Working
  <2>5. RunInv' /\ RowsStay
    BY <2>1, <2>2, <2>3, <2>4, RunsKept
  <2>6. Quiet
    BY <2>2, <2>3, <2>4 DEF Quiet
  <2> QED BY <2>5, <2>6
<1>8. ASSUME NEW p \in Syncer, Commit(p)
      PROVE  RunInv' /\ RowsStay
  <2>1. OnlyMoves(p) /\ pc[p] = "upserting" /\ Committed(p)
    BY <1>8, CommitEffect
  <2>2. pc[p] \in Working /\ pc'[p] \notin Working
    BY <2>1 DEF Committed, Continued, Ended, Working
  <2>3. \A r \in SyncRun : r # job[p].run => runs'[r] = runs[r]
    BY <2>1 DEF Committed, RowMoves
  <2> QED BY <2>1, <2>2, <2>3, RunsKept
<1>9. ASSUME NEW p \in Syncer, Abort(p)
      PROVE  RunInv' /\ RowsStay /\ Quiet
  <2>1. OnlyMoves(p) /\ Ended(p, "crash") /\ UNCHANGED <<runs, raw, book, companies>>
    BY <1>9, AbortEffect DEF tables
  <2>2. pc'[p] \notin Working
    BY <2>1 DEF Ended, Working
  <2> QED BY <2>1, <2>2, RunsKept DEF Quiet
<1> QED BY <1>1, <1>2, <1>3, <1>4, <1>6, <1>7, <1>8, <1>9, Steps

-----------------------------------------------------------------------------
(***************************************************************************)
(* What is archived and stored.                                            *)
(***************************************************************************)

ArchiveInv == SuccessIsArchived /\ StoredIsArchived /\ ItemsOfOneAnswer

\* What a commit adds.
LEMMA CommitRows ==
  ASSUME TypeInv, RunInv, NEW p \in Syncer, Commit(p)
  PROVE  /\ job[p].run \in SyncRun /\ runs[job[p].run].status = "pending"
         /\ runs'[job[p].run].status = "success"
         /\ runs'[job[p].run].tax = Tax(p) /\ runs'[job[p].run].kind = Dir(p)
         /\ runs'[job[p].run].count = Cardinality(job[p].lines)
         /\ \A r \in SyncRun : r # job[p].run => runs'[r] = runs[r]
         /\ raw'[job[p].run] = raw[job[p].run] \cup {job[p].lines}
         /\ \A r \in SyncRun : r # job[p].run => raw'[r] = raw[r]
<1>1. pc[p] = "upserting" /\ Committed(p)
  BY CommitEffect
<1>2. job[p].run \in SyncRun /\ runs[job[p].run] \in SyncRow /\ runs[job[p].run].status = "pending"
      /\ runs[job[p].run].tax = Tax(p) /\ runs[job[p].run].kind = Dir(p)
  BY <1>1, RunOf, Before DEF Working, RunInv
<1>3. Cardinality(job[p].lines) \in 0 .. Cardinality(Invoice)
  <2>1. job[p].lines \in SUBSET Line /\ AnswerFor(job[p].lines, Tax(p), Dir(p))
    BY <1>1, Before, JobIs DEF TypeInv, JobFits, Writing
  <2>2. \A l, m \in job[p].lines : l.inv = m.inv => l = m
    BY <2>1 DEF AnswerFor
  <2> QED BY <2>1, <2>2, LinesAreFew
<1>4. LET w == DoneRow(runs[job[p].run], Cardinality(job[p].lines))
      IN  /\ w.status = "success" /\ w.count = Cardinality(job[p].lines)
          /\ w.tax = Tax(p) /\ w.kind = Dir(p)
  <2> DEFINE w0 == runs[job[p].run]
             n == Cardinality(job[p].lines)
  <2>1. w0 \in SyncRow /\ n \in 0 .. Cardinality(Invoice)
    BY <1>2, <1>3
  <2> HIDE DEF w0, n
  <2>2. /\ DoneRow(w0, n).status = "success" /\ DoneRow(w0, n).count = n
        /\ DoneRow(w0, n).tax = w0.tax /\ DoneRow(w0, n).kind = w0.kind
    BY <2>1 DEF DoneRow, SyncRow
  <2> QED BY <1>2, <2>2 DEF w0, n
<1>5. raw \in [SyncRun -> SUBSET SUBSET Line]
  BY TypeNow
<1> QED BY <1>1, <1>2, <1>4, <1>5 DEF Committed, RowMoves

LEMMA NextArchive ==
  ASSUME TypeInv, RunInv, ArchiveInv, [Next]_vars
  PROVE  ArchiveInv'
<1>1. CASE Quiet
  <2>1. raw' = raw /\ book' = book
    BY <1>1 DEF Quiet
  <2>2. \A r \in SyncRun : /\ runs'[r].status = "success" <=> runs[r].status = "success"
                           /\ runs[r].status = "success" => runs'[r] = runs[r]
    BY <1>1 DEF Quiet
  <2>3. SuccessIsArchived'
    BY <2>1, <2>2 DEF ArchiveInv, SuccessIsArchived
  <2>4. StoredIsArchived'
    <3>1. \A e \in Kind \X Invoice : book[e].run # 0 => book[e].run \in SyncRun
      BY TypeNow
    <3> QED BY <2>1, <2>2, <3>1 DEF ArchiveInv, StoredIsArchived
  <2>5. ItemsOfOneAnswer'
    BY <2>1, <2>2 DEF ArchiveInv, ItemsOfOneAnswer
  <2> QED BY <2>3, <2>4, <2>5 DEF ArchiveInv
<1>2. ASSUME NEW p \in Syncer, Commit(p)
      PROVE  ArchiveInv'
  <2> DEFINE r == job[p].run
             lines == job[p].lines
  <2>1. /\ r \in SyncRun /\ runs[r].status = "pending" /\ runs'[r].status = "success"
        /\ runs'[r].tax = Tax(p) /\ runs'[r].kind = Dir(p) /\ runs'[r].count = Cardinality(lines)
        /\ \A s \in SyncRun : s # r => runs'[s] = runs[s] /\ raw'[s] = raw[s]
        /\ raw'[r] = raw[r] \cup {lines}
    BY <1>2, CommitRows
  <2>2. raw[r] = {}
    BY <2>1 DEF ArchiveInv, SuccessIsArchived
  <2>3. raw'[r] = {lines}
    BY <2>1, <2>2
  <2>4. pc[p] = "upserting" /\ Committed(p)
    BY <1>2, CommitEffect
  <2>5. \A l \in lines : Party(Dir(p), l.inv) = Tax(p)
    BY <2>4 DEF TypeInv, JobFits, Writing, AnswerFor
  <2>6. \A e \in Kind \X Invoice :
          \/ book'[e] = book[e]
          \/ \E l \in lines : /\ e[1] = Dir(p) /\ l.inv = e[2]
                              /\ book'[e].ver = l.ver /\ book'[e].run = r
                              /\ book'[e].items = IF l.full THEN {l.ver} ELSE book[e].items
    BY <2>4, StoredIs
  <2> HIDE DEF lines, r
  <2>7. SuccessIsArchived'
    BY <2>1, <2>3 DEF ArchiveInv, SuccessIsArchived
  <2>8. ASSUME NEW e \in Kind \X Invoice, book'[e].run # 0
        PROVE  /\ runs'[book'[e].run].status = "success" /\ runs'[book'[e].run].kind = e[1]
               /\ runs'[book'[e].run].tax = Party(e[1], e[2])
               /\ \E ls \in raw'[book'[e].run] : \E l \in ls :
                    /\ l.inv = e[2] /\ l.ver = book'[e].ver
                    /\ l.full => book'[e].items = {l.ver}
    <3>1. CASE book'[e] = book[e]
      <4> DEFINE s == book[e].run
      <4>1. s \in SyncRun
        BY <2>8, <3>1, TypeNow
      <4>2. /\ runs[s].status = "success" /\ runs[s].kind = e[1] /\ runs[s].tax = Party(e[1], e[2])
            /\ \E ls \in raw[s] : \E l \in ls :
                 /\ l.inv = e[2] /\ l.ver = book[e].ver
                 /\ l.full => book[e].items = {l.ver}
        BY <2>8, <3>1 DEF ArchiveInv, StoredIsArchived
      <4> HIDE DEF s
      <4>3. s # r
        BY <2>1, <4>2
      <4>4. runs'[s] = runs[s] /\ raw'[s] = raw[s]
        BY <2>1, <4>1, <4>3
      <4> QED BY <3>1, <4>2, <4>4 DEF s
    <3>2. CASE \E l \in lines : /\ e[1] = Dir(p) /\ l.inv = e[2]
                                /\ book'[e].ver = l.ver /\ book'[e].run = r
                                /\ book'[e].items = IF l.full THEN {l.ver} ELSE book[e].items
      BY <2>1, <2>3, <2>5, <3>2
    <3> QED BY <2>6, <3>1, <3>2
  <2>9. StoredIsArchived'
    BY <2>8 DEF StoredIsArchived
  <2>10. ASSUME NEW e \in Kind \X Invoice, book'[e].items # {}
         PROVE  \E s \in SyncRun : runs'[s].status = "success" /\ \E ls \in raw'[s] : \E l \in ls :
                  l.inv = e[2] /\ l.full /\ book'[e].items = {l.ver}
    <3>1. CASE book'[e].items = book[e].items
      <4>1. PICK s \in SyncRun : runs[s].status = "success" /\ \E ls \in raw[s] : \E l \in ls :
                  l.inv = e[2] /\ l.full /\ book[e].items = {l.ver}
        BY <2>10, <3>1 DEF ArchiveInv, ItemsOfOneAnswer
      <4>2. s # r
        BY <2>1, <4>1
      <4>3. runs'[s] = runs[s] /\ raw'[s] = raw[s]
        BY <2>1, <4>2
      <4> QED BY <3>1, <4>1, <4>3
    <3>2. CASE \E l \in lines : l.inv = e[2] /\ l.full /\ book'[e].items = {l.ver}
      BY <2>1, <2>3, <3>2
    <3> QED BY <2>6, <3>1, <3>2
  <2>11. ItemsOfOneAnswer'
    BY <2>10 DEF ItemsOfOneAnswer
  <2> QED BY <2>7, <2>9, <2>11 DEF ArchiveInv
<1> QED BY <1>1, <1>2, NextRuns

-----------------------------------------------------------------------------
(***************************************************************************)
(* Versions.                                                               *)
(***************************************************************************)

\* Nothing is newer than the bureau has it, and of what a sync is about to
\* write, only what it did not know of can be newer.
KnownInv(p) ==
  pc[p] \in Writing =>
    /\ job[p].known \subseteq Successful
    /\ \A l \in job[p].lines :
         /\ l.ver <= bureau[l.inv]
         /\ book[<<Dir(p), l.inv>>].run \in job[p].known => book[<<Dir(p), l.inv>>].ver <= l.ver

VersionInv ==
  /\ \A e \in Kind \X Invoice : book[e].ver <= bureau[e[2]]
  /\ \A p \in Syncer : KnownInv(p)

LEMMA VersionNat ==
  ASSUME TypeInv
  PROVE  /\ \A e \in Kind \X Invoice : book[e].ver \in Nat /\ book[e].run \in SyncRun \cup {0}
         /\ \A i \in Invoice : bureau[i] \in Nat
         /\ \A p \in Syncer : \A l \in job[p].lines : l.inv \in Invoice /\ l.ver \in Nat
<1>1. \A e \in Kind \X Invoice : book[e].ver \in 0 .. MaxVersion /\ book[e].run \in SyncRun \cup {0}
  BY TypeNow
<1>2. \A i \in Invoice : bureau[i] \in 1 .. MaxVersion
  BY DEF TypeInv, TypeOK, Version
<1>3. ASSUME NEW p \in Syncer, NEW l \in job[p].lines
      PROVE  l.inv \in Invoice /\ l.ver \in 1 .. MaxVersion
  <2>1. l \in Line
    BY Before, JobIs
  <2> QED BY <2>1 DEF Line, Version
<1> QED BY <1>1, <1>2, <1>3

\* A syncer that keeps its answer while nothing is stored.
LEMMA KnownKept ==
  ASSUME TypeInv, RunInv, RunInv', VersionInv, Quiet, NEW p \in Syncer,
         \A i \in Invoice : bureau[i] <= bureau'[i], \A i \in Invoice : bureau'[i] \in Nat,
         pc'[p] \in Writing => /\ pc[p] \in Writing /\ job'[p].plan = job[p].plan
                               /\ job'[p].lines = job[p].lines /\ job'[p].known = job[p].known
  PROVE  KnownInv(p)'
<1> SUFFICES ASSUME pc'[p] \in Writing
             PROVE  /\ job'[p].known \subseteq Successful'
                    /\ \A l \in job'[p].lines :
                         /\ l.ver <= bureau'[l.inv]
                         /\ book'[<<Dir(p)', l.inv>>].run \in job'[p].known
                              => book'[<<Dir(p)', l.inv>>].ver <= l.ver
  <2>1. Writing' = Writing
    BY DEF Writing
  <2> QED BY <2>1 DEF KnownInv
<1>1. pc[p] \in Writing /\ Dir(p)' = Dir(p) /\ job'[p].lines = job[p].lines /\ job'[p].known = job[p].known
  BY DEF Dir
<1>2. /\ job[p].known \subseteq Successful
      /\ \A l \in job[p].lines :
           /\ l.ver <= bureau[l.inv]
           /\ book[<<Dir(p), l.inv>>].run \in job[p].known => book[<<Dir(p), l.inv>>].ver <= l.ver
  BY <1>1 DEF VersionInv, KnownInv
<1>3. Successful' = Successful
  BY DEF Quiet, Successful
<1>4. \A l \in job[p].lines : l.ver <= bureau'[l.inv]
  <2> SUFFICES ASSUME NEW l \in job[p].lines PROVE l.ver <= bureau'[l.inv]
    OBVIOUS
  <2>1. l.inv \in Invoice /\ l.ver \in Nat
    BY VersionNat
  <2>2. bureau[l.inv] \in Nat /\ bureau'[l.inv] \in Nat
    BY <2>1, VersionNat
  <2>3. l.ver <= bureau[l.inv] /\ bureau[l.inv] <= bureau'[l.inv]
    BY <1>2, <2>1
  <2> QED BY <2>1, <2>2, <2>3
<1> QED BY <1>1, <1>2, <1>3, <1>4 DEF Quiet

LEMMA NextVersions ==
  ASSUME TypeInv, RunInv, VersionInv, [Next]_vars
  PROVE  VersionInv'
<1>1. RunInv' /\ TypeInv'
  BY NextRuns, NextTyped
<1>2. \A i \in Invoice : bureau'[i] \in Nat
  BY <1>1 DEF TypeInv, TypeOK, Version
<1>3. \A i \in Invoice : bureau[i] <= bureau'[i]
  <2>1. CASE \E i \in Invoice : Amend(i)
    BY <2>1, AmendEffect
  <2>2. CASE bureau' = bureau
    BY <2>2, VersionNat
  <2>3. (\E i \in Invoice : Amend(i)) \/ bureau' = bureau
    BY Steps, StartsEffect, OpenEffect, ReceiveEffect, RefuseEffect, MarkFailedEffect, LockEffect,
       UpsertEffect, CommitEffect DEF vars, Opened, Failing, Committed
  <2> QED BY <2>1, <2>2, <2>3
<1>4. CASE Quiet
  <2>1. \A e \in Kind \X Invoice : book'[e].ver <= bureau'[e[2]]
    <3>1. \A e \in Kind \X Invoice : e[2] \in Invoice /\ book[e].ver \in Nat /\ bureau[e[2]] \in Nat
      BY VersionNat
    <3> QED BY <1>2, <1>3, <1>4, <3>1 DEF Quiet, VersionInv
  <2>2. ASSUME NEW p \in Syncer, Receive(p)
        PROVE  KnownInv(p)'
    <3>1. Answered(p) /\ SameWork(p) /\ UNCHANGED <<bureau, tables>> /\ pc[p] = "calling"
      BY <2>2, ReceiveEffect
    <3>2. Dir(p)' = Dir(p) /\ Dir(p) \in Kind /\ Successful' = Successful
      BY <3>1, PairOf DEF SameWork, Dir, Successful, tables
    <3>3. \A l \in job'[p].lines : l.ver = bureau[l.inv] /\ l.inv \in Invoice /\ bureau[l.inv] \in Nat
      BY <1>1, <3>1, VersionNat, Before, JobIs DEF Answered, TypeInv, TypeOK, Line, Job
    <3>4. \A l \in job'[p].lines : book'[<<Dir(p), l.inv>>].ver <= l.ver /\ l.ver <= bureau'[l.inv]
      BY <3>1, <3>2, <3>3 DEF VersionInv, tables
    <3> QED BY <3>1, <3>2, <3>4 DEF KnownInv, Answered
  <2>3. ASSUME NEW q \in Syncer, ~Receive(q)
        PROVE  KnownInv(q)'
    <3>1. pc'[q] \in Writing => /\ pc[q] \in Writing /\ job'[q].plan = job[q].plan
                                /\ job'[q].lines = job[q].lines /\ job'[q].known = job[q].known
      <4>1. CASE pc'[q] = pc[q] /\ job'[q] = job[q]
        BY <4>1
      <4>2. CASE Lock(q) \/ Upsert(q)
        BY <4>2, LockEffect, UpsertEffect DEF Locked, SameWork, SameAnswer, Writing
      <4>3. CASE Starts(q) \/ Open(q) \/ Refuse(q) \/ MarkFailed(q) \/ Commit(q) \/ Abort(q)
        <5>1. pc'[q] \notin Writing
          BY <4>3, StartsEffect, OpenEffect, RefuseEffect, MarkFailedEffect, CommitEffect, AbortEffect
             DEF Started, Opened, Failing, Committed, Continued, Ended, Writing
        <5> QED BY <5>1
      <4>4. UNCHANGED vars \/ (\E i \in Invoice : Amend(i)) => pc'[q] = pc[q] /\ job'[q] = job[q]
        BY DEF vars, Amend
      <4>5. ASSUME NEW p \in Syncer, p # q,
                   \/ Starts(p) \/ Open(p) \/ Receive(p) \/ Refuse(p) \/ MarkFailed(p)
                   \/ Lock(p) \/ Upsert(p) \/ Commit(p) \/ Abort(p)
            PROVE  pc'[q] = pc[q] /\ job'[q] = job[q]
        <5>1. OnlyMoves(p)
          BY <4>5, StartsEffect, OpenEffect, ReceiveEffect, RefuseEffect, MarkFailedEffect, LockEffect,
             UpsertEffect, CommitEffect, AbortEffect
        <5> QED BY <4>5, <5>1 DEF OnlyMoves
      <4> QED BY <2>3, <4>1, <4>2, <4>3, <4>4, <4>5, Steps
    <3> QED BY <1>1, <1>2, <1>3, <1>4, <3>1, KnownKept
  <2>4. \A q \in Syncer : KnownInv(q)'
    BY <2>2, <2>3
  <2> QED BY <2>1, <2>4 DEF VersionInv
<1>5. ASSUME NEW p \in Syncer, Commit(p)
      PROVE  VersionInv'
  <2>1. OnlyMoves(p) /\ pc[p] = "upserting" /\ Committed(p)
    BY <1>5, CommitEffect
  <2>2. bureau' = bureau /\ pc'[p] \notin Writing
    BY <2>1 DEF Committed, Continued, Ended, Writing
  <2>3. \A e \in Kind \X Invoice :
          \/ book'[e] = book[e]
          \/ \E l \in job[p].lines : l.inv = e[2] /\ book'[e].ver = l.ver /\ book'[e].run = job[p].run
    BY <2>1, StoredIs
  <2>4. \A l \in job[p].lines : l.ver <= bureau[l.inv]
    BY <2>1 DEF VersionInv, KnownInv, Writing
  <2>5. \A e \in Kind \X Invoice : book'[e].ver <= bureau'[e[2]]
    BY <2>2, <2>3, <2>4 DEF VersionInv
  <2>6. /\ runs[job[p].run].status = "pending"
        /\ \A r \in SyncRun : runs[r].status = "success" => runs'[r].status = "success"
    BY <1>5, CommitRows
  <2>7. ASSUME NEW q \in Syncer, pc'[q] \in Writing
        PROVE  /\ job'[q].known \subseteq Successful'
               /\ \A l \in job'[q].lines :
                    /\ l.ver <= bureau'[l.inv]
                    /\ book'[<<Dir(q)', l.inv>>].run \in job'[q].known
                         => book'[<<Dir(q)', l.inv>>].ver <= l.ver
    <3>1. pc'[q] = pc[q] /\ job'[q] = job[q] /\ Dir(q)' = Dir(q)
      BY <2>1, <2>2, <2>7 DEF OnlyMoves, Dir
    <3>2. /\ job[q].known \subseteq Successful
          /\ \A l \in job[q].lines :
               /\ l.ver <= bureau[l.inv]
               /\ book[<<Dir(q), l.inv>>].run \in job[q].known => book[<<Dir(q), l.inv>>].ver <= l.ver
      BY <2>7, <3>1 DEF VersionInv, KnownInv
    <3>3. job[q].known \subseteq Successful'
      BY <2>6, <3>2 DEF Successful
    <3>4. job[p].run \notin job[q].known
      BY <2>6, <3>2 DEF Successful
    <3>5. ASSUME NEW l \in job[q].lines, book'[<<Dir(q), l.inv>>].run \in job[q].known
          PROVE  book'[<<Dir(q), l.inv>>].ver <= l.ver
      <4>1. <<Dir(q), l.inv>> \in Kind \X Invoice
        <5>1. Dir(q) \in Kind
          BY <2>7, <3>1, PairOf DEF Writing
        <5> QED BY <5>1, VersionNat
      <4>2. book'[<<Dir(q), l.inv>>] = book[<<Dir(q), l.inv>>]
        BY <2>3, <3>4, <3>5, <4>1
      <4> QED BY <3>2, <3>5, <4>2
    <3> QED BY <2>2, <3>1, <3>2, <3>3, <3>5
  <2>8. Writing' = Writing
    BY DEF Writing
  <2>9. \A q \in Syncer : KnownInv(q)'
    BY <2>7, <2>8 DEF KnownInv
  <2> QED BY <2>5, <2>9 DEF VersionInv
<1> QED BY <1>4, <1>5, NextRuns

\* Only a commit writes over a version, and only an overlapping one goes back.
LEMMA TakenBack ==
  ASSUME TypeInv, RunInv, VersionInv, [Next]_vars,
         NEW e \in Kind \X Invoice, book'[e].ver < book[e].ver
  PROVE  \E p \in Syncer : /\ pc[p] = "upserting" /\ pc'[p] # "upserting"
                           /\ book'[e].run = job[p].run /\ book[e].run \notin job[p].known
<1>1. book[e].ver \in Nat
  BY VersionNat
<1>2. PICK p \in Syncer : Commit(p)
  BY <1>1, NextRuns DEF Quiet
<1>3. pc[p] = "upserting" /\ Committed(p)
  BY <1>2, CommitEffect
<1>4. pc'[p] # "upserting" /\ book'[e] # book[e]
  BY <1>1, <1>3 DEF Committed, Continued, Ended
<1>5. PICK l \in job[p].lines : e[1] = Dir(p) /\ l.inv = e[2] /\ book'[e].ver = l.ver /\ book'[e].run = job[p].run
  BY <1>3, <1>4, StoredIs
<1>6. e = <<Dir(p), l.inv>>
  BY <1>5
<1>7. book[e].run \in job[p].known => book[e].ver <= l.ver
  BY <1>3, <1>6 DEF VersionInv, KnownInv, Writing
<1>8. l.ver \in Nat
  BY VersionNat
<1> QED BY <1>1, <1>3, <1>4, <1>5, <1>7, <1>8

-----------------------------------------------------------------------------
(***************************************************************************)
(* The nightly list.                                                       *)
(***************************************************************************)

NightlyInv ==
  \A r \in SyncRun : runs[r].status = "success" =>
    runs[r].tax \in Company /\ companies[runs[r].tax] = "self"

LEMMA NextNightly ==
  ASSUME TypeInv, LockInv, RunInv, NightlyInv, [Next]_vars
  PROVE  NightlyInv'
<1>1. CASE Quiet
  BY <1>1 DEF Quiet, NightlyInv
<1>2. ASSUME NEW p \in Syncer, Commit(p)
      PROVE  NightlyInv'
  <2>1. /\ job[p].run \in SyncRun /\ runs'[job[p].run].tax = Tax(p)
        /\ \A r \in SyncRun : r # job[p].run => runs'[r] = runs[r]
    BY <1>2, CommitRows
  <2>2. pc[p] = "upserting" /\ Committed(p)
    BY <1>2, CommitEffect
  <2>3. Tax(p) \in Company /\ holder[Tax(p)] = p
    BY <2>2, PairOf DEF LockInv, Inside
  <2>4. companies'[Tax(p)] = "self"
    BY <2>2, <2>3 DEF Committed, Note
  <2>5. \A c \in Company : companies[c] = "self" => companies'[c] = "self"
    BY <2>2 DEF Committed, Note
  <2>6. ASSUME NEW r \in SyncRun, runs'[r].status = "success"
        PROVE  runs'[r].tax \in Company /\ companies'[runs'[r].tax] = "self"
    <3>1. CASE r = job[p].run
      BY <2>1, <2>3, <2>4, <3>1
    <3>2. CASE r # job[p].run
      BY <2>1, <2>5, <2>6, <3>2 DEF NightlyInv
    <3> QED BY <3>1, <3>2
  <2> QED BY <2>6 DEF NightlyInv
<1> QED BY <1>1, <1>2, NextRuns

-----------------------------------------------------------------------------
(***************************************************************************)
(* The exit code.                                                          *)
(***************************************************************************)

\* The company and direction of a row.
Label(w) == <<w.tax, w.kind>>

\* The sync runs a process is done with.
Past(p) == job[p].mine \ {job[p].run}

\* What a process still has to do and what it is done with is what it was
\* asked to do, and it remembers which of its runs failed.
PastInv(p) ==
  pc[p] # "idle" =>
    /\ exit[p].code = "none"
    /\ job[p].failed \subseteq Past(p)
    /\ \A r \in Past(p) : runs[r].status = IF r \in job[p].failed THEN "failed" ELSE "success"
    /\ exit[p].asked = {Label(runs[r]) : r \in Past(p)} \cup {job[p].plan[n] : n \in DOMAIN job[p].plan}

\* What the exit code of a process says stays true.
ExitInv(p) ==
  exit[p].code \in {"0", "1"} =>
    /\ \A r \in exit[p].mine : runs[r].status \in Settled
    /\ exit[p].asked = {Label(runs[r]) : r \in exit[p].mine}
    /\ exit[p].code = "0" => \A r \in exit[p].mine : runs[r].status = "success"
    /\ exit[p].code = "1" => \E r \in exit[p].mine : runs[r].status = "failed"

CodeInv == \A p \in Syncer : PastInv(p) /\ ExitInv(p)

LEMMA CodeIsHonest == TypeInv /\ CodeInv => ExitCodeIsHonest
<1> SUFFICES ASSUME TypeInv, CodeInv, NEW p \in Syncer
             PROVE  LET tried(s) == {<<runs[r].tax, runs[r].kind>> :
                                       r \in {q \in exit[p].mine : runs[q].status = s}}
                    IN  /\ exit[p].code = "0" => tried("success") = exit[p].asked
                        /\ exit[p].code = "1" => /\ tried("failed") # {}
                                                 /\ tried("success") \cup tried("failed") = exit[p].asked
  BY DEF ExitCodeIsHonest
<1> DEFINE tried(s) == {<<runs[r].tax, runs[r].kind>> : r \in {q \in exit[p].mine : runs[q].status = s}}
<1>1. ASSUME exit[p].code = "0" PROVE tried("success") = exit[p].asked
  <2>1. {q \in exit[p].mine : runs[q].status = "success"} = exit[p].mine
    BY <1>1 DEF CodeInv, ExitInv
  <2>2. exit[p].asked = {<<runs[r].tax, runs[r].kind>> : r \in exit[p].mine}
    BY <1>1 DEF CodeInv, ExitInv, Label
  <2> QED BY <2>1, <2>2
<1>2. ASSUME exit[p].code = "1"
      PROVE  tried("failed") # {} /\ tried("success") \cup tried("failed") = exit[p].asked
  <2>1. /\ \A r \in exit[p].mine : runs[r].status \in {"success", "failed"}
        /\ \E r \in exit[p].mine : runs[r].status = "failed"
    BY <1>2 DEF CodeInv, ExitInv, Settled
  <2>2. exit[p].asked = {<<runs[r].tax, runs[r].kind>> : r \in exit[p].mine}
    BY <1>2 DEF CodeInv, ExitInv, Label
  <2>3. tried("failed") # {}
    BY <2>1
  <2>4. \A x : x \in tried("success") \cup tried("failed") <=> \E r \in exit[p].mine : x = <<runs[r].tax, runs[r].kind>>
    BY <2>1
  <2>5. \A x : x \in exit[p].asked <=> \E r \in exit[p].mine : x = <<runs[r].tax, runs[r].kind>>
    BY <2>2
  <2> QED BY <2>3, <2>4, <2>5
<1> QED BY <1>1, <1>2

\* A process that another one's step leaves alone.
LEMMA CodeStays ==
  ASSUME TypeInv, RunInv, CodeInv, RowsStay, NEW q \in Syncer,
         pc'[q] = pc[q], job'[q] = job[q], exit'[q] = exit[q]
  PROVE  (PastInv(q) /\ ExitInv(q))'
<1>1. PastInv(q) /\ ExitInv(q)
  BY DEF CodeInv
<1>2. job[q].mine \in SUBSET SyncRun /\ exit[q].mine \in SUBSET SyncRun
  <2>1. exit[q] \in ExitType /\ job[q] \in Job
    BY Before
  <2> QED BY <2>1, JobIs DEF ExitType
<1>3. PastInv(q)'
  <2>1. CASE pc[q] = "idle"
    BY <2>1 DEF PastInv
  <2>2. CASE pc[q] # "idle"
    <3>1. \A r \in Past(q) : runs'[r] = runs[r]
      BY <1>1, <1>2, <2>2 DEF PastInv, RowsStay, Settled, Past
    <3>2. Past(q)' = Past(q)
      BY DEF Past
    <3>3. {Label(runs[r]) : r \in Past(q)}' = {Label(runs[r]) : r \in Past(q)}
      BY <3>1, <3>2 DEF Label
    <3> QED BY <1>1, <2>2, <3>1, <3>2, <3>3 DEF PastInv
  <2> QED BY <2>1, <2>2
<1>4. ExitInv(q)'
  <2>1. CASE exit[q].code \notin {"0", "1"}
    BY <2>1 DEF ExitInv
  <2>2. CASE exit[q].code \in {"0", "1"}
    <3>1. \A r \in exit[q].mine : runs'[r] = runs[r]
      BY <1>1, <1>2, <2>2 DEF ExitInv, RowsStay
    <3>2. {Label(runs[r]) : r \in exit[q].mine}' = {Label(runs[r]) : r \in exit[q].mine}
      BY <3>1 DEF Label
    <3> QED BY <1>1, <2>2, <3>1, <3>2 DEF ExitInv, Settled
  <2> QED BY <2>1, <2>2
<1> QED BY <1>3, <1>4

\* One (company, direction) more is done with.
LEMMA CodeAdvances ==
  ASSUME TypeInv, RunInv, CodeInv, RowsStay, NEW p \in Syncer, pc[p] \in Working,
         NEW f, Continued(p, f),
         runs'[job[p].run].tax = Tax(p), runs'[job[p].run].kind = Dir(p),
         \/ runs'[job[p].run].status = "success" /\ f = job[p].failed
         \/ runs'[job[p].run].status = "failed" /\ f = job[p].failed \cup {job[p].run}
  PROVE  (PastInv(p) /\ ExitInv(p))'
<1> DEFINE m == job[p].mine
           u == job[p].run
           a == job[p].plan
<1>1. /\ u \in SyncRun /\ u \in m /\ m \in SUBSET SyncRun /\ 0 \notin SyncRun
      /\ a \in Seq(Pair) /\ a # <<>> /\ pc[p] # "idle"
  BY RunOf, Before, JobIs, PairOf, ZeroIsNoRun DEF TypeInv, JobFits, Working
<1>2. /\ exit[p].code = "none" /\ job[p].failed \subseteq m \ {u}
      /\ \A r \in m \ {u} : runs[r].status = IF r \in job[p].failed THEN "failed" ELSE "success"
      /\ exit[p].asked = {Label(runs[r]) : r \in m \ {u}} \cup {a[n] : n \in DOMAIN a}
  BY <1>1 DEF CodeInv, PastInv, Past
<1>3. \A r \in m \ {u} : runs'[r] = runs[r]
  BY <1>1, <1>2 DEF RowsStay, Settled
<1>4. /\ f \subseteq m
      /\ \A r \in m : runs'[r].status = IF r \in f THEN "failed" ELSE "success"
  BY <1>1, <1>2, <1>3
<1>5. Label(runs'[u]) = Head(a) /\ {a[n] : n \in DOMAIN a} = {Head(a)} \cup {Tail(a)[n] : n \in DOMAIN Tail(a)}
  BY <1>1, PlanHead DEF Label, Tax, Dir
<1>6. exit[p].asked = {Label(runs'[r]) : r \in m} \cup {Tail(a)[n] : n \in DOMAIN Tail(a)}
  <2>1. {Label(runs[r]) : r \in m \ {u}} = {Label(runs'[r]) : r \in m \ {u}}
    BY <1>3
  <2>2. {Label(runs'[r]) : r \in m} = {Label(runs'[r]) : r \in m \ {u}} \cup {Label(runs'[u])}
    BY <1>1
  <2> DEFINE L == {Label(runs'[r]) : r \in m \ {u}}
             H == Head(a)
             R == {Tail(a)[n] : n \in DOMAIN Tail(a)}
  <2>3. exit[p].asked = L \cup ({H} \cup R) /\ {Label(runs'[r]) : r \in m} = L \cup {H}
    BY <1>2, <1>5, <2>1, <2>2
  <2> HIDE DEF L, H, R
  <2>4. exit[p].asked = (L \cup {H}) \cup R
    BY <2>3
  <2> QED BY <2>3, <2>4 DEF R
<1>7. CASE /\ pc'[p] = "opening" /\ exit' = exit
           /\ job'[p].plan = Tail(a) /\ job'[p].plan # <<>>
           /\ job'[p].mine = m /\ job'[p].failed = f /\ job'[p].run = 0
  <2>1. Past(p)' = m
    BY <1>1, <1>7 DEF Past
  <2>2. {Label(runs[r]) : r \in Past(p)}' = {Label(runs'[r]) : r \in m}
    BY <2>1 DEF Label
  <2> HIDE DEF m, u, a
  <2>3. PastInv(p)'
    BY <1>2, <1>4, <1>6, <1>7, <2>1, <2>2 DEF PastInv
  <2>4. ExitInv(p)'
    BY <1>2, <1>7 DEF ExitInv
  <2> QED BY <2>3, <2>4
<1>8. CASE Tail(a) = <<>> /\ Ended(p, IF f = {} THEN "0" ELSE "1")
  <2>1. /\ pc'[p] = "idle" /\ exit'[p].code = (IF f = {} THEN "0" ELSE "1")
        /\ exit'[p].mine = m /\ exit'[p].asked = exit[p].asked
    BY <1>8 DEF Ended
  <2>2. PastInv(p)'
    BY <2>1 DEF PastInv
  <2>3. {Tail(a)[n] : n \in DOMAIN Tail(a)} = {}
    <3>1. DOMAIN Tail(a) = {}
      BY <1>8
    <3> QED BY <3>1
  <2>4. exit'[p].asked = {Label(runs'[r]) : r \in m}
    BY <1>6, <2>1, <2>3
  <2>5. {Label(runs[r]) : r \in exit[p].mine}' = {Label(runs'[r]) : r \in m}
    BY <2>1 DEF Label
  <2> HIDE DEF m
  <2>6. ExitInv(p)'
    <3>1. \A r \in m : runs'[r].status \in Settled
      BY <1>4 DEF Settled
    <3>2. Settled' = Settled
      BY DEF Settled
    <3>3. CASE f = {}
      BY <1>4, <2>1, <2>4, <2>5, <3>1, <3>2, <3>3 DEF ExitInv
    <3>4. CASE f # {}
      <4>1. \E r \in m : runs'[r].status = "failed"
        BY <1>4, <3>4
      <4> QED BY <2>1, <2>4, <2>5, <3>1, <3>2, <3>4, <4>1 DEF ExitInv
    <3> QED BY <3>3, <3>4
  <2> QED BY <2>2, <2>6
<1> QED BY <1>7, <1>8 DEF Continued

LEMMA NextCode ==
  ASSUME TypeInv, RunInv, CodeInv, [Next]_vars
  PROVE  CodeInv'
<1>1. RowsStay
  BY NextRuns
<1>2. CASE UNCHANGED vars \/ \E i \in Invoice : Amend(i)
  <2>1. UNCHANGED <<pc, job, exit>>
    BY <1>2 DEF vars, Amend
  <2> QED BY <1>1, <2>1, CodeStays DEF CodeInv
<1>3. ASSUME NEW p \in Syncer, OnlyMoves(p), (PastInv(p) /\ ExitInv(p))'
      PROVE  CodeInv'
  <2>1. \A q \in Syncer : q # p => (PastInv(q) /\ ExitInv(q))'
    BY <1>1, <1>3, CodeStays DEF OnlyMoves
  <2> QED BY <1>3, <2>1 DEF CodeInv
<1>4. ASSUME NEW p \in Syncer, Starts(p)
      PROVE  CodeInv'
  <2>1. OnlyMoves(p) /\ Started(p)
    BY <1>4, StartsEffect
  <2>2. Past(p)' = {} /\ {Label(runs[r]) : r \in Past(p)}' = {}
    BY <2>1 DEF Started, Past
  <2>3. PastInv(p)' /\ ExitInv(p)'
    BY <2>1, <2>2 DEF Started, PastInv, ExitInv
  <2> QED BY <1>3, <2>1, <2>3
<1>5. ASSUME NEW p \in Syncer, Open(p)
      PROVE  CodeInv'
  <2>1. OnlyMoves(p) /\ pc[p] = "opening"
    BY <1>5, OpenEffect
  <2>2. PICK r \in SyncRun : Opened(p, r)
    BY <1>5, OpenEffect
  <2>3. job[p].run = 0 /\ job[p].mine \in SUBSET SyncRun /\ 0 \notin SyncRun
    BY <2>1, ZeroIsNoRun, Before, JobIs DEF TypeInv, JobFits, Working
  <2>4. Past(p) = job[p].mine /\ PastInv(p)
    BY <2>3 DEF Past, CodeInv
  <2>5. \A s \in job[p].mine : runs[s].status \in Settled /\ s \in SyncRun
    BY <2>1, <2>3, <2>4 DEF PastInv, Settled
  <2>6. r \notin job[p].mine
    BY <2>2, <2>5 DEF Opened, Settled
  <2>7. Past(p)' = job[p].mine
    BY <2>2, <2>6 DEF Opened, Past
  <2>8. \A s \in job[p].mine : runs'[s] = runs[s]
    BY <1>1, <2>5 DEF RowsStay
  <2>9. {Label(runs[s]) : s \in Past(p)}' = {Label(runs[s]) : s \in job[p].mine}
    BY <2>7, <2>8 DEF Label
  <2>10. /\ pc'[p] = "calling" /\ job'[p].plan = job[p].plan /\ job'[p].failed = job[p].failed
         /\ exit' = exit
    BY <2>2 DEF Opened
  <2>11. PastInv(p)'
    BY <2>1, <2>4, <2>7, <2>8, <2>9, <2>10 DEF PastInv
  <2>12. ExitInv(p)'
    BY <2>1, <2>4, <2>10 DEF PastInv, ExitInv
  <2> QED BY <1>3, <2>1, <2>11, <2>12
<1>6. ASSUME NEW p \in Syncer, Receive(p) \/ Refuse(p) \/ Lock(p) \/ Upsert(p)
      PROVE  CodeInv'
  <2>1. OnlyMoves(p) /\ SameWork(p) /\ UNCHANGED runs /\ pc[p] # "idle" /\ pc'[p] # "idle"
    BY <1>6, ReceiveEffect, RefuseEffect, LockEffect, UpsertEffect DEF Locked, Answered, tables
  <2>2. Past(p)' = Past(p) /\ {Label(runs[s]) : s \in Past(p)}' = {Label(runs[s]) : s \in Past(p)}
    BY <2>1 DEF SameWork, Past, Label
  <2>3. PastInv(p)'
    BY <2>1, <2>2 DEF SameWork, PastInv, CodeInv
  <2>4. ExitInv(p)'
    BY <2>1 DEF SameWork, CodeInv, PastInv, ExitInv
  <2> QED BY <1>3, <2>1, <2>3, <2>4
<1>7. ASSUME NEW p \in Syncer, MarkFailed(p)
      PROVE  CodeInv'
  <2>1. OnlyMoves(p) /\ pc[p] = "refused" /\ Failing(p)
    BY <1>7, MarkFailedEffect
  <2>2. pc[p] \in Working /\ runs[job[p].run].tax = Tax(p) /\ runs[job[p].run].kind = Dir(p)
        /\ runs[job[p].run] \in SyncRow
    BY <2>1, Before, RunOf DEF Working, RunInv
  <2>3. /\ runs'[job[p].run].status = "failed"
        /\ runs'[job[p].run].tax = Tax(p) /\ runs'[job[p].run].kind = Dir(p)
    BY <2>1, <2>2 DEF Failing, RowMoves, FailedRow, SyncRow
  <2>4. Continued(p, job[p].failed \cup {job[p].run})
    BY <2>1 DEF Failing
  <2>5. (PastInv(p) /\ ExitInv(p))'
    BY <1>1, <2>2, <2>3, <2>4, CodeAdvances
  <2> QED BY <1>3, <2>1, <2>5
<1>8. ASSUME NEW p \in Syncer, Commit(p)
      PROVE  CodeInv'
  <2>1. OnlyMoves(p) /\ pc[p] = "upserting" /\ Continued(p, job[p].failed)
    BY <1>8, CommitEffect DEF Committed
  <2>2. /\ runs'[job[p].run].status = "success" /\ pc[p] \in Working
        /\ runs'[job[p].run].tax = Tax(p) /\ runs'[job[p].run].kind = Dir(p)
    BY <1>8, <2>1, CommitRows DEF Working
  <2>3. (PastInv(p) /\ ExitInv(p))'
    BY <1>1, <2>1, <2>2, CodeAdvances
  <2> QED BY <1>3, <2>1, <2>3
<1>9. ASSUME NEW p \in Syncer, Abort(p)
      PROVE  CodeInv'
  <2>1. OnlyMoves(p) /\ Ended(p, "crash")
    BY <1>9, AbortEffect
  <2>2. PastInv(p)' /\ ExitInv(p)'
    BY <2>1 DEF Ended, PastInv, ExitInv
  <2> QED BY <1>3, <2>1, <2>2
<1> QED BY <1>2, <1>4, <1>5, <1>6, <1>7, <1>8, <1>9, Steps

-----------------------------------------------------------------------------
(***************************************************************************)
(* The refinement of SyncLedger.                                           *)
(***************************************************************************)

Stages   == [r \in SyncRun |-> Stage(r)]
Subjects == [r \in SyncRun |-> <<runs[r].tax, runs[r].kind>>]

LEMMA StageIs ==
  ASSUME NEW r
  PROVE  /\ runs[r].status = "absent" => Stage(r) = "none"
         /\ runs[r].status = "pending" /\ Owned(r) => Stage(r) = "open"
         /\ runs[r].status = "pending" /\ ~Owned(r) => Stage(r) = "lost"
         /\ runs[r].status \in Settled => Stage(r) = runs[r].status
<1>1. CASE runs[r].status = "absent"
  BY <1>1 DEF Stage, Settled
<1>2. CASE runs[r].status = "pending"
  BY <1>2 DEF Stage, Settled
<1>3. CASE runs[r].status \in Settled
  BY <1>3 DEF Stage, Settled
<1> QED BY <1>1, <1>2, <1>3

\* The stage of a run whose row and owner stay.
LEMMA StageStays ==
  ASSUME NEW r, runs'[r].status = runs[r].status, Owned(r)' <=> Owned(r)
  PROVE  Stage(r)' = Stage(r)
BY DEF Stage

\* The steps of the ledger, in terms of stages and subjects.
LEMMA LedgerOpen ==
  ASSUME NEW r \in SyncRun, Stages[r] = "none", Stages' = [Stages EXCEPT ![r] = "open"],
         NEW s \in Company \X Kind, Subjects' = [Subjects EXCEPT ![r] = s], UNCHANGED <<raw, book>>
  PROVE  Ledger!Next
<1>1. Ledger!Open(r)
  BY DEF Ledger!Open, Stages, Subjects
<1> QED BY <1>1 DEF Ledger!Next

LEMMA LedgerEnd ==
  ASSUME NEW r \in SyncRun, Stages[r] = "open", NEW s \in {"failed", "lost"},
         Stages' = [Stages EXCEPT ![r] = s], UNCHANGED <<Subjects, raw, book>>
  PROVE  Ledger!Next
<1>1. CASE s = "failed"
  <2>1. Stages' = [Stages EXCEPT ![r] = "failed"]
    BY <1>1
  <2>2. Ledger!Fail(r)
    BY <2>1 DEF Ledger!Fail, Stages, Subjects
  <2> QED BY <2>2 DEF Ledger!Next
<1>2. CASE s = "lost"
  <2>1. Stages' = [Stages EXCEPT ![r] = "lost"]
    BY <1>2
  <2>2. Ledger!Lose(r)
    BY <2>1 DEF Ledger!Lose, Stages, Subjects
  <2> QED BY <2>2 DEF Ledger!Next
<1> QED BY <1>1, <1>2

LEMMA LedgerApply ==
  ASSUME NEW r \in SyncRun, Stages[r] = "open", Stages' = [Stages EXCEPT ![r] = "success"],
         UNCHANGED Subjects, NEW k, Subjects[r][2] = k,
         NEW lines \in SUBSET Line, \A l, m \in lines : l.inv = m.inv => l = m,
         raw' = [raw EXCEPT ![r] = {lines}], book' = Stored(r, k, lines)
  PROVE  Ledger!Next
<1>1. Ledger!Answer(lines)
  BY DEF Ledger!Answer
<1>2. lines \in SUBSET Ledger!Line
  BY DEF Ledger!Line, Line
<1>3. book' = [e \in Kind \X Invoice |->
                 IF e[1] = Subjects[r][2] /\ \E l \in lines : l.inv = e[2]
                 THEN Ledger!Entry(r, CHOOSE l \in lines : l.inv = e[2], book[e])
                 ELSE book[e]]
  BY DEF Stored, Entry, Ledger!Entry
<1>4. Ledger!Apply(r)
  BY <1>1, <1>2, <1>3 DEF Ledger!Apply, Stages, Subjects
<1> QED BY <1>4 DEF Ledger!Next

\* One run moves to stage s, all others stay.
LEMMA StageMoves ==
  ASSUME NEW r \in SyncRun, NEW s, Stage(r)' = s,
         \A q \in SyncRun : q # r => Stage(q)' = Stage(q)
  PROVE  Stages' = [Stages EXCEPT ![r] = s]
BY DEF Stages

LEMMA SubjectsStay ==
  ASSUME \A r \in SyncRun : runs'[r].tax = runs[r].tax /\ runs'[r].kind = runs[r].kind
  PROVE  Subjects' = Subjects
BY DEF Subjects

\* Who owns which run, if only p moves.
LEMMA OwnersStay ==
  ASSUME NEW p \in Syncer, OnlyMoves(p), NEW r, job[p].run # r, job'[p].run # r
  PROVE  Owned(r)' <=> Owned(r)
BY DEF OnlyMoves, Owned

\* Nobody else owns the run of p.
LEMMA OwnedOnce ==
  ASSUME TypeInv, RunInv, NEW p \in Syncer, pc[p] \in Working, NEW q \in Syncer, q # p
  PROVE  job[q].run # job[p].run
<1>1. job[p].run \in SyncRun /\ 0 \notin SyncRun
  BY RunOf, ZeroIsNoRun
<1>2. CASE pc[q] \in Working
  BY <1>2 DEF RunInv
<1>3. CASE pc[q] \notin Working
  BY <1>1, <1>3 DEF TypeInv, JobFits
<1> QED BY <1>2, <1>3

LEMMA InitLedger == Init => Ledger!Init
<1> SUFFICES ASSUME Init PROVE Ledger!Init
  OBVIOUS
<1>1. ASSUME NEW r \in SyncRun PROVE Stage(r) = "none" /\ runs[r].tax = None /\ runs[r].kind = None
  <2>1. runs[r] = [tax |-> None, kind |-> None, status |-> "absent", count |-> 0]
    BY DEF Init
  <2> QED BY <2>1, StageIs
<1>2. [r \in SyncRun |-> Stage(r)] = [r \in SyncRun |-> "none"]
  BY <1>1
<1>3. [r \in SyncRun |-> <<runs[r].tax, runs[r].kind>>] = [r \in SyncRun |-> <<None, None>>]
  BY <1>1
<1>4. /\ raw = [r \in SyncRun |-> {}]
      /\ book = [e \in Kind \X Invoice |-> [ver |-> 0, run |-> 0, items |-> {}]]
  BY DEF Init
<1> QED BY <1>2, <1>3, <1>4 DEF Ledger!Init

LedgerStays == UNCHANGED <<Stages, Subjects, raw, book>>

LEMMA NextLedger ==
  ASSUME TypeInv, RunInv, ArchiveInv, [Next]_vars
  PROVE  Ledger!Next \/ LedgerStays
<1>1. CASE UNCHANGED vars \/ \E i \in Invoice : Amend(i)
  <2>1. UNCHANGED <<job, runs, raw, book>>
    BY <1>1 DEF vars, tables, Amend
  <2>2. \A r \in SyncRun : Stage(r)' = Stage(r)
    BY <2>1, StageStays DEF Owned
  <2> QED BY <2>1, <2>2 DEF LedgerStays, Stages, Subjects
<1>2. ASSUME NEW p \in Syncer, OnlyMoves(p), job'[p].run = job[p].run, UNCHANGED tables
      PROVE  LedgerStays
  <2>1. UNCHANGED <<runs, raw, book>>
    BY <1>2 DEF tables
  <2>2. \A r : Owned(r)' <=> Owned(r)
    BY <1>2 DEF OnlyMoves, Owned
  <2>3. \A r \in SyncRun : Stage(r)' = Stage(r)
    BY <2>1, <2>2, StageStays
  <2> QED BY <2>1, <2>3 DEF LedgerStays, Stages, Subjects
<1>3. ASSUME NEW p \in Syncer, Starts(p)
      PROVE  LedgerStays
  <2>1. OnlyMoves(p) /\ Started(p) /\ UNCHANGED tables
    BY <1>3, StartsEffect
  <2>2. job[p].run = 0 /\ job'[p].run = 0
    BY <2>1 DEF Started, TypeInv, JobFits, Working
  <2> QED BY <1>2, <2>1, <2>2
<1>4. ASSUME NEW p \in Syncer, Receive(p) \/ Refuse(p) \/ Lock(p) \/ Upsert(p)
      PROVE  LedgerStays
  <2>1. OnlyMoves(p) /\ SameWork(p) /\ UNCHANGED tables
    BY <1>4, ReceiveEffect, RefuseEffect, LockEffect, UpsertEffect
  <2>2. job'[p].run = job[p].run
    BY <2>1 DEF SameWork
  <2> QED BY <1>2, <2>1, <2>2
<1>5. ASSUME NEW p \in Syncer, Open(p)
      PROVE  Ledger!Next
  <2>1. OnlyMoves(p) /\ pc[p] = "opening"
    BY <1>5, OpenEffect
  <2>2. PICK r \in SyncRun : Opened(p, r)
    BY <1>5, OpenEffect
  <2>3. Tax(p) \in Company /\ Dir(p) \in Kind /\ runs[r] \in SyncRow
    BY <2>1, PairOf, Before
  <2>4. /\ runs[r].status = "absent" /\ runs'[r].status = "pending"
        /\ runs'[r].tax = Tax(p) /\ runs'[r].kind = Dir(p)
        /\ \A s \in SyncRun : s # r => runs'[s] = runs[s]
    <3>1. 0 \in 0 .. Cardinality(Invoice)
      BY InvoicesAreFinite, FS_CardinalityType
    <3>2. /\ OpenRow(runs[r], Tax(p), Dir(p)).status = "pending"
          /\ OpenRow(runs[r], Tax(p), Dir(p)).tax = Tax(p)
          /\ OpenRow(runs[r], Tax(p), Dir(p)).kind = Dir(p)
      BY <2>3, <3>1, RowSet
    <3> QED BY <2>2, <3>2 DEF Opened, RowMoves
  <2>5. job[p].run = 0 /\ job'[p].run = r /\ 0 \notin SyncRun
    BY <2>1, <2>2, ZeroIsNoRun DEF Opened, TypeInv, JobFits, Working
  <2>6. Stage(r)' = "open"
    <3>1. Owned(r)'
      BY <2>5 DEF Owned
    <3>2. runs'[r].status = "pending"
      BY <2>4
    <3> QED BY <3>1, <3>2 DEF Stage
  <2>7. ASSUME NEW s \in SyncRun, s # r PROVE Stage(s)' = Stage(s)
    <3>1. Owned(s)' <=> Owned(s)
      BY <2>1, <2>5, <2>7, OwnersStay
    <3> QED BY <2>4, <2>7, <3>1, StageStays
  <2>8. Stages' = [Stages EXCEPT ![r] = "open"]
    BY <2>6, <2>7, StageMoves
  <2>9. Stages[r] = "none"
    BY <2>4, StageIs DEF Stages
  <2>10. Subjects' = [Subjects EXCEPT ![r] = <<Tax(p), Dir(p)>>]
    BY <2>4 DEF Subjects
  <2>11. UNCHANGED <<raw, book>> /\ <<Tax(p), Dir(p)>> \in Company \X Kind
    BY <2>2, <2>3 DEF Opened
  <2> QED BY <2>8, <2>9, <2>10, <2>11, LedgerOpen
<1>6. ASSUME NEW p \in Syncer, NEW r \in SyncRun, r = job[p].run, OnlyMoves(p), pc[p] \in Working,
             job'[p].run = 0, \A s \in SyncRun : s # r => runs'[s] = runs[s]
      PROVE  /\ Stages[r] = "open" /\ ~Owned(r)'
             /\ \A s \in SyncRun : s # r => Stage(s)' = Stage(s)
  <2>1. 0 \notin SyncRun /\ runs[r].status = "pending"
    BY <1>6, ZeroIsNoRun DEF RunInv
  <2>2. Owned(r)
    BY <1>6 DEF Owned
  <2>3. Stages[r] = "open"
    BY <2>1, <2>2, StageIs DEF Stages
  <2>4. ~Owned(r)'
    <3>1. \A q \in Syncer : job'[q].run # r
      BY <1>6, <2>1, OwnedOnce DEF OnlyMoves
    <3> QED BY <3>1 DEF Owned
  <2>5. ASSUME NEW s \in SyncRun, s # r PROVE Stage(s)' = Stage(s)
    <3>1. Owned(s)' <=> Owned(s)
      BY <1>6, <2>1, <2>5, OwnersStay
    <3> QED BY <1>6, <2>5, <3>1, StageStays
  <2> QED BY <2>3, <2>4, <2>5
<1>7. ASSUME NEW p \in Syncer, MarkFailed(p)
      PROVE  Ledger!Next
  <2>1. OnlyMoves(p) /\ pc[p] = "refused" /\ Failing(p)
    BY <1>7, MarkFailedEffect
  <2>2. pc[p] \in Working /\ job'[p].run = 0 /\ UNCHANGED <<raw, book>>
    BY <2>1 DEF Failing, Continued, Ended, Working
  <2>3. PICK r \in SyncRun : r = job[p].run
    BY <2>2, RunOf
  <2>4. /\ runs'[r].status = "failed" /\ runs'[r].tax = runs[r].tax /\ runs'[r].kind = runs[r].kind
        /\ \A s \in SyncRun : s # r => runs'[s] = runs[s]
    <3>1. runs[r] \in SyncRow
      BY <2>3, Before
    <3> QED BY <2>1, <2>3, <3>1 DEF Failing, RowMoves, FailedRow, SyncRow
  <2>5. Stages[r] = "open" /\ \A s \in SyncRun : s # r => Stage(s)' = Stage(s)
    BY <1>6, <2>1, <2>2, <2>3, <2>4
  <2>6. Stage(r)' = "failed"
    BY <2>4 DEF Stage, Settled
  <2>7. Stages' = [Stages EXCEPT ![r] = "failed"]
    BY <2>5, <2>6, StageMoves
  <2>8. Subjects' = Subjects
    BY <2>4, SubjectsStay
  <2> QED BY <2>2, <2>5, <2>7, <2>8, LedgerEnd
<1>8. ASSUME NEW p \in Syncer, Commit(p)
      PROVE  Ledger!Next
  <2>1. OnlyMoves(p) /\ pc[p] = "upserting" /\ Committed(p)
    BY <1>8, CommitEffect
  <2>2. pc[p] \in Working /\ job'[p].run = 0
    BY <2>1 DEF Committed, Continued, Ended, Working
  <2>3. PICK r \in SyncRun : r = job[p].run
    BY <2>2, RunOf
  <2>4. PICK lines : lines = job[p].lines
    OBVIOUS
  <2>5. PICK k : k = Dir(p)
    OBVIOUS
  <2>6. /\ runs[r].status = "pending" /\ runs'[r].status = "success"
        /\ runs'[r].tax = runs[r].tax /\ runs'[r].kind = runs[r].kind /\ runs[r].kind = k
        /\ \A s \in SyncRun : s # r => runs'[s] = runs[s]
    <3>1. /\ runs[r].status = "pending" /\ runs'[r].status = "success"
          /\ runs'[r].tax = Tax(p) /\ runs'[r].kind = k
          /\ \A s \in SyncRun : s # r => runs'[s] = runs[s]
      BY <1>8, <2>3, <2>5, CommitRows
    <3>2. runs[r].tax = Tax(p) /\ runs[r].kind = k
      BY <2>2, <2>3, <2>5 DEF RunInv
    <3> QED BY <3>1, <3>2
  <2>7. Stages[r] = "open" /\ \A s \in SyncRun : s # r => Stage(s)' = Stage(s)
    BY <1>6, <2>1, <2>2, <2>3, <2>6
  <2>8. raw[r] = {} /\ raw' = [raw EXCEPT ![r] = raw[r] \cup {lines}] /\ book' = Stored(r, k, lines)
    BY <2>1, <2>3, <2>4, <2>5, <2>6 DEF Committed, ArchiveInv, SuccessIsArchived
  <2>9. lines \in SUBSET Line /\ \A l, m \in lines : l.inv = m.inv => l = m
    BY <2>1, <2>4, Before, JobIs DEF TypeInv, JobFits, AnswerFor, Writing
  <2>10. Stages' = [Stages EXCEPT ![r] = "success"]
    <3>1. Stage(r)' = "success"
      BY <2>6 DEF Stage, Settled
    <3> QED BY <2>7, <3>1, StageMoves
  <2>11. Subjects' = Subjects
    BY <2>6, SubjectsStay
  <2>12. raw' = [raw EXCEPT ![r] = {lines}]
    <3>1. raw[r] \cup {lines} = {lines}
      BY <2>8
    <3> QED BY <2>8, <3>1
  <2>13. Subjects[r][2] = k
    BY <2>6 DEF Subjects
  <2>14. Stages[r] = "open" /\ book' = Stored(r, k, lines)
    BY <2>7, <2>8
  <2>15. Ledger!Next
    BY <2>9, <2>10, <2>11, <2>12, <2>13, <2>14, LedgerApply
  <2> QED BY <2>15
<1>9. ASSUME NEW p \in Syncer, pc[p] # "idle", Abort(p)
      PROVE  Ledger!Next \/ LedgerStays
  <2>1. OnlyMoves(p) /\ job'[p].run = 0 /\ UNCHANGED tables
    BY <1>9, AbortEffect DEF Ended
  <2>2. CASE pc[p] \notin Working
    <3>1. job[p].run = 0
      BY <2>2 DEF TypeInv, JobFits
    <3> QED BY <1>2, <2>1, <3>1
  <2>3. CASE pc[p] \in Working
    <3>1. runs' = runs /\ UNCHANGED <<raw, book>>
      BY <2>1 DEF tables
    <3>2. PICK r \in SyncRun : r = job[p].run
      BY <2>3, RunOf
    <3>3. /\ Stages[r] = "open" /\ ~Owned(r)'
          /\ \A s \in SyncRun : s # r => Stage(s)' = Stage(s)
      BY <1>6, <2>1, <2>3, <3>1, <3>2
    <3>4. runs'[r].status = "pending"
      BY <2>3, <3>1, <3>2 DEF RunInv
    <3>5. Stage(r)' = "lost"
      BY <3>3, <3>4 DEF Stage, Settled
    <3>6. Stages' = [Stages EXCEPT ![r] = "lost"]
      BY <3>3, <3>5, StageMoves
    <3>7. Subjects' = Subjects
      BY <3>1, SubjectsStay
    <3> QED BY <3>1, <3>3, <3>6, <3>7, LedgerEnd
  <2> QED BY <2>2, <2>3
<1> QED BY <1>1, <1>3, <1>4, <1>5, <1>7, <1>8, <1>9, Steps

-----------------------------------------------------------------------------
(***************************************************************************)
(* The theorems.                                                           *)
(***************************************************************************)

SyncInv == TypeInv /\ LockInv /\ RunInv /\ ArchiveInv /\ VersionInv /\ NightlyInv /\ CodeInv

LEMMA InitSync == Init => SyncInv
<1> SUFFICES ASSUME Init PROVE SyncInv
  OBVIOUS
<1>1. TypeInv
  BY InitTyped
<1>2. /\ \A p \in Syncer : pc[p] = "idle" /\ exit[p].code = "none"
      /\ \A c \in Company : holder[c] = None
      /\ \A r \in SyncRun : runs[r].status = "absent" /\ raw[r] = {}
      /\ \A e \in Kind \X Invoice : book[e].ver = 0 /\ book[e].run = 0 /\ book[e].items = {}
  BY DEF Init
<1>3. LockInv
  BY <1>2, NoneIsNobody DEF LockInv, Inside
<1>4. RunInv
  BY <1>2 DEF RunInv, Working
<1>5. ArchiveInv
  BY <1>2 DEF ArchiveInv, SuccessIsArchived, StoredIsArchived, ItemsOfOneAnswer
<1>6. VersionInv
  <2>1. \A e \in Kind \X Invoice : e[2] \in Invoice
    OBVIOUS
  <2>2. \A i \in Invoice : bureau[i] \in Nat
    BY <1>1, VersionNat
  <2> QED BY <1>2, <2>1, <2>2 DEF VersionInv, KnownInv, Writing
<1>7. NightlyInv
  BY <1>2 DEF NightlyInv
<1>8. CodeInv
  BY <1>2 DEF CodeInv, PastInv, ExitInv
<1> QED BY <1>1, <1>3, <1>4, <1>5, <1>6, <1>7, <1>8 DEF SyncInv

LEMMA NextSync == SyncInv /\ [Next]_vars => SyncInv'
<1> SUFFICES ASSUME SyncInv, [Next]_vars PROVE SyncInv'
  OBVIOUS
<1>1. TypeInv /\ LockInv /\ RunInv /\ ArchiveInv /\ VersionInv /\ NightlyInv /\ CodeInv
  BY DEF SyncInv
<1>2. TypeInv'
  BY <1>1, NextTyped
<1>3. LockInv'
  BY <1>1, NextLocks
<1>4. RunInv'
  BY <1>1, NextRuns
<1>5. ArchiveInv'
  BY <1>1, NextArchive
<1>6. VersionInv'
  BY <1>1, NextVersions
<1>7. NightlyInv'
  BY <1>1, NextNightly
<1>8. CodeInv'
  BY <1>1, NextCode
<1> QED BY <1>2, <1>3, <1>4, <1>5, <1>6, <1>7, <1>8 DEF SyncInv

LEMMA SyncAlways == Spec => []SyncInv
<1> QED BY InitSync, NextSync, PTL DEF Spec

\* Every variable keeps its type, for any number of processes, companies,
\* invoices and runs; an invoice_count is never more than there are invoices.
THEOREM SyncTypeCorrect == Spec => []TypeOK
<1>1. SyncInv => TypeOK
  BY DEF SyncInv, TypeInv
<1> QED BY <1>1, SyncAlways, PTL

\* The upsert of a company's own row makes every other sync of that company
\* wait: no two of them write its invoices at once.
THEOREM SameCompanyWaits == Spec => []SameCompanyIsSerial
<1>1. SyncInv => SameCompanyIsSerial
  BY InsideLocks DEF SyncInv
<1> QED BY <1>1, SyncAlways, PTL

\* What is stored of an invoice is what the archived answer of a successful
\* run says, whatever fails, crashes or is aborted in between.
THEOREM StoredWasArchived == Spec => []StoredIsArchived
<1>1. SyncInv => StoredIsArchived
  BY DEF SyncInv, ArchiveInv
<1> QED BY <1>1, SyncAlways, PTL

\* The items of an invoice are never a mixture of two answers.
THEOREM ItemsAreUnmixed == Spec => []ItemsOfOneAnswer
<1>1. SyncInv => ItemsOfOneAnswer
  BY DEF SyncInv, ArchiveInv
<1> QED BY <1>1, SyncAlways, PTL

\* A run is successful exactly if its one answer is archived, and it counts
\* the invoices of that answer.
THEOREM SuccessWasArchived == Spec => []SuccessIsArchived
<1>1. SyncInv => SuccessIsArchived
  BY DEF SyncInv, ArchiveInv
<1> QED BY <1>1, SyncAlways, PTL

\* A company that was synchronised stays on the list of the nightly job.
THEOREM NightlyKeepsSynced == Spec => []NightlyCoversSynced
<1>1. SyncInv => NightlyCoversSynced
  BY DEF SyncInv, NightlyInv, NightlyCoversSynced
<1> QED BY <1>1, SyncAlways, PTL

\* An exit code of 0 means that everything was synchronised, 1 that everything
\* was tried and something failed.
THEOREM ExitCodesAreHonest == Spec => []ExitCodeIsHonest
<1>1. SyncInv => ExitCodeIsHonest
  BY CodeIsHonest DEF SyncInv
<1> QED BY <1>1, SyncAlways, PTL

\* A version is taken back only by a sync that overlapped with the one that
\* had stored the newer version.
THEOREM OnlyOverlapsTakeBack == Spec => OnlyOverlapTakesBack
<1>1. SyncInv /\ [Next]_vars =>
        [\A e \in Kind \X Invoice : book'[e].ver < book[e].ver =>
           \E p \in Syncer : /\ pc[p] = "upserting" /\ pc'[p] # "upserting"
                             /\ book'[e].run = job[p].run
                             /\ book[e].run \notin job[p].known]_vars
  BY TakenBack DEF SyncInv
<1> QED BY <1>1, SyncAlways, PTL DEF Spec, OnlyOverlapTakesBack

\* Every behaviour of the synchronisation is one of SyncLedger: an answer is
\* archived and stored in one step, or not at all.
THEOREM SyncImplementsLedger == Spec => ImplementsLedger
<1>1. SyncInv /\ [Next]_vars => [Ledger!Next]_Ledger!vars
  <2> SUFFICES ASSUME SyncInv, [Next]_vars PROVE Ledger!Next \/ UNCHANGED Ledger!vars
    OBVIOUS
  <2>1. Ledger!Next \/ LedgerStays
    BY NextLedger DEF SyncInv
  <2>2. LedgerStays => UNCHANGED Ledger!vars
    BY DEF LedgerStays, Stages, Subjects, Ledger!vars
  <2> QED BY <2>1, <2>2
<1> QED BY <1>1, InitLedger, SyncAlways, PTL DEF Spec, ImplementsLedger, Ledger!Spec

-----------------------------------------------------------------------------
(***************************************************************************)
(* What a transaction has locked and what it is still going to lock.       *)
(***************************************************************************)

\* The company syncer p synchronises and the parties of the invoices of its
\* answer: the companies its transaction upserts.
PartyOf(l) == {Seller[l.inv], Buyer[l.inv]}
Parties(p) == {Tax(p)} \cup UNION {PartyOf(l) : l \in job[p].lines}

\* The rows of the parties are locked, about to be, or still on the list, and
\* never two of these.
ClaimFits(p) ==
  /\ pc[p] = "locking" =>
       /\ job[p].want \notin job[p].todo
       /\ holder[job[p].want] # p
       /\ \A c \in job[p].todo : holder[c] # p
       /\ \A c \in Company : c \in Parties(p) <=> holder[c] = p \/ c = job[p].want \/ c \in job[p].todo
       /\ Tax(p) \notin job[p].todo
       /\ job[p].want = Tax(p) => \A c \in Company : holder[c] # p
  /\ pc[p] = "upserting" => \A c \in Company : c \in Parties(p) <=> holder[c] = p
  /\ pc[p] \in {"opening", "calling"} => job[p].done = {}
  /\ pc[p] \in Writing => job[p].done \subseteq job[p].lines
  /\ pc[p] = "locking" => IsFiniteSet(job[p].todo)
  /\ pc[p] \in Writing => IsFiniteSet(job[p].lines)

ClaimInv == \A p \in Syncer : ClaimFits(p)

\* A transaction that is about to commit has locked the rows of the parties of
\* its answer and no others, and a syncer never waits for a lock of its own.
LocksOfAnswer ==
  \A p \in Syncer :
    /\ pc[p] = "upserting" => \A c \in Company : c \in Parties(p) <=> holder[c] = p
    /\ pc[p] = "locking" => holder[job[p].want] # p

\* Another syncer's step.
LEMMA ClaimKept ==
  ASSUME TypeInv, NEW p \in Syncer, ClaimFits(p), pc'[p] = pc[p], job'[p] = job[p],
         \A c \in Company : holder'[c] = p <=> holder[c] = p
  PROVE  ClaimFits(p)'
<1>1. pc[p] = "locking" => job[p].want \in Company
  BY DEF TypeInv, JobFits
<1>2. job[p].todo \subseteq Company
  BY Before, JobIs
<1>3. Parties(p)' = Parties(p) /\ Tax(p)' = Tax(p)
  BY DEF Parties, Tax, PartyOf
<1> QED BY <1>1, <1>2, <1>3 DEF ClaimFits, Writing

\* What p does to its claims when it is not writing afterwards.
LEMMA ClaimDropped ==
  ASSUME NEW p \in Syncer, pc'[p] \notin Writing, pc'[p] \in {"opening", "calling"} => job'[p].done = {}
  PROVE  ClaimFits(p)'
BY DEF ClaimFits, Writing

LEMMA Rested ==
  ASSUME NEW a, NEW m, NEW f
  PROVE  RestOf(a, m, f).done = {} /\ PlanOf(a).done = {}
BY DEF RestOf, PlanOf, NoJob

LEMMA ContinueDone ==
  ASSUME TypeInv, NEW p \in Syncer, NEW f, Continue(p, f)
  PROVE  pc'[p] \in {"opening", "idle"} /\ (pc'[p] = "opening" => job'[p].done = {})
<1>1. pc \in [Syncer -> {"idle"} \cup {"opening"} \cup Working] /\ job \in [Syncer -> Job]
  BY DEF TypeInv, TypeOK, Working
<1> DEFINE n == RestOf(Tail(job[p].plan), job[p].mine, f)
<1>2. CASE pc' = [pc EXCEPT ![p] = "opening"] /\ job' = [job EXCEPT ![p] = n]
  <2>1. n.done = {}
    BY Rested
  <2> HIDE DEF n
  <2> QED BY <1>1, <1>2, <2>1
<1>3. CASE pc' = [pc EXCEPT ![p] = "idle"]
  BY <1>1, <1>3
<1> QED BY <1>2, <1>3 DEF Continue, RestOf

LEMMA StartDone ==
  ASSUME TypeInv, NEW p \in Syncer, Starts(p)
  PROVE  pc'[p] = "opening" /\ job'[p].done = {}
<1>1. \E plan : Start(p, plan)
  BY DEF Starts, StartDaily, StartManual
<1>2. PICK plan : Start(p, plan)
  BY <1>1
<1>3. pc \in [Syncer -> {"idle"} \cup {"opening"} \cup Working] /\ job \in [Syncer -> Job]
  BY DEF TypeInv, TypeOK, Working
<1>4. pc' = [pc EXCEPT ![p] = "opening"] /\ job' = [job EXCEPT ![p] = PlanOf(plan)]
  BY <1>2 DEF Start, PlanOf
<1> QED BY <1>3, <1>4, Rested

LEMMA OpenDone ==
  ASSUME TypeInv, NEW p \in Syncer, Open(p), job[p].done = {}
  PROVE  job'[p].done = {}
<1>1. PICK r \in SyncRun : job' = [job EXCEPT ![p] = WithRun(job[p], r)]
  BY DEF Open, WithRun
<1>2. WithRun(job[p], r).done = {} /\ job \in [Syncer -> Job]
  BY Before, RunSet DEF TypeInv, TypeOK
<1> QED BY <1>1, <1>2

\* The claims a fresh answer makes.
LEMMA ReceiveClaims ==
  ASSUME TypeInv, LockInv, ClaimInv, NEW p \in Syncer, Receive(p)
  PROVE  ClaimFits(p)'
<1>1. /\ pc[p] = "calling" /\ UNCHANGED holder
      /\ \A c \in Company : holder[c] # p
      /\ job[p].done = {} /\ Tax(p) \in Company /\ job[p] \in Job
  BY PairOf, Before DEF Receive, LockInv, Writing, ClaimInv, ClaimFits
<1>2. PICK shown \in SUBSET {i \in Invoice : Party(Dir(p), i) = Tax(p)} : \E listed \in SUBSET shown :
       job' = [job EXCEPT ![p] =
                [@ EXCEPT !.lines = {[inv |-> i, ver |-> bureau[i], full |-> i \in listed] : i \in shown},
                          !.want  = Tax(p),
                          !.todo  = (UNION {{Seller[i], Buyer[i]} : i \in shown}) \ {Tax(p)},
                          !.known = Successful]]
  BY DEF Receive
<1>3. PICK listed \in SUBSET shown :
       job' = [job EXCEPT ![p] =
                [@ EXCEPT !.lines = {[inv |-> i, ver |-> bureau[i], full |-> i \in listed] : i \in shown},
                          !.want  = Tax(p),
                          !.todo  = (UNION {{Seller[i], Buyer[i]} : i \in shown}) \ {Tax(p)},
                          !.known = Successful]]
  BY <1>2
<1> DEFINE l == {[inv |-> i, ver |-> bureau[i], full |-> i \in listed] : i \in shown}
           b == UNION {{Seller[i], Buyer[i]} : i \in shown}
           t == b \ {Tax(p)}
           n == WithAnswer(job[p], l, Tax(p), t, Successful)
<1>4. shown \in SUBSET Invoice /\ IsFiniteSet(shown)
  BY <1>2, InvoicesAreFinite, FS_Subset
<1>5. l \in SUBSET Line
  <2>1. bureau \in [Invoice -> Version]
    BY DEF TypeInv, TypeOK
  <2>2. ASSUME NEW i \in shown PROVE [inv |-> i, ver |-> bureau[i], full |-> i \in listed] \in Line
    <3>1. i \in Invoice /\ bureau[i] \in Version /\ (i \in listed) \in BOOLEAN
      BY <1>4, <2>1
    <3> QED BY <3>1 DEF Line
  <2> QED BY <2>2
<1>6. t \in SUBSET Company /\ Successful \in SUBSET SyncRun /\ b \in SUBSET Company
  BY <1>4, InvoicesHaveParties DEF Successful
<1>7. IsFiniteSet(l) /\ IsFiniteSet(t)
  <2> DEFINE S == {Seller[i] : i \in shown}
             B == {Buyer[i] : i \in shown}
             g == [i \in shown |-> [inv |-> i, ver |-> bureau[i], full |-> i \in listed]]
  <2>1. IsFiniteSet(S) /\ IsFiniteSet(B)
    <3>1. [i \in shown |-> Seller[i]] \in Surjection(shown, S)
      BY DEF Surjection
    <3>2. [i \in shown |-> Buyer[i]] \in Surjection(shown, B)
      BY DEF Surjection
    <3> QED BY <1>4, <3>1, <3>2, FS_Surjection
  <2>2. IsFiniteSet(l)
    <3>1. g \in Surjection(shown, l)
      BY DEF Surjection
    <3> HIDE DEF g, l
    <3> QED BY <1>4, <3>1, FS_Surjection
  <2>3. IsFiniteSet(S \cup B)
    <3> HIDE DEF S, B
    <3> QED BY <2>1, FS_Union
  <2>4. t \in SUBSET (S \cup B)
    OBVIOUS
  <2> HIDE DEF S, B, t
  <2> QED BY <2>2, <2>3, <2>4, FS_Subset
<1>8. b = UNION {PartyOf(x) : x \in l}
  <2>1. ASSUME NEW i \in shown PROVE \E x \in l : x.inv = i
    <3> DEFINE x == [inv |-> i, ver |-> bureau[i], full |-> i \in listed]
    <3>1. x \in l /\ x.inv = i
      OBVIOUS
    <3> HIDE DEF x, l
    <3> QED BY <3>1
  <2>2. \A x \in l : x.inv \in shown
    OBVIOUS
  <2>3. ASSUME NEW c \in b PROVE \E x \in l : c \in PartyOf(x)
    BY <2>1 DEF PartyOf
  <2>4. ASSUME NEW x \in l, NEW c \in PartyOf(x) PROVE c \in b
    BY <2>2 DEF PartyOf
  <2> QED BY <2>3, <2>4
<1>9. /\ n \in Job /\ n.lines = l /\ n.want = Tax(p) /\ n.todo = t /\ n.done = job[p].done /\ n.plan = job[p].plan
  <2> HIDE DEF l, t
  <2> QED BY <1>1, <1>5, <1>6, AnswerSet
<1>10. job' = [job EXCEPT ![p] = n] /\ pc' = [pc EXCEPT ![p] = "locking"]
  BY <1>3 DEF Receive, WithAnswer
<1> HIDE DEF n, l, b
<1>11. job'[p] = n /\ pc'[p] = "locking" /\ Tax(p)' = Tax(p)
  <2>1. pc \in [Syncer -> {"idle"} \cup {"opening"} \cup Working] /\ job \in [Syncer -> Job]
    BY DEF TypeInv, TypeOK, Working
  <2> QED BY <1>9, <1>10, <2>1 DEF Tax
<1>12. Parties(p)' = {Tax(p)} \cup b
  <2>1. Parties(p)' = {Tax(p)'} \cup UNION {PartyOf(x) : x \in job'[p].lines}
    BY DEF Parties, PartyOf
  <2> QED BY <1>8, <1>9, <1>11, <2>1
<1>13. \A c \in Company : c \in Parties(p)' <=> c = Tax(p) \/ c \in t
  BY <1>12
<1> HIDE DEF t
<1>14. /\ \A c \in Company : holder'[c] # p
       /\ job'[p].want = Tax(p) /\ job'[p].todo = t /\ job'[p].done = {} /\ job'[p].lines = l
       /\ Tax(p) \notin t
  BY <1>1, <1>9, <1>11 DEF t
<1> QED BY <1>1, <1>6, <1>7, <1>11, <1>13, <1>14 DEF ClaimFits, Writing

LEMMA PartiesStay ==
  ASSUME NEW p \in Syncer, SameWork(p), SameAnswer(p)
  PROVE  Parties(p)' = Parties(p)
BY DEF SameWork, SameAnswer, Parties, Tax, PartyOf

\* A row is locked: what p still claims shrinks by it.
LockedNext(p) ==
  \/ job[p].todo = {} /\ pc'[p] = "upserting"
  \/ /\ pc'[p] = "locking" /\ job'[p].want \in job[p].todo
     /\ job'[p].todo = job[p].todo \ {job'[p].want}

LEMMA LockNext ==
  ASSUME TypeInv, NEW p \in Syncer, Lock(p)
  PROVE  LockedNext(p) /\ job'[p].done = job[p].done
<1>0. /\ pc \in [Syncer -> {"idle"} \cup {"opening"} \cup Working] /\ job \in [Syncer -> Job]
      /\ job[p] \in Job /\ pc[p] = "locking"
  BY DEF TypeInv, TypeOK, Working, Lock
<1>1. CASE /\ job[p].todo = {} /\ job' = [job EXCEPT ![p].want = None]
           /\ pc' = [pc EXCEPT ![p] = "upserting"]
  <2>1. job' = [job EXCEPT ![p] = WithoutWant(job[p])]
    BY <1>1 DEF WithoutWant
  <2>2. WithoutWant(job[p]).done = job[p].done
    BY <1>0, LastWantSet
  <2> QED BY <1>0, <1>1, <2>1, <2>2 DEF LockedNext
<1>2. CASE /\ \E c \in job[p].todo : job' = [job EXCEPT ![p] = [@ EXCEPT !.want = c, !.todo = job[p].todo \ {c}]]
           /\ UNCHANGED pc
  <2>1. PICK c \in job[p].todo : job' = [job EXCEPT ![p] = [@ EXCEPT !.want = c, !.todo = job[p].todo \ {c}]]
    BY <1>2
  <2>2. job' = [job EXCEPT ![p] = WithWant(job[p], c)]
    BY <2>1 DEF WithWant
  <2>3. c \in Company
    BY <1>0, JobIs
  <2>4. /\ WithWant(job[p], c).want = c /\ WithWant(job[p], c).todo = job[p].todo \ {c}
        /\ WithWant(job[p], c).done = job[p].done
    BY <1>0, <2>3, WantSet
  <2>5. job'[p] = WithWant(job[p], c) /\ pc'[p] = "locking"
    BY <1>0, <1>2, <2>2
  <2> QED BY <2>4, <2>5 DEF LockedNext
<1> QED BY <1>1, <1>2 DEF Lock

LEMMA LockClaims ==
  ASSUME TypeInv, NEW p \in Syncer, ClaimFits(p), Lock(p)
  PROVE  ClaimFits(p)'
<1>1. Locked(p) /\ LockedNext(p) /\ SameWork(p) /\ SameAnswer(p) /\ job'[p].done = job[p].done
  BY LockEffect, LockNext
<1>2. Parties(p)' = Parties(p)
  BY <1>1, PartiesStay
<1>3. \A c \in Company : holder'[c] = IF c = job[p].want THEN p ELSE holder[c]
  BY <1>1, TypeNow DEF Locked
<1>4. /\ job[p].want \notin job[p].todo /\ job[p].want \in Company /\ Tax(p) \notin job[p].todo
      /\ \A c \in job[p].todo : holder[c] # p
      /\ \A c \in Company : c \in Parties(p) <=> holder[c] = p \/ c = job[p].want \/ c \in job[p].todo
      /\ job[p].done \subseteq job[p].lines /\ IsFiniteSet(job[p].todo) /\ IsFiniteSet(job[p].lines)
  BY <1>1 DEF ClaimFits, Locked, Writing
<1>5. job[p].todo \subseteq Company
  BY Before, JobIs
<1>6. job'[p].lines = job[p].lines
  BY <1>1 DEF SameAnswer
<1>7. CASE job[p].todo = {} /\ pc'[p] = "upserting"
  <2>2. \A c \in Company : c \in Parties(p)' <=> holder'[c] = p
    BY <1>2, <1>3, <1>4, <1>7
  <2> QED BY <1>1, <1>4, <1>6, <1>7, <2>2 DEF ClaimFits, Writing
<1>8. CASE /\ pc'[p] = "locking" /\ job'[p].want \in job[p].todo
           /\ job'[p].todo = job[p].todo \ {job'[p].want}
  <2>1. IsFiniteSet(job'[p].todo)
    BY <1>4, <1>8, FS_RemoveElement
  <2>2. \A c \in Company : c \in Parties(p)' <=> holder'[c] = p \/ c = job'[p].want \/ c \in job'[p].todo
    BY <1>2, <1>3, <1>4, <1>8
  <2>3. /\ job'[p].want \notin job'[p].todo /\ holder'[job'[p].want] # p
        /\ \A c \in job'[p].todo : holder'[c] # p
    BY <1>3, <1>4, <1>5, <1>8
  <2>4. Tax(p)' = Tax(p) /\ Tax(p) \notin job'[p].todo /\ job'[p].want # Tax(p)
    BY <1>1, <1>4, <1>8 DEF SameWork, Tax
  <2> QED BY <1>1, <1>4, <1>6, <1>8, <2>1, <2>2, <2>3, <2>4 DEF ClaimFits, Writing
<1> QED BY <1>1, <1>7, <1>8 DEF LockedNext

LEMMA UpsertNext ==
  ASSUME TypeInv, NEW p \in Syncer, Upsert(p)
  PROVE  /\ job'[p].want = job[p].want /\ job'[p].todo = job[p].todo
         /\ \E l \in job[p].lines \ job[p].done : job'[p].done = job[p].done \cup {l}
<1>1. PICK l \in job[p].lines \ job[p].done : job' = [job EXCEPT ![p].done = @ \cup {l}]
  BY DEF Upsert
<1> DEFINE n == WithDone(job[p], job[p].done \cup {l})
<1>2. job[p] \in Job /\ job[p].done \cup {l} \in SUBSET Line /\ job \in [Syncer -> Job]
  BY Before, JobIs DEF TypeInv, TypeOK
<1>3. n.want = job[p].want /\ n.todo = job[p].todo /\ n.done = job[p].done \cup {l}
  BY <1>2, DoneSet
<1>4. job' = [job EXCEPT ![p] = n]
  BY <1>1 DEF WithDone
<1> HIDE DEF n
<1>5. job'[p] = n
  BY <1>2, <1>4
<1> QED BY <1>3, <1>5

LEMMA UpsertClaims ==
  ASSUME TypeInv, NEW p \in Syncer, ClaimFits(p), Upsert(p)
  PROVE  ClaimFits(p)'
<1>1. /\ SameWork(p) /\ SameAnswer(p) /\ pc[p] = "upserting" /\ pc'[p] = "upserting" /\ UNCHANGED holder
  BY UpsertEffect
<1>2. Parties(p)' = Parties(p) /\ job'[p].lines = job[p].lines
  BY <1>1, PartiesStay DEF SameAnswer
<1>3. job'[p].done \subseteq job[p].lines
  BY <1>1, UpsertNext DEF ClaimFits, Writing
<1> QED BY <1>1, <1>2, <1>3 DEF ClaimFits, Writing

LEMMA NextClaims == TypeInv /\ LockInv /\ ClaimInv /\ [Next]_vars => ClaimInv'
<1> SUFFICES ASSUME TypeInv, LockInv, ClaimInv, [Next]_vars PROVE ClaimInv'
  OBVIOUS
<1>1. CASE UNCHANGED <<pc, job, holder>>
  BY <1>1, ClaimKept DEF ClaimInv
<1>2. ASSUME NEW p \in Syncer, OnlyMoves(p), ClaimFits(p)',
             \A c \in Company : \A q \in Syncer : q # p => (holder'[c] = q <=> holder[c] = q)
      PROVE  ClaimInv'
  <2>1. ASSUME NEW q \in Syncer, q # p PROVE ClaimFits(q)'
    BY <1>2, <2>1, ClaimKept DEF OnlyMoves, ClaimInv
  <2> QED BY <1>2, <2>1 DEF ClaimInv
<1>3. ASSUME NEW p \in Syncer, Starts(p) PROVE ClaimInv'
  <2>1. OnlyMoves(p) /\ UNCHANGED holder /\ pc'[p] = "opening" /\ job'[p].done = {}
    BY <1>3, StartsEffect, StartDone
  <2>2. ClaimFits(p)'
    BY <2>1, ClaimDropped DEF Writing
  <2> QED BY <1>2, <2>1, <2>2
<1>4. ASSUME NEW p \in Syncer, Open(p) PROVE ClaimInv'
  <2>1. OnlyMoves(p) /\ UNCHANGED holder /\ pc[p] = "opening" /\ pc'[p] = "calling"
    BY <1>4, OpenEffect DEF Opened
  <2>2. job'[p].done = {}
    BY <1>4, <2>1, OpenDone DEF ClaimInv, ClaimFits
  <2>3. ClaimFits(p)'
    BY <2>1, <2>2, ClaimDropped DEF Writing
  <2> QED BY <1>2, <2>1, <2>3
<1>5. ASSUME NEW p \in Syncer, Receive(p) PROVE ClaimInv'
  <2>1. OnlyMoves(p) /\ UNCHANGED holder
    BY <1>5, ReceiveEffect
  <2>2. ClaimFits(p)'
    BY <1>5, ReceiveClaims
  <2> QED BY <1>2, <2>1, <2>2
<1>6. ASSUME NEW p \in Syncer, Refuse(p) PROVE ClaimInv'
  <2>1. OnlyMoves(p) /\ UNCHANGED holder /\ pc'[p] = "refused"
    BY <1>6, RefuseEffect
  <2>2. ClaimFits(p)'
    BY <2>1, ClaimDropped DEF Writing
  <2> QED BY <1>2, <2>1, <2>2
<1>7. ASSUME NEW p \in Syncer, MarkFailed(p) PROVE ClaimInv'
  <2>1. OnlyMoves(p) /\ UNCHANGED holder
    BY <1>7, MarkFailedEffect DEF Failing
  <2>2. pc'[p] \in {"opening", "idle"} /\ (pc'[p] = "opening" => job'[p].done = {})
    BY <1>7, ContinueDone DEF MarkFailed
  <2>3. ClaimFits(p)'
    BY <2>2, ClaimDropped DEF Writing
  <2> QED BY <1>2, <2>1, <2>3
<1>8. ASSUME NEW p \in Syncer, Lock(p) PROVE ClaimInv'
  <2>1. OnlyMoves(p) /\ Locked(p)
    BY <1>8, LockEffect
  <2>2. ClaimFits(p)'
    BY <1>8, LockClaims DEF ClaimInv
  <2>3. \A c \in Company : holder'[c] = IF c = job[p].want THEN p ELSE holder[c]
    BY <2>1, TypeNow DEF Locked
  <2>4. holder[job[p].want] \notin Syncer
    BY <2>1, NoneIsNobody DEF Locked
  <2> QED BY <1>2, <2>1, <2>2, <2>3, <2>4
<1>9. ASSUME NEW p \in Syncer, Upsert(p) PROVE ClaimInv'
  <2>1. OnlyMoves(p) /\ UNCHANGED holder
    BY <1>9, UpsertEffect
  <2>2. ClaimFits(p)'
    BY <1>9, UpsertClaims DEF ClaimInv
  <2> QED BY <1>2, <2>1, <2>2
<1>10. ASSUME NEW p \in Syncer, OnlyMoves(p), Release(p), pc'[p] \in {"opening", "idle"},
              pc'[p] = "opening" => job'[p].done = {}
       PROVE  ClaimInv'
  <2>1. \A c \in Company : holder'[c] = IF holder[c] = p THEN None ELSE holder[c]
    BY <1>10, Released
  <2>2. ClaimFits(p)'
    BY <1>10, ClaimDropped DEF Writing
  <2> QED BY <1>2, <1>10, <2>1, <2>2, NoneIsNobody
<1>11. ASSUME NEW p \in Syncer, Commit(p) PROVE ClaimInv'
  <2>1. OnlyMoves(p) /\ Release(p)
    BY <1>11, CommitEffect DEF Committed
  <2>2. pc'[p] \in {"opening", "idle"} /\ (pc'[p] = "opening" => job'[p].done = {})
    BY <1>11, ContinueDone DEF Commit
  <2> QED BY <1>10, <2>1, <2>2
<1>12. ASSUME NEW p \in Syncer, Abort(p) PROVE ClaimInv'
  <2>1. OnlyMoves(p) /\ Release(p) /\ pc'[p] = "idle"
    BY <1>12, AbortEffect DEF Ended
  <2> QED BY <1>10, <2>1
<1>13. CASE UNCHANGED vars \/ \E i \in Invoice : Amend(i)
  BY <1>1, <1>13 DEF vars, Amend
<1> QED BY <1>3, <1>4, <1>5, <1>6, <1>7, <1>8, <1>9, <1>11, <1>12, <1>13, Steps

LEMMA InitClaims == Init => ClaimInv
BY DEF Init, ClaimInv, ClaimFits, Writing

LEMMA ClaimsAlways == Spec => [](TypeInv /\ LockInv /\ ClaimInv)
<1>1. Spec => [](TypeInv /\ LockInv)
  <2>1. SyncInv => TypeInv /\ LockInv
    BY DEF SyncInv
  <2> QED BY <2>1, SyncAlways, PTL
<1>2. TypeInv /\ LockInv /\ ClaimInv /\ [Next]_vars => ClaimInv'
  BY NextClaims
<1> QED BY <1>1, <1>2, InitClaims, PTL DEF Spec

\* The locks of a transaction are those of its answer: when it stores the
\* invoices it holds the row of its own company and of every party of an
\* invoice, and no others, so the rows Commit rewrites are exactly those; and
\* the statement it waits in is never one on a row it has locked itself.
THEOREM LocksAreOfAnswer == Spec => []LocksOfAnswer
<1>1. ClaimInv => LocksOfAnswer
  BY DEF ClaimInv, ClaimFits, LocksOfAnswer
<1> QED BY <1>1, ClaimsAlways, PTL

-----------------------------------------------------------------------------
(***************************************************************************)
(* Waiting.  A set of syncers that wait only for one another contains a    *)
(* circle: among its nonempty subsets that the waits do not leave there is *)
(* a least one, and the waits map it onto itself.                          *)
(***************************************************************************)

\* S is not left by the waits of its members.
Closed(S) == \A q \in S : WaitsFor(q) \in S

LEMMA ClosedHasCircle ==
  ASSUME NEW C, IsFiniteSet(C), C # {}, Closed(C)
  PROVE  \E S \in SUBSET C : Circle(S)
<1> DEFINE All  == {S \in SUBSET C : S # {} /\ Closed(S)}
           Less == StrictSubsetOrdering(C)
<1>1. IsWellFoundedOn(Less, FiniteSubsetsOf(C)) /\ FiniteSubsetsOf(C) = SUBSET C
  BY FS_StrictSubsetOrderingWellFounded, FS_FiniteSubsetsOfFinite
<1>2. All \subseteq FiniteSubsetsOf(C) /\ All # {}
  BY <1>1
<1>3. PICK S \in All : \A T \in All : <<T, S>> \notin Less
  <2> HIDE DEF All, Less
  <2> QED BY <1>1, <1>2, WFMin
<1> DEFINE T == {WaitsFor(q) : q \in S}
<1>4. S \in SUBSET C /\ S # {} /\ \A q \in S : WaitsFor(q) \in S
  BY <1>3 DEF Closed
<1>5. T \in SUBSET S /\ T # {}
  BY <1>4
<1>6. T \in All
  BY <1>4, <1>5 DEF Closed
<1>7. T = S
  <2>1. <<T, S>> \notin Less
    <3> HIDE DEF T, Less, All
    <3> QED BY <1>3, <1>6
  <2>2. T \in SUBSET C /\ S \in SUBSET C
    BY <1>4, <1>5
  <2> HIDE DEF T
  <2> QED BY <1>5, <2>1, <2>2 DEF StrictSubsetOrdering
<1> QED BY <1>4, <1>7 DEF Circle

\* p can go on by itself, or Postgres can abort it.
Able(p) ==
  \/ pc[p] \in {"opening", "calling", "refused", "upserting"}
  \/ pc[p] = "locking" /\ CanLock(p)
  \/ \E S \in SUBSET Syncer : p \in S /\ Circle(S)

\* Any set of syncers that wait for nobody outside it, all of them or only a
\* few, has a member that can go on as long as one of them is at work.
NobodyIsStuck ==
  \A C \in SUBSET Syncer :
    IsFiniteSet(C) /\ (\A q \in C : WaitsFor(q) \in C \cup {None}) /\ (\E q \in C : pc[q] # "idle")
      => \E q \in C : pc[q] # "idle" /\ Able(q)

\* The syncers of a circle are several, and each synchronises another company.
CirclesAreOfCompanies ==
  \A S \in SUBSET Syncer : Circle(S) =>
    \A p \in S : /\ \E q \in S : q # p
                 /\ \A q \in S : q # p => Tax(q) # Tax(p)

LEMMA SomebodyMoves ==
  ASSUME TypeInv, LockInv
  PROVE  NobodyIsStuck
<1> SUFFICES ASSUME NEW C \in SUBSET Syncer, IsFiniteSet(C), \A q \in C : WaitsFor(q) \in C \cup {None},
                    NEW p \in C, pc[p] # "idle", \A q \in C : pc[q] # "idle" => ~Able(q)
             PROVE  FALSE
  BY DEF NobodyIsStuck
<1> DEFINE D == {q \in C : pc[q] # "idle"}
<1>1. ASSUME NEW q \in D PROVE WaitsFor(q) \in D
  <2>1. q \in Syncer /\ ~Able(q) /\ pc[q] # "idle"
    OBVIOUS
  <2>2. pc[q] = "locking" /\ holder[job[q].want] # None /\ job[q].want \in Company
    <3>1. pc[q] \in {"idle"} \cup {"opening"} \cup Working
      BY <2>1, Before
    <3>2. pc[q] = "locking" /\ ~CanLock(q)
      BY <2>1, <3>1 DEF Able, Working
    <3> QED BY <2>1, <3>2 DEF CanLock, TypeInv, JobFits
  <2>3. WaitsFor(q) = holder[job[q].want] /\ WaitsFor(q) \in C
    BY <2>2 DEF WaitsFor
  <2>4. pc[WaitsFor(q)] \in Writing
    BY <2>2, <2>3 DEF LockInv
  <2> QED BY <2>3, <2>4 DEF Writing
<1>2. IsFiniteSet(D) /\ D # {} /\ Closed(D)
  <2>1. D \in SUBSET C /\ p \in D
    OBVIOUS
  <2> HIDE DEF D
  <2> QED BY <1>1, <2>1, FS_Subset DEF Closed
<1>3. PICK S \in SUBSET D : Circle(S)
  <2> HIDE DEF D
  <2> QED BY <1>2, ClosedHasCircle
<1>4. PICK q \in S : TRUE
  BY <1>3 DEF Circle
<1>5. q \in C /\ pc[q] # "idle" /\ S \in SUBSET Syncer
  OBVIOUS
<1> QED BY <1>3, <1>4, <1>5 DEF Able

LEMMA CircleInside ==
  ASSUME TypeInv, LockInv, ClaimInv, NEW S \in SUBSET Syncer, Circle(S), NEW p \in S
  PROVE  Inside(p) /\ WaitsFor(p) \in S /\ WaitsFor(p) # p
<1>1. WaitsFor(p) \in S /\ \E q \in S : WaitsFor(q) = p
  BY DEF Circle
<1>2. PICK q \in S : WaitsFor(q) = p
  BY <1>1
<1>3. WaitsFor(p) # None /\ p # None
  BY <1>1, NoneIsNobody
<1>4. pc[q] = "locking" /\ holder[job[q].want] = p /\ pc[p] = "locking" /\ WaitsFor(p) = holder[job[p].want]
  BY <1>2, <1>3 DEF WaitsFor
<1>5. job[q].want \in Company
  BY <1>4 DEF TypeInv, JobFits
<1>6. holder[job[p].want] # p /\ job[p].want # Tax(p)
  BY <1>4, <1>5 DEF ClaimInv, ClaimFits
<1> QED BY <1>1, <1>4, <1>6 DEF Inside

LEMMA CirclesDiffer ==
  ASSUME TypeInv, LockInv, ClaimInv
  PROVE  CirclesAreOfCompanies
<1> SUFFICES ASSUME NEW S \in SUBSET Syncer, Circle(S), NEW p \in S
             PROVE  (\E q \in S : q # p) /\ \A q \in S : q # p => Tax(q) # Tax(p)
  BY DEF CirclesAreOfCompanies
<1>1. \A q \in S : Inside(q)
  BY CircleInside
<1>2. SameCompanyIsSerial
  BY InsideLocks
<1>3. \E q \in S : q # p
  BY CircleInside
<1>4. ASSUME NEW q \in S, q # p PROVE Tax(q) # Tax(p)
  BY <1>1, <1>2, <1>4 DEF SameCompanyIsSerial
<1> QED BY <1>3, <1>4

\* No syncer is stuck: whichever syncers wait for one another, one of them can
\* take its next statement, or they wait in a circle and Postgres aborts one of
\* it; a lock never has a holder that is gone.  And only syncs of different
\* companies deadlock: two runs for one company (the nightly one and one that a
\* person starts, say) queue up at its row before they lock anything else.
THEOREM SyncersAreNotStuck == Spec => [](NobodyIsStuck /\ CirclesAreOfCompanies)
<1>1. TypeInv /\ LockInv /\ ClaimInv => NobodyIsStuck /\ CirclesAreOfCompanies
  BY SomebodyMoves, CirclesDiffer
<1> QED BY <1>1, ClaimsAlways, PTL

-----------------------------------------------------------------------------
(***************************************************************************)
(* Progress.  What a process has left to do is ordered lexicographically:  *)
(* the companies and directions of its plan, then the stage of the current *)
(* one, then the rows still to lock or the invoices still to upsert.       *)
(***************************************************************************)

Down == {x \in Nat \X Nat : x[1] < x[2]}

LEMMA DownFounded == IsWellFoundedOn(Down, Nat)
<1>1. ASSUME NEW T \in SUBSET Nat, T # {}
      PROVE  \E x \in T : \A y \in T : <<y, x>> \notin Down
  <2> DEFINE U == {0 .. n : n \in T}
             Less == StrictSubsetOrdering(Nat)
  <2>1. U \subseteq FiniteSubsetsOf(Nat) /\ U # {}
    <3>1. ASSUME NEW n \in T PROVE 0 .. n \in FiniteSubsetsOf(Nat)
      <4>1. IsFiniteSet(0 .. n)
        BY FS_Interval
      <4> QED BY <4>1 DEF FiniteSubsetsOf
    <3> QED BY <1>1, <3>1
  <2>2. PICK u \in U : \A v \in U : <<v, u>> \notin Less
    <3> HIDE DEF U, Less
    <3> QED BY <2>1, FS_StrictSubsetOrderingWellFounded, WFMin DEF Less
  <2>3. PICK x \in T : u = 0 .. x
    OBVIOUS
  <2>4. ASSUME NEW y \in T, <<y, x>> \in Down PROVE FALSE
    <3>1. x \in Nat /\ y \in Nat /\ y < x
      BY <2>4 DEF Down
    <3>2. 0 .. y \in SUBSET Nat /\ 0 .. x \in SUBSET Nat /\ 0 .. y \subseteq 0 .. x /\ x \in 0 .. x /\ x \notin 0 .. y
      BY <3>1
    <3>3. <<0 .. y, 0 .. x>> \in Less
      BY <3>2 DEF StrictSubsetOrdering
    <3>4. 0 .. y \in U
      OBVIOUS
    <3> QED BY <2>2, <2>3, <3>3, <3>4
  <2> QED BY <2>4
<1> QED BY <1>1, MinWF

\* The stages of one company and direction, by how many are left.
StagesLeft == [idle |-> 0, refused |-> 1, upserting |-> 1, locking |-> 2, calling |-> 3, opening |-> 4]

Rest(p) ==
  CASE pc[p] = "locking"   -> Cardinality(job[p].todo)
    [] pc[p] = "upserting" -> Cardinality(job[p].lines \ job[p].done)
    [] OTHER -> 0

\* What p has left to do; nothing when it is not at work.
Remaining(p) ==
  IF pc[p] = "idle" THEN <<<<0, 0>>, 0>> ELSE <<<<Len(job[p].plan), StagesLeft[pc[p]]>>, Rest(p)>>

Amount == (Nat \X Nat) \X Nat
Less   == LexPairOrdering(LexPairOrdering(Down, Down, Nat, Nat), Down, Nat \X Nat, Nat)

\* A step leaves syncer p where it is, starts it, or brings it nearer its end.
ComesNearer(p) ==
  \/ pc'[p] = pc[p] /\ job'[p] = job[p]
  \/ pc[p] = "idle"
  \/ <<Remaining(p)', Remaining(p)>> \in Less

\* There is no endless descent: what is left cannot shrink for ever.
LEMMA LessIsFounded == IsWellFoundedOn(Less, Amount)
<1>1. IsWellFoundedOn(LexPairOrdering(Down, Down, Nat, Nat), Nat \X Nat)
  BY DownFounded, WFLexPairOrdering
<1> QED BY <1>1, DownFounded, WFLexPairOrdering DEF Less, Amount

LEMMA LessIs ==
  ASSUME NEW a \in Nat, NEW b \in Nat, NEW c \in Nat, NEW d \in Nat, NEW e \in Nat, NEW f \in Nat,
         a < d \/ (a = d /\ (b < e \/ (b = e /\ c < f)))
  PROVE  <<<<<<a, b>>, c>>, <<<<d, e>>, f>>>> \in Less
<1>1. a < d => <<a, d>> \in Down
  BY DEF Down
<1>2. b < e => <<b, e>> \in Down
  BY DEF Down
<1>3. c < f => <<c, f>> \in Down
  BY DEF Down
<1>4. a < d \/ (a = d /\ b < e) => <<<<a, b>>, <<d, e>>>> \in LexPairOrdering(Down, Down, Nat, Nat)
  BY <1>1, <1>2 DEF LexPairOrdering
<1>5. <<a, b>> \in Nat \X Nat /\ <<d, e>> \in Nat \X Nat
  OBVIOUS
<1>6. CASE <<<<a, b>>, <<d, e>>>> \in LexPairOrdering(Down, Down, Nat, Nat)
  BY <1>5, <1>6 DEF Less, LexPairOrdering
<1>7. CASE a = d /\ b = e /\ c < f
  BY <1>3, <1>5, <1>7 DEF Less, LexPairOrdering
<1> QED BY <1>4, <1>6, <1>7

RemainInv ==
  \A p \in Syncer :
    /\ Rest(p) \in Nat
    /\ pc[p] # "idle" => Len(job[p].plan) \in Nat \ {0} /\ StagesLeft[pc[p]] \in Nat \ {0}

LEMMA RemainingIs ==
  ASSUME TypeInv, ClaimInv
  PROVE  RemainInv
<1> SUFFICES ASSUME NEW p \in Syncer
             PROVE  /\ Rest(p) \in Nat
                    /\ pc[p] # "idle" => Len(job[p].plan) \in Nat \ {0} /\ StagesLeft[pc[p]] \in Nat \ {0}
  BY DEF RemainInv
<1>1. pc[p] \in {"idle"} \cup {"opening"} \cup Working
  BY Before
<1>2. Rest(p) \in Nat
  <2>1. CASE pc[p] = "locking"
    <3>1. IsFiniteSet(job[p].todo)
      BY <2>1 DEF ClaimInv, ClaimFits
    <3> QED BY <2>1, <3>1, FS_CardinalityType DEF Rest
  <2>2. CASE pc[p] = "upserting"
    <3>1. IsFiniteSet(job[p].lines)
      BY <2>2 DEF ClaimInv, ClaimFits, Writing
    <3>2. IsFiniteSet(job[p].lines \ job[p].done)
      BY <3>1, FS_Subset
    <3> QED BY <2>2, <3>2, FS_CardinalityType DEF Rest
  <2>3. CASE pc[p] \notin {"locking", "upserting"}
    BY <2>3 DEF Rest
  <2> QED BY <2>1, <2>2, <2>3
<1>3. ASSUME pc[p] # "idle" PROVE Len(job[p].plan) \in Nat \ {0} /\ StagesLeft[pc[p]] \in Nat \ {0}
  <2>1. job[p].plan \in Seq(Pair) /\ job[p].plan # <<>>
    BY <1>3, PairOf
  <2>2. Len(job[p].plan) \in Nat \ {0}
    BY <2>1, EmptySeq, LenProperties
  <2> QED BY <1>1, <1>3, <2>2 DEF StagesLeft, Working
<1> QED BY <1>2, <1>3

\* Four ways to come nearer.
LEMMA NearerBy ==
  ASSUME RemainInv, RemainInv', NEW p \in Syncer, pc[p] # "idle",
         \/ pc'[p] = "idle"
         \/ Len(job'[p].plan) < Len(job[p].plan)
         \/ job'[p].plan = job[p].plan /\ StagesLeft[pc'[p]] < StagesLeft[pc[p]]
         \/ job'[p].plan = job[p].plan /\ pc'[p] = pc[p] /\ Rest(p)' < Rest(p)
  PROVE  ComesNearer(p)
<1>1. PICK a, b, c, d, e, f : /\ d = Len(job[p].plan) /\ e = StagesLeft[pc[p]] /\ f = Rest(p)
                              /\ a = Len(job'[p].plan) /\ b = StagesLeft[pc'[p]] /\ c = Rest(p)'
  OBVIOUS
<1>2. d \in Nat \ {0} /\ e \in Nat /\ f \in Nat /\ Remaining(p) = <<<<d, e>>, f>>
  BY <1>1 DEF Remaining, RemainInv
<1>3. CASE pc'[p] = "idle"
  <2>1. Remaining(p)' = <<<<0, 0>>, 0>>
    BY <1>3 DEF Remaining
  <2>2. <<<<<<0, 0>>, 0>>, <<<<d, e>>, f>>>> \in Less
    BY <1>2, LessIs
  <2> QED BY <1>2, <2>1, <2>2 DEF ComesNearer
<1>4. CASE pc'[p] # "idle"
  <2>1. /\ Rest(p)' \in Nat /\ Len(job'[p].plan) \in Nat \ {0} /\ StagesLeft[pc'[p]] \in Nat \ {0}
    BY <1>4 DEF RemainInv, StagesLeft
  <2>2. Remaining(p)' = <<<<a, b>>, c>>
    BY <1>1, <1>4 DEF Remaining, StagesLeft
  <2>3. a < d \/ (a = d /\ (b < e \/ (b = e /\ c < f)))
    BY <1>1, <1>4
  <2>4. a \in Nat /\ b \in Nat /\ c \in Nat
    BY <1>1, <2>1
  <2>5. <<<<<<a, b>>, c>>, <<<<d, e>>, f>>>> \in Less
    BY <1>2, <2>3, <2>4, LessIs
  <2> QED BY <1>2, <2>2, <2>5 DEF ComesNearer
<1> QED BY <1>3, <1>4

LEMMA TailIsShorter ==
  ASSUME NEW a \in Seq(Pair), a # <<>>
  PROVE  Len(Tail(a)) < Len(a)
<1>1. Len(Tail(a)) = Len(a) - 1
  BY HeadTailProperties
<1>2. Len(a) \in Nat
  BY LenProperties
<1> QED BY <1>1, <1>2

LEMMA ContinueNearer ==
  ASSUME TypeInv, RemainInv, RemainInv', NEW p \in Syncer, pc[p] # "idle", NEW f, Continued(p, f)
  PROVE  ComesNearer(p)
<1>1. CASE pc'[p] = "idle"
  BY <1>1, NearerBy
<1>2. CASE job'[p].plan = Tail(job[p].plan)
  <2>1. job[p].plan \in Seq(Pair) /\ job[p].plan # <<>>
    BY PairOf
  <2>2. Len(Tail(job[p].plan)) < Len(job[p].plan)
    BY <2>1, TailIsShorter
  <2> QED BY <1>2, <2>2, NearerBy
<1> QED BY <1>1, <1>2 DEF Continued, Ended

LEMMA NextNearer ==
  ASSUME TypeInv, LockInv, ClaimInv, RemainInv, RemainInv', [Next]_vars
  PROVE  \A p \in Syncer : ComesNearer(p)
<1>1. CASE UNCHANGED <<pc, job>>
  BY <1>1 DEF ComesNearer
<1>2. ASSUME NEW p \in Syncer, OnlyMoves(p), ComesNearer(p) PROVE \A q \in Syncer : ComesNearer(q)
  BY <1>2 DEF OnlyMoves, ComesNearer
<1>3. ASSUME NEW p \in Syncer, Starts(p) PROVE OnlyMoves(p) /\ ComesNearer(p)
  <2>1. pc[p] = "idle"
    BY <1>3 DEF Starts, StartDaily, StartManual, Start
  <2> QED BY <1>3, <2>1, StartsEffect DEF ComesNearer
<1>4. ASSUME NEW p \in Syncer, Open(p) PROVE OnlyMoves(p) /\ ComesNearer(p)
  <2>1. OnlyMoves(p) /\ pc[p] = "opening" /\ pc'[p] = "calling" /\ job'[p].plan = job[p].plan
    BY <1>4, OpenEffect DEF Opened
  <2> QED BY <2>1, NearerBy DEF StagesLeft
<1>5. ASSUME NEW p \in Syncer, Receive(p) PROVE OnlyMoves(p) /\ ComesNearer(p)
  <2>1. OnlyMoves(p) /\ pc[p] = "calling" /\ pc'[p] = "locking" /\ job'[p].plan = job[p].plan
    BY <1>5, ReceiveEffect DEF Answered, SameWork
  <2> QED BY <2>1, NearerBy DEF StagesLeft
<1>6. ASSUME NEW p \in Syncer, Refuse(p) PROVE OnlyMoves(p) /\ ComesNearer(p)
  <2>1. OnlyMoves(p) /\ pc[p] = "calling" /\ pc'[p] = "refused" /\ job'[p].plan = job[p].plan
    BY <1>6, RefuseEffect DEF SameWork
  <2> QED BY <2>1, NearerBy DEF StagesLeft
<1>7. ASSUME NEW p \in Syncer, MarkFailed(p) PROVE OnlyMoves(p) /\ ComesNearer(p)
  <2>1. OnlyMoves(p) /\ pc[p] = "refused" /\ Failing(p)
    BY <1>7, MarkFailedEffect
  <2> QED BY <2>1, ContinueNearer DEF Failing
<1>8. ASSUME NEW p \in Syncer, Lock(p) PROVE OnlyMoves(p) /\ ComesNearer(p)
  <2>1. OnlyMoves(p) /\ pc[p] = "locking" /\ job'[p].plan = job[p].plan /\ LockedNext(p)
    BY <1>8, LockEffect, LockNext DEF Locked, SameWork
  <2>2. CASE pc'[p] = "upserting"
    BY <2>1, <2>2, NearerBy DEF StagesLeft
  <2>3. CASE /\ pc'[p] = "locking" /\ job'[p].want \in job[p].todo
             /\ job'[p].todo = job[p].todo \ {job'[p].want}
    <3>1. IsFiniteSet(job[p].todo)
      BY <2>1 DEF ClaimInv, ClaimFits
    <3>2. Cardinality(job'[p].todo) = Cardinality(job[p].todo) - 1 /\ Cardinality(job[p].todo) \in Nat
      BY <2>3, <3>1, FS_RemoveElement, FS_CardinalityType
    <3>3. Rest(p)' = Cardinality(job'[p].todo) /\ Rest(p) = Cardinality(job[p].todo)
      BY <2>1, <2>3 DEF Rest
    <3> QED BY <2>1, <2>3, <3>2, <3>3, NearerBy
  <2> QED BY <2>1, <2>2, <2>3 DEF LockedNext
<1>9. ASSUME NEW p \in Syncer, Upsert(p) PROVE OnlyMoves(p) /\ ComesNearer(p)
  <2>1. /\ OnlyMoves(p) /\ pc[p] = "upserting" /\ pc'[p] = "upserting" /\ job'[p].plan = job[p].plan
        /\ job'[p].lines = job[p].lines
    BY <1>9, UpsertEffect DEF SameWork, SameAnswer
  <2>2. PICK l \in job[p].lines \ job[p].done : job'[p].done = job[p].done \cup {l}
    BY <1>9, UpsertNext
  <2> DEFINE R == job[p].lines \ job[p].done
  <2>3. IsFiniteSet(R)
    <3>1. IsFiniteSet(job[p].lines)
      BY <2>1 DEF ClaimInv, ClaimFits, Writing
    <3> QED BY <3>1, FS_Subset
  <2>4. job'[p].lines \ job'[p].done = R \ {l}
    BY <2>1, <2>2
  <2>5. Cardinality(R \ {l}) = Cardinality(R) - 1 /\ Cardinality(R) \in Nat
    <3>1. l \in R
      BY <2>2
    <3> HIDE DEF R
    <3> QED BY <2>3, <3>1, FS_RemoveElement, FS_CardinalityType
  <2>6. Rest(p)' = Cardinality(R \ {l}) /\ Rest(p) = Cardinality(R)
    BY <2>1, <2>4 DEF Rest
  <2> QED BY <2>1, <2>5, <2>6, NearerBy
<1>10. ASSUME NEW p \in Syncer, Commit(p) PROVE OnlyMoves(p) /\ ComesNearer(p)
  <2>1. OnlyMoves(p) /\ pc[p] = "upserting" /\ Committed(p)
    BY <1>10, CommitEffect
  <2> QED BY <2>1, ContinueNearer DEF Committed
<1>11. ASSUME NEW p \in Syncer, pc[p] # "idle", Abort(p) PROVE OnlyMoves(p) /\ ComesNearer(p)
  <2>1. OnlyMoves(p) /\ pc'[p] = "idle"
    BY <1>11, AbortEffect DEF Ended
  <2> QED BY <1>11, <2>1, NearerBy
<1>12. CASE UNCHANGED vars \/ \E i \in Invoice : Amend(i)
  BY <1>1, <1>12 DEF vars, Amend
<1> QED BY <1>2, <1>3, <1>4, <1>5, <1>6, <1>7, <1>8, <1>9, <1>10, <1>11, <1>12, Steps

\* Whatever the API, the locks and the other syncers do, a process at work is
\* only ever left where it is or brought nearer its end; no step of anybody
\* gives it more to do.  With SyncersAreNotStuck this is all of SyncEnds but the
\* fairness that lets the able ones take their steps.
THEOREM SyncComesNearer == Spec => [][\A p \in Syncer : ComesNearer(p)]_vars
<1>1. TypeInv /\ LockInv /\ ClaimInv => RemainInv
  BY RemainingIs
<1>2. TypeInv /\ LockInv /\ ClaimInv /\ RemainInv /\ RemainInv' /\ [Next]_vars
        => [\A p \in Syncer : ComesNearer(p)]_vars
  BY NextNearer
<1> QED BY <1>1, <1>2, ClaimsAlways, PTL DEF Spec

====
