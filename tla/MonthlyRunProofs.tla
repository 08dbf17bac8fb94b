-------------------------- MODULE MonthlyRunProofs --------------------------
(***************************************************************************)
(* Proofs about MonthlyRun for any number of customers, passes, commands   *)
(* and ticks, any budget, limit and hour.                                  *)
(*                                                                         *)
(* The mail limit: the log is the end of the mails reported as sent, and   *)
(* those of them that are no longer in the log left more than an hour ago  *)
(* (Fits).                                                                 *)
(* The exit code: while a pass goes on, the result list has an entry for   *)
(* exactly those listed customers that the loop is done with (PassInv).    *)
(***************************************************************************)
EXTENDS MonthlyRun, FiniteSetTheorems, SequenceTheorems, TLAPS

-----------------------------------------------------------------------------
(***************************************************************************)
(* The window of mails.                                                    *)
(***************************************************************************)

Time == 0 .. MaxTime

\* At whatever time the past is cut, s is cut at one place: what lets the loop
\* of _within_rate_limit stop at the first entry that is not old.
Splits(s) ==
  \A t \in Int : \E n \in 0 .. Len(s) : \A k \in 1 .. Len(s) : s[k] < t <=> k <= n

\* lg is the end of ob, and what comes before is more than an hour old.
Fits(lg, ob) ==
  /\ lg \in Seq(Time) /\ ob \in Seq(Time)
  /\ Splits(lg)
  /\ \A k \in 1 .. Len(lg) : lg[k] <= now
  /\ Len(lg) <= Len(ob)
  /\ \A k \in 1 .. Len(lg) : lg[k] = ob[Len(ob) - Len(lg) + k]
  /\ \A n \in 1 .. Len(ob) - Len(lg) : now - ob[n] > Hour

MailInv == now \in Time /\ Fits(log, sent) /\ HourlyLimit

LEMMA TimeIsNat == Time \subseteq Nat /\ Hour \in Nat /\ Limit \in Nat
BY MailBounds DEF Time

\* What the loop drops, and what it leaves.
LEMMA PrunedIs ==
  ASSUME MailInv
  PROVE  \E n \in 0 .. Len(log) :
           /\ Pruned \in Seq(Time)
           /\ Len(Pruned) = Len(log) - n
           /\ \A k \in 1 .. Len(log) - n : Pruned[k] = log[n + k]
           /\ \A k \in 1 .. n : now - log[k] > Hour
<1> DEFINE Cut(n) == /\ \A k \in 1 .. n : Old(log[k])
                     /\ n < Len(log) => ~Old(log[n + 1])
           d == CHOOSE n \in 0 .. Len(log) : Cut(n)
<1>1. log \in Seq(Time) /\ Len(log) \in Nat /\ now \in Nat /\ Hour \in Nat
  BY TimeIsNat DEF MailInv, Fits
<1>2. \A k \in 1 .. Len(log) : log[k] \in Nat
  <2>1. \A k \in 1 .. Len(log) : log[k] \in Time
    BY <1>1
  <2> QED BY <2>1, TimeIsNat
<1>3. \E n \in 0 .. Len(log) : Cut(n)
  <2> DEFINE t == now - Hour
  <2>1. t \in Int /\ Splits(log)
    BY <1>1 DEF MailInv, Fits
  <2> HIDE DEF t
  <2>2. PICK n \in 0 .. Len(log) : \A k \in 1 .. Len(log) : log[k] < t <=> k <= n
    BY <2>1 DEF Splits
  <2>3. \A k \in 1 .. Len(log) : Old(log[k]) <=> k <= n
    BY <1>1, <1>2, <2>2 DEF Old, t
  <2>4. Cut(n)
    BY <1>1, <2>3
  <2> QED BY <2>4
<1>4. d \in 0 .. Len(log) /\ Cut(d)
  BY <1>3
<1>5. Pruned = SubSeq(log, d + 1, Len(log))
  BY DEF Pruned
<1> HIDE DEF d
<1>6. \A i \in d + 1 .. Len(log) : log[i] \in Time
  BY <1>1, <1>4
<1>7. /\ SubSeq(log, d + 1, Len(log)) \in Seq(Time)
      /\ Len(SubSeq(log, d + 1, Len(log))) = IF d + 1 <= Len(log) THEN Len(log) - (d + 1) + 1 ELSE 0
      /\ \A i \in 1 .. Len(log) - (d + 1) + 1 :
           SubSeq(log, d + 1, Len(log))[i] = log[d + 1 + i - 1]
  BY <1>1, <1>4, <1>6, SubSeqProperties
<1>8. Len(Pruned) = Len(log) - d /\ \A k \in 1 .. Len(log) - d : Pruned[k] = log[d + k]
  BY <1>1, <1>4, <1>5, <1>7
<1>9. \A k \in 1 .. d : now - log[k] > Hour
  BY <1>4 DEF Old
<1> QED BY <1>4, <1>5, <1>7, <1>8, <1>9

\* A log that has lost its first entries can still be cut anywhere.
LEMMA SuffixSplits ==
  ASSUME NEW s \in Seq(Time), Splits(s), NEW d \in 0 .. Len(s), NEW r \in Seq(Time),
         Len(r) = Len(s) - d, \A k \in 1 .. Len(s) - d : r[k] = s[d + k]
  PROVE  Splits(r)
<1> SUFFICES ASSUME NEW t \in Int
             PROVE  \E n \in 0 .. Len(r) : \A k \in 1 .. Len(r) : r[k] < t <=> k <= n
  BY DEF Splits
<1>1. PICK n \in 0 .. Len(s) : \A k \in 1 .. Len(s) : s[k] < t <=> k <= n
  BY DEF Splits
<1> DEFINE m == IF n > d THEN n - d ELSE 0
<1>2. Len(s) \in Nat /\ m \in 0 .. Len(r)
  OBVIOUS
<1>3. ASSUME NEW k \in 1 .. Len(r) PROVE r[k] < t <=> k <= m
  <2>1. d + k \in 1 .. Len(s) /\ r[k] = s[d + k]
    BY <1>2
  <2>2. r[k] < t <=> d + k <= n
    BY <1>1, <2>1
  <2> QED BY <1>2, <2>2
<1> QED BY <1>2, <1>3

\* So has one with an entry that is not older than the others.
LEMMA AppendSplits ==
  ASSUME NEW s \in Seq(Time), Splits(s), NEW x \in Time, \A k \in 1 .. Len(s) : s[k] <= x
  PROVE  Splits(Append(s, x))
<1> DEFINE r == Append(s, x)
<1>1. /\ Len(s) \in Nat /\ Len(r) = Len(s) + 1 /\ r[Len(s) + 1] = x
      /\ \A k \in 1 .. Len(s) : r[k] = s[k] /\ s[k] \in Nat
  <2>1. \A k \in 1 .. Len(s) : s[k] \in Time
    OBVIOUS
  <2>2. Len(s) \in Nat /\ Len(r) = Len(s) + 1 /\ r[Len(s) + 1] = x
    OBVIOUS
  <2>3. \A k \in 1 .. Len(s) : r[k] = s[k]
    OBVIOUS
  <2> QED BY <2>1, <2>2, <2>3, TimeIsNat
<1> HIDE DEF r
<1> SUFFICES ASSUME NEW t \in Int
             PROVE  \E n \in 0 .. Len(r) : \A k \in 1 .. Len(r) : r[k] < t <=> k <= n
  BY DEF Splits, r
<1>2. PICK n \in 0 .. Len(s) : \A k \in 1 .. Len(s) : s[k] < t <=> k <= n
  BY DEF Splits
<1>3. CASE x < t
  <2>1. ASSUME NEW k \in 1 .. Len(r) PROVE r[k] < t
    <3>1. k \in 1 .. Len(s) \/ k = Len(s) + 1
      BY <1>1
    <3>2. x \in Nat
      BY TimeIsNat
    <3> QED BY <1>1, <1>3, <3>1, <3>2
  <2>2. Len(r) \in 0 .. Len(r) /\ \A k \in 1 .. Len(r) : k <= Len(r)
    BY <1>1
  <2> QED BY <2>1, <2>2
<1>4. CASE ~(x < t)
  <2>1. ASSUME NEW k \in 1 .. Len(r) PROVE r[k] < t <=> k <= n
    <3>1. CASE k \in 1 .. Len(s)
      BY <1>1, <1>2, <3>1
    <3>2. CASE k = Len(s) + 1
      BY <1>1, <1>4, <3>2
    <3> QED BY <1>1, <3>1, <3>2
  <2>2. n \in 0 .. Len(r)
    BY <1>1
  <2> QED BY <2>1, <2>2
<1> QED BY <1>3, <1>4

LEMMA PrunedFits ==
  ASSUME MailInv
  PROVE  Fits(Pruned, sent)
<1>1. PICK n \in 0 .. Len(log) :
           /\ Pruned \in Seq(Time)
           /\ Len(Pruned) = Len(log) - n
           /\ \A k \in 1 .. Len(log) - n : Pruned[k] = log[n + k]
           /\ \A k \in 1 .. n : now - log[k] > Hour
  BY PrunedIs
<1>2. /\ log \in Seq(Time) /\ sent \in Seq(Time) /\ Splits(log)
      /\ \A k \in 1 .. Len(log) : log[k] <= now
      /\ Len(log) <= Len(sent)
      /\ \A k \in 1 .. Len(log) : log[k] = sent[Len(sent) - Len(log) + k]
      /\ \A k \in 1 .. Len(sent) - Len(log) : now - sent[k] > Hour
  BY DEF MailInv, Fits
<1>3. Len(log) \in Nat /\ Len(sent) \in Nat
  BY <1>2
<1>4. Splits(Pruned)
  BY <1>1, <1>2, SuffixSplits
<1> DEFINE p == Pruned
<1> HIDE DEF p
<1>5. Len(p) = Len(log) - n /\ \A k \in 1 .. Len(p) : p[k] = log[n + k]
  BY <1>1 DEF p
<1>6. \A k \in 1 .. Len(p) : p[k] <= now /\ p[k] = sent[Len(sent) - Len(p) + k]
  <2> TAKE k \in 1 .. Len(p)
  <2>1. n + k \in 1 .. Len(log) /\ p[k] = log[n + k]
    BY <1>1, <1>3, <1>5
  <2>2. Len(sent) - Len(log) + (n + k) = Len(sent) - Len(p) + k
    BY <1>1, <1>3, <1>5
  <2> QED BY <1>2, <2>1, <2>2
<1>7. ASSUME NEW k \in 1 .. Len(sent) - Len(p) PROVE now - sent[k] > Hour
  <2>1. CASE k <= Len(sent) - Len(log)
    BY <1>2, <1>3, <2>1
  <2>2. CASE k > Len(sent) - Len(log)
    <3> DEFINE j == k - (Len(sent) - Len(log))
    <3>1. j \in 1 .. n /\ j \in 1 .. Len(log) /\ Len(sent) - Len(log) + j = k
      BY <1>1, <1>3, <1>5, <2>2
    <3>2. log[j] = sent[k]
      BY <1>2, <3>1
    <3> QED BY <1>1, <3>1, <3>2
  <2> QED BY <1>3, <2>1, <2>2
<1>8. Len(p) <= Len(sent)
  BY <1>1, <1>2, <1>3, <1>5
<1> QED BY <1>1, <1>2, <1>4, <1>6, <1>7, <1>8 DEF Fits, p

LEMMA AppendFits ==
  ASSUME now \in Time, NEW lg, NEW ob, Fits(lg, ob)
  PROVE  Fits(Append(lg, now), Append(ob, now))
<1> DEFINE l == Append(lg, now)
           o == Append(ob, now)
<1>1. /\ lg \in Seq(Time) /\ ob \in Seq(Time) /\ Splits(lg)
      /\ \A k \in 1 .. Len(lg) : lg[k] <= now
      /\ Len(lg) <= Len(ob)
      /\ \A k \in 1 .. Len(lg) : lg[k] = ob[Len(ob) - Len(lg) + k]
      /\ \A n \in 1 .. Len(ob) - Len(lg) : now - ob[n] > Hour
  BY DEF Fits
<1>2. /\ l \in Seq(Time) /\ o \in Seq(Time)
      /\ Len(l) = Len(lg) + 1 /\ Len(o) = Len(ob) + 1
      /\ \A k \in 1 .. Len(lg) : l[k] = lg[k]
      /\ \A k \in 1 .. Len(ob) : o[k] = ob[k]
      /\ l[Len(lg) + 1] = now /\ o[Len(ob) + 1] = now
      /\ Len(lg) \in Nat /\ Len(ob) \in Nat /\ now \in Nat
  BY <1>1, TimeIsNat
<1>3. Splits(l)
  BY <1>1, AppendSplits
<1> HIDE DEF l, o
<1>4. ASSUME NEW k \in 1 .. Len(l) PROVE l[k] <= now /\ l[k] = o[Len(o) - Len(l) + k]
  <2>1. CASE k \in 1 .. Len(lg)
    <3>1. Len(ob) - Len(lg) + k \in 1 .. Len(ob) /\ Len(o) - Len(l) + k = Len(ob) - Len(lg) + k
      BY <1>1, <1>2, <2>1
    <3> QED BY <1>1, <1>2, <2>1, <3>1
  <2>2. CASE k = Len(lg) + 1
    <3>1. Len(o) - Len(l) + k = Len(ob) + 1
      BY <1>2, <2>2
    <3> QED BY <1>2, <2>2, <3>1
  <2> QED BY <1>2, <2>1, <2>2
<1>5. ASSUME NEW n \in 1 .. Len(o) - Len(l) PROVE now - o[n] > Hour
  <2>1. n \in 1 .. Len(ob) - Len(lg) /\ n \in 1 .. Len(ob)
    BY <1>1, <1>2
  <2> QED BY <1>1, <1>2, <2>1
<1>6. Fits(l, o)
  BY <1>1, <1>2, <1>3, <1>4, <1>5 DEF Fits
<1> QED BY <1>6 DEF l, o

\* The mail that is sent now makes no hour too full: Limit mails back there is
\* one that is no longer in the log.
LEMMA SentWithinLimit ==
  ASSUME MailInv, NEW lg, Fits(lg, sent), Len(lg) < Limit,
         sent' = Append(sent, now)
  PROVE  HourlyLimit'
<1>1. /\ lg \in Seq(Time) /\ sent \in Seq(Time) /\ Len(lg) \in Nat /\ Len(sent) \in Nat
      /\ now \in Time /\ Len(lg) <= Len(sent)
      /\ \A n \in 1 .. Len(sent) - Len(lg) : now - sent[n] > Hour
  BY DEF Fits, MailInv
<1>2. /\ sent' \in Seq(Time) /\ Len(sent') = Len(sent) + 1 /\ DOMAIN sent' = 1 .. Len(sent')
      /\ \A k \in 1 .. Len(sent) : sent'[k] = sent[k]
      /\ sent'[Len(sent) + 1] = now
  BY <1>1
<1>3. Limit \in Nat
  BY MailBounds
<1>4. ASSUME NEW n \in DOMAIN sent', n > Limit PROVE sent'[n] - sent'[n - Limit] > Hour
  <2>1. n \in 1 .. Len(sent) \/ n = Len(sent) + 1
    BY <1>1, <1>2
  <2>2. CASE n \in 1 .. Len(sent)
    <3>1. n \in DOMAIN sent /\ n - Limit \in 1 .. Len(sent)
      BY <1>1, <1>3, <1>4, <2>2
    <3>2. sent[n] - sent[n - Limit] > Hour
      BY <1>4, <3>1 DEF MailInv, HourlyLimit
    <3> QED BY <1>2, <2>2, <3>1, <3>2
  <2>3. CASE n = Len(sent) + 1
    <3>1. n - Limit \in 1 .. Len(sent) - Len(lg) /\ n - Limit \in 1 .. Len(sent)
      BY <1>1, <1>3, <1>4, <2>3
    <3> QED BY <1>1, <1>2, <2>3, <3>1
  <2> QED BY <2>1, <2>2, <2>3
<1> QED BY <1>4 DEF HourlyLimit

LEMMA SendMail ==
  ASSUME MailInv, Send
  PROVE  MailInv'
<1>1. now' = now /\ now \in Time
  BY DEF Send, MailInv
<1>2. \A lg, ob : Fits(lg, ob) /\ log' = lg /\ sent' = ob => Fits(log, sent)'
  BY <1>1 DEF Fits, Splits
<1>3. Fits(Pruned, sent)
  BY PrunedFits
<1>4. CASE log' = Pruned /\ UNCHANGED sent
  <2>1. Fits(log, sent)'
    BY <1>2, <1>3, <1>4
  <2> QED BY <1>1, <1>4, <2>1 DEF MailInv, HourlyLimit
<1>5. CASE WithinLimit /\ log' = Append(Pruned, now) /\ sent' = Append(sent, now)
  <2>1. Fits(log, sent)'
    BY <1>1, <1>2, <1>3, <1>5, AppendFits
  <2>2. HourlyLimit'
    BY <1>3, <1>5, SentWithinLimit DEF WithinLimit
  <2> QED BY <1>1, <2>1, <2>2 DEF MailInv
<1> QED BY <1>4, <1>5 DEF Send

LEMMA TickMail ==
  ASSUME MailInv, Tick
  PROVE  MailInv'
<1>1. now' = now + 1 /\ now' \in Time /\ now \in Nat /\ UNCHANGED <<log, sent>>
  BY MailBounds DEF Tick, MailInv, Time
<1>2. \A k \in 1 .. Len(log) : log[k] <= now'
  <2> TAKE k \in 1 .. Len(log)
  <2>1. log[k] \in Time /\ log[k] <= now
    BY DEF MailInv, Fits
  <2>2. log[k] \in Nat
    BY <2>1, TimeIsNat
  <2> QED BY <1>1, <2>1, <2>2
<1>3. \A n \in 1 .. Len(sent) - Len(log) : now' - sent[n] > Hour
  <2> TAKE n \in 1 .. Len(sent) - Len(log)
  <2>1. n \in 1 .. Len(sent) /\ now - sent[n] > Hour /\ sent \in Seq(Time)
    BY DEF MailInv, Fits
  <2>2. sent[n] \in Time
    BY <2>1
  <2>3. sent[n] \in Nat /\ Hour \in Nat
    BY <2>2, TimeIsNat
  <2> QED BY <1>1, <2>1, <2>3
<1> QED BY <1>1, <1>2, <1>3 DEF MailInv, Fits, Splits, HourlyLimit

\* A process that starts has sent nothing.
LEMMA NothingSent == Fits(<<>>, <<>>)
<1>1. <<>> \in Seq(Time) /\ Len(<<>>) = 0
  OBVIOUS
<1>2. Splits(<<>>)
  BY <1>1 DEF Splits
<1> QED BY <1>1, <1>2 DEF Fits

LEMMA StartMail ==
  ASSUME now \in Time, MailStart, UNCHANGED now
  PROVE  MailInv'
<1>1. log' = <<>> /\ sent' = <<>> /\ now' = now /\ DOMAIN sent' = {}
  BY DEF MailStart
<1>2. Fits(<<>>, <<>>)
  BY NothingSent
<1>3. Fits(log, sent)'
  BY <1>1, <1>2 DEF Fits, Splits
<1>4. HourlyLimit'
  BY <1>1 DEF HourlyLimit
<1> QED BY <1>1, <1>3, <1>4 DEF MailInv

-----------------------------------------------------------------------------
(***************************************************************************)
(* The budget.                                                             *)
(***************************************************************************)

BudgetInv == VisionTypeOK /\ BudgetHolds

LEMMA AnswerBudget ==
  ASSUME BudgetInv, NEW c \in Customer, NEW v, Answer(c, v)
  PROVE  BudgetInv'
<1>1. calls \in Nat /\ spent \in [Customer -> Nat] /\ MaxCalls \in Nat
  BY BudgetIsNat DEF BudgetInv, VisionTypeOK
<1>2. tier' \in 0 .. 2
  BY DEF Answer
<1>3. CASE UNCHANGED <<calls, spent>>
  BY <1>1, <1>2, <1>3 DEF BudgetInv, VisionTypeOK, BudgetHolds
<1>4. CASE BudgetLeft /\ calls' = calls + 1 /\ spent' = [spent EXCEPT ![c] = @ + 1]
  <2>1. calls' \in Nat /\ calls' <= MaxCalls
    BY <1>1, <1>4 DEF BudgetLeft
  <2>2. spent' \in [Customer -> Nat]
    BY <1>1, <1>4
  <2>3. ASSUME NEW d \in Customer PROVE spent'[d] <= calls'
    <3>1. spent[d] \in Nat /\ spent[d] <= calls /\ spent'[d] = IF d = c THEN spent[d] + 1 ELSE spent[d]
      BY <1>1, <1>4 DEF BudgetInv, BudgetHolds
    <3> QED BY <1>1, <1>4, <3>1
  <2> QED BY <1>2, <2>1, <2>2, <2>3 DEF BudgetInv, VisionTypeOK, BudgetHolds
<1> QED BY <1>3, <1>4 DEF Answer

LEMMA StartBudget ==
  ASSUME VisionStart
  PROVE  BudgetInv'
BY BudgetIsNat DEF VisionStart, BudgetInv, VisionTypeOK, BudgetHolds

LEMMA MissBudget ==
  ASSUME BudgetInv, Miss
  PROVE  BudgetInv'
BY DEF Miss, BudgetInv, VisionTypeOK, BudgetHolds

-----------------------------------------------------------------------------
(***************************************************************************)
(* The pass.                                                               *)
(***************************************************************************)

PassTypeOK ==
  /\ pc \in {"off", "loop", "fetching", "reporting"}
  /\ customers \in [Customer -> {"unknown", "active", "disabled"}]
  /\ runs      \in [Customer -> {"none", "open"} \cup RunEnd]
  /\ loggedIn \subseteq Customer
  /\ listed \subseteq Customer /\ todo \subseteq listed
  /\ cur \in Customer \cup {None} /\ (cur # None <=> pc = "fetching")
  /\ prompted \in BOOLEAN
  /\ results \in [Customer -> {"none"} \cup RunEnd]
  /\ outcome \in {"none", "0", "1", "crash"}
  /\ ops \in 0 .. MaxOps /\ passes \in 0 .. MaxPasses /\ escapes \in 0 .. MaxEscapes

\* The customers that have an entry in the result list.
Reported == {c \in Customer : results[c] # "none"}

\* While a pass goes on, those are the listed ones the loop is done with.
PassInv ==
  /\ cur # None => cur \in listed \ todo
  /\ pc # "off" => outcome = "none" /\ Reported = (listed \ todo) \ {cur}
  /\ pc = "reporting" => todo = {}
  /\ ExitCodeCoversListed

MonthInv == MailInv /\ BudgetInv /\ PassTypeOK /\ PassInv

LEMMA MonthTyped == MonthInv => TypeOK
BY DEF MonthInv, MailInv, Fits, Time, BudgetInv, PassTypeOK, TypeOK, MailTypeOK

LEMMA FetchingOne ==
  ASSUME PassTypeOK, pc = "fetching"
  PROVE  cur \in Customer /\ cur # None
BY DEF PassTypeOK

\* What a step does to the mails and to the budget.
LEMMA NextMail == MailInv /\ [Next]_vars => MailInv'
<1> SUFFICES ASSUME MailInv, [Next]_vars PROVE MailInv'
  OBVIOUS
<1>1. UNCHANGED mailVars => MailInv'
  BY DEF mailVars, MailInv, Fits, Splits, HourlyLimit
<1>2. CASE Start
  BY <1>2, StartMail DEF Start, MailInv
<1>3. CASE Prompt \/ Report
  BY <1>3, SendMail DEF Prompt, Report
<1>4. CASE TimePasses
  BY <1>4, TickMail DEF TimePasses
<1>5. CASE Ask
  BY <1>1, <1>5 DEF Ask, EndFetch
<1>6. CASE FetchEnds \/ DatabaseRaises \/ EndLoop \/ MissSelector
  BY <1>1, <1>6 DEF FetchEnds, EndFetch, DatabaseRaises, Crash, EndLoop, MissSelector
<1>7. CASE \E c \in Customer : CheckRaises(c) \/ Fetch(c)
  BY <1>1, <1>7 DEF CheckRaises, Crash, Fetch
<1>8. CASE \E c \in Customer : Add(c) \/ Disable(c) \/ Login(c) \/ FetchByHand(c)
  BY <1>1, <1>8 DEF Add, Disable, Login, FetchByHand, Command
<1>9. CASE UNCHANGED vars
  BY <1>1, <1>9 DEF vars
<1> QED BY <1>2, <1>3, <1>4, <1>5, <1>6, <1>7, <1>8, <1>9 DEF Next, Proceed

LEMMA NextBudget == BudgetInv /\ PassTypeOK /\ [Next]_vars => BudgetInv'
<1> SUFFICES ASSUME BudgetInv, PassTypeOK, [Next]_vars PROVE BudgetInv'
  OBVIOUS
<1>1. UNCHANGED <<calls, spent>> /\ tier' \in {tier, 0} => BudgetInv'
  BY DEF BudgetInv, VisionTypeOK, BudgetHolds
<1>2. UNCHANGED visionVars => BudgetInv'
  BY <1>1 DEF visionVars
<1>3. CASE Start
  BY <1>3, StartBudget DEF Start
<1>4. CASE MissSelector
  BY <1>4, MissBudget DEF MissSelector
<1>5. CASE Ask
  <2>1. cur \in Customer
    BY <1>5, FetchingOne DEF Ask
  <2>2. \E v \in {"missed", "found", "escalate"} : Answer(cur, v)
    BY <1>5 DEF Ask
  <2> QED BY <2>1, <2>2, AnswerBudget
<1>6. CASE DatabaseRaises \/ \E c \in Customer : CheckRaises(c)
  BY <1>1, <1>6 DEF DatabaseRaises, CheckRaises, Crash
<1>7. CASE FetchEnds \/ EndLoop \/ Report \/ Prompt \/ TimePasses
  BY <1>2, <1>7 DEF FetchEnds, EndLoop, Report, Prompt, TimePasses
<1>8. CASE \E c \in Customer : Fetch(c) \/ Add(c) \/ Disable(c) \/ Login(c) \/ FetchByHand(c)
  BY <1>2, <1>8 DEF Fetch, Add, Disable, Login, FetchByHand, Command
<1>9. CASE UNCHANGED vars
  BY <1>2, <1>9 DEF vars
<1> QED BY <1>3, <1>4, <1>5, <1>6, <1>7, <1>8, <1>9 DEF Next, Proceed

\* A fetch ends: its customer has an entry now.
LEMMA EndFetchPass ==
  ASSUME PassTypeOK, PassInv, pc = "fetching", NEW s \in RunEnd, EndFetch(s)
  PROVE  PassTypeOK' /\ PassInv'
<1>1. cur \in Customer /\ cur # None /\ cur \in listed \ todo
  BY FetchingOne DEF PassInv
<1>2. /\ pc' = "loop" /\ cur' = None
      /\ runs' = [runs EXCEPT ![cur] = IF @ = "open" THEN s ELSE @]
      /\ results' = [results EXCEPT ![cur] = s]
      /\ UNCHANGED <<customers, loggedIn, listed, todo, prompted, outcome, ops, passes, escapes>>
  BY DEF EndFetch, bounds
<1>3. runs' \in [Customer -> {"none", "open"} \cup RunEnd]
  BY <1>1, <1>2 DEF PassTypeOK
<1>4. results' \in [Customer -> {"none"} \cup RunEnd]
  BY <1>1, <1>2 DEF PassTypeOK
<1>5. PassTypeOK'
  BY <1>2, <1>3, <1>4 DEF PassTypeOK
<1>6. Reported' = Reported \cup {cur}
  BY <1>1, <1>2 DEF Reported, PassTypeOK, RunEnd
<1>7. outcome = "none" /\ Reported = (listed \ todo) \ {cur}
  BY DEF PassInv
<1>8. Reported' = (listed' \ todo') \ {cur'}
  BY <1>1, <1>2, <1>6, <1>7, NoneIsNoCustomer DEF PassTypeOK
<1> QED BY <1>2, <1>5, <1>7, <1>8 DEF PassInv, ExitCodeCoversListed

LEMMA StartPass ==
  ASSUME PassTypeOK, Start
  PROVE  PassTypeOK' /\ PassInv'
<1>1. /\ passes' \in 0 .. MaxPasses
      /\ listed' \subseteq Customer /\ todo' = listed'
      /\ results' = [c \in Customer |-> "none"]
      /\ cur' = None /\ prompted' = FALSE
      /\ UNCHANGED <<customers, runs, loggedIn, ops, escapes>>
  BY RunBounds DEF Start, ListActive, PassTypeOK, registry
<1>2. \/ listed' = {} /\ pc' = "off" /\ outcome' = "0"
      \/ pc' = "loop" /\ outcome' = "none"
  BY DEF Start
<1>3. PassTypeOK'
  BY <1>1, <1>2 DEF PassTypeOK
<1>4. \A c \in Customer : results'[c] = "none"
  BY <1>1
<1>5. Reported' = {}
  BY <1>4 DEF Reported
<1>6. ExitCodeCoversListed'
  BY <1>2, <1>4 DEF ExitCodeCoversListed
<1> QED BY <1>1, <1>2, <1>3, <1>5, <1>6 DEF PassInv

LEMMA CrashPass ==
  ASSUME PassTypeOK, Crash, escapes' \in 0 .. MaxEscapes
  PROVE  PassTypeOK' /\ PassInv'
<1>1. /\ pc' = "off" /\ outcome' = "crash" /\ cur' = None
      /\ UNCHANGED <<customers, runs, loggedIn, listed, todo, prompted, results, ops, passes>>
  BY DEF Crash, registry
<1>2. PassTypeOK'
  BY <1>1 DEF PassTypeOK
<1> QED BY <1>1, <1>2 DEF PassInv, ExitCodeCoversListed

LEMMA FetchPass ==
  ASSUME PassTypeOK, PassInv, NEW c \in Customer, Fetch(c)
  PROVE  PassTypeOK' /\ PassInv'
<1>1. /\ pc = "loop" /\ c \in todo /\ pc' = "fetching" /\ cur' = c /\ todo' = todo \ {c}
      /\ prompted' = FALSE /\ runs' = [runs EXCEPT ![c] = "open"]
      /\ UNCHANGED <<customers, loggedIn, listed, results, outcome, ops, passes, escapes>>
  BY DEF Fetch, bounds
<1>2. runs' \in [Customer -> {"none", "open"} \cup RunEnd]
  BY <1>1 DEF PassTypeOK
<1>3. c # None /\ cur = None
  BY <1>1, NoneIsNoCustomer DEF PassTypeOK
<1>4. PassTypeOK'
  BY <1>1, <1>2, <1>3 DEF PassTypeOK
<1>5. outcome = "none" /\ Reported = (listed \ todo) \ {cur}
  BY <1>1 DEF PassInv
<1>6. Reported' = Reported /\ Reported' = (listed' \ todo') \ {cur'}
  BY <1>1, <1>3, <1>5, NoneIsNoCustomer DEF Reported, PassTypeOK
<1>7. cur' \in listed' \ todo'
  BY <1>1 DEF PassTypeOK
<1> QED BY <1>1, <1>4, <1>5, <1>6, <1>7 DEF PassInv, ExitCodeCoversListed

\* The exit code: by now everybody listed has an entry.
LEMMA ReportPass ==
  ASSUME PassTypeOK, PassInv, Report
  PROVE  PassTypeOK' /\ PassInv'
<1>1. /\ pc = "reporting" /\ pc' = "off" /\ outcome' = IF Failed THEN "1" ELSE "0"
      /\ UNCHANGED <<customers, runs, loggedIn, listed, todo, cur, prompted, results,
                     ops, passes, escapes>>
  BY DEF Report, registry, bounds
<1>2. PassTypeOK'
  BY <1>1 DEF PassTypeOK
<1>3. cur = None /\ todo = {} /\ Reported = (listed \ todo) \ {cur}
  BY <1>1 DEF PassTypeOK, PassInv
<1>4. Reported = listed
  BY <1>3, NoneIsNoCustomer DEF PassTypeOK
<1>5. \A c \in Customer : results[c] # "none" <=> c \in listed
  BY <1>4 DEF Reported
<1>6. Failed <=> \E c \in Customer : results[c] = "FAILED"
  BY <1>5 DEF Failed, PassTypeOK
<1>7. ExitCodeCoversListed'
  BY <1>1, <1>5, <1>6 DEF ExitCodeCoversListed
<1> QED BY <1>1, <1>2, <1>3, <1>7 DEF PassInv

\* What people do to the registry, a prompt and the clock leave the pass alone.
LEMMA AsidePass ==
  ASSUME PassTypeOK, PassInv, UNCHANGED <<pc, listed, todo, cur, results, outcome>>,
         prompted' \in BOOLEAN,
         customers' \in [Customer -> {"unknown", "active", "disabled"}],
         runs' \in [Customer -> {"none", "open"} \cup RunEnd],
         loggedIn' \subseteq Customer,
         ops' \in 0 .. MaxOps, passes' = passes, escapes' = escapes
  PROVE  PassTypeOK' /\ PassInv'
BY DEF PassTypeOK, PassInv, Reported, ExitCodeCoversListed

LEMMA CommandPass ==
  ASSUME PassTypeOK, PassInv, NEW c \in Customer,
         Add(c) \/ Disable(c) \/ Login(c) \/ FetchByHand(c)
  PROVE  PassTypeOK' /\ PassInv'
<1>1. /\ UNCHANGED <<pc, listed, todo, cur, prompted, results, outcome, passes, escapes>>
      /\ ops' \in 0 .. MaxOps
  BY RunBounds DEF Add, Disable, Login, FetchByHand, Command, pass, PassTypeOK
<1>2. prompted' \in BOOLEAN
  BY <1>1 DEF PassTypeOK
<1>3. customers' \in [Customer -> {"unknown", "active", "disabled"}]
  BY DEF Add, Disable, Login, FetchByHand, PassTypeOK
<1>4. runs' \in [Customer -> {"none", "open"} \cup RunEnd]
  BY DEF Add, Disable, Login, FetchByHand, PassTypeOK
<1>5. loggedIn' \subseteq Customer
  BY DEF Add, Disable, Login, FetchByHand, PassTypeOK
<1> QED BY <1>1, <1>2, <1>3, <1>4, <1>5, AsidePass

LEMMA NextPass == PassTypeOK /\ PassInv /\ [Next]_vars => PassTypeOK' /\ PassInv'
<1> SUFFICES ASSUME PassTypeOK, PassInv, [Next]_vars PROVE PassTypeOK' /\ PassInv'
  OBVIOUS
<1>1. CASE Start
  BY <1>1, StartPass
<1>2. CASE \E c \in Customer : CheckRaises(c)
  BY <1>2, CrashPass DEF CheckRaises, PassTypeOK
<1>3. CASE \E c \in Customer : Fetch(c)
  BY <1>3, FetchPass
<1>4. CASE Ask
  <2>1. CASE EndFetch("FAILED")
    BY <1>4, <2>1, EndFetchPass DEF Ask, RunEnd
  <2>2. CASE UNCHANGED <<pc, registry, pass, bounds>>
    BY <2>2, AsidePass DEF registry, pass, bounds, PassTypeOK
  <2> QED BY <1>4, <2>1, <2>2 DEF Ask
<1>5. CASE FetchEnds
  BY <1>5, EndFetchPass DEF FetchEnds
<1>6. CASE EndLoop
  <2>1. /\ pc = "loop" /\ todo = {} /\ pc' = "reporting"
        /\ UNCHANGED <<customers, runs, loggedIn, listed, todo, cur, prompted, results, outcome,
                       ops, passes, escapes>>
    BY <1>6 DEF EndLoop, registry, pass, bounds
  <2> QED BY <2>1 DEF PassTypeOK, PassInv, Reported, ExitCodeCoversListed
<1>7. CASE Report
  BY <1>7, ReportPass
<1>8. CASE MissSelector \/ TimePasses
  BY <1>8, AsidePass DEF MissSelector, TimePasses, registry, pass, bounds, PassTypeOK
<1>9. CASE Prompt
  BY <1>9, AsidePass DEF Prompt, registry, bounds, PassTypeOK
<1>10. CASE DatabaseRaises
  <2>1. escapes' \in 0 .. MaxEscapes
    BY <1>10, RunBounds DEF DatabaseRaises, PassTypeOK
  <2> QED BY <1>10, <2>1, CrashPass DEF DatabaseRaises
<1>11. CASE \E c \in Customer : Add(c) \/ Disable(c) \/ Login(c) \/ FetchByHand(c)
  BY <1>11, CommandPass
<1>12. CASE UNCHANGED vars
  BY <1>12, AsidePass DEF vars, registry, pass, bounds, PassTypeOK
<1> QED BY <1>1, <1>2, <1>3, <1>4, <1>5, <1>6, <1>7, <1>8, <1>9, <1>10, <1>11, <1>12
        DEF Next, Proceed

-----------------------------------------------------------------------------
(***************************************************************************)
(* The theorems.                                                           *)
(***************************************************************************)

LEMMA InitMonth == Init => MonthInv
<1> SUFFICES ASSUME Init PROVE MonthInv
  OBVIOUS
<1>1. MailInv
  <2>1. now \in Time /\ log = <<>> /\ sent = <<>>
    BY MailBounds DEF Init, Time
  <2>2. Fits(log, sent)
    BY <2>1, NothingSent
  <2> QED BY <2>1, <2>2 DEF MailInv, HourlyLimit
<1>2. BudgetInv
  BY BudgetIsNat DEF Init, BudgetInv, VisionTypeOK, BudgetHolds
<1>3. PassTypeOK
  <2>1. customers \in [Customer -> {"unknown", "active", "disabled"}]
    <3>1. \A f \in [Customer -> {"unknown", "active"}] :
            f \in [Customer -> {"unknown", "active", "disabled"}]
      OBVIOUS
    <3> QED BY <3>1 DEF Init
  <2>2. runs \in [Customer -> {"none", "open"} \cup RunEnd]
    BY DEF Init
  <2>3. results \in [Customer -> {"none"} \cup RunEnd]
    BY DEF Init
  <2>4. pc = "off" /\ cur = None /\ prompted = FALSE /\ outcome = "none"
    BY DEF Init
  <2>5. loggedIn \subseteq Customer /\ listed \subseteq Customer /\ todo \subseteq listed
    BY DEF Init
  <2>6. ops \in 0 .. MaxOps /\ passes \in 0 .. MaxPasses /\ escapes \in 0 .. MaxEscapes
    BY RunBounds DEF Init
  <2> QED BY <2>1, <2>2, <2>3, <2>4, <2>5, <2>6 DEF PassTypeOK
<1>4. PassInv
  BY DEF Init, PassInv, ExitCodeCoversListed
<1> QED BY <1>1, <1>2, <1>3, <1>4 DEF MonthInv

LEMMA NextMonth == MonthInv /\ [Next]_vars => MonthInv'
BY NextMail, NextBudget, NextPass DEF MonthInv

LEMMA MonthInvariance == Spec => []MonthInv
BY InitMonth, NextMonth, PTL DEF Spec

\* Every variable keeps its type; in particular a pass has a current customer
\* exactly while it fetches.
THEOREM MonthTypeCorrect == Spec => []TypeOK
BY MonthInvariance, MonthTyped, PTL

\* The budget of vision calls is kept, for any number of fetches of one process
\* and any verdicts of the two models.
THEOREM BudgetIsKept == Spec => []BudgetHolds
<1>1. MonthInv => BudgetHolds
  BY DEF MonthInv, BudgetInv
<1> QED BY <1>1, MonthInvariance, PTL

\* The window slides: of any Limit + 1 mails in a row that send_email reports as
\* sent, the last left more than an hour after the first, however many mails
\* between them were dropped or failed.
THEOREM HourlyLimitIsKept == Spec => []HourlyLimit
<1>1. MonthInv => HourlyLimit
  BY DEF MonthInv, MailInv
<1> QED BY <1>1, MonthInvariance, PTL

\* The exit code of a pass that did not end with an exception accounts for
\* every customer it listed, whatever was done to the registry meanwhile.
THEOREM ExitCodeIsComplete == Spec => []ExitCodeCoversListed
<1>1. MonthInv => ExitCodeCoversListed
  BY DEF MonthInv, PassInv
<1> QED BY <1>1, MonthInvariance, PTL

-----------------------------------------------------------------------------
(***************************************************************************)
(* The limiter refuses no mail that it could let through.                  *)
(***************************************************************************)

\* With a limit above zero, a mail is within the limit exactly if the last Limit
\* mails reported as sent were not all sent within the last hour.
RefusesOnlyAtTheLimit ==
  Limit > 0 =>
    (WithinLimit <=> \/ Len(sent) < Limit
                     \/ now - sent[Len(sent) - Limit + 1] > Hour)

\* The loop drops everything that is old: what it leaves is not.
LEMMA PrunedIsRecent ==
  ASSUME MailInv
  PROVE  \A k \in 1 .. Len(Pruned) : ~Old(Pruned[k])
<1> DEFINE Cut(n) == /\ \A k \in 1 .. n : Old(log[k])
                     /\ n < Len(log) => ~Old(log[n + 1])
           d == CHOOSE n \in 0 .. Len(log) : Cut(n)
           t == now - Hour
<1>1. log \in Seq(Time) /\ Len(log) \in Nat /\ now \in Nat /\ Hour \in Nat
  BY TimeIsNat DEF MailInv, Fits
<1>2. \A k \in 1 .. Len(log) : log[k] \in Nat
  <2>1. \A k \in 1 .. Len(log) : log[k] \in Time
    BY <1>1
  <2> QED BY <2>1, TimeIsNat
<1>3. t \in Int /\ Splits(log)
  BY <1>1 DEF MailInv, Fits
<1>4. \A k \in 1 .. Len(log) : Old(log[k]) <=> log[k] < t
  BY <1>1, <1>2 DEF Old
<1> HIDE DEF t
<1>5. PICK m \in 0 .. Len(log) : \A k \in 1 .. Len(log) : log[k] < t <=> k <= m
  BY <1>3 DEF Splits
<1>6. \A k \in 1 .. Len(log) : Old(log[k]) <=> k <= m
  BY <1>4, <1>5
<1>7. Cut(m)
  BY <1>1, <1>6
<1>8. d \in 0 .. Len(log) /\ Cut(d)
  BY <1>7
<1>9. Pruned = SubSeq(log, d + 1, Len(log))
  BY DEF Pruned
<1> HIDE DEF d
<1>10. d >= m
  <2>1. SUFFICES ASSUME d < m PROVE FALSE
    BY <1>8
  <2>2. d + 1 \in 1 .. Len(log) /\ d + 1 <= m /\ d < Len(log)
    BY <1>1, <1>8, <2>1
  <2> QED BY <1>6, <1>8, <2>2
<1>11. \A i \in d + 1 .. Len(log) : log[i] \in Time
  BY <1>1, <1>8
<1>12. /\ Len(SubSeq(log, d + 1, Len(log))) = IF d + 1 <= Len(log) THEN Len(log) - (d + 1) + 1 ELSE 0
       /\ \A i \in 1 .. Len(log) - (d + 1) + 1 :
            SubSeq(log, d + 1, Len(log))[i] = log[d + 1 + i - 1]
  BY <1>1, <1>8, <1>11, SubSeqProperties
<1>13. Len(Pruned) = Len(log) - d /\ \A k \in 1 .. Len(log) - d : Pruned[k] = log[d + k]
  BY <1>1, <1>8, <1>9, <1>12
<1>14. \A k \in 1 .. Len(log) - d : d + k \in 1 .. Len(log) /\ ~(d + k <= m)
  BY <1>1, <1>8, <1>10
<1> QED BY <1>6, <1>13, <1>14

LEMMA LimiterIsExact == MailInv => RefusesOnlyAtTheLimit
<1> SUFFICES ASSUME MailInv, Limit > 0 PROVE WithinLimit <=> \/ Len(sent) < Limit
                                           \/ now - sent[Len(sent) - Limit + 1] > Hour
  BY DEF RefusesOnlyAtTheLimit
<1> DEFINE r == Pruned
           o == Len(sent)
           e == Len(sent) - Limit + 1
<1>1. Fits(r, sent)
  BY PrunedFits
<1>2. \A k \in 1 .. Len(r) : ~Old(r[k])
  BY PrunedIsRecent
<1> HIDE DEF r
<1>3. Limit \in Nat /\ o \in Nat /\ Len(r) \in Nat /\ Len(r) <= o
  BY <1>1, TimeIsNat DEF Fits
<1>4. /\ \A k \in 1 .. Len(r) : r[k] = sent[o - Len(r) + k]
      /\ \A n \in 1 .. o - Len(r) : now - sent[n] > Hour
  BY <1>1 DEF Fits
<1>5. WithinLimit <=> Len(r) < Limit
  BY DEF WithinLimit, r
<1>6. ASSUME Len(r) < Limit, ~(o < Limit) PROVE now - sent[e] > Hour
  <2>1. e \in 1 .. o - Len(r)
    BY <1>3, <1>6
  <2> QED BY <1>4, <2>1
<1>7. ASSUME ~(Len(r) < Limit) PROVE ~(o < Limit) /\ ~(now - sent[e] > Hour)
  <2> DEFINE k == Len(r) - Limit + 1
  <2>1. k \in 1 .. Len(r) /\ o - Len(r) + k = e
    BY <1>3, <1>7
  <2>2. r[k] = sent[e]
    BY <1>4, <2>1
  <2>3. ~Old(sent[e])
    BY <1>2, <2>1, <2>2
  <2> QED BY <1>3, <1>7, <2>3 DEF Old
<1> QED BY <1>5, <1>6, <1>7

\* The other half of the hourly limit: the limiter drops a mail only if Limit
\* mails were reported as sent within the last hour.  Mails that were dropped or
\* failed do not count against the later ones.
THEOREM LimitIsUsed == Spec => []RefusesOnlyAtTheLimit
<1>1. MonthInv => RefusesOnlyAtTheLimit
  BY LimiterIsExact DEF MonthInv
<1> QED BY <1>1, MonthInvariance, PTL

-----------------------------------------------------------------------------
(***************************************************************************)
(* A pass is finite: what it has left, in steps of its own.                *)
(***************************************************************************)

\* Whether b holds, as a number.
Bit(b) == IF b THEN 1 ELSE 0

\* The stages of the loop over n customers that are not reached yet.
Stages(s, n) ==
  CASE s = "off"       -> 0
    [] s = "reporting" -> 1
    [] s = "loop"      -> 2 * n + 2
    [] s = "fetching"  -> 2 * n + 3

StagesLeft == Stages(pc, Cardinality(todo))

\* A call of a model is paid for out of the budget, which no fetch refills; a
\* miss opens a question; a fetch prompts once.
PassLeft ==
  2 * StagesLeft + 2 * (MaxCalls - calls) + Bit(tier = 0) + Bit(~prompted)

LongestPass == 4 * Cardinality(Customer) + 2 * MaxCalls + 8

\* While a pass goes on it has at most LongestPass steps left, and a step of it
\* leaves fewer; the others are those of people and of the clock.
PassLeftInv == PassLeft \in 0 .. LongestPass
PassComesNearer ==
  pc # "off" => \/ PassLeft' < PassLeft
                \/ UNCHANGED <<pc, pass, visionVars>>

LEMMA StagesAre ==
  ASSUME NEW s \in {"off", "loop", "fetching", "reporting"}, NEW n \in Nat
  PROVE  /\ Stages(s, n) \in Nat /\ Stages(s, n) <= 2 * n + 3
         /\ s = "off" => Stages(s, n) = 0
         /\ s = "reporting" => Stages(s, n) = 1
         /\ s = "loop" => Stages(s, n) = 2 * n + 2
         /\ s = "fetching" => Stages(s, n) = 2 * n + 3
BY DEF Stages

\* The parts of PassLeft are numbers.
LeftParts ==
  /\ pc \in {"off", "loop", "fetching", "reporting"}
  /\ IsFiniteSet(todo) /\ Cardinality(todo) \in Nat
  /\ StagesLeft \in Nat
  /\ calls \in Nat /\ MaxCalls \in Nat
  /\ PassLeftInv

LEMMA SumFits ==
  ASSUME NEW s \in Nat, NEW n \in Nat, NEW k \in Nat, NEW m \in Nat, NEW c \in Nat,
         NEW t \in 0 .. 1, NEW q \in 0 .. 1, s <= 2 * n + 3, n <= k, m - c \in Nat
  PROVE  2 * s + 2 * (m - c) + t + q \in 0 .. 4 * k + 2 * m + 8
OBVIOUS

LEMMA LeftIs ==
  ASSUME IsFiniteSet(Customer), PassTypeOK, BudgetInv
  PROVE  LeftParts
<1>1. todo \subseteq Customer /\ IsFiniteSet(todo)
  BY FS_Subset DEF PassTypeOK
<1>2. /\ Cardinality(todo) \in Nat /\ Cardinality(Customer) \in Nat
      /\ Cardinality(todo) <= Cardinality(Customer)
  BY <1>1, FS_Subset, FS_CardinalityType
<1>3. calls \in Nat /\ MaxCalls \in Nat /\ MaxCalls - calls \in Nat
  BY BudgetIsNat DEF BudgetInv, VisionTypeOK, BudgetHolds
<1> DEFINE s == StagesLeft
<1>4. s \in Nat /\ s <= 2 * Cardinality(todo) + 3
  BY <1>2, StagesAre DEF StagesLeft, PassTypeOK
<1> DEFINE t == Bit(tier = 0)
           q == Bit(~prompted)
<1>5. t \in 0 .. 1 /\ q \in 0 .. 1
  BY DEF Bit
<1>6. PassLeft = 2 * s + 2 * (MaxCalls - calls) + t + q
  BY DEF PassLeft
<1> HIDE DEF s, t, q
<1>7. PassLeft \in 0 .. LongestPass
  BY <1>2, <1>3, <1>4, <1>5, <1>6, SumFits DEF LongestPass
<1> QED BY <1>1, <1>2, <1>3, <1>4, <1>7 DEF s, PassTypeOK, PassLeftInv, LeftParts

\* When the sum gets smaller.
LEMMA SumDrops ==
  ASSUME NEW s1 \in Nat, NEW s2 \in Nat, NEW c1 \in Nat, NEW c2 \in Nat, NEW m \in Nat,
         NEW t1 \in 0 .. 1, NEW t2 \in 0 .. 1, NEW q1 \in 0 .. 1, NEW q2 \in 0 .. 1,
         \/ s2 < s1 /\ c1 <= c2 /\ (t2 <= t1 \/ q2 <= q1)
         \/ s2 = s1 /\ c2 = c1 + 1 /\ q2 = q1
         \/ s2 = s1 /\ c2 = c1 /\ t2 + q2 < t1 + q1
  PROVE  2 * s2 + 2 * (m - c2) + t2 + q2 < 2 * s1 + 2 * (m - c1) + t1 + q1
OBVIOUS

LEMMA StepDrops ==
  ASSUME LeftParts, LeftParts',
         \/ /\ StagesLeft' < StagesLeft /\ calls' >= calls
            /\ UNCHANGED tier \/ UNCHANGED prompted \/ prompted'
         \/ StagesLeft' = StagesLeft /\ calls' = calls + 1 /\ UNCHANGED prompted
         \/ StagesLeft' = StagesLeft /\ calls' = calls /\ tier = 0 /\ tier' # 0 /\ UNCHANGED prompted
         \/ StagesLeft' = StagesLeft /\ calls' = calls /\ ~prompted /\ prompted' /\ UNCHANGED tier
  PROVE  PassLeft' < PassLeft
<1> DEFINE s1 == StagesLeft
           s2 == StagesLeft'
<1>1. s1 \in Nat /\ calls \in Nat /\ MaxCalls \in Nat
  BY DEF LeftParts
<1>2. s2 \in Nat /\ calls' \in Nat
  BY DEF LeftParts
<1> DEFINE t1 == Bit(tier = 0)
           t2 == Bit(tier' = 0)
           q1 == Bit(~prompted)
           q2 == Bit(~prompted')
<1>3. t1 \in 0 .. 1 /\ t2 \in 0 .. 1 /\ q1 \in 0 .. 1 /\ q2 \in 0 .. 1
  BY DEF Bit
<1>4. UNCHANGED tier => t2 = t1
  BY DEF Bit
<1>5. UNCHANGED prompted => q2 = q1
  BY DEF Bit
<1>6. tier = 0 /\ tier' # 0 => t1 = 1 /\ t2 = 0
  BY DEF Bit
<1>7. ~prompted /\ prompted' => q1 = 1 /\ q2 = 0
  BY DEF Bit
<1>8. prompted' => q2 = 0
  BY DEF Bit
<1>9. /\ PassLeft = 2 * s1 + 2 * (MaxCalls - calls) + t1 + q1
      /\ PassLeft' = 2 * s2 + 2 * (MaxCalls - calls') + t2 + q2
  BY DEF PassLeft
<1> HIDE DEF t1, t2, q1, q2
<1>10. \/ s2 < s1 /\ calls <= calls' /\ (t2 <= t1 \/ q2 <= q1)
       \/ s2 = s1 /\ calls' = calls + 1 /\ q2 = q1
       \/ s2 = s1 /\ calls' = calls /\ t2 + q2 < t1 + q1
  <2>1. CASE s2 < s1 /\ calls' >= calls /\ (UNCHANGED tier \/ UNCHANGED prompted \/ prompted')
    BY <1>1, <1>2, <1>3, <1>4, <1>5, <1>8, <2>1
  <2>2. CASE s2 = s1 /\ calls' = calls + 1 /\ UNCHANGED prompted
    BY <1>5, <2>2
  <2>3. CASE s2 = s1 /\ calls' = calls /\ tier = 0 /\ tier' # 0 /\ UNCHANGED prompted
    BY <1>3, <1>5, <1>6, <2>3
  <2>4. CASE s2 = s1 /\ calls' = calls /\ ~prompted /\ prompted' /\ UNCHANGED tier
    BY <1>3, <1>4, <1>7, <2>4
  <2> QED BY <2>1, <2>2, <2>3, <2>4
<1> QED BY <1>1, <1>2, <1>3, <1>9, <1>10, SumDrops

\* A fetch ends, with the budget as it is or with one call less.
LEMMA EndFetchNearer ==
  ASSUME LeftParts, LeftParts',
         pc = "fetching", NEW s, EndFetch(s), calls' >= calls
  PROVE  PassLeft' < PassLeft
<1> DEFINE n == Cardinality(todo)
           s1 == StagesLeft
           s2 == StagesLeft'
<1>1. pc' = "loop" /\ UNCHANGED <<todo, prompted>>
  BY DEF EndFetch
<1>2. n \in Nat
  BY DEF LeftParts
<1>3. s1 = 2 * n + 3 /\ s2 = 2 * n + 2
  BY <1>1, <1>2, StagesAre DEF StagesLeft
<1>4. s2 < s1
  BY <1>2, <1>3
<1> QED BY <1>1, <1>4, StepDrops

\* The loop takes one customer off its list.
LEMMA FetchNearer ==
  ASSUME LeftParts, LeftParts',
         NEW c \in Customer, Fetch(c)
  PROVE  PassLeft' < PassLeft
<1> DEFINE n == Cardinality(todo)
           s1 == StagesLeft
           s2 == StagesLeft'
<1>1. pc = "loop" /\ pc' = "fetching" /\ c \in todo /\ todo' = todo \ {c} /\ UNCHANGED <<calls, tier>>
  BY DEF Fetch, visionVars
<1>2. n \in Nat /\ calls \in Nat
  BY DEF LeftParts
<1>3. Cardinality(todo') = n - 1 /\ Cardinality(todo') \in Nat
  <2>1. IsFiniteSet(todo)
    BY DEF LeftParts
  <2>2. Cardinality(todo \ {c}) = IF c \in todo THEN Cardinality(todo) - 1 ELSE Cardinality(todo)
    BY <2>1, FS_RemoveElement
  <2>3. Cardinality(todo') \in Nat
    BY DEF LeftParts
  <2> QED BY <1>1, <2>2, <2>3
<1>4. s1 = 2 * n + 2 /\ s2 = 2 * Cardinality(todo') + 3
  BY <1>1, <1>2, <1>3, StagesAre DEF StagesLeft
<1>5. s2 < s1
  BY <1>2, <1>3, <1>4
<1> QED BY <1>1, <1>2, <1>5, StepDrops

\* The loop is through, the summary is mailed, or an exception ends the pass.
LEMMA LeaveNearer ==
  ASSUME LeftParts, LeftParts',
         UNCHANGED <<todo, calls, prompted>>,
         \/ pc = "loop" /\ pc' = "reporting"
         \/ pc # "off" /\ pc' = "off"
  PROVE  PassLeft' < PassLeft
<1> DEFINE n == Cardinality(todo)
           s1 == StagesLeft
           s2 == StagesLeft'
<1>1. n \in Nat /\ calls \in Nat
  BY DEF LeftParts
<1>2. pc \in {"off", "loop", "fetching", "reporting"}
  BY DEF LeftParts
<1>3. pc' = "off" => s2 = 0
  BY <1>1, StagesAre DEF StagesLeft
<1>4. pc' = "reporting" => s2 = 1
  BY <1>1, StagesAre DEF StagesLeft
<1>5. /\ pc = "reporting" => s1 = 1
      /\ pc = "loop" => s1 = 2 * n + 2
      /\ pc = "fetching" => s1 = 2 * n + 3
  BY <1>1, StagesAre DEF StagesLeft
<1>6. pc # "off" => s1 \in Nat /\ s1 > 0
  BY <1>1, <1>2, <1>5
<1>7. s2 < s1
  <2>1. CASE pc = "loop" /\ pc' = "reporting"
    BY <1>1, <1>4, <1>5, <2>1
  <2>2. CASE pc # "off" /\ pc' = "off"
    BY <1>3, <1>6, <2>2
  <2> QED BY <2>1, <2>2
<1> QED BY <1>1, <1>7, StepDrops

\* A question is asked or answered, or the fetch prompts, and it goes on.
LEMMA WithinFetchNearer ==
  ASSUME LeftParts, LeftParts',
         UNCHANGED <<pc, todo>>,
         \/ calls' = calls + 1 /\ UNCHANGED prompted
         \/ calls' = calls /\ tier = 0 /\ tier' # 0 /\ UNCHANGED prompted
         \/ calls' = calls /\ ~prompted /\ prompted' /\ UNCHANGED tier
  PROVE  PassLeft' < PassLeft
<1>1. StagesLeft' = StagesLeft
  BY DEF StagesLeft
<1> QED BY <1>1, StepDrops

LEMMA NextPassNearer ==
  ASSUME LeftParts, LeftParts', [Next]_vars
  PROVE  PassComesNearer
<1> SUFFICES ASSUME pc # "off", ~UNCHANGED <<pc, pass, visionVars>> PROVE PassLeft' < PassLeft
  BY DEF PassComesNearer
<1>1. calls \in Nat /\ calls' \in Nat
  BY DEF LeftParts
<1>2. CASE \E c \in Customer : CheckRaises(c)
  BY <1>2, LeaveNearer DEF CheckRaises, Crash
<1>3. CASE \E c \in Customer : Fetch(c)
  BY <1>3, FetchNearer
<1>4. CASE Ask
  <2>1. pc = "fetching"
    BY <1>4 DEF Ask
  <2>2. ASSUME Answer(cur, "missed"), EndFetch("FAILED") PROVE PassLeft' < PassLeft
    <3>1. calls' = calls + 1 \/ calls' = calls
      BY <2>2 DEF Answer
    <3>2. calls' >= calls
      BY <1>1, <3>1
    <3> QED BY <2>1, <2>2, <3>2, EndFetchNearer
  <2>3. ASSUME NEW v \in {"found", "escalate"}, Answer(cur, v), UNCHANGED <<pc, registry, pass, bounds, mailVars>>
        PROVE  PassLeft' < PassLeft
    <3>1. calls' = calls + 1
      BY <2>3 DEF Answer
    <3>2. UNCHANGED <<pc, todo, prompted>>
      BY <2>3 DEF pass
    <3> QED BY <3>1, <3>2, WithinFetchNearer
  <2> QED BY <1>4, <2>2, <2>3 DEF Ask
<1>5. CASE FetchEnds
  <2>1. pc = "fetching" /\ UNCHANGED calls /\ \E s \in RunEnd : EndFetch(s)
    BY <1>5 DEF FetchEnds, visionVars
  <2>2. calls' >= calls
    BY <1>1, <2>1
  <2> QED BY <2>1, <2>2, EndFetchNearer
<1>6. CASE EndLoop \/ Report
  <2>1. UNCHANGED <<todo, calls, prompted>>
    BY <1>6 DEF EndLoop, Report, pass, visionVars
  <2>2. \/ pc = "loop" /\ pc' = "reporting"
        \/ pc # "off" /\ pc' = "off"
    BY <1>6 DEF EndLoop, Report
  <2> QED BY <2>1, <2>2, LeaveNearer
<1>7. CASE DatabaseRaises
  BY <1>7, LeaveNearer DEF DatabaseRaises, Crash
<1>8. CASE MissSelector
  BY <1>8, WithinFetchNearer DEF MissSelector, Miss, pass
<1>9. CASE Prompt
  BY <1>9, WithinFetchNearer DEF Prompt, visionVars
<1>10. CASE TimePasses \/ UNCHANGED vars
  BY <1>10 DEF TimePasses, vars
<1>11. CASE \E c \in Customer : Add(c) \/ Disable(c) \/ Login(c) \/ FetchByHand(c)
  BY <1>11 DEF Add, Disable, Login, FetchByHand, Command
<1>12. CASE Start
  BY <1>12 DEF Start
<1> QED BY <1>2, <1>3, <1>4, <1>5, <1>6, <1>7, <1>8, <1>9, <1>10, <1>11, <1>12
        DEF Next, Proceed

\* For a registry of finitely many customers: a pass never has more than
\* LongestPass steps left, and every step of it leaves fewer, whatever the
\* models answer and whatever people do meanwhile; a pass that goes on for ever
\* would have to stand still.
THEOREM PassIsFinite ==
  ASSUME IsFiniteSet(Customer)
  PROVE  Spec => []PassLeftInv /\ [][PassComesNearer]_vars
<1>1. MonthInv => LeftParts
  BY LeftIs DEF MonthInv
<1>2. LeftParts => PassLeftInv
  BY DEF LeftParts
<1>3. LeftParts /\ LeftParts' /\ [Next]_vars => PassComesNearer
  BY NextPassNearer
<1>4. Spec => []LeftParts
  BY <1>1, MonthInvariance, PTL
<1>5. Spec => []PassLeftInv
  BY <1>2, <1>4, PTL
<1>6. Spec => [][PassComesNearer]_vars
  BY <1>3, <1>4, PTL DEF Spec
<1> QED BY <1>5, <1>6
=============================================================================
