------------------------------ MODULE SyncLedger ------------------------------
(***************************************************************************)
(* What the warehouse synchronisation promises its readers, without        *)
(* transactions, locks or processes.  A sync run of a company and a        *)
(* direction is opened; then either the vendor's answer is archived and    *)
(* stored in one step, all of it, or the run fails and nothing is stored,  *)
(* or the run is lost and nothing is stored.  An answer without item lines *)
(* leaves the items of an invoice as they were.                            *)
(***************************************************************************)
CONSTANTS SyncRun, Company, Kind, Invoice, Version, None

VARIABLES stage,   \* stage[r]: how far sync run r has come
          subject, \* subject[r]: the company and direction of run r
          raw,     \* raw[r]: the answers archived for run r
          book     \* book[k, i]: version, run and items stored for invoice i

vars == <<stage, subject, raw, book>>

Line == [inv : Invoice, ver : Version, full : BOOLEAN]

Init == /\ stage   = [r \in SyncRun |-> "none"]
        /\ subject = [r \in SyncRun |-> <<None, None>>]
        /\ raw     = [r \in SyncRun |-> {}]
        /\ book    = [e \in Kind \X Invoice |-> [ver |-> 0, run |-> 0, items |-> {}]]

Open(r) ==
  /\ stage[r] = "none"
  /\ stage' = [stage EXCEPT ![r] = "open"]
  /\ \E s \in Company \X Kind : subject' = [subject EXCEPT ![r] = s]
  /\ UNCHANGED <<raw, book>>

\* What is stored of an invoice after run r stored line l of it.
Entry(r, l, old) ==
  [ver |-> l.ver, run |-> r, items |-> IF l.full THEN {l.ver} ELSE old.items]

\* Lines of one answer are about different invoices.
Answer(lines) == \A l, m \in lines : l.inv = m.inv => l = m

Apply(r) ==
  /\ stage[r] = "open"
  /\ stage' = [stage EXCEPT ![r] = "success"]
  /\ \E lines \in SUBSET Line :
       /\ Answer(lines)
       /\ raw'  = [raw EXCEPT ![r] = {lines}]
       /\ book' = [e \in Kind \X Invoice |->
                    IF e[1] = subject[r][2] /\ \E l \in lines : l.inv = e[2]
                    THEN Entry(r, CHOOSE l \in lines : l.inv = e[2], book[e])
                    ELSE book[e]]
  /\ UNCHANGED subject

Fail(r) ==
  /\ stage[r] = "open"
  /\ stage' = [stage EXCEPT ![r] = "failed"]
  /\ UNCHANGED <<subject, raw, book>>

Lose(r) ==
  /\ stage[r] = "open"
  /\ stage' = [stage EXCEPT ![r] = "lost"]
  /\ UNCHANGED <<subject, raw, book>>

Next == \E r \in SyncRun : Open(r) \/ Apply(r) \/ Fail(r) \/ Lose(r)

Spec == Init /\ [][Next]_vars
=============================================================================
