---------------------------- MODULE ParseResponse ----------------------------
(***************************************************************************)
(* parse_response (fapiao/parser.py): from the sections of a decoded       *)
(* answer to one invoice per number, with its header and its item lines.   *)
(*                                                                         *)
(* A pass is one execution: the nightly job's, a later synchronisation     *)
(* that gets the same answer, or a replay of the archived payload.  The    *)
(* item section is read first and in order.  The header-only sections are  *)
(* the elements of a Python set of strings, whose iteration order changes  *)
(* from process to process, so each pass takes them in an order of its     *)
(* own.  A row is known by its section and position; what it holds does    *)
(* not matter except for its invoice number, which may be missing.         *)
(***************************************************************************)
EXTENDS Naturals, Sequences

CONSTANTS
  Pass,
  Id,               \* invoice numbers (SDFPHM)
  None,             \* no number
  HeaderSection,    \* HEADER_ONLY_SECTIONS
  MaxItems,         \* bound: rows of XXHZB
  MaxHeaders        \* bound: rows of a header-only section

ASSUME SectionsAreDistinct == "XXHZB" \notin HeaderSection /\ None \notin Id
ASSUME RowBounds == MaxItems \in Nat /\ MaxHeaders \in Nat

VARIABLES
  decoded, \* decoded[s]: the numbers of the rows of section s
  todo,    \* todo[p]: the header-only sections pass p has not started
  at,      \* at[p]: the section and row pass p reads next
  by,      \* by[p][i]: the section and row that gave invoice i its header
  items    \* items[p][i]: the item lines of invoice i, numbered

vars == <<decoded, todo, at, by, items>>

Section == {"XXHZB"} \cup HeaderSection
Rows(s) == IF s = "XXHZB" THEN MaxItems ELSE MaxHeaders
Place   == [section : Section, row : 1 .. MaxItems + MaxHeaders + 1]
NoPlace == [section |-> "none", row |-> 0]

\* The numbers of up to n rows.
Numbers(n) == UNION {[1 .. m -> Id \cup {None}] : m \in 0 .. n}

TypeOK ==
  /\ decoded \in [Section -> Numbers(MaxItems) \cup Numbers(MaxHeaders)]
  /\ \A s \in Section : decoded[s] \in Numbers(Rows(s))
  /\ todo  \in [Pass -> SUBSET HeaderSection]
  /\ at    \in [Pass -> Place \cup {NoPlace}]
  /\ by    \in [Pass -> [Id -> Place \cup {NoPlace}]]
  /\ items \in [Pass -> [Id -> Seq([no : 1 .. MaxItems, row : 1 .. MaxItems])]]

\* An answer with any rows; a section that is missing or null has none.
Init ==
  /\ decoded \in {d \in [Section -> Numbers(MaxItems) \cup Numbers(MaxHeaders)] :
                    \A s \in Section : d[s] \in Numbers(Rows(s))}
  /\ todo  = [p \in Pass |-> HeaderSection]
  /\ at    = [p \in Pass |-> [section |-> "XXHZB", row |-> 1]]
  /\ by    = [p \in Pass |-> [i \in Id |-> NoPlace]]
  /\ items = [p \in Pass |-> [i \in Id |-> <<>>]]

-----------------------------------------------------------------------------
Done(p)    == at[p] = NoPlace
HasRow(p)  == ~Done(p) /\ at[p].row <= Len(decoded[at[p].section])
Number(p)  == decoded[at[p].section][at[p].row]
StepRow(p) == at' = [at EXCEPT ![p].row = @ + 1]

\* A row without a number is skipped, in either kind of section.
Skip(p) ==
  /\ HasRow(p) /\ Number(p) = None
  /\ StepRow(p)
  /\ UNCHANGED <<decoded, todo, by, items>>

\* Plausible bug: item lines are numbered by their row in the section.
RowNoInSection(p, i) == at[p].row

\* Plausible bug: the counter is read before it is incremented.
RowNoFromZero(p, i) == Len(items[p][i])

\* item_row_counter: the lines of an invoice are numbered 1, 2, ...
RowNo(p, i) == Len(items[p][i]) + 1

\* Plausible bug: the last row of the section gives the header.
FirstLast(p, i) == TRUE

\* Plausible bug: a header-only section replaces what XXHZB gave.
FirstOrOther(p, i) == by[p][i] = NoPlace \/ at[p].section # "XXHZB"

\* sdfphm not in by_sdfphm.
First(p, i) == by[p][i] = NoPlace

Header(p, i) == IF First(p, i) THEN [by EXCEPT ![p][i] = at[p]] ELSE by

\* A row of XXHZB: the first of its invoice gives the header, each an item.
ItemRow(p) ==
  /\ HasRow(p) /\ Number(p) # None /\ at[p].section = "XXHZB"
  /\ LET i == Number(p)
     IN  /\ by'    = Header(p, i)
         /\ items' = [items EXCEPT ![p][i] = Append(@, [no |-> RowNo(p, i), row |-> at[p].row])]
  /\ StepRow(p)
  /\ UNCHANGED <<decoded, todo>>

\* Plausible bug: every header-only section is read until its first known row.
HeaderRowUntilKnown(p) ==
  /\ HasRow(p) /\ Number(p) # None /\ at[p].section # "XXHZB"
  /\ by' = Header(p, Number(p))
  /\ at' = [at EXCEPT ![p].row = IF First(p, Number(p)) THEN @ + 1
                                 ELSE Len(decoded[at[p].section]) + 1]
  /\ UNCHANGED <<decoded, todo, items>>

\* A row of a header-only section: a header if the invoice has none yet.
HeaderRow(p) ==
  /\ HasRow(p) /\ Number(p) # None /\ at[p].section # "XXHZB"
  /\ by' = Header(p, Number(p))
  /\ StepRow(p)
  /\ UNCHANGED <<decoded, todo, items>>

\* The section is read: on to any other, or the pass is through.
NextSection(p) ==
  /\ ~Done(p) /\ ~HasRow(p)
  /\ \/ \E s \in todo[p] : /\ at'   = [at EXCEPT ![p] = [section |-> s, row |-> 1]]
                           /\ todo' = [todo EXCEPT ![p] = @ \ {s}]
     \/ todo[p] = {} /\ at' = [at EXCEPT ![p] = NoPlace] /\ UNCHANGED todo
  /\ UNCHANGED <<decoded, by, items>>

Next == \E p \in Pass : Skip(p) \/ ItemRow(p) \/ HeaderRow(p) \/ NextSection(p)

Spec == Init /\ [][Next]_vars

-----------------------------------------------------------------------------
(***************************************************************************)
(* What the result is, without the loops.                                  *)
(***************************************************************************)

\* The rows of section s that are about invoice i.
RowsOf(s, i) == {n \in DOMAIN decoded[s] : decoded[s][n] = i}

\* The item lines of an invoice are all its rows of XXHZB, in their order and
\* numbered without gaps (row_no is unique per invoice in the schema).
ItemsAreItsRows ==
  \A p \in Pass : Done(p) => \A i \in Id :
    /\ {items[p][i][n].row : n \in DOMAIN items[p][i]} = RowsOf("XXHZB", i)
    /\ \A n \in DOMAIN items[p][i] :
         /\ items[p][i][n].no = n
         /\ n > 1 => items[p][i][n - 1].row < items[p][i][n].row

\* An invoice listed in XXHZB takes its header from its first row there, whatever
\* the other sections say; any other from the first row of a section naming it.
HeaderIsFirstRow ==
  \A p \in Pass : Done(p) => \A i \in Id : by[p][i] # NoPlace =>
    /\ RowsOf("XXHZB", i) # {} => by[p][i].section = "XXHZB"
    /\ by[p][i].row \in RowsOf(by[p][i].section, i)
    /\ \A n \in RowsOf(by[p][i].section, i) : by[p][i].row <= n

\* Every invoice named anywhere in the answer is returned, and no other.
NothingLost ==
  \A p \in Pass : Done(p) => \A i \in Id :
    by[p][i] # NoPlace <=> \E s \in Section : RowsOf(s, i) # {}

\* What a finished pass returns is the answer's invoices, no more and no fewer,
\* each with the header and the item lines that the answer's rows give it.
ParsedIsAnswer == ItemsAreItsRows /\ HeaderIsFirstRow /\ NothingLost

\* Two passes over one answer give the same invoices and the same items, and
\* the same headers except for invoices that several header-only sections list.
PassesAgree ==
  \A p, q \in Pass : Done(p) /\ Done(q) =>
    /\ items[p] = items[q]
    /\ \A i \in Id :
         by[p][i] # by[q][i] =>
           /\ RowsOf("XXHZB", i) = {}
           /\ by[p][i] # NoPlace /\ by[q][i] # NoPlace
           /\ by[p][i].section # by[q][i].section
=============================================================================
