--------------------------- MODULE MCInvoicePages ---------------------------
(***************************************************************************)
(* InvoicePages for TLC: company A has all invoices but one, which is B's. *)
(***************************************************************************)
EXTENDS InvoicePages

CONSTANTS A, B, first, theirs

OneIsTheirs == [i \in Invoice |-> IF i = theirs THEN B ELSE A]

\* At the start the keys are in the order of the invoices; later commits may
\* change them.
Position(i) == CASE i = first -> 1 [] i = theirs -> 2 [] OTHER -> 3
MCInit == Init /\ \A i \in Invoice : book[i].key \in {0, Position(i)}
MCSpec == MCInit /\ [][Next]_vars
=============================================================================
