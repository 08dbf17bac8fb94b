---------------------------- MODULE InvoicePages ----------------------------
(***************************************************************************)
(* The pages that show warehouse data: the list of invoices, its CSV       *)
(* export, one invoice (web/routes/invoices.py) and the dashboard          *)
(* (web/routes/dashboard.py).                                              *)
(*                                                                         *)
(* A request is a sequence of SELECT statements.  The sessions run under   *)
(* Postgres' READ COMMITTED, where every statement sees what is committed  *)
(* when it starts: between two statements of one page a synchronisation    *)
(* may commit, an administrator may grant or revoke a company or change    *)
(* the account.  The user's own row is loaded once, at the start.          *)
(*                                                                         *)
(* Requests only read, so one request at a time beside all those writers   *)
(* is enough.  It is made by one user with one filter; `hit` says whether  *)
(* an invoice matches the filter, `key` is its value in the sort column.   *)
(***************************************************************************)
EXTENDS Naturals, Sequences, FiniteSets

CONSTANTS
  Invoice, Company,
  Home,              \* tax_no of each invoice: the company of ours it belongs to
  None,
  PageMin, PageMax,  \* the limits of page_size (10 and 200 in the code)
  MaxKey,            \* bound: values of the sort column
  MaxChanges         \* bound: commits of others

ASSUME InvoicesAreFinite == IsFiniteSet(Invoice)
ASSUME InvoicesHaveHomes == Home \in [Invoice -> Company]
ASSUME PageLimits == PageMin \in Nat \ {0} /\ PageMax \in Nat /\ PageMin <= PageMax
ASSUME PageBounds == MaxKey \in Nat /\ MaxChanges \in Nat
ASSUME NoneIsNoInvoice == None \notin Invoice

VARIABLES
  book,      \* book[i]: the row of invoice i
  granted,   \* the companies granted to the user
  role,      \* the user's role; "gone" when the account is deleted or disabled
  kind,      \* the page requested last
  todo,      \* the statements its handler still has to execute
  me,        \* the role in the user row the handler loaded
  scope,     \* the accessible companies, as read last
  base,      \* the same, as read for the rows of the page
  cards,     \* the companies listed on the dashboard
  target,    \* the invoice asked for
  number, size, total, rows,  \* page, page_size, total_count and the rows of the list
  shown,     \* companies of which the page shows something
  allowed,   \* companies that were the user's at some time during the request
  walk,      \* how the user leafed through the list so far
  changes

warehouse == <<book, granted, role, changes>>
handler   == <<kind, todo, me, scope, base, cards, target>>
page      == <<number, size, total, rows>>
history   == <<shown, allowed, walk>>
vars == <<warehouse, handler, page, history>>

NoRow == [there |-> FALSE, hit |-> FALSE, key |-> 0]
Row   == [there : {TRUE}, hit : BOOLEAN, key : 1 .. MaxKey]

Role  == {"admin", "member"}
Scope == [all : BOOLEAN, taxnos : SUBSET Company]
Walk  == [first : SUBSET Invoice, seen : SUBSET Invoice,
          last : [Invoice -> 0 .. MaxKey], moved : BOOLEAN, grown : BOOLEAN]

Statement == {"base", "scope", "count", "aggregate", "rows", "companies", "cards",
              "export", "invoice", "guard"}

TypeOK ==
  /\ book \in [Invoice -> Row \cup {NoRow}]
  /\ granted \subseteq Company /\ role \in Role \cup {"gone"}
  /\ kind \in {"none", "list", "export", "detail", "dashboard"}
  /\ todo \in Seq(Statement)
  /\ me \in Role /\ scope \in Scope /\ base \in Scope
  /\ cards \subseteq Company /\ target \in Invoice \cup {None}
  /\ number \in Nat \ {0} /\ size \in PageMin .. PageMax
  /\ total \in 0 .. Cardinality(Invoice)
  /\ rows \subseteq Invoice /\ Cardinality(rows) <= size
  /\ shown \subseteq Company /\ allowed \subseteq Company
  /\ walk \in Walk
  /\ changes \in 0 .. MaxChanges

-----------------------------------------------------------------------------
(***************************************************************************)
(* Scope.                                                                  *)
(***************************************************************************)

\* get_user_scope_taxnos: an administrator is not restricted.
UserScope == [all |-> me = "admin", taxnos |-> IF me = "admin" THEN {} ELSE granted]
NoScope == [all |-> FALSE, taxnos |-> {}]

\* Plausible bug: an empty scope puts no condition on the statement.
InScopeUnlessEmpty(s, c) == s.all \/ s.taxnos = {} \/ c \in s.taxnos

\* The condition _apply_scope adds; with no company granted nothing matches.
InScope(s, c) == s.all \/ c \in s.taxnos

Visible(s)  == {i \in Invoice : book[i].there /\ InScope(s, Home[i])}

\* _build_filters on top of the scope.
Matching(s) == {i \in Visible(s) : book[i].hit}

Homes(S) == {Home[i] : i \in S}

\* What the administrators let the user see.
Entitled(r, g) == IF r = "admin" THEN Company ELSE g

-----------------------------------------------------------------------------
(***************************************************************************)
(* Paging.                                                                 *)
(***************************************************************************)

Least(m, n)    == IF m <= n THEN m ELSE n
Greatest(m, n) == IF m >= n THEN m ELSE n

\* Plausible bug: page 0 of a hand-written link is taken as it is.
PageNumberUnclamped(p) == p

PageNumber(p) == Greatest(1, p)
PageSize(s)   == Least(Greatest(s, PageMin), PageMax)

\* Plausible bug: the last page, which need not be full, is not counted.
TotalPagesFull(n, s) == Greatest(1, n \div s)

TotalPages(n, s) == Greatest(1, (n + s - 1) \div s)

\* B can be the first n of M in the order of the keys.  Equal keys come in any
\* order, in a different one for every statement.
IsPrefix(B, M, n) ==
  /\ Cardinality(B) = Least(n, Cardinality(M))
  /\ \A i \in B, j \in M \ B : book[i].key <= book[j].key

\* ORDER BY sort_col OFFSET offset LIMIT limit.
Slices(M, offset, limit) ==
  {S \in SUBSET M : \E A \in SUBSET (M \ S) : /\ IsPrefix(A, M, offset)
                                            /\ IsPrefix(A \cup S, M, offset + limit)}

-----------------------------------------------------------------------------
(***************************************************************************)
(* The statements of each page.                                            *)
(***************************************************************************)

\* invoices_list: the scope for the rows; count and sums, each with a scope of
\* its own; the rows; then the companies and values for the filter form.
ListScript == <<"base", "scope", "count", "scope", "aggregate", "rows",
                "scope", "companies", "scope", "aggregate", "scope", "aggregate",
                "scope", "aggregate">>

\* invoices_export_csv.
ExportScript == <<"base", "export">>

\* invoice_detail: the invoice first, then assert_can_view.
DetailScript == <<"invoice", "guard">>

\* dashboard: the companies and a card for each; trend, recent arrivals (two
\* statements), last sync, vendors, tax rates, sync health, abnormal invoices.
DashboardScript ==
  <<"scope", "companies", "cards", "scope", "aggregate", "scope", "aggregate",
    "scope", "aggregate", "scope", "aggregate", "scope", "aggregate",
    "scope", "aggregate", "scope", "aggregate", "scope", "aggregate">>

NewWalk == [first |-> {}, seen |-> {}, last |-> [i \in Invoice |-> 0],
            moved |-> FALSE, grown |-> FALSE]

Init ==
  /\ book \in [Invoice -> Row \cup {NoRow}]
  /\ granted \in SUBSET Company /\ role \in Role
  /\ kind = "none" /\ todo = <<>> /\ me = "member"
  /\ scope = NoScope /\ base = NoScope /\ cards = {} /\ target = None
  /\ number = 1 /\ size = PageMin /\ total = 0 /\ rows = {}
  /\ shown = {} /\ allowed = {} /\ walk = NewWalk
  /\ changes = 0

\* get_current_user: answered with 401 when the account is gone.
Begin(k, script) ==
  /\ todo = <<>> /\ role # "gone"
  /\ kind' = k /\ todo' = script /\ me' = role
  /\ scope' = NoScope /\ base' = NoScope /\ cards' = {}
  /\ shown' = {} /\ allowed' = Entitled(role, granted)
  /\ UNCHANGED warehouse

\* A link or a form leads to some page of the list: not part of leafing
\* through it, unless it is the first page.
OpenList ==
  /\ Begin("list", ListScript)
  /\ \E p \in 0 .. 2, s \in 0 .. PageMax + 1 :
       number' = PageNumber(p) /\ size' = PageSize(s)
  /\ total' = 0 /\ rows' = {} /\ walk' = NewWalk /\ target' = None

\* The link to the next page, which keeps filter, order and page_size; there is
\* none on the last page.
NextPage ==
  /\ kind = "list" /\ number < TotalPages(total, size)
  /\ Begin("list", ListScript)
  /\ number' = number + 1 /\ total' = 0 /\ rows' = {}
  /\ UNCHANGED <<target, size, walk>>

\* The other pages: the list and its links are gone.
NoList == number' = 1 /\ size' = PageMin /\ total' = 0 /\ rows' = {} /\ walk' = NewWalk

OpenExport    == Begin("export", ExportScript) /\ NoList /\ target' = None
OpenDashboard == Begin("dashboard", DashboardScript) /\ NoList /\ target' = None
OpenDetail(i) == Begin("detail", DetailScript) /\ NoList /\ target' = i

-----------------------------------------------------------------------------
(***************************************************************************)
(* Executing them.                                                         *)
(***************************************************************************)

Execute(st) == todo # <<>> /\ Head(todo) = st /\ todo' = Tail(todo)

\* A statement shows something of these companies.
Show(C) == shown' = shown \cup C

ReadScope ==
  /\ Execute("scope")
  /\ scope' = UserScope
  /\ UNCHANGED <<warehouse, kind, me, base, cards, target, page, history>>

ReadBase ==
  /\ Execute("base")
  /\ base' = UserScope
  /\ UNCHANGED <<warehouse, kind, me, scope, cards, target, page, history>>

Count ==
  /\ Execute("count")
  /\ total' = Cardinality(Matching(scope))
  /\ Show(Homes(Matching(scope)))
  /\ UNCHANGED <<warehouse, kind, me, scope, base, cards, target, number, size, rows,
                 allowed, walk>>

\* Sums, distinct values and statistics over invoices or sync runs in scope.
Aggregate ==
  /\ Execute("aggregate")
  /\ Show({c \in Company : InScope(scope, c)})
  /\ UNCHANGED <<warehouse, kind, me, scope, base, cards, target, page, allowed, walk>>

\* What leafing remembers: the rows there were at the start, those seen, and
\* whether rows left the result, got another key or had equal keys between one
\* page and the next, or more rows than were counted are there now.
Leafed(M) ==
  [first |-> IF number = 1 THEN M ELSE walk.first,
   seen  |-> walk.seen \cup rows',
   last  |-> [i \in Invoice |-> IF i \in M THEN book[i].key ELSE 0],
   moved |-> \/ walk.moved
             \/ \E i \in Invoice : walk.last[i] # 0 /\ (i \notin M \/ book[i].key # walk.last[i])
             \/ \E i, j \in M : i # j /\ book[i].key = book[j].key,
   grown |-> Cardinality(M) > total]

\* The rows of the page, with the scope read before the count.
Rows ==
  /\ Execute("rows")
  /\ rows' \in Slices(Matching(base), (number - 1) * size, size)
  /\ Show(Homes(rows'))
  /\ walk' = Leafed(Matching(base))
  /\ UNCHANGED <<warehouse, kind, me, scope, base, cards, target, number, size, total, allowed>>

\* All rows, for the CSV file.
Export ==
  /\ Execute("export")
  /\ Show(Homes(Matching(base)))
  /\ UNCHANGED <<warehouse, kind, me, scope, base, cards, target, page, allowed, walk>>

\* The companies of ours in scope.
Companies ==
  /\ Execute("companies")
  /\ cards' = {c \in Company : InScope(scope, c)}
  /\ Show(cards')
  /\ UNCHANGED <<warehouse, kind, me, scope, base, target, page, allowed, walk>>

\* The numbers on each card are selected by the card's company alone.
Cards ==
  /\ Execute("cards")
  /\ Show(cards)
  /\ UNCHANGED <<warehouse, kind, me, scope, base, cards, target, page, allowed, walk>>

\* The invoice with its items; without one the handler returns 404.
ReadInvoice ==
  /\ todo # <<>> /\ Head(todo) = "invoice"
  /\ todo' = IF book[target].there THEN Tail(todo) ELSE <<>>
  /\ UNCHANGED <<warehouse, kind, me, scope, base, cards, target, page, history>>

\* assert_can_view: 404 unless the invoice's company is in scope now.
Guard ==
  /\ Execute("guard")
  /\ scope' = UserScope
  /\ Show({c \in Company : c = Home[target] /\ InScope(UserScope, c)})
  /\ UNCHANGED <<warehouse, kind, me, base, cards, target, page, allowed, walk>>

-----------------------------------------------------------------------------
(***************************************************************************)
(* Commits of others.                                                      *)
(***************************************************************************)

Change == changes < MaxChanges /\ changes' = changes + 1

\* A synchronisation stores or amends an invoice (a commit of several: several
\* steps with no statement between them); invoices are never deleted.
\* (An amendment also stands for first_seen_at leaving the since_hours window.)
Ingest(i) ==
  /\ Change
  /\ book' \in {[book EXCEPT ![i] = row] : row \in Row}
  /\ UNCHANGED <<granted, role, handler, page, history>>

\* user_scope_grant, user_scope_revoke, user_update and user_delete, which
\* takes the grants along.
Administer ==
  /\ Change
  /\ \/ \E c \in Company : granted' \in {granted \cup {c}, granted \ {c}} /\ UNCHANGED role
     \/ role' \in Role \cup {"gone"} /\ granted' \in {granted, IF role' = "gone" THEN {} ELSE granted}
  /\ allowed' = allowed \cup Entitled(role', granted')
  /\ UNCHANGED <<book, handler, page, shown, walk>>

Open == OpenList \/ NextPage \/ OpenExport \/ OpenDashboard \/ \E i \in Invoice : OpenDetail(i)

Select == ReadScope \/ ReadBase \/ Count \/ Aggregate \/ Rows \/ Export \/ Companies
            \/ Cards \/ ReadInvoice \/ Guard

Next == Open \/ Select \/ Administer \/ \E i \in Invoice : Ingest(i)

Spec == Init /\ [][Next]_vars

-----------------------------------------------------------------------------
(***************************************************************************)
(* Properties.                                                             *)
(***************************************************************************)

\* A page shows data of a company only if the company was the user's at some
\* time during that request: no statement of a page runs unrestricted or with
\* the scope of an earlier request, and the detail page, which reads first and
\* asks afterwards, shows nothing before it has asked.
ShownIsGranted == shown \subseteq allowed

\* A user who leafs from the first page to the one the list calls its last has
\* seen every invoice that matched from the start, unless in between an invoice
\* left the result or changed its place, two invoices had equal keys, or rows
\* were added between the count and the rows of that last page.
MissIsExplained ==
  (kind = "list" /\ todo = <<>> /\ number >= TotalPages(total, size))
    => walk.first \subseteq walk.seen \/ walk.moved \/ walk.grown
=============================================================================
