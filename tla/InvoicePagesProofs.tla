------------------------- MODULE InvoicePagesProofs -------------------------
(***************************************************************************)
(* Proofs about InvoicePages for any warehouse, page size and number of    *)
(* commits of others.                                                      *)
(*                                                                         *)
(* What a page shows: whatever scope a handler holds was read during the   *)
(* present request (ScopeInv).  Leafing: once the rows of page k are read, *)
(* every invoice that was there at the start and has fewer than            *)
(* k * page_size invoices before it has been seen (LeafInv); invoices that *)
(* come in only push others further back.                                  *)
(***************************************************************************)
EXTENDS InvoicePages, FiniteSetTheorems, SequenceTheorems, TLAPS

-----------------------------------------------------------------------------
(***************************************************************************)
(* The scope of a request.                                                 *)
(***************************************************************************)

\* A scope s gives nothing but what was the user's during the request.
Within(s) == (s.all => allowed = Company) /\ s.taxnos \subseteq allowed

\* The variables that the scope depends on.
ScopeTyped ==
  /\ granted \subseteq Company /\ allowed \subseteq Company /\ cards \subseteq Company

ScopeInv ==
  /\ ScopeTyped
  /\ me = "admin" => allowed = Company
  /\ todo # <<>> => granted \subseteq allowed
  /\ Within(scope) /\ Within(base)
  /\ cards \subseteq allowed /\ shown \subseteq allowed

LEMMA UserScopeWithin ==
  ASSUME ScopeInv, todo # <<>>
  PROVE  Within(UserScope)
BY DEF ScopeInv, Within, UserScope

LEMMA InScopeAllowed ==
  ASSUME NEW s, Within(s), NEW c \in Company, InScope(s, c)
  PROVE  c \in allowed
BY DEF Within, InScope

LEMMA MatchingAllowed ==
  ASSUME NEW s, Within(s)
  PROVE  Homes(Matching(s)) \subseteq allowed
BY InScopeAllowed, InvoicesHaveHomes DEF Homes, Matching, Visible

LEMMA SliceOf ==
  ASSUME NEW M, NEW o, NEW l, NEW S \in Slices(M, o, l)
  PROVE  S \subseteq M
BY DEF Slices

LEMMA InitScope == Init => ScopeInv
BY DEF Init, ScopeInv, ScopeTyped, Within, NoScope

\* A request starts with what is the user's now.
LEMMA BeginScope ==
  ASSUME ScopeInv, NEW k, NEW script, Begin(k, script)
  PROVE  ScopeInv'
<1>1. allowed' = Entitled(role, granted) /\ me' = role
  BY DEF Begin
<1>2. granted \subseteq Company /\ UNCHANGED granted
  BY DEF Begin, warehouse, ScopeInv, ScopeTyped
<1>3. allowed' \subseteq Company /\ granted \subseteq allowed' /\ (me' = "admin" => allowed' = Company)
  BY <1>1, <1>2 DEF Entitled
<1> QED BY <1>2, <1>3 DEF Begin, ScopeInv, ScopeTyped, Within, NoScope

\* A statement shows what its scope allows.
LEMMA SelectScope ==
  ASSUME ScopeInv, Select
  PROVE  ScopeInv'
<1>1. UNCHANGED <<granted, me, allowed>> /\ todo # <<>>
  BY DEF Select, ReadScope, ReadBase, Count, Aggregate, Rows, Export, Companies, Cards,
         ReadInvoice, Guard, Execute, warehouse, history
<1>2. \A s : Within(s) => (s.all => allowed' = Company) /\ s.taxnos \subseteq allowed'
  BY <1>1 DEF Within
<1>3. ASSUME UNCHANGED <<scope, base, cards>>, shown' \subseteq allowed
      PROVE  ScopeInv'
  BY <1>1, <1>3 DEF ScopeInv, ScopeTyped, Within
<1>4. CASE ReadScope
  <2>1. Within(UserScope) /\ scope' = UserScope /\ UNCHANGED <<base, cards, shown>>
    BY <1>1, <1>4, UserScopeWithin DEF ReadScope, history
  <2> QED BY <1>1, <2>1 DEF ScopeInv, ScopeTyped, Within
<1>5. CASE ReadBase
  <2>1. Within(UserScope) /\ base' = UserScope /\ UNCHANGED <<scope, cards, shown>>
    BY <1>1, <1>5, UserScopeWithin DEF ReadBase, history
  <2> QED BY <1>1, <2>1 DEF ScopeInv, ScopeTyped, Within
<1>6. CASE Count
  BY <1>3, <1>6, MatchingAllowed DEF Count, Show, ScopeInv
<1>7. CASE Aggregate
  BY <1>3, <1>7, InScopeAllowed DEF Aggregate, Show, ScopeInv
<1>8. CASE Rows
  <2>1. Homes(rows') \subseteq Homes(Matching(base))
    BY <1>8, SliceOf DEF Rows, Homes
  <2> QED BY <1>3, <1>8, <2>1, MatchingAllowed DEF Rows, Show, ScopeInv
<1>9. CASE Export
  BY <1>3, <1>9, MatchingAllowed DEF Export, Show, ScopeInv
<1>10. CASE Companies
  <2>1. cards' \subseteq allowed /\ cards' \subseteq Company /\ UNCHANGED <<scope, base>>
    BY <1>10, InScopeAllowed DEF Companies, ScopeInv
  <2>2. shown' \subseteq allowed
    BY <1>10, <2>1 DEF Companies, Show, ScopeInv
  <2> QED BY <1>1, <2>1, <2>2 DEF ScopeInv, ScopeTyped, Within
<1>11. CASE Cards
  BY <1>3, <1>11 DEF Cards, Show, ScopeInv
<1>12. CASE ReadInvoice
  BY <1>3, <1>12 DEF ReadInvoice, history, ScopeInv
<1>13. CASE Guard
  <2>1. Within(UserScope) /\ scope' = UserScope /\ UNCHANGED <<base, cards>>
    BY <1>1, <1>13, UserScopeWithin DEF Guard
  <2>2. shown' \subseteq allowed
    BY <1>13, <2>1, InScopeAllowed DEF Guard, Show, ScopeInv
  <2> QED BY <1>1, <2>1, <2>2 DEF ScopeInv, ScopeTyped, Within
<1> QED BY <1>4, <1>5, <1>6, <1>7, <1>8, <1>9, <1>10, <1>11, <1>12, <1>13 DEF Select

\* Whatever an administrator takes away during a request was the user's before.
LEMMA AdministerScope ==
  ASSUME ScopeInv, Administer
  PROVE  ScopeInv'
<1>1. granted' \subseteq Company
  BY DEF Administer, ScopeInv, ScopeTyped
<1>2. allowed' = allowed \cup Entitled(role', granted') /\ UNCHANGED <<handler, shown>>
  BY DEF Administer
<1>3. allowed \subseteq allowed' /\ allowed' \subseteq Company /\ granted' \subseteq allowed'
  BY <1>1, <1>2 DEF Entitled, ScopeInv, ScopeTyped
<1> QED BY <1>1, <1>2, <1>3 DEF ScopeInv, ScopeTyped, Within, handler

LEMMA NextScope == ScopeInv /\ [Next]_vars => ScopeInv'
<1> SUFFICES ASSUME ScopeInv, [Next]_vars PROVE ScopeInv'
  OBVIOUS
<1>1. CASE Open
  BY <1>1, BeginScope DEF Open, OpenList, NextPage, OpenExport, OpenDashboard, OpenDetail
<1>2. CASE Select
  BY <1>2, SelectScope
<1>3. CASE Administer
  BY <1>3, AdministerScope
<1>4. ASSUME NEW i \in Invoice, Ingest(i) PROVE ScopeInv'
  BY <1>4 DEF Ingest, handler, history, ScopeInv, ScopeTyped, Within
<1>5. CASE UNCHANGED vars
  BY <1>5 DEF vars, warehouse, handler, history, ScopeInv, ScopeTyped, Within
<1> QED BY <1>1, <1>2, <1>3, <1>4, <1>5 DEF Next

\* A page shows something of a company only if the company was the user's at
\* some time during that request.
THEOREM PagesShowWhatIsGranted == Spec => []ShownIsGranted
<1>1. ScopeInv => ShownIsGranted
  BY DEF ScopeInv, ShownIsGranted
<1> QED BY <1>1, InitScope, NextScope, PTL DEF Spec
-----------------------------------------------------------------------------
(***************************************************************************)
(* Types, and the sizes of slices.                                         *)
(***************************************************************************)

LEMMA SizeOfSubset ==
  ASSUME NEW M \in SUBSET Invoice
  PROVE  IsFiniteSet(M) /\ Cardinality(M) \in 0 .. Cardinality(Invoice)
BY InvoicesAreFinite, FS_Subset, FS_CardinalityType

LEMMA SliceSmall ==
  ASSUME NEW M \in SUBSET Invoice, NEW o \in Nat, NEW l \in Nat, NEW S \in Slices(M, o, l)
  PROVE  Cardinality(S) <= l
<1>1. PICK A \in SUBSET (M \ S) : IsPrefix(A, M, o) /\ IsPrefix(A \cup S, M, o + l)
  BY DEF Slices
<1>2. /\ Cardinality(A) = Least(o, Cardinality(M))
      /\ Cardinality(A \cup S) = Least(o + l, Cardinality(M))
  BY <1>1 DEF IsPrefix
<1>3. S \in SUBSET Invoice /\ A \in SUBSET Invoice /\ A \cap S = {}
  BY SliceOf
<1>4. IsFiniteSet(A) /\ IsFiniteSet(S) /\ Cardinality(S) \in Nat /\ Cardinality(M) \in Nat
  BY <1>3, SizeOfSubset, InvoicesAreFinite, FS_CardinalityType
<1>5. Cardinality(A \cup S) = Cardinality(A) + Cardinality(S)
  BY <1>3, <1>4, FS_Union, FS_EmptySet
<1> QED BY <1>2, <1>4, <1>5 DEF Least

LEMMA SizesTyped ==
  /\ \A s \in Int : PageSize(s) \in PageMin .. PageMax
  /\ \A p \in Int : PageNumber(p) \in Nat \ {0}
  /\ PageMin \in PageMin .. PageMax
  /\ \A s \in PageMin .. PageMax : s \in Nat \ {0}
BY PageLimits DEF PageSize, PageNumber, Least, Greatest

LEMMA ScriptsTyped ==
  /\ ListScript \in Seq(Statement) /\ ExportScript \in Seq(Statement)
  /\ DetailScript \in Seq(Statement) /\ DashboardScript \in Seq(Statement)
BY DEF ListScript, ExportScript, DetailScript, DashboardScript, Statement

LEMMA NewWalkTyped == NewWalk \in Walk
BY PageBounds DEF NewWalk, Walk

LEMMA InitTyped == Init => TypeOK
<1> SUFFICES ASSUME Init PROVE TypeOK
  OBVIOUS
<1>1. rows \subseteq Invoice /\ Cardinality(rows) <= size /\ total \in 0 .. Cardinality(Invoice)
  BY InvoicesAreFinite, FS_EmptySet, FS_CardinalityType, PageLimits DEF Init
<1>2. todo \in Seq(Statement)
  BY DEF Init
<1>3. me \in Role /\ scope \in Scope /\ base \in Scope /\ role \in Role
  BY DEF Init, Role, NoScope, Scope
<1>4. walk \in Walk /\ size \in PageMin .. PageMax /\ changes \in 0 .. MaxChanges
  BY SizesTyped, NewWalkTyped, PageBounds DEF Init
<1> QED BY <1>1, <1>2, <1>3, <1>4 DEF Init, TypeOK

LEMMA BeginTyped ==
  ASSUME TypeOK, NEW k \in {"list", "export", "detail", "dashboard"},
         NEW script \in Seq(Statement), Begin(k, script),
         target' \in Invoice \cup {None}, number' \in Nat \ {0}, size' \in PageMin .. PageMax,
         total' = 0, rows' = {}, walk' \in Walk
  PROVE  TypeOK'
<1>1. total' \in 0 .. Cardinality(Invoice) /\ Cardinality(rows') <= size'
  BY InvoicesAreFinite, FS_EmptySet, FS_CardinalityType, PageLimits
<1>2. allowed' \subseteq Company /\ me' \in Role
  BY DEF Begin, TypeOK, Entitled, Role
<1> QED BY <1>1, <1>2 DEF Begin, TypeOK, warehouse, NoScope, Scope

LEMMA OpenTyped ==
  ASSUME TypeOK, Open
  PROVE  TypeOK'
<1>1. CASE OpenList
  <2>1. 0 .. 2 \subseteq Int /\ 0 .. PageMax + 1 \subseteq Int
    BY PageLimits
  <2>2. number' \in Nat \ {0} /\ size' \in PageMin .. PageMax
    BY <1>1, <2>1, SizesTyped DEF OpenList
  <2> QED BY <1>1, <2>2, BeginTyped, ScriptsTyped, NewWalkTyped DEF OpenList
<1>2. CASE NextPage
  <2>1. number' \in Nat \ {0}
    BY <1>2 DEF NextPage, TypeOK
  <2> QED BY <1>2, <2>1, BeginTyped, ScriptsTyped DEF NextPage, TypeOK
<1>3. ASSUME NEW k \in {"export", "detail", "dashboard"}, NEW script \in Seq(Statement),
             Begin(k, script), NoList, target' \in Invoice \cup {None}
      PROVE  TypeOK'
  <2>1. /\ number' \in Nat \ {0} /\ size' \in PageMin .. PageMax
        /\ total' = 0 /\ rows' = {} /\ walk' \in Walk
    BY <1>3, SizesTyped, NewWalkTyped DEF NoList
  <2> QED BY <1>3, <2>1, BeginTyped
<1> QED BY <1>1, <1>2, <1>3, ScriptsTyped DEF Open, OpenExport, OpenDashboard, OpenDetail

\* What leafing remembers of a result of existing invoices.
LEMMA LeafedTyped ==
  ASSUME TypeOK, NEW M \in SUBSET Invoice, rows' \in SUBSET Invoice,
         \A i \in M : book[i] \in Row
  PROVE  Leafed(M) \in Walk
<1>1. \A i \in M : book[i].key \in 0 .. MaxKey
  <2>1. \A row \in Row : row.key \in 0 .. MaxKey
    BY PageBounds DEF Row
  <2> QED BY <2>1
<1>2. [i \in Invoice |-> IF i \in M THEN book[i].key ELSE 0] \in [Invoice -> 0 .. MaxKey]
  BY <1>1, PageBounds
<1>3. walk.first \subseteq Invoice /\ walk.seen \subseteq Invoice /\ walk.moved \in BOOLEAN
  BY DEF TypeOK, Walk
<1>4. /\ (IF number = 1 THEN M ELSE walk.first) \in SUBSET Invoice
      /\ walk.seen \cup rows' \in SUBSET Invoice
  BY <1>3
<1> QED BY <1>2, <1>3, <1>4 DEF Leafed, Walk

LEMMA MatchingRows ==
  ASSUME TypeOK, NEW s
  PROVE  Matching(s) \in SUBSET Invoice /\ \A i \in Matching(s) : book[i] \in Row
BY DEF Matching, Visible, TypeOK, NoRow

LEMMA SelectTyped ==
  ASSUME TypeOK, Select
  PROVE  TypeOK'
<1>1. UNCHANGED <<warehouse, kind, me, target, number, size, allowed>>
  BY DEF Select, ReadScope, ReadBase, Count, Aggregate, Rows, Export, Companies, Cards,
         ReadInvoice, Guard, warehouse, history, page
<1>2. todo' \in Seq(Statement)
  <2>1. todo # <<>> /\ (todo' = Tail(todo) \/ todo' = <<>>)
    BY DEF Select, ReadScope, ReadBase, Count, Aggregate, Rows, Export, Companies, Cards,
           ReadInvoice, Guard, Execute
  <2>2. todo \in Seq(Statement)
    BY DEF TypeOK
  <2>3. Tail(todo) \in Seq(Statement)
    BY <2>1, <2>2, HeadTailProperties
  <2>4. << >> \in Seq(Statement)
    OBVIOUS
  <2> QED BY <2>1, <2>3, <2>4
<1>3. scope' \in Scope /\ base' \in Scope
  <2>1. UserScope \in Scope
    BY DEF TypeOK, UserScope, Scope
  <2>2. scope' \in {scope, UserScope} /\ base' \in {base, UserScope}
    BY DEF Select, ReadScope, ReadBase, Count, Aggregate, Rows, Export, Companies, Cards,
           ReadInvoice, Guard
  <2> QED BY <2>1, <2>2 DEF TypeOK
<1>4. shown' \subseteq Company /\ cards' \subseteq Company
  <2>1. \A M \in SUBSET Invoice : Homes(M) \subseteq Company
    BY InvoicesHaveHomes DEF Homes
  <2>2. rows' \subseteq Matching(base) \/ UNCHANGED shown \/ ~Rows
    BY SliceOf DEF Rows
  <2> QED BY <2>1, <2>2, MatchingRows
          DEF Select, ReadScope, ReadBase, Count, Aggregate, Rows, Export, Companies, Cards,
              ReadInvoice, Guard, Show, history, TypeOK
<1>5. total' \in 0 .. Cardinality(Invoice)
  <2>1. total' = total \/ total' = Cardinality(Matching(scope))
    BY DEF Select, ReadScope, ReadBase, Count, Aggregate, Rows, Export, Companies, Cards,
           ReadInvoice, Guard, page
  <2> QED BY <2>1, MatchingRows, SizeOfSubset DEF TypeOK
<1>6. rows' \subseteq Invoice /\ Cardinality(rows') <= size' /\ walk' \in Walk
  <2>1. CASE UNCHANGED <<rows, walk>>
    BY <1>1, <2>1 DEF TypeOK
  <2>2. CASE Rows
    <3> DEFINE o == (number - 1) * size
               M == Matching(base)
    <3>1. o \in Nat /\ size \in Nat
      BY PageLimits DEF TypeOK
    <3>2. rows' \in Slices(M, o, size) /\ walk' = Leafed(M)
      BY <2>2 DEF Rows
    <3>3. M \in SUBSET Invoice /\ \A i \in M : book[i] \in Row
      BY MatchingRows
    <3> HIDE DEF M, o
    <3>4. rows' \subseteq Invoice /\ Cardinality(rows') <= size
      BY <3>1, <3>2, <3>3, SliceOf, SliceSmall
    <3>5. walk' \in Walk
      BY <3>2, <3>3, <3>4, LeafedTyped
    <3> QED BY <1>1, <3>4, <3>5
  <2> QED BY <2>1, <2>2 DEF Select, ReadScope, ReadBase, Count, Aggregate, Export, Companies,
                            Cards, ReadInvoice, Guard, history, page
<1> QED BY <1>1, <1>2, <1>3, <1>4, <1>5, <1>6 DEF TypeOK, warehouse

LEMMA ChangeTyped ==
  ASSUME TypeOK, Administer \/ \E i \in Invoice : Ingest(i)
  PROVE  TypeOK'
<1>1. changes' \in 0 .. MaxChanges
  BY PageBounds DEF Administer, Ingest, Change, TypeOK
<1>2. CASE Administer
  <2>1. granted' \subseteq Company /\ role' \in Role \cup {"gone"} /\ allowed' \subseteq Company
    BY <1>2 DEF Administer, TypeOK, Entitled
  <2> QED BY <1>1, <1>2, <2>1 DEF Administer, handler, page, TypeOK
<1>3. ASSUME NEW i \in Invoice, Ingest(i) PROVE TypeOK'
  <2>1. book' \in [Invoice -> Row \cup {NoRow}]
    BY <1>3 DEF Ingest, TypeOK
  <2> QED BY <1>1, <1>3, <2>1 DEF Ingest, handler, page, history, TypeOK
<1> QED BY <1>2, <1>3

LEMMA NextTyped == TypeOK /\ [Next]_vars => TypeOK'
<1>1. TypeOK /\ UNCHANGED vars => TypeOK'
  BY DEF vars, warehouse, handler, page, history, TypeOK
<1> QED BY <1>1, OpenTyped, SelectTyped, ChangeTyped DEF Next

\* Every variable keeps its type: in particular no page is longer than page_size.
THEOREM PagesTyped == Spec => []TypeOK
BY InitTyped, NextTyped, PTL DEF Spec

-----------------------------------------------------------------------------
(***************************************************************************)
(* Leafing through the list.                                               *)
(***************************************************************************)

\* The statements that remain are the last ones of the list page.
ScriptInv ==
  kind = "list" => /\ Len(todo) <= 14
                   /\ \A m \in 1 .. Len(todo) : todo[m] = ListScript[14 - Len(todo) + m]

\* The rows of the page have been read; pages whose rows have been.
RowsRead == Len(todo) <= 8
Pages    == IF RowsRead THEN number ELSE number - 1

\* The result as it was when rows were read last, and what comes before i in it.
Listed    == {i \in Invoice : walk.last[i] # 0}
Before(i) == {j \in Listed : walk.last[j] < walk.last[i]}

LeafInv ==
  kind = "list" /\ ~walk.moved =>
    /\ walk.first \subseteq Listed
    /\ \A i \in walk.first : Cardinality(Before(i)) < Pages * size => i \in walk.seen
    /\ RowsRead /\ ~walk.grown => Cardinality(Listed) <= total

PagesInv == TypeOK /\ ScriptInv /\ LeafInv

\* The invoices of M whose key is lower than i's, and the keys that are one
\* invoice's only.
Lower(M, i)  == {j \in M : book[j].key < book[i].key}
Distinct(M)  == \A i, j \in M : i # j => book[i].key # book[j].key
Numbered(M)  == M \in SUBSET Invoice /\ \A i \in M : book[i].key \in Nat \ {0}

\* An invoice with fewer than n before it is among the first n.
LEMMA AmongFirst ==
  ASSUME NEW M, Numbered(M), Distinct(M), NEW n \in Nat, NEW B \in SUBSET M, IsPrefix(B, M, n),
         NEW i \in M, Cardinality(Lower(M, i)) < n
  PROVE  i \in B
<1> SUFFICES ASSUME i \notin B PROVE FALSE
  OBVIOUS
<1>1. B \in SUBSET Lower(M, i)
  <2>1. ASSUME NEW b \in B PROVE book[b].key < book[i].key
    <3>1. book[b].key <= book[i].key /\ b # i
      BY DEF IsPrefix
    <3>2. book[b].key # book[i].key /\ book[b].key \in Nat /\ book[i].key \in Nat
      BY <3>1 DEF Distinct, Numbered
    <3> QED BY <3>1, <3>2
  <2> QED BY <2>1 DEF Lower
<1>2. /\ IsFiniteSet(M) /\ IsFiniteSet(Lower(M, i)) /\ Cardinality(M) \in Nat
      /\ Cardinality(Lower(M, i)) \in Nat /\ Cardinality(B) <= Cardinality(Lower(M, i))
  <2>1. Lower(M, i) \in SUBSET Invoice /\ M \in SUBSET Invoice
    BY DEF Lower, Numbered
  <2>2. IsFiniteSet(M) /\ IsFiniteSet(Lower(M, i))
    BY <2>1, SizeOfSubset
  <2>3. Cardinality(M) \in Nat /\ Cardinality(Lower(M, i)) \in Nat
    BY <2>2, FS_CardinalityType
  <2>4. Cardinality(B) <= Cardinality(Lower(M, i))
    BY <1>1, <2>2, FS_Subset
  <2> QED BY <2>2, <2>3, <2>4
<1>3. Cardinality(B) = Cardinality(M)
  BY <1>2 DEF IsPrefix, Least
<1>4. B = M
  BY <1>2, <1>3, FS_Subset
<1> QED BY <1>4

\* One with n or more before it is not.
LEMMA NotAmongFirst ==
  ASSUME NEW M, Numbered(M), NEW n \in Nat, NEW B \in SUBSET M, IsPrefix(B, M, n),
         NEW i \in M, Cardinality(Lower(M, i)) >= n
  PROVE  i \notin B
<1> SUFFICES ASSUME i \in B PROVE FALSE
  OBVIOUS
<1>1. Lower(M, i) \cup {i} \in SUBSET B
  <2>1. ASSUME NEW j \in Lower(M, i), j \notin B PROVE FALSE
    <3>1. j \in M /\ book[j].key < book[i].key
      BY DEF Lower
    <3>2. book[i].key <= book[j].key
      BY <2>1, <3>1 DEF IsPrefix
    <3>3. book[i].key \in Nat /\ book[j].key \in Nat
      BY <3>1 DEF Numbered
    <3> QED BY <3>1, <3>2, <3>3
  <2> QED BY <2>1
<1>2. /\ IsFiniteSet(B) /\ IsFiniteSet(Lower(M, i)) /\ Cardinality(M) \in Nat
      /\ Cardinality(Lower(M, i)) \in Nat /\ Cardinality(B) \in Nat
  <2>1. Lower(M, i) \in SUBSET Invoice /\ M \in SUBSET Invoice /\ B \in SUBSET Invoice
    BY DEF Lower, Numbered
  <2> QED BY <2>1, SizeOfSubset, FS_CardinalityType
<1>3. Cardinality(Lower(M, i) \cup {i}) = Cardinality(Lower(M, i)) + 1
  <2>1. i \notin Lower(M, i)
    BY DEF Lower, Numbered
  <2> QED BY <1>2, <2>1, FS_AddElement
<1>4. Cardinality(Lower(M, i)) + 1 <= Cardinality(B)
  BY <1>1, <1>2, <1>3, FS_Subset
<1>5. Cardinality(B) <= n
  BY <1>2 DEF IsPrefix, Least
<1> QED BY <1>2, <1>4, <1>5

\* So the page at an offset has every invoice whose place is on it.
LEMMA OnThePage ==
  ASSUME NEW M, Numbered(M), Distinct(M), NEW o \in Nat, NEW l \in Nat, NEW S \in Slices(M, o, l),
         NEW i \in M, Cardinality(Lower(M, i)) >= o, Cardinality(Lower(M, i)) < o + l
  PROVE  i \in S
<1>1. PICK A \in SUBSET (M \ S) : IsPrefix(A, M, o) /\ IsPrefix(A \cup S, M, o + l)
  BY DEF Slices
<1>2. A \in SUBSET M /\ A \cup S \in SUBSET M
  BY SliceOf
<1>3. i \notin A
  BY <1>1, <1>2, NotAmongFirst
<1>4. o + l \in Nat
  OBVIOUS
<1>5. i \in A \cup S
  BY <1>1, <1>2, <1>4, AmongFirst
<1> QED BY <1>3, <1>5

\* The number of pages the list announces holds what was counted.
LEMMA PagesCover ==
  ASSUME NEW n \in Nat, NEW s \in Nat \ {0}, NEW p \in Nat, p >= TotalPages(n, s)
  PROVE  n <= p * s
<1> DEFINE q == (n + s - 1) \div s
<1>1. n + s - 1 < q * s + s /\ q \in Nat
  OBVIOUS
<1>2. q <= p
  BY <1>1 DEF TotalPages, Greatest
<1> HIDE DEF q
<1>3. q * s <= p * s /\ q * s \in Nat /\ p * s \in Nat
  BY <1>1, <1>2
<1> QED BY <1>1, <1>3

\* Where the count and the rows stand in the list page.
LEMMA ListPlaces ==
  /\ Len(ListScript) = 14
  /\ \A k \in 1 .. 14 : /\ ListScript[k] = "count" => k = 3
                        /\ ListScript[k] = "rows" <=> k = 6
                        /\ ListScript[k] # "invoice"
BY DEF ListScript

\* A statement of the list page: which it is, and what remains.
LEMMA ListStatement ==
  ASSUME TypeOK, ScriptInv, kind = "list", Select
  PROVE  /\ Len(todo) \in 1 .. 14 /\ Len(todo') = Len(todo) - 1
         /\ Rows <=> Len(todo) = 9
         /\ Rows \/ UNCHANGED <<walk, number, size>>
         /\ UNCHANGED total \/ Len(todo) = 12
         /\ UNCHANGED kind /\ ScriptInv'
<1>1. /\ todo # << >> /\ UNCHANGED kind
      /\ todo' = Tail(todo) \/ Head(todo) = "invoice"
      /\ Rows <=> Head(todo) = "rows"
      /\ Rows \/ UNCHANGED <<walk, number, size>>
      /\ UNCHANGED total \/ Head(todo) = "count"
  BY DEF Select, ReadScope, ReadBase, Count, Aggregate, Rows, Export, Companies, Cards,
         ReadInvoice, Guard, Execute, page, history
<1> DEFINE l == Len(todo)
<1>2. todo \in Seq(Statement) /\ l \in 1 .. 14 /\ Head(todo) = ListScript[15 - l]
  <2>1. todo \in Seq(Statement) /\ l \in Nat \ {0} /\ l <= 14 /\ Head(todo) = todo[1]
    BY <1>1 DEF TypeOK, ScriptInv
  <2>2. todo[1] = ListScript[14 - l + 1]
    BY <2>1 DEF ScriptInv
  <2> HIDE DEF l
  <2>3. l \in 1 .. 14 /\ 14 - l + 1 = 15 - l
    BY <2>1
  <2> QED BY <2>1, <2>2, <2>3
<1> HIDE DEF l
<1>3. 15 - l \in 1 .. 14
  BY <1>2
<1>4. /\ todo' = Tail(todo)
      /\ Rows <=> 15 - l = 6
      /\ UNCHANGED total \/ 15 - l = 3
  BY <1>1, <1>2, <1>3, ListPlaces
<1>5. Len(todo') = l - 1 /\ \A m \in 1 .. l - 1 : todo'[m] = todo[m + 1]
  BY <1>1, <1>2, <1>4, HeadTailProperties DEF l
<1>6. ScriptInv'
  <2>1. ASSUME NEW m \in 1 .. l - 1 PROVE todo'[m] = ListScript[14 - (l - 1) + m]
    <3>1. m + 1 \in 1 .. l /\ 14 - l + (m + 1) = 14 - (l - 1) + m
      BY <1>2
    <3>2. todo[m + 1] = ListScript[14 - l + (m + 1)]
      BY <3>1 DEF ScriptInv, l
    <3> QED BY <1>5, <3>1, <3>2
  <2> QED BY <1>2, <1>5, <2>1 DEF ScriptInv
<1>7. Rows <=> l = 9
  BY <1>2, <1>4
<1>8. UNCHANGED total \/ l = 12
  BY <1>2, <1>4
<1> QED BY <1>1, <1>2, <1>5, <1>6, <1>7, <1>8 DEF l

\* The rows of a page.
LEMMA RowsLeaf ==
  ASSUME TypeOK, ScriptInv, LeafInv, kind = "list", Rows, Len(todo) = 9, Len(todo') = 8
  PROVE  LeafInv'
<1> DEFINE M == Matching(base)
           w == Leafed(M)
           o == (number - 1) * size
<1>1. /\ rows' \in Slices(M, o, size) /\ walk' = w
      /\ UNCHANGED <<book, number, size, total, kind>>
  BY DEF Rows, warehouse
<1>2. Numbered(M)
  <2>1. \A row \in Row : row.key \in Nat \ {0}
    BY DEF Row
  <2> QED BY <2>1, MatchingRows DEF Numbered
<1>3. /\ w.first = IF number = 1 THEN M ELSE walk.first
      /\ w.seen = walk.seen \cup rows'
      /\ w.last = [i \in Invoice |-> IF i \in M THEN book[i].key ELSE 0]
      /\ ~w.moved => /\ ~walk.moved
                     /\ \A i \in Listed : i \in M /\ book[i].key = walk.last[i]
                     /\ Distinct(M)
      /\ ~w.grown => ~(Cardinality(M) > total)
  BY DEF Leafed, Listed, Distinct
<1>4. o \in Nat /\ size \in Nat /\ number \in Nat \ {0} /\ total \in Nat
      /\ o + size = number * size
  <2>1. size \in Nat /\ number \in Nat \ {0} /\ total \in Nat
    BY PageLimits, SizeOfSubset DEF TypeOK
  <2> QED BY <2>1
<1> HIDE DEF M, w, o
<1>5. Listed' = M /\ \A i \in M : Before(i)' = Lower(M, i)
  <2>1. \A i \in Invoice : walk'.last[i] = IF i \in M THEN book[i].key ELSE 0
    BY <1>1, <1>3
  <2>2. Listed' = M
    BY <1>2, <2>1 DEF Listed, Numbered
  <2> QED BY <1>2, <2>1, <2>2 DEF Before, Lower, Numbered
<1> SUFFICES ASSUME ~w.moved
             PROVE  /\ w.first \subseteq M
                    /\ \A i \in w.first : Cardinality(Lower(M, i)) < number * size => i \in w.seen
                    /\ ~w.grown => Cardinality(M) <= total
  <2>1. RowsRead' /\ Pages' = number
    BY <1>1 DEF RowsRead, Pages
  <2> QED BY <1>1, <1>5, <2>1 DEF LeafInv
<1>6. w.first \subseteq M
  BY <1>3 DEF LeafInv
<1>7. ASSUME NEW i \in w.first, Cardinality(Lower(M, i)) < number * size PROVE i \in w.seen
  <2>1. i \in M /\ Cardinality(Lower(M, i)) \in Nat /\ IsFiniteSet(Lower(M, i))
    <3>1. Lower(M, i) \in SUBSET Invoice
      BY <1>2 DEF Lower, Numbered
    <3> QED BY <1>6, <1>7, <3>1, SizeOfSubset, FS_CardinalityType
  <2>2. CASE Cardinality(Lower(M, i)) >= o
    <3>1. i \in rows'
      BY <1>1, <1>2, <1>3, <1>4, <1>7, <2>1, <2>2, OnThePage
    <3> QED BY <1>3, <3>1
  <2>3. CASE Cardinality(Lower(M, i)) < o
    <3>1. number # 1
      BY <1>4, <2>1, <2>3 DEF o
    <3>2. i \in walk.first /\ i \in Listed
      BY <1>3, <1>7, <3>1 DEF LeafInv
    <3>3. Before(i) \in SUBSET Lower(M, i)
      BY <1>3, <3>2 DEF Before, Lower
    <3>4. Cardinality(Before(i)) \in Nat /\ Cardinality(Before(i)) <= Cardinality(Lower(M, i))
      BY <2>1, <3>3, FS_Subset, FS_CardinalityType
    <3>5. Cardinality(Before(i)) < o
      BY <1>4, <2>1, <2>3, <3>4
    <3>6. ~RowsRead /\ Pages * size = o
      BY DEF RowsRead, Pages, o
    <3>7. i \in walk.seen
      BY <1>3, <3>2, <3>5, <3>6 DEF LeafInv
    <3> QED BY <1>3, <3>7
  <2>4. Cardinality(Lower(M, i)) >= o \/ Cardinality(Lower(M, i)) < o
    BY <1>4, <2>1
  <2> QED BY <2>2, <2>3, <2>4
<1>8. ~w.grown => Cardinality(M) <= total
  <2>1. Cardinality(M) \in Nat
    BY <1>2, SizeOfSubset DEF Numbered
  <2> QED BY <1>3, <1>4, <2>1
<1> QED BY <1>6, <1>7, <1>8

LEMMA InitLeaf == Init => PagesInv
BY InitTyped DEF Init, PagesInv, ScriptInv, LeafInv

LEMMA OpenLeaf ==
  ASSUME PagesInv, Open
  PROVE  ScriptInv' /\ LeafInv'
<1>1. ASSUME Begin("list", ListScript) PROVE ScriptInv' /\ ~RowsRead' /\ Len(todo') = 14
  BY <1>1, ListPlaces DEF Begin, ScriptInv, RowsRead
<1>2. CASE OpenList
  <2>1. walk'.first = {} /\ ScriptInv' /\ ~RowsRead'
    BY <1>1, <1>2 DEF OpenList, NewWalk
  <2> QED BY <2>1 DEF LeafInv
<1>3. CASE NextPage
  <2>1. /\ kind = "list" /\ todo = << >> /\ number' = number + 1
        /\ UNCHANGED <<walk, size>> /\ ScriptInv' /\ ~RowsRead'
    BY <1>1, <1>3 DEF NextPage, Begin
  <2>2. RowsRead /\ Pages = number /\ number \in Nat
    BY <2>1 DEF RowsRead, Pages, PagesInv, TypeOK
  <2>3. Pages' = Pages
    BY <2>1, <2>2 DEF Pages
  <2>4. Listed' = Listed /\ \A i : Before(i)' = Before(i)
    BY <2>1 DEF Listed, Before
  <2> QED BY <2>1, <2>3, <2>4 DEF LeafInv, PagesInv
<1>4. CASE kind' # "list"
  BY <1>4 DEF ScriptInv, LeafInv
<1> QED BY <1>2, <1>3, <1>4 DEF Open, OpenExport, OpenDashboard, OpenDetail, Begin

LEMMA SelectLeaf ==
  ASSUME PagesInv, Select
  PROVE  ScriptInv' /\ LeafInv'
<1>1. CASE kind # "list"
  <2>1. UNCHANGED kind
    BY DEF Select, ReadScope, ReadBase, Count, Aggregate, Rows, Export, Companies, Cards,
           ReadInvoice, Guard
  <2> QED BY <1>1, <2>1 DEF ScriptInv, LeafInv
<1>2. CASE kind = "list"
  <2>1. /\ Len(todo) \in 1 .. 14 /\ Len(todo') = Len(todo) - 1
        /\ Rows <=> Len(todo) = 9
        /\ Rows \/ UNCHANGED <<walk, number, size>>
        /\ UNCHANGED total \/ Len(todo) = 12
        /\ UNCHANGED kind /\ ScriptInv'
    BY <1>2, ListStatement DEF PagesInv
  <2>2. CASE Rows
    BY <1>2, <2>1, <2>2, RowsLeaf DEF PagesInv
  <2>3. CASE ~Rows
    <3>1. UNCHANGED <<walk, number, size>> /\ Len(todo) # 9
      BY <2>1, <2>3
    <3>2. RowsRead' = RowsRead /\ Pages' = Pages /\ (RowsRead => UNCHANGED total)
      BY <2>1, <3>1 DEF RowsRead, Pages
    <3>3. Listed' = Listed /\ \A i : Before(i)' = Before(i)
      BY <3>1 DEF Listed, Before
    <3> QED BY <2>1, <3>1, <3>2, <3>3 DEF LeafInv, PagesInv
  <2> QED BY <2>1, <2>2, <2>3
<1> QED BY <1>1, <1>2

LEMMA NextLeaf == PagesInv /\ [Next]_vars => PagesInv'
<1> SUFFICES ASSUME PagesInv, [Next]_vars PROVE PagesInv'
  OBVIOUS
<1>1. TypeOK'
  BY NextTyped DEF PagesInv
<1>2. CASE UNCHANGED <<handler, page, walk>>
  BY <1>1, <1>2 DEF handler, page, PagesInv, ScriptInv, LeafInv, RowsRead, Pages, Listed, Before
<1>3. CASE Open
  BY <1>1, <1>3, OpenLeaf DEF PagesInv
<1>4. CASE Select
  BY <1>1, <1>4, SelectLeaf DEF PagesInv
<1> QED BY <1>2, <1>3, <1>4 DEF Next, Administer, Ingest, vars, history

\* Leafing from the first page to the last shows every invoice that matched from
\* the start, unless one of the reasons the property names came in between.
THEOREM LeafingMissesNothing == Spec => []MissIsExplained
<1>1. PagesInv => MissIsExplained
  <2> SUFFICES ASSUME PagesInv, kind = "list", todo = << >>, number >= TotalPages(total, size),
                      ~walk.moved, ~walk.grown, NEW i \in walk.first
               PROVE  i \in walk.seen
    BY DEF MissIsExplained
  <2>1. RowsRead /\ Pages = number
    BY DEF RowsRead, Pages
  <2>2. i \in Listed /\ Cardinality(Listed) <= total
    BY <2>1 DEF PagesInv, LeafInv
  <2>3. Listed \in SUBSET Invoice /\ Before(i) \in SUBSET (Listed \ {i})
    BY DEF Before, Listed, PagesInv, TypeOK, Walk
  <2>4. /\ Cardinality(Before(i)) \in Nat /\ Cardinality(Listed) \in Nat
        /\ Cardinality(Before(i)) <= Cardinality(Listed) - 1
    <3>1. IsFiniteSet(Listed)
      BY <2>3, SizeOfSubset
    <3>2. IsFiniteSet(Listed \ {i}) /\ Cardinality(Listed \ {i}) = Cardinality(Listed) - 1
      BY <2>2, <3>1, FS_RemoveElement
    <3> QED BY <2>3, <3>1, <3>2, FS_Subset, FS_CardinalityType
  <2>5. number \in Nat /\ size \in Nat \ {0} /\ total \in Nat
    BY SizesTyped, SizeOfSubset DEF PagesInv, TypeOK
  <2>6. total <= number * size /\ number * size \in Nat
    BY <2>5, PagesCover
  <2>7. Cardinality(Before(i)) < Pages * size
    BY <2>1, <2>2, <2>4, <2>5, <2>6
  <2> QED BY <2>7 DEF PagesInv, LeafInv
<1> QED BY <1>1, InitLeaf, NextLeaf, PTL DEF Spec
=============================================================================
