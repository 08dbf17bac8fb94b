------------------------- MODULE ParseResponseProofs -------------------------
(***************************************************************************)
(* Proofs about ParseResponse for answers of any length with any           *)
(* header-only sections, read in any order by any number of passes.        *)
(*                                                                         *)
(* Every pass keeps an invariant of its own, relative to the rows it has   *)
(* read (Read): which headers it has and why (Headed), and that the items  *)
(* of an invoice are exactly its rows so far, each at the place given by   *)
(* its rank, which is how many rows of the invoice there are up to it      *)
(* (Listed).  That two passes agree follows from what they read.           *)
(***************************************************************************)
EXTENDS ParseResponse, FiniteSetTheorems, SequenceTheorems, TLAPS

Items == "XXHZB"

-----------------------------------------------------------------------------
(***************************************************************************)
(* The answer.                                                             *)
(***************************************************************************)

DecodedInv ==
  /\ decoded \in [Section -> Numbers(MaxItems) \cup Numbers(MaxHeaders)]
  /\ \A s \in Section : decoded[s] \in Numbers(Rows(s))

LEMMA ItemsIsSection == Items \in Section /\ HeaderSection \subseteq Section /\ Items \notin HeaderSection
BY SectionsAreDistinct DEF Items, Section

LEMMA RowsAreNat == \A s : Rows(s) \in Nat
BY RowBounds DEF Rows

LEMMA NumbersAreSeq ==
  ASSUME NEW n \in Nat, NEW f \in Numbers(n)
  PROVE  f \in Seq(Id \cup {None}) /\ Len(f) \in Nat /\ Len(f) <= n /\ DOMAIN f = 1 .. Len(f)
<1>1. PICK m \in 0 .. n : f \in [1 .. m -> Id \cup {None}]
  BY DEF Numbers
<1>2. f \in Seq(Id \cup {None})
  BY <1>1, SeqDef
<1>3. Len(f) \in Nat /\ DOMAIN f = 1 .. Len(f) /\ m \in Nat
  BY <1>2, LenProperties
<1>4. Len(f) = m
  <2>1. \A k : k \in 1 .. Len(f) <=> k \in 1 .. m
    BY <1>1, <1>3
  <2> DEFINE k == Len(f)
  <2>2. k \in Nat /\ m \in Nat /\ \A j : j \in 1 .. k <=> j \in 1 .. m
    BY <1>3, <2>1
  <2> HIDE DEF k
  <2>3. m <= k
    BY <2>2
  <2>4. k <= m
    BY <2>2
  <2> QED BY <2>2, <2>3, <2>4 DEF k
<1> QED BY <1>2, <1>3, <1>4

LEMMA SectionRows ==
  ASSUME DecodedInv, NEW s \in Section
  PROVE  /\ decoded[s] \in Seq(Id \cup {None}) /\ Len(decoded[s]) \in Nat
         /\ Len(decoded[s]) <= Rows(s) /\ DOMAIN decoded[s] = 1 .. Len(decoded[s])
BY NumbersAreSeq, RowsAreNat DEF DecodedInv

\* How many rows of XXHZB up to row r are about invoice i.
Among(i, r) == {k \in 1 .. r : decoded[Items][k] = i}
Rank(i, r)  == Cardinality(Among(i, r))

LEMMA AmongFinite ==
  ASSUME NEW i, NEW r \in Nat
  PROVE  IsFiniteSet(Among(i, r)) /\ Rank(i, r) \in Nat /\ Rank(i, r) <= r
<1>1. IsFiniteSet(1 .. r) /\ Cardinality(1 .. r) = r
  BY FS_Interval
<1>2. Among(i, r) \in SUBSET (1 .. r)
  BY DEF Among
<1>3. IsFiniteSet(Among(i, r)) /\ Cardinality(Among(i, r)) <= r
  BY <1>1, <1>2, FS_Subset
<1> QED BY <1>3, FS_CardinalityType DEF Rank

LEMMA RankNone == \A i : Rank(i, 0) = 0
<1>1. \A i : Among(i, 0) = {}
  BY DEF Among
<1> QED BY <1>1, FS_EmptySet DEF Rank

\* One more row.
LEMMA RankNext ==
  ASSUME NEW i, NEW r \in Nat
  PROVE  Rank(i, r + 1) = IF decoded[Items][r + 1] = i THEN Rank(i, r) + 1 ELSE Rank(i, r)
<1>1. r + 1 \notin Among(i, r)
  BY DEF Among
<1>2. CASE decoded[Items][r + 1] = i
  <2>1. Among(i, r + 1) = Among(i, r) \cup {r + 1}
    BY <1>2 DEF Among
  <2>2. Cardinality(Among(i, r) \cup {r + 1}) = Cardinality(Among(i, r)) + 1
    BY <1>1, AmongFinite, FS_AddElement
  <2> QED BY <1>2, <2>1, <2>2 DEF Rank
<1>3. CASE decoded[Items][r + 1] # i
  <2>1. Among(i, r + 1) = Among(i, r)
    BY <1>3 DEF Among
  <2> QED BY <1>3, <2>1 DEF Rank
<1> QED BY <1>2, <1>3

\* A later row of the invoice has a higher rank.
LEMMA RankGrows ==
  ASSUME NEW i, NEW q \in Nat, NEW r \in Nat, q < r, decoded[Items][r] = i
  PROVE  Rank(i, q) < Rank(i, r)
<1>1. r \in Among(i, r) /\ r \notin Among(i, q)
  BY DEF Among
<1>2. Among(i, q) \in SUBSET Among(i, r)
  BY DEF Among
<1>3. IsFiniteSet(Among(i, r)) /\ Rank(i, r) \in Nat /\ Rank(i, q) \in Nat
  BY AmongFinite
<1>4. Cardinality(Among(i, q)) <= Cardinality(Among(i, r)) /\ Among(i, q) # Among(i, r)
  BY <1>1, <1>2, <1>3, FS_Subset
<1>5. Cardinality(Among(i, q)) # Cardinality(Among(i, r))
  BY <1>2, <1>3, <1>4, FS_Subset
<1> QED BY <1>3, <1>4, <1>5 DEF Rank

LEMMA RankInBounds ==
  ASSUME NEW i, NEW r \in Nat, NEW u \in Nat, 1 <= r, r <= u, decoded[Items][r] = i
  PROVE  Rank(i, r) \in 1 .. Rank(i, u)
<1>1. Rank(i, r) \in Nat /\ Rank(i, u) \in Nat
  BY AmongFinite
<1>2. Rank(i, 0) < Rank(i, r)
  BY RankGrows
<1>3. Rank(i, r) <= Rank(i, u)
  <2>1. Among(i, r) \in SUBSET Among(i, u)
    BY DEF Among
  <2> QED BY <2>1, AmongFinite, FS_Subset DEF Rank
<1> QED BY <1>1, <1>2, <1>3, RankNone

-----------------------------------------------------------------------------
(***************************************************************************)
(* What a pass has read: of section s, the rows 1 .. Read(t, a, s), if it  *)
(* has the sections t still to start and stands at a.                      *)
(***************************************************************************)

Read(t, a, s) ==
  IF a # NoPlace /\ s = a.section THEN a.row - 1
  ELSE IF s \in t THEN 0 ELSE Len(decoded[s])

PathInv(t, a) ==
  /\ t \subseteq HeaderSection
  /\ a = NoPlace => t = {}
  /\ a # NoPlace => /\ a \in Place /\ a.row <= Len(decoded[a.section]) + 1
                    /\ a.section \notin t
                    /\ a.section = Items => t = HeaderSection

\* The place from which invoice i has its header.
Headed(t, a, h, i) ==
  \/ h = NoPlace /\ \A s \in Section : \A r \in 1 .. Read(t, a, s) : decoded[s][r] # i
  \/ /\ h \in Place /\ h.row <= Read(t, a, h.section) /\ decoded[h.section][h.row] = i
     /\ \A r \in 1 .. h.row - 1 : decoded[h.section][r] # i
     /\ (\E r \in 1 .. Read(t, a, Items) : decoded[Items][r] = i) => h.section = Items

\* The items l of invoice i after u rows of XXHZB.
Listed(l, u, i) ==
  /\ l \in Seq([no : 1 .. MaxItems, row : 1 .. MaxItems])
  /\ Len(l) = Rank(i, u)
  /\ \A n \in 1 .. Len(l) : /\ l[n].no = n /\ l[n].row <= u
                            /\ decoded[Items][l[n].row] = i /\ Rank(i, l[n].row) = n
  /\ \A r \in 1 .. u : decoded[Items][r] = i => l[Rank(i, r)].row = r

PassInv(p) ==
  /\ PathInv(todo[p], at[p])
  /\ \A i \in Id : Headed(todo[p], at[p], by[p][i], i)
  /\ \A i \in Id : Listed(items[p][i], Read(todo[p], at[p], Items), i)

Typed ==
  /\ DecodedInv
  /\ todo  \in [Pass -> SUBSET HeaderSection]
  /\ at    \in [Pass -> Place \cup {NoPlace}]
  /\ by    \in [Pass -> [Id -> Place \cup {NoPlace}]]
  /\ items \in [Pass -> [Id -> Seq([no : 1 .. MaxItems, row : 1 .. MaxItems])]]

ParseInv == Typed /\ \A p \in Pass : PassInv(p)

LEMMA NoPlaceIsNone == NoPlace \notin Place
BY RowBounds DEF NoPlace, Place

LEMMA ReadTyped ==
  ASSUME DecodedInv, NEW t, NEW a, PathInv(t, a), NEW s \in Section
  PROVE  Read(t, a, s) \in Nat /\ Read(t, a, s) <= Len(decoded[s])
<1>1. Len(decoded[s]) \in Nat
  BY SectionRows
<1>2. CASE a # NoPlace /\ s = a.section
  BY <1>1, <1>2, RowBounds DEF PathInv, Read, Place
<1>3. CASE ~(a # NoPlace /\ s = a.section)
  BY <1>1, <1>3 DEF Read
<1> QED BY <1>2, <1>3

LEMMA StartPath ==
  ASSUME DecodedInv
  PROVE  /\ PathInv(HeaderSection, [section |-> Items, row |-> 1])
         /\ \A s \in Section : Read(HeaderSection, [section |-> Items, row |-> 1], s) = 0
<1> DEFINE a == [section |-> Items, row |-> 1]
<1>1. a \in Place /\ a # NoPlace /\ a.section = Items /\ a.row = 1
  BY ItemsIsSection, RowBounds DEF Place, NoPlace
<1>2. Len(decoded[Items]) \in Nat
  BY ItemsIsSection, SectionRows
<1> HIDE DEF a
<1>3. PathInv(HeaderSection, a)
  BY <1>1, <1>2, ItemsIsSection DEF PathInv
<1>4. \A s \in Section : Read(HeaderSection, a, s) = 0
  BY <1>1 DEF Read, Section, Items
<1> QED BY <1>3, <1>4 DEF a

\* The next row of the section.
LEMMA RowPath ==
  ASSUME DecodedInv, NEW t, NEW a, PathInv(t, a), a # NoPlace, a.row <= Len(decoded[a.section]),
         NEW b, b = [a EXCEPT !.row = @ + 1]
  PROVE  /\ PathInv(t, b) /\ b # NoPlace /\ b.section = a.section
         /\ Read(t, b, a.section) = a.row /\ Read(t, a, a.section) = a.row - 1 /\ a.row \in Nat \ {0}
         /\ \A s \in Section : s # a.section => Read(t, b, s) = Read(t, a, s)
<1>1. a \in Place /\ a.section \in Section /\ a.row \in Nat \ {0}
  BY RowBounds DEF PathInv, Place
<1>2. b.section = a.section /\ b.row = a.row + 1 /\ b = [section |-> a.section, row |-> a.row + 1]
  BY <1>1 DEF Place
<1>3. Len(decoded[a.section]) \in Nat /\ Len(decoded[a.section]) <= MaxItems + MaxHeaders
  BY <1>1, SectionRows, RowBounds DEF Rows
<1>4. b.row \in 1 .. MaxItems + MaxHeaders + 1
  BY <1>1, <1>2, <1>3, RowBounds
<1>5. b \in Place
  BY <1>1, <1>2, <1>4 DEF Place
<1>6. PathInv(t, b) /\ b # NoPlace
  <2>1. /\ t \subseteq HeaderSection /\ a.section \notin t
        /\ a.section = Items => t = HeaderSection
    BY DEF PathInv
  <2>2. b # NoPlace
    BY <1>5, NoPlaceIsNone
  <2>3. b.row <= Len(decoded[b.section]) + 1
    BY <1>1, <1>2, <1>3
  <2> QED BY <1>2, <1>5, <2>1, <2>2, <2>3 DEF PathInv
<1>7. Read(t, b, a.section) = a.row /\ Read(t, a, a.section) = a.row - 1
  BY <1>1, <1>2, <1>6 DEF Read
<1>8. \A s \in Section : s # a.section => Read(t, b, s) = Read(t, a, s)
  BY <1>2 DEF Read
<1> QED BY <1>1, <1>2, <1>6, <1>7, <1>8

\* From one section to the next nothing is read.
LEMMA SectionPath ==
  ASSUME DecodedInv, NEW t, NEW a, PathInv(t, a), a # NoPlace, ~(a.row <= Len(decoded[a.section])),
         NEW u, NEW b,
         \/ \E s \in t : b = [section |-> s, row |-> 1] /\ u = t \ {s}
         \/ t = {} /\ b = NoPlace /\ u = t
  PROVE  PathInv(u, b) /\ \A s \in Section : Read(u, b, s) = Read(t, a, s)
<1>1. /\ a.section \in Section /\ a.row \in Nat \ {0} /\ Len(decoded[a.section]) \in Nat
      /\ a.row <= Len(decoded[a.section]) + 1
  BY SectionRows, RowBounds DEF PathInv, Place
<1>2. a.row - 1 = Len(decoded[a.section]) /\ a.section \notin t
  BY <1>1 DEF PathInv
<1>3. CASE t = {} /\ b = NoPlace /\ u = t
  BY <1>2, <1>3 DEF PathInv, Read
<1>4. ASSUME NEW z \in t, b = [section |-> z, row |-> 1], u = t \ {z}
      PROVE  PathInv(u, b) /\ \A s \in Section : Read(u, b, s) = Read(t, a, s)
  <2>1. z \in HeaderSection /\ z \in Section /\ z # Items
    BY ItemsIsSection DEF PathInv
  <2>2. b \in Place /\ b # NoPlace /\ b.section = z /\ b.row = 1
    BY <1>4, <2>1, RowBounds DEF Place, NoPlace
  <2>3. Len(decoded[z]) \in Nat
    BY <2>1, SectionRows
  <2>4. PathInv(u, b)
    BY <1>4, <2>1, <2>2, <2>3 DEF PathInv
  <2>5. ASSUME NEW s \in Section PROVE Read(u, b, s) = Read(t, a, s)
    <3>1. CASE s = z
      BY <1>2, <1>4, <2>2, <3>1 DEF Read
    <3>2. CASE s = a.section /\ s # z
      BY <1>2, <1>4, <2>2, <3>2 DEF Read
    <3>3. CASE s # a.section /\ s # z
      BY <1>4, <2>2, <3>3 DEF Read
    <3> QED BY <3>1, <3>2, <3>3
  <2> QED BY <2>4, <2>5
<1> QED BY <1>3, <1>4

-----------------------------------------------------------------------------
(***************************************************************************)
(* Headers.                                                                *)
(***************************************************************************)

\* Nothing relevant to invoice i was read.
LEMMA HeadedKept ==
  ASSUME NEW t, NEW a, NEW u, NEW b, NEW h, NEW i, Headed(t, a, h, i), DecodedInv,
         PathInv(t, a), PathInv(u, b),
         \A s \in Section : /\ Read(t, a, s) <= Read(u, b, s)
                            /\ \A r \in 1 .. Read(u, b, s) :
                                 decoded[s][r] = i => r <= Read(t, a, s)
  PROVE  Headed(u, b, h, i)
<1>1. \A s \in Section : Read(t, a, s) \in Nat /\ Read(u, b, s) \in Nat
  BY ReadTyped
<1>2. CASE h = NoPlace /\ \A s \in Section : \A r \in 1 .. Read(t, a, s) : decoded[s][r] # i
  <2>1. ASSUME NEW s \in Section, NEW r \in 1 .. Read(u, b, s), decoded[s][r] = i PROVE FALSE
    <3>1. r \in 1 .. Read(t, a, s)
      BY <1>1, <2>1
    <3> QED BY <1>2, <2>1, <3>1
  <2> QED BY <1>2, <2>1 DEF Headed
<1>3. CASE /\ h \in Place /\ h.row <= Read(t, a, h.section) /\ decoded[h.section][h.row] = i
           /\ \A r \in 1 .. h.row - 1 : decoded[h.section][r] # i
           /\ (\E r \in 1 .. Read(t, a, Items) : decoded[Items][r] = i) => h.section = Items
  <2>1. h.section \in Section /\ h.row \in Nat
    BY <1>3, RowBounds DEF Place
  <2>2. h.row <= Read(u, b, h.section)
    BY <1>1, <1>3, <2>1
  <2>3. ASSUME NEW r \in 1 .. Read(u, b, Items), decoded[Items][r] = i PROVE h.section = Items
    <3>1. r \in 1 .. Read(t, a, Items)
      BY <1>1, <2>3, ItemsIsSection
    <3> QED BY <1>3, <2>3, <3>1
  <2> QED BY <1>3, <2>2, <2>3 DEF Headed
<1> QED BY <1>2, <1>3 DEF Headed

\* A row of invoice i is read, which has a header or gets it from there.
LEMMA HeadedRow ==
  ASSUME NEW t, NEW a, NEW b, NEW h, NEW g, NEW i, Headed(t, a, h, i), DecodedInv,
         PathInv(t, a), a # NoPlace, a.row <= Len(decoded[a.section]),
         b = [a EXCEPT !.row = @ + 1], decoded[a.section][a.row] = i,
         g = IF h = NoPlace THEN a ELSE h
  PROVE  Headed(t, b, g, i)
<1>1. /\ PathInv(t, b) /\ Read(t, b, a.section) = a.row /\ Read(t, a, a.section) = a.row - 1
      /\ a.row \in Nat \ {0}
      /\ \A s \in Section : s # a.section => Read(t, b, s) = Read(t, a, s)
  BY RowPath
<1>2. a \in Place /\ a.section \in Section
  BY DEF PathInv, Place
<1>3. \A s \in Section : Read(t, a, s) \in Nat
  BY ReadTyped
<1>4. CASE h = NoPlace
  <2>1. g = a /\ \A s \in Section : \A r \in 1 .. Read(t, a, s) : decoded[s][r] # i
    BY <1>4, NoPlaceIsNone DEF Headed
  <2>2. \A r \in 1 .. a.row - 1 : decoded[a.section][r] # i
    BY <1>1, <1>2, <2>1
  <2>3. ASSUME NEW r \in 1 .. Read(t, b, Items), decoded[Items][r] = i PROVE a.section = Items
    BY <1>1, <2>1, <2>3, ItemsIsSection
  <2>4. a.row <= Read(t, b, a.section)
    BY <1>1
  <2> QED BY <1>2, <2>1, <2>2, <2>3, <2>4 DEF Headed
<1>5. CASE h # NoPlace
  <2>1. /\ g = h /\ h \in Place /\ h.row <= Read(t, a, h.section) /\ decoded[h.section][h.row] = i
        /\ \A r \in 1 .. h.row - 1 : decoded[h.section][r] # i
        /\ (\E r \in 1 .. Read(t, a, Items) : decoded[Items][r] = i) => h.section = Items
    BY <1>5 DEF Headed
  <2>2. h.section \in Section /\ h.row \in Nat \ {0}
    BY <2>1, RowBounds DEF Place
  <2>3. h.row <= Read(t, b, h.section)
    BY <1>1, <1>3, <2>1, <2>2
  <2>4. ASSUME a.section = Items PROVE h.section = Items
    \* While XXHZB is read no other section has been.
    <3>1. CASE h.section \in HeaderSection
      <4>1. h.section \in t /\ h.section # a.section
        BY <2>4, <3>1, ItemsIsSection DEF PathInv
      <4>2. Read(t, a, h.section) = 0
        BY <4>1 DEF Read
      <4> QED BY <2>1, <2>2, <4>2
    <3> QED BY <2>2, <3>1 DEF Section, Items
  <2>5. ASSUME NEW r \in 1 .. Read(t, b, Items), decoded[Items][r] = i PROVE h.section = Items
    BY <1>1, <2>1, <2>4, <2>5, ItemsIsSection
  <2> QED BY <2>1, <2>3, <2>5 DEF Headed
<1> QED BY <1>4, <1>5

-----------------------------------------------------------------------------
(***************************************************************************)
(* Items.                                                                  *)
(***************************************************************************)

\* A row of XXHZB that is not about invoice i.
LEMMA ListedKept ==
  ASSUME NEW l, NEW u \in Nat, NEW i, Listed(l, u, i), decoded[Items][u + 1] # i
  PROVE  Listed(l, u + 1, i)
<1>1. Rank(i, u + 1) = Rank(i, u)
  BY RankNext
<1>2. \A n \in 1 .. Len(l) : l[n].row <= u => l[n].row <= u + 1
  <2>1. \A n \in 1 .. Len(l) : l[n] \in [no : 1 .. MaxItems, row : 1 .. MaxItems]
    BY ElementOfSeq DEF Listed
  <2>2. \A n \in 1 .. Len(l) : l[n].row \in Nat
    BY <2>1, RowBounds
  <2> QED BY <2>2
<1>3. \A r \in 1 .. u + 1 : decoded[Items][r] = i => r \in 1 .. u
  <2>1. \A r \in 1 .. u + 1 : r \in 1 .. u \/ r = u + 1
    OBVIOUS
  <2> QED BY <2>1
<1> QED BY <1>1, <1>2, <1>3 DEF Listed

\* One that is: its item comes last, with the next number.
LEMMA ListedRow ==
  ASSUME DecodedInv, NEW l, NEW u \in Nat, NEW i, Listed(l, u, i), decoded[Items][u + 1] = i,
         u + 1 <= MaxItems
  PROVE  Listed(Append(l, [no |-> Len(l) + 1, row |-> u + 1]), u + 1, i)
<1> DEFINE e == [no |-> Len(l) + 1, row |-> u + 1]
           m == Append(l, e)
           E == [no : 1 .. MaxItems, row : 1 .. MaxItems]
<1>1. /\ l \in Seq(E) /\ Len(l) \in Nat /\ Len(l) = Rank(i, u)
      /\ \A n \in 1 .. Len(l) : /\ l[n].no = n /\ l[n].row <= u
                                /\ decoded[Items][l[n].row] = i /\ Rank(i, l[n].row) = n
      /\ \A r \in 1 .. u : decoded[Items][r] = i => l[Rank(i, r)].row = r
  BY DEF Listed
<1>2. Rank(i, u + 1) = Len(l) + 1 /\ Rank(i, u + 1) <= u + 1
  BY <1>1, RankNext, AmongFinite
<1>3. e \in E /\ e.no = Len(l) + 1 /\ e.row = u + 1
  BY <1>1, <1>2, RowBounds
<1>4. /\ m \in Seq(E) /\ Len(m) = Len(l) + 1 /\ m[Len(l) + 1] = e
      /\ \A n \in 1 .. Len(l) : m[n] = l[n]
  BY <1>1, <1>3
<1>5. \A n \in 1 .. Len(l) : l[n].row \in Nat
  <2>1. \A n \in 1 .. Len(l) : l[n] \in E
    BY <1>1, ElementOfSeq
  <2> QED BY <2>1, RowBounds
<1> HIDE DEF e, m, E
<1>6. ASSUME NEW n \in 1 .. Len(m)
      PROVE  /\ m[n].no = n /\ m[n].row <= u + 1
             /\ decoded[Items][m[n].row] = i /\ Rank(i, m[n].row) = n
  <2>1. CASE n \in 1 .. Len(l)
    BY <1>1, <1>4, <1>5, <2>1
  <2>2. CASE n = Len(l) + 1
    BY <1>2, <1>3, <1>4, <2>2
  <2> QED BY <1>1, <1>4, <2>1, <2>2
<1>7. ASSUME NEW r \in 1 .. u + 1, decoded[Items][r] = i PROVE m[Rank(i, r)].row = r
  <2>1. CASE r \in 1 .. u
    <3>1. Rank(i, r) \in 1 .. Len(l)
      BY <1>1, <1>7, <2>1, RankInBounds
    <3> QED BY <1>1, <1>4, <1>7, <2>1, <3>1
  <2>2. CASE r = u + 1
    BY <1>2, <1>3, <1>4, <2>2
  <2> QED BY <2>1, <2>2
<1> QED BY <1>2, <1>4, <1>6, <1>7 DEF Listed, m, e, E

\* Two lists of the same rows are the same.
LEMMA ListedOnce ==
  ASSUME NEW l, NEW m, NEW u \in Nat, NEW i, Listed(l, u, i), Listed(m, u, i)
  PROVE  l = m
<1> DEFINE E == [no : 1 .. MaxItems, row : 1 .. MaxItems]
<1>1. /\ l \in Seq(E) /\ m \in Seq(E) /\ Len(l) = Len(m)
      /\ Len(m) = Rank(i, u) /\ Len(l) \in Nat
  BY DEF Listed
<1>2. ASSUME NEW n \in 1 .. Len(l) PROVE l[n] = m[n]
  <2>0. l[n] \in E /\ m[n] \in E
    BY <1>1, ElementOfSeq
  <2>1. /\ l[n] \in E /\ m[n] \in E /\ l[n].no = n /\ m[n].no = n
    BY <1>1, <2>0 DEF Listed
  <2>2. /\ decoded[Items][l[n].row] = i /\ l[n].row <= u /\ Rank(i, l[n].row) = n
    BY <1>1 DEF Listed
  <2>3. l[n].row \in 1 .. u
    BY <2>1, <2>2, RowBounds
  <2>4. m[n].row = l[n].row
    BY <2>2, <2>3 DEF Listed
  <2> QED BY <2>1, <2>4
<1> QED BY <1>1, <1>2, SeqEqual

-----------------------------------------------------------------------------
(***************************************************************************)
(* Steps.                                                                  *)
(***************************************************************************)

\* While the answer stays, so do the ranks, and with them what fits.
LEMMA RankStays ==
  ASSUME UNCHANGED decoded, NEW i, NEW r
  PROVE  Rank(i, r)' = Rank(i, r)
BY DEF Rank, Among

LEMMA ListedStays ==
  ASSUME UNCHANGED decoded, NEW l, NEW u, NEW i, Listed(l, u, i)
  PROVE  Listed(l, u, i)'
<1>1. \A r : Rank(i, r)' = Rank(i, r)
  BY RankStays
<1>2. \A r : decoded'[Items][r] = decoded[Items][r]
  OBVIOUS
<1> QED BY <1>1, <1>2, Zenon DEF Listed

\* The variables of the other passes stay as they are.
LEMMA OthersKeep ==
  ASSUME NEW p \in Pass, UNCHANGED decoded, PassInv(p),
         UNCHANGED <<todo[p], at[p], by[p], items[p]>>
  PROVE  PassInv(p)'
<1>1. PathInv(todo[p], at[p])'
  BY DEF PassInv, PathInv
<1>2. ASSUME NEW i \in Id PROVE Headed(todo[p], at[p], by[p][i], i)'
  BY DEF PassInv, Headed, Read
<1>3. ASSUME NEW i \in Id PROVE Listed(items[p][i], Read(todo[p], at[p], Items), i)'
  <2>1. PICK l, u : l = items[p][i] /\ u = Read(todo[p], at[p], Items)
    OBVIOUS
  <2>2. Listed(l, u, i)'
    BY <2>1, ListedStays DEF PassInv
  <2>3. items'[p][i] = l /\ Read(todo[p], at[p], Items)' = u
    BY <2>1 DEF Read
  <2> QED BY <2>2, <2>3 DEF Listed, Rank, Among
<1> QED BY <1>1, <1>2, <1>3 DEF PassInv

\* What pass p has after a step, in terms of the values before it.
PassFits(t, a, b, l) ==
  /\ PathInv(t, a)
  /\ \A i \in Id : Headed(t, a, b[i], i)
  /\ \A i \in Id : Listed(l[i], Read(t, a, Items), i)

LEMMA FitsNext ==
  ASSUME NEW p \in Pass, NEW t, NEW a, NEW b, NEW l, PassFits(t, a, b, l), UNCHANGED decoded,
         todo'[p] = t, at'[p] = a, by'[p] = b, items'[p] = l
  PROVE  PassInv(p)'
<1>1. PathInv(todo[p], at[p])'
  BY DEF PassFits, PathInv
<1>2. ASSUME NEW i \in Id PROVE Headed(todo[p], at[p], by[p][i], i)'
  BY DEF PassFits, Headed, Read
<1>3. ASSUME NEW i \in Id PROVE Listed(items[p][i], Read(todo[p], at[p], Items), i)'
  <2>1. PICK k, u : k = l[i] /\ u = Read(t, a, Items)
    OBVIOUS
  <2>2. Listed(k, u, i)'
    BY <2>1, ListedStays DEF PassFits
  <2>3. items'[p][i] = k /\ Read(todo[p], at[p], Items)' = u
    BY <2>1 DEF Read
  <2> QED BY <2>2, <2>3 DEF Listed, Rank, Among
<1> QED BY <1>1, <1>2, <1>3 DEF PassInv

\* The invoices that the row just read is not about.
LEMMA OtherInvoices ==
  ASSUME DecodedInv, NEW t, NEW a, PathInv(t, a), a # NoPlace, a.row <= Len(decoded[a.section]),
         NEW b, b = [a EXCEPT !.row = @ + 1], NEW h, NEW i, decoded[a.section][a.row] # i,
         Headed(t, a, h, i)
  PROVE  Headed(t, b, h, i)
<1>1. /\ PathInv(t, b) /\ Read(t, b, a.section) = a.row /\ Read(t, a, a.section) = a.row - 1
      /\ a.row \in Nat \ {0}
      /\ \A s \in Section : s # a.section => Read(t, b, s) = Read(t, a, s)
  BY RowPath
<1>2. ASSUME NEW s \in Section
      PROVE  /\ Read(t, a, s) <= Read(t, b, s)
             /\ \A r \in 1 .. Read(t, b, s) : decoded[s][r] = i => r <= Read(t, a, s)
  <2>1. Read(t, a, s) \in Nat
    BY ReadTyped
  <2>2. CASE s = a.section
    <3>1. \A r \in 1 .. a.row : r # a.row => r <= a.row - 1
      BY <1>1
    <3> QED BY <1>1, <2>2, <3>1
  <2>3. CASE s # a.section
    BY <1>1, <2>1, <2>3
  <2> QED BY <2>2, <2>3
<1> QED BY <1>1, <1>2, HeadedKept

\* The items of an invoice when a row is read.
LEMMA RowItems ==
  ASSUME DecodedInv, NEW t, NEW a, PathInv(t, a), a # NoPlace, a.row <= Len(decoded[a.section]),
         NEW b, b = [a EXCEPT !.row = @ + 1], NEW i, NEW l,
         Listed(l, Read(t, a, Items), i),
         a.section = Items => decoded[a.section][a.row] # i
  PROVE  Listed(l, Read(t, b, Items), i)
<1>1. /\ Read(t, b, a.section) = a.row /\ Read(t, a, a.section) = a.row - 1
      /\ a.row \in Nat \ {0}
      /\ \A s \in Section : s # a.section => Read(t, b, s) = Read(t, a, s)
  BY RowPath
<1>2. CASE a.section = Items
  <2>1. a.row - 1 \in Nat /\ a.row - 1 + 1 = a.row
    BY <1>1
  <2> QED BY <1>1, <1>2, <2>1, ListedKept
<1>3. CASE a.section # Items
  BY <1>1, <1>3, ItemsIsSection
<1> QED BY <1>2, <1>3

\* A step of pass p after which p's own values fit.
LEMMA StepFits ==
  ASSUME ParseInv, NEW p \in Pass, NEW t, NEW a, NEW b, NEW l, PassFits(t, a, b, l),
         UNCHANGED decoded,
         b \in [Id -> Place \cup {NoPlace}],
         l \in [Id -> Seq([no : 1 .. MaxItems, row : 1 .. MaxItems])],
         todo'  = [todo EXCEPT ![p] = t],
         at'    = [at EXCEPT ![p] = a],
         by'    = [by EXCEPT ![p] = b],
         items' = [items EXCEPT ![p] = l]
  PROVE  ParseInv'
<1>1. Typed /\ \A q \in Pass : PassInv(q)
  BY DEF ParseInv
<1>2. t \in SUBSET HeaderSection /\ a \in Place \cup {NoPlace}
  BY DEF PassFits, PathInv
<1>3. Typed'
  <2>1. todo' \in [Pass -> SUBSET HeaderSection] /\ at' \in [Pass -> Place \cup {NoPlace}]
    BY <1>1, <1>2 DEF Typed
  <2>2. by' \in [Pass -> [Id -> Place \cup {NoPlace}]]
    BY <1>1 DEF Typed
  <2>3. items' \in [Pass -> [Id -> Seq([no : 1 .. MaxItems, row : 1 .. MaxItems])]]
    BY <1>1 DEF Typed
  <2>4. DecodedInv'
    BY <1>1 DEF Typed, DecodedInv
  <2> QED BY <2>1, <2>2, <2>3, <2>4 DEF Typed
<1>4. todo'[p] = t /\ at'[p] = a /\ by'[p] = b /\ items'[p] = l
  BY <1>1 DEF Typed
<1>5. ASSUME NEW q \in Pass PROVE PassInv(q)'
  <2>1. CASE q = p
    <3>1. PassInv(p)'
      BY <1>4, FitsNext
    <3> QED BY <2>1, <3>1
  <2>2. CASE q # p
    <3>1. UNCHANGED <<todo[q], at[q], by[q], items[q]>>
      BY <1>1, <2>2 DEF Typed
    <3> QED BY <1>1, <3>1, OthersKeep
  <2> QED BY <2>1, <2>2
<1> QED BY <1>3, <1>5 DEF ParseInv

\* The row that is read.
LEMMA RowRead ==
  ASSUME ParseInv, NEW p \in Pass, HasRow(p)
  PROVE  /\ at[p] # NoPlace /\ at[p].row <= Len(decoded[at[p].section])
         /\ at[p] \in Place /\ at[p].section \in Section /\ at[p].row \in Nat \ {0}
         /\ Number(p) = decoded[at[p].section][at[p].row] /\ Number(p) \in Id \cup {None}
         /\ at[p].section = Items => at[p].row <= MaxItems
<1>1. Typed /\ PassInv(p)
  BY DEF ParseInv
<1>2. at[p] # NoPlace /\ at[p].row <= Len(decoded[at[p].section])
  BY DEF HasRow, Done
<1>3. at[p] \in Place /\ at[p].section \in Section /\ at[p].row \in Nat \ {0}
  BY <1>1, <1>2, RowBounds DEF PassInv, PathInv, Place
<1>4. /\ decoded[at[p].section] \in Seq(Id \cup {None})
      /\ Len(decoded[at[p].section]) \in Nat /\ Len(decoded[at[p].section]) <= Rows(at[p].section)
  BY <1>1, <1>3, SectionRows DEF Typed
<1>5. decoded[at[p].section][at[p].row] \in Id \cup {None}
  BY <1>2, <1>3, <1>4, ElementOfSeq
<1>6. at[p].section = Items => at[p].row <= MaxItems
  BY <1>2, <1>3, <1>4, RowBounds DEF Rows, Items
<1> QED BY <1>2, <1>3, <1>5, <1>6 DEF Number

LEMMA SkipStep ==
  ASSUME ParseInv, NEW p \in Pass, Skip(p)
  PROVE  ParseInv'
<1> DEFINE a == [at[p] EXCEPT !.row = @ + 1]
<1>1. /\ Typed /\ PassInv(p) /\ DecodedInv
      /\ HasRow(p) /\ Number(p) = None /\ UNCHANGED <<decoded, todo, by, items>>
  BY DEF ParseInv, Typed, Skip
<1>2. at' = [at EXCEPT ![p] = a]
  BY DEF Skip, StepRow
<1>3. \A i \in Id : decoded[at[p].section][at[p].row] # i
  BY <1>1, RowRead, SectionsAreDistinct
<1>4. /\ PathInv(todo[p], at[p]) /\ at[p] # NoPlace /\ at[p].row <= Len(decoded[at[p].section])
      /\ \A i \in Id : Headed(todo[p], at[p], by[p][i], i)
      /\ \A i \in Id : Listed(items[p][i], Read(todo[p], at[p], Items), i)
  BY <1>1, RowRead DEF PassInv
<1> HIDE DEF a
<1>5. PathInv(todo[p], a)
  BY <1>1, <1>4, RowPath DEF a
<1>6. \A i \in Id : Headed(todo[p], a, by[p][i], i)
  BY <1>1, <1>3, <1>4, OtherInvoices DEF a
<1>7. \A i \in Id : Listed(items[p][i], Read(todo[p], a, Items), i)
  BY <1>1, <1>3, <1>4, RowItems DEF a
<1>8. PassFits(todo[p], a, by[p], items[p])
  BY <1>5, <1>6, <1>7 DEF PassFits
<1>9. /\ todo' = [todo EXCEPT ![p] = todo[p]] /\ by' = [by EXCEPT ![p] = by[p]]
      /\ items' = [items EXCEPT ![p] = items[p]]
      /\ by[p] \in [Id -> Place \cup {NoPlace}]
      /\ items[p] \in [Id -> Seq([no : 1 .. MaxItems, row : 1 .. MaxItems])]
  BY <1>1 DEF Typed
<1>10. UNCHANGED decoded
  BY <1>1
<1> QED BY <1>2, <1>8, <1>9, <1>10, StepFits, Zenon

LEMMA SectionStep ==
  ASSUME ParseInv, NEW p \in Pass, NextSection(p)
  PROVE  ParseInv'
<1>1. /\ Typed /\ PassInv(p) /\ DecodedInv
      /\ at[p] # NoPlace /\ ~(at[p].row <= Len(decoded[at[p].section]))
      /\ UNCHANGED <<decoded, by, items>>
  BY DEF ParseInv, Typed, NextSection, Done, HasRow
<1>2. \E a, t : /\ at' = [at EXCEPT ![p] = a] /\ todo' = [todo EXCEPT ![p] = t]
                /\ \/ \E s \in todo[p] : a = [section |-> s, row |-> 1] /\ t = todo[p] \ {s}
                   \/ todo[p] = {} /\ a = NoPlace /\ t = todo[p]
  <2>1. ASSUME NEW s \in todo[p], at' = [at EXCEPT ![p] = [section |-> s, row |-> 1]],
               todo' = [todo EXCEPT ![p] = @ \ {s}]
        PROVE  <1>2
    BY <2>1
  <2>2. ASSUME todo[p] = {}, at' = [at EXCEPT ![p] = NoPlace], UNCHANGED todo PROVE <1>2
    <3>1. todo' = [todo EXCEPT ![p] = todo[p]]
      BY <1>1, <2>2 DEF Typed
    <3> QED BY <2>2, <3>1
  <2> QED BY <2>1, <2>2 DEF NextSection
<1>3. PICK a, t : /\ at' = [at EXCEPT ![p] = a] /\ todo' = [todo EXCEPT ![p] = t]
                  /\ \/ \E s \in todo[p] : a = [section |-> s, row |-> 1] /\ t = todo[p] \ {s}
                     \/ todo[p] = {} /\ a = NoPlace /\ t = todo[p]
  BY <1>2
<1>4. PathInv(todo[p], at[p])
  BY <1>1 DEF PassInv
<1>5. PathInv(t, a) /\ \A s \in Section : Read(t, a, s) = Read(todo[p], at[p], s)
  BY <1>1, <1>3, <1>4, SectionPath
<1>6. \A i \in Id : Headed(t, a, by[p][i], i)
  <2> TAKE i \in Id
  <2>1. Headed(todo[p], at[p], by[p][i], i)
    BY <1>1 DEF PassInv
  <2>2. \A s \in Section : Read(todo[p], at[p], s) \in Nat
    BY <1>1, <1>4, ReadTyped
  <2>3. \A s \in Section : /\ Read(todo[p], at[p], s) <= Read(t, a, s)
                           /\ \A r \in 1 .. Read(t, a, s) :
                                decoded[s][r] = i => r <= Read(todo[p], at[p], s)
    BY <1>5, <2>2
  <2> QED BY <1>1, <1>4, <1>5, <2>1, <2>3, HeadedKept
<1>7. \A i \in Id : Listed(items[p][i], Read(t, a, Items), i)
  BY <1>1, <1>5, ItemsIsSection DEF PassInv
<1>8. PassFits(t, a, by[p], items[p])
  BY <1>5, <1>6, <1>7 DEF PassFits
<1>9. /\ by' = [by EXCEPT ![p] = by[p]] /\ items' = [items EXCEPT ![p] = items[p]]
      /\ by[p] \in [Id -> Place \cup {NoPlace}]
      /\ items[p] \in [Id -> Seq([no : 1 .. MaxItems, row : 1 .. MaxItems])]
  BY <1>1 DEF Typed
<1>10. UNCHANGED decoded
  BY <1>1
<1> QED BY <1>3, <1>8, <1>9, <1>10, StepFits, Zenon

\* The headers of pass p after a row of invoice j.
HeadersWith(p, j) == [i \in Id |-> IF i = j /\ by[p][i] = NoPlace THEN at[p] ELSE by[p][i]]

LEMMA HeadersTyped ==
  ASSUME Typed, NEW p \in Pass, NEW j \in Id
  PROVE  /\ HeadersWith(p, j) \in [Id -> Place \cup {NoPlace}]
         /\ Header(p, j) = [by EXCEPT ![p] = HeadersWith(p, j)]
<1> DEFINE b == HeadersWith(p, j)
<1>1. by[p] \in [Id -> Place \cup {NoPlace}] /\ at[p] \in Place \cup {NoPlace}
  BY DEF Typed
<1>2. b \in [Id -> Place \cup {NoPlace}]
  BY <1>1 DEF HeadersWith
<1>3. CASE First(p, j)
  <2>1. b = [by[p] EXCEPT ![j] = at[p]]
    BY <1>1, <1>3 DEF HeadersWith, First
  <2>2. Header(p, j) = [by EXCEPT ![p] = [by[p] EXCEPT ![j] = at[p]]]
    BY <1>3 DEF Header
  <2> QED BY <1>2, <2>1, <2>2
<1>4. CASE ~First(p, j)
  <2>1. b = by[p]
    BY <1>1, <1>4 DEF HeadersWith, First
  <2>2. by = [by EXCEPT ![p] = by[p]]
    BY DEF Typed
  <2> QED BY <1>2, <1>4, <2>1, <2>2 DEF Header
<1> QED BY <1>3, <1>4

\* They fit.
LEMMA HeadersFit ==
  ASSUME ParseInv, NEW p \in Pass, HasRow(p), Number(p) # None,
         NEW a, a = [at[p] EXCEPT !.row = @ + 1]
  PROVE  /\ Number(p) \in Id /\ PathInv(todo[p], a)
         /\ \A i \in Id : Headed(todo[p], a, HeadersWith(p, Number(p))[i], i)
<1> DEFINE j == Number(p)
<1>1. Typed /\ PassInv(p) /\ DecodedInv
  BY DEF ParseInv, Typed
<1>2. /\ at[p] # NoPlace /\ at[p].row <= Len(decoded[at[p].section])
      /\ j \in Id /\ decoded[at[p].section][at[p].row] = j
  BY RowRead
<1>3. PathInv(todo[p], at[p]) /\ \A i \in Id : Headed(todo[p], at[p], by[p][i], i)
  BY <1>1 DEF PassInv
<1>4. PathInv(todo[p], a)
  BY <1>1, <1>2, <1>3, RowPath
<1>5. \A i \in Id : HeadersWith(p, j)[i] = IF i = j /\ by[p][i] = NoPlace THEN at[p] ELSE by[p][i]
  BY DEF HeadersWith
<1> HIDE DEF j
<1>6. ASSUME NEW i \in Id PROVE Headed(todo[p], a, HeadersWith(p, j)[i], i)
  <2> DEFINE h == by[p][i]
             g == HeadersWith(p, j)[i]
  <2>1. Headed(todo[p], at[p], h, i)
    BY <1>3
  <2>2. CASE i = j
    <3>1. g = IF h = NoPlace THEN at[p] ELSE h
      BY <1>5, <2>2
    <3>2. decoded[at[p].section][at[p].row] = i
      BY <1>2, <2>2
    <3> HIDE DEF h, g
    <3>3. Headed(todo[p], a, g, i)
      BY <1>1, <1>2, <1>3, <2>1, <3>1, <3>2, HeadedRow
    <3> QED BY <3>3 DEF g
  <2>3. CASE i # j
    <3>1. g = h
      BY <1>5, <2>3
    <3>2. decoded[at[p].section][at[p].row] # i
      BY <1>2, <2>3
    <3> HIDE DEF h, g
    <3>3. Headed(todo[p], a, h, i)
      BY <1>1, <1>2, <1>3, <2>1, <3>2, OtherInvoices
    <3> QED BY <3>1, <3>3 DEF g
  <2> QED BY <2>2, <2>3
<1> QED BY <1>2, <1>4, <1>6 DEF j

LEMMA HeaderRowStep ==
  ASSUME ParseInv, NEW p \in Pass, HeaderRow(p)
  PROVE  ParseInv'
<1> DEFINE a == [at[p] EXCEPT !.row = @ + 1]
           b == HeadersWith(p, Number(p))
<1>1. /\ Typed /\ PassInv(p) /\ DecodedInv
      /\ HasRow(p) /\ Number(p) # None /\ at[p].section # Items
      /\ UNCHANGED <<decoded, todo, items>> /\ by' = Header(p, Number(p))
  BY DEF ParseInv, Typed, HeaderRow, Items
<1>2. at' = [at EXCEPT ![p] = a]
  BY DEF HeaderRow, StepRow
<1>3. /\ Number(p) \in Id /\ PathInv(todo[p], a)
      /\ \A i \in Id : Headed(todo[p], a, b[i], i)
  BY <1>1, HeadersFit
<1>4. b \in [Id -> Place \cup {NoPlace}] /\ by' = [by EXCEPT ![p] = b]
  BY <1>1, <1>3, HeadersTyped
<1>5. /\ PathInv(todo[p], at[p]) /\ at[p] # NoPlace /\ at[p].row <= Len(decoded[at[p].section])
      /\ \A i \in Id : Listed(items[p][i], Read(todo[p], at[p], Items), i)
  BY <1>1, RowRead DEF PassInv
<1> HIDE DEF a, b
<1>6. \A i \in Id : Listed(items[p][i], Read(todo[p], a, Items), i)
  BY <1>1, <1>5, RowItems DEF a
<1>7. PassFits(todo[p], a, b, items[p])
  BY <1>3, <1>6 DEF PassFits
<1>8. /\ todo' = [todo EXCEPT ![p] = todo[p]] /\ items' = [items EXCEPT ![p] = items[p]]
      /\ items[p] \in [Id -> Seq([no : 1 .. MaxItems, row : 1 .. MaxItems])]
  BY <1>1 DEF Typed
<1>9. UNCHANGED decoded
  BY <1>1
<1> QED BY <1>2, <1>4, <1>7, <1>8, <1>9, StepFits, Zenon

LEMMA ItemRowStep ==
  ASSUME ParseInv, NEW p \in Pass, ItemRow(p)
  PROVE  ParseInv'
<1> DEFINE a == [at[p] EXCEPT !.row = @ + 1]
           j == Number(p)
           b == HeadersWith(p, j)
           e == [no |-> Len(items[p][j]) + 1, row |-> at[p].row]
           l == [items[p] EXCEPT ![j] = Append(@, e)]
           u == at[p].row - 1
<1>1. /\ Typed /\ PassInv(p) /\ DecodedInv
      /\ HasRow(p) /\ Number(p) # None /\ at[p].section = Items
      /\ UNCHANGED <<decoded, todo>> /\ by' = Header(p, j)
  BY DEF ParseInv, Typed, ItemRow, Items
<1>2. at' = [at EXCEPT ![p] = a] /\ items' = [items EXCEPT ![p] = l]
  BY DEF ItemRow, StepRow, RowNo
<1>3. /\ j \in Id /\ PathInv(todo[p], a)
      /\ \A i \in Id : Headed(todo[p], a, b[i], i)
  BY <1>1, HeadersFit
<1>4. b \in [Id -> Place \cup {NoPlace}] /\ by' = [by EXCEPT ![p] = b]
  BY <1>1, <1>3, HeadersTyped
<1>5. /\ PathInv(todo[p], at[p]) /\ at[p] # NoPlace /\ at[p].row <= Len(decoded[at[p].section])
      /\ \A i \in Id : Listed(items[p][i], Read(todo[p], at[p], Items), i)
      /\ at[p].row <= MaxItems /\ at[p].row \in Nat \ {0} /\ decoded[Items][at[p].row] = j
  BY <1>1, RowRead DEF PassInv
<1>6. Read(todo[p], a, Items) = at[p].row /\ Read(todo[p], at[p], Items) = u
  BY <1>1, <1>5, RowPath
<1>7. u \in Nat /\ u + 1 = at[p].row
  BY <1>5
<1>8. items[p] \in [Id -> Seq([no : 1 .. MaxItems, row : 1 .. MaxItems])]
  BY <1>1 DEF Typed
<1>9. ASSUME NEW i \in Id PROVE Listed(l[i], at[p].row, i)
  <2>1. Listed(items[p][i], u, i)
    BY <1>5, <1>6
  <2>2. CASE i = j
    <3>1. l[i] = Append(items[p][i], [no |-> Len(items[p][i]) + 1, row |-> u + 1])
      BY <1>7, <1>8, <2>2
    <3>2. decoded[Items][u + 1] = i /\ u + 1 <= MaxItems
      BY <1>5, <1>7, <2>2
    <3> HIDE DEF l, u
    <3> QED BY <1>1, <1>7, <2>1, <3>1, <3>2, ListedRow
  <2>3. CASE i # j
    <3>1. l[i] = items[p][i]
      BY <1>8, <2>3
    <3>2. decoded[Items][u + 1] # i
      BY <1>5, <1>7, <2>3
    <3> HIDE DEF l, u
    <3> QED BY <1>7, <2>1, <3>1, <3>2, ListedKept
  <2> QED BY <2>2, <2>3
<1>10. l \in [Id -> Seq([no : 1 .. MaxItems, row : 1 .. MaxItems])]
  <2>1. l[j] \in Seq([no : 1 .. MaxItems, row : 1 .. MaxItems])
    BY <1>3, <1>9 DEF Listed
  <2>2. Append(items[p][j], e) \in Seq([no : 1 .. MaxItems, row : 1 .. MaxItems])
    BY <1>3, <1>8, <2>1
  <2> QED BY <1>8, <2>2
<1> HIDE DEF a, b, e, l, u
<1>11. PassFits(todo[p], a, b, l)
  BY <1>3, <1>6, <1>9 DEF PassFits
<1>12. UNCHANGED decoded /\ todo' = [todo EXCEPT ![p] = todo[p]]
  BY <1>1 DEF Typed
<1> QED BY <1>2, <1>4, <1>10, <1>11, <1>12, StepFits, Zenon

LEMMA InitParse == Init => ParseInv
<1> DEFINE a == [section |-> Items, row |-> 1]
<1> SUFFICES ASSUME Init PROVE ParseInv
  OBVIOUS
<1>1. DecodedInv
  BY DEF Init, DecodedInv
<1>2. a \in Place
  BY ItemsIsSection, RowBounds DEF Place
<1>3. /\ todo = [p \in Pass |-> HeaderSection] /\ at = [p \in Pass |-> a]
      /\ by = [p \in Pass |-> [i \in Id |-> NoPlace]] /\ items = [p \in Pass |-> [i \in Id |-> <<>>]]
  BY DEF Init, Items
<1>4. PathInv(HeaderSection, a) /\ \A s \in Section : Read(HeaderSection, a, s) = 0
  BY <1>1, StartPath
<1> HIDE DEF a
<1>5. Typed
  <2>1. <<>> \in Seq([no : 1 .. MaxItems, row : 1 .. MaxItems])
    BY EmptySeq
  <2>2. todo \in [Pass -> SUBSET HeaderSection] /\ at \in [Pass -> Place \cup {NoPlace}]
    BY <1>2, <1>3
  <2>3. by \in [Pass -> [Id -> Place \cup {NoPlace}]]
    BY <1>3
  <2>4. items \in [Pass -> [Id -> Seq([no : 1 .. MaxItems, row : 1 .. MaxItems])]]
    BY <1>3, <2>1
  <2> QED BY <1>1, <2>2, <2>3, <2>4 DEF Typed
<1>6. \A i \in Id : Headed(HeaderSection, a, NoPlace, i)
  BY <1>4 DEF Headed
<1>7. \A i \in Id : Listed(<<>>, 0, i)
  <2>1. <<>> \in Seq([no : 1 .. MaxItems, row : 1 .. MaxItems]) /\ Len(<<>>) = 0
    BY EmptySeq
  <2> QED BY <2>1, RankNone DEF Listed
<1>8. ASSUME NEW p \in Pass PROVE PassInv(p)
  <2>1. todo[p] = HeaderSection /\ at[p] = a /\ \A i \in Id : by[p][i] = NoPlace /\ items[p][i] = <<>>
    BY <1>3
  <2>2. Read(HeaderSection, a, Items) = 0
    BY <1>4, ItemsIsSection
  <2> QED BY <1>4, <1>6, <1>7, <2>1, <2>2 DEF PassInv
<1> QED BY <1>5, <1>8 DEF ParseInv

LEMMA NextParse == ParseInv /\ [Next]_vars => ParseInv'
<1>1. ASSUME ParseInv, NEW p \in Pass, Skip(p) \/ ItemRow(p) \/ HeaderRow(p) \/ NextSection(p)
      PROVE  ParseInv'
  BY <1>1, SkipStep, ItemRowStep, HeaderRowStep, SectionStep
<1>2. ASSUME ParseInv, UNCHANGED vars PROVE ParseInv'
  <2>1. UNCHANGED decoded /\ UNCHANGED <<todo, at, by, items>>
    BY <1>2 DEF vars
  <2>2. Typed'
    BY <1>2, <2>1 DEF ParseInv, Typed, DecodedInv
  <2>3. \A p \in Pass : PassInv(p)'
    BY <1>2, <2>1, OthersKeep DEF ParseInv
  <2> QED BY <2>2, <2>3 DEF ParseInv
<1> QED BY <1>1, <1>2 DEF Next

LEMMA ParseInvariance == Spec => []ParseInv
BY InitParse, NextParse, PTL DEF Spec

-----------------------------------------------------------------------------
(***************************************************************************)
(* The theorems.                                                           *)
(***************************************************************************)

\* A pass that is through has read everything.
LEMMA DoneHasRead ==
  ASSUME ParseInv, NEW p \in Pass, Done(p)
  PROVE  /\ \A s \in Section : Read(todo[p], at[p], s) = Len(decoded[s])
         /\ \A s \in Section : Len(decoded[s]) \in Nat
         /\ \A s \in Section, i \in Id : \A n : n \in RowsOf(s, i) <=>
              n \in 1 .. Len(decoded[s]) /\ decoded[s][n] = i
<1>1. DecodedInv /\ PassInv(p)
  BY DEF ParseInv, Typed
<1>2. at[p] = NoPlace /\ todo[p] = {}
  BY <1>1 DEF Done, PassInv, PathInv
<1>3. \A s \in Section : Len(decoded[s]) \in Nat /\ DOMAIN decoded[s] = 1 .. Len(decoded[s])
  BY <1>1, SectionRows
<1>4. \A s \in Section : Read(todo[p], at[p], s) = Len(decoded[s])
  BY <1>2 DEF Read
<1> QED BY <1>3, <1>4 DEF RowsOf

\* What is listed for an invoice in the end.
LEMMA DoneIsListed ==
  ASSUME ParseInv, NEW p \in Pass, Done(p), NEW i \in Id
  PROVE  /\ Listed(items[p][i], Len(decoded[Items]), i)
         /\ Headed(todo[p], at[p], by[p][i], i)
BY DoneHasRead, ItemsIsSection DEF ParseInv, PassInv

\* Every variable keeps its type, for any number of rows: the numbers of the
\* item lines stay within the rows of the section.
THEOREM ParseTypeCorrect == Spec => []TypeOK
<1>1. ParseInv => TypeOK
  BY DEF ParseInv, Typed, TypeOK, DecodedInv
<1> QED BY <1>1, ParseInvariance, PTL

\* The items of an invoice are all its rows of XXHZB, in their order, numbered
\* without gaps.
THEOREM ItemsAreComplete == Spec => []ItemsAreItsRows
<1>1. ASSUME ParseInv, NEW p \in Pass, Done(p), NEW i \in Id
      PROVE  /\ {items[p][i][n].row : n \in DOMAIN items[p][i]} = RowsOf(Items, i)
             /\ \A n \in DOMAIN items[p][i] :
                  /\ items[p][i][n].no = n
                  /\ n > 1 => items[p][i][n - 1].row < items[p][i][n].row
  <2> DEFINE l == items[p][i]
             u == Len(decoded[Items])
  <2>1. Listed(l, u, i) /\ u \in Nat
    BY <1>1, DoneIsListed, DoneHasRead, ItemsIsSection
  <2>2. \A n : n \in RowsOf(Items, i) <=> n \in 1 .. u /\ decoded[Items][n] = i
    BY <1>1, DoneHasRead, ItemsIsSection
  <2> HIDE DEF l, u
  <2>3. /\ l \in Seq([no : 1 .. MaxItems, row : 1 .. MaxItems]) /\ Len(l) = Rank(i, u)
        /\ \A n \in 1 .. Len(l) : /\ l[n].no = n /\ l[n].row <= u
                                  /\ decoded[Items][l[n].row] = i /\ Rank(i, l[n].row) = n
        /\ \A r \in 1 .. u : decoded[Items][r] = i => l[Rank(i, r)].row = r
    BY <2>1 DEF Listed
  <2>4. DOMAIN l = 1 .. Len(l) /\ Len(l) \in Nat
    BY <2>3, LenProperties
  <2>5. \A n \in 1 .. Len(l) : l[n].row \in Nat \ {0}
    <3>1. \A n \in 1 .. Len(l) : l[n] \in [no : 1 .. MaxItems, row : 1 .. MaxItems]
      BY <2>3, ElementOfSeq
    <3> QED BY <3>1, RowBounds
  <2>6. ASSUME NEW r \in RowsOf(Items, i) PROVE \E n \in DOMAIN l : l[n].row = r
    <3>1. r \in 1 .. u /\ decoded[Items][r] = i
      BY <2>2
    <3>2. Rank(i, r) \in 1 .. Len(l)
      BY <2>1, <2>3, <3>1, RankInBounds
    <3> QED BY <2>3, <2>4, <3>1, <3>2
  <2>7. ASSUME NEW n \in DOMAIN l PROVE l[n].row \in RowsOf(Items, i)
    BY <2>1, <2>2, <2>3, <2>4, <2>5
  <2>8. ASSUME NEW n \in DOMAIN l, n > 1 PROVE l[n - 1].row < l[n].row
    <3>1. n \in 1 .. Len(l) /\ n - 1 \in 1 .. Len(l)
      BY <2>4, <2>8
    <3>2. Rank(i, l[n].row) = n /\ Rank(i, l[n - 1].row) = n - 1
      BY <2>3, <3>1
    <3>3. l[n].row \in Nat /\ l[n - 1].row \in Nat /\ decoded[Items][l[n - 1].row] = i
      BY <2>3, <2>5, <3>1
    <3>4. ~(l[n].row < l[n - 1].row)
      <4>1. l[n].row < l[n - 1].row => Rank(i, l[n].row) < Rank(i, l[n - 1].row)
        BY <3>3, RankGrows
      <4> QED BY <3>1, <3>2, <4>1
    <3>5. l[n].row # l[n - 1].row
      BY <3>1, <3>2
    <3> QED BY <3>3, <3>4, <3>5
  <2>9. {l[n].row : n \in DOMAIN l} = RowsOf(Items, i)
    BY <2>6, <2>7
  <2> QED BY <2>3, <2>4, <2>8, <2>9 DEF l
<1>2. ParseInv => ItemsAreItsRows
  BY <1>1 DEF ItemsAreItsRows, Items
<1> QED BY <1>2, ParseInvariance, PTL

\* An invoice listed in XXHZB takes its header from its first row there, any other
\* from the first row of some section that names it.
THEOREM HeaderComesFirst == Spec => []HeaderIsFirstRow
<1>1. ASSUME ParseInv, NEW p \in Pass, Done(p), NEW i \in Id, by[p][i] # NoPlace
      PROVE  /\ RowsOf(Items, i) # {} => by[p][i].section = Items
             /\ by[p][i].row \in RowsOf(by[p][i].section, i)
             /\ \A n \in RowsOf(by[p][i].section, i) : by[p][i].row <= n
  <2> DEFINE h == by[p][i]
  <2>1. /\ h \in Place /\ h.row <= Read(todo[p], at[p], h.section) /\ decoded[h.section][h.row] = i
        /\ \A r \in 1 .. h.row - 1 : decoded[h.section][r] # i
        /\ (\E r \in 1 .. Read(todo[p], at[p], Items) : decoded[Items][r] = i) => h.section = Items
    BY <1>1, DoneIsListed DEF Headed
  <2> HIDE DEF h
  <2>2. h.section \in Section /\ h.row \in Nat \ {0}
    BY <2>1, RowBounds DEF Place
  <2>3. /\ \A n : n \in RowsOf(h.section, i) <=> n \in 1 .. Len(decoded[h.section]) /\ decoded[h.section][n] = i
        /\ \A n : n \in RowsOf(Items, i) <=> n \in 1 .. Len(decoded[Items]) /\ decoded[Items][n] = i
        /\ Read(todo[p], at[p], h.section) = Len(decoded[h.section])
        /\ Read(todo[p], at[p], Items) = Len(decoded[Items])
        /\ Len(decoded[h.section]) \in Nat
    BY <1>1, <2>2, DoneHasRead, ItemsIsSection
  <2>4. h.row \in RowsOf(h.section, i)
    BY <2>1, <2>2, <2>3
  <2>5. ASSUME NEW n \in RowsOf(h.section, i) PROVE h.row <= n
    <3>1. n \in 1 .. Len(decoded[h.section]) /\ decoded[h.section][n] = i
      BY <2>3
    <3>2. n \notin 1 .. h.row - 1
      BY <2>1, <3>1
    <3> QED BY <2>2, <2>3, <3>1, <3>2
  <2>6. RowsOf(Items, i) # {} => h.section = Items
    BY <2>1, <2>3
  <2> QED BY <2>4, <2>5, <2>6 DEF h
<1>2. ParseInv => HeaderIsFirstRow
  BY <1>1 DEF HeaderIsFirstRow, Items
<1> QED BY <1>2, ParseInvariance, PTL

\* An invoice has a header in the end exactly if some section names it.
LEMMA DoneIsHeaded ==
  ASSUME ParseInv, NEW p \in Pass, Done(p), NEW i \in Id
  PROVE  by[p][i] # NoPlace <=> \E s \in Section : RowsOf(s, i) # {}
<1> DEFINE h == by[p][i]
<1>1. Headed(todo[p], at[p], h, i)
  BY DoneIsListed
<1>2. /\ \A s \in Section : Read(todo[p], at[p], s) = Len(decoded[s]) /\ Len(decoded[s]) \in Nat
      /\ \A s \in Section : \A n : n \in RowsOf(s, i) <=>
           n \in 1 .. Len(decoded[s]) /\ decoded[s][n] = i
  BY DoneHasRead
<1> HIDE DEF h
<1>3. CASE h = NoPlace
  <2>1. \A s \in Section : \A r \in 1 .. Read(todo[p], at[p], s) : decoded[s][r] # i
    BY <1>1, <1>3, NoPlaceIsNone DEF Headed
  <2>2. \A s \in Section : RowsOf(s, i) = {}
    BY <1>2, <2>1
  <2> QED BY <1>3, <2>2 DEF h
<1>4. CASE h # NoPlace
  <2>1. h \in Place /\ h.row <= Read(todo[p], at[p], h.section) /\ decoded[h.section][h.row] = i
    BY <1>1, <1>4 DEF Headed
  <2>2. h.section \in Section /\ h.row \in Nat \ {0}
    BY <2>1, RowBounds DEF Place
  <2>3. h.row \in RowsOf(h.section, i)
    BY <1>2, <2>1, <2>2
  <2> QED BY <1>4, <2>2, <2>3 DEF h
<1> QED BY <1>3, <1>4

\* No invoice of an answer is lost, and none is made up.
THEOREM NoInvoiceIsLost == Spec => []NothingLost
<1>1. ParseInv => NothingLost
  BY DoneIsHeaded DEF NothingLost
<1> QED BY <1>1, ParseInvariance, PTL

\* A finished pass returns the answer: its invoices, their headers and item lines.
THEOREM ParsedIsRight == Spec => []ParsedIsAnswer
<1>1. ItemsAreItsRows /\ HeaderIsFirstRow /\ NothingLost => ParsedIsAnswer
  BY DEF ParsedIsAnswer
<1> QED BY <1>1, ItemsAreComplete, HeaderComesFirst, NoInvoiceIsLost, PTL

\* Parsing an answer again, whatever the order of the header-only sections, gives
\* the same invoices and items, and another header only to an invoice that several
\* of those sections list.
THEOREM PassesAgreeAlways == Spec => []PassesAgree
<1>1. ASSUME ParseInv, HeaderIsFirstRow, NEW p \in Pass, NEW q \in Pass, Done(p), Done(q)
      PROVE  /\ items[p] = items[q]
             /\ \A i \in Id : by[p][i] # by[q][i] =>
                  /\ RowsOf("XXHZB", i) = {}
                  /\ by[p][i] # NoPlace /\ by[q][i] # NoPlace
                  /\ by[p][i].section # by[q][i].section
  <2>1. \A i \in Id : items[p][i] = items[q][i]
    BY <1>1, DoneIsListed, DoneHasRead, ListedOnce, ItemsIsSection
  <2>2. /\ items[p] \in [Id -> Seq([no : 1 .. MaxItems, row : 1 .. MaxItems])]
        /\ items[q] \in [Id -> Seq([no : 1 .. MaxItems, row : 1 .. MaxItems])]
        /\ by[p] \in [Id -> Place \cup {NoPlace}] /\ by[q] \in [Id -> Place \cup {NoPlace}]
    BY <1>1 DEF ParseInv, Typed
  <2>3. items[p] = items[q]
    BY <2>1, <2>2
  <2>4. ASSUME NEW i \in Id, by[p][i] # by[q][i]
        PROVE  /\ RowsOf("XXHZB", i) = {}
               /\ by[p][i] # NoPlace /\ by[q][i] # NoPlace
               /\ by[p][i].section # by[q][i].section
    <3>1. by[p][i] # NoPlace /\ by[q][i] # NoPlace
      BY <1>1, <2>4, DoneIsHeaded
    <3>2. by[p][i] \in Place /\ by[q][i] \in Place
      BY <2>2, <3>1
    <3> DEFINE h == by[p][i]
               g == by[q][i]
    <3>3. /\ RowsOf("XXHZB", i) # {} => h.section = "XXHZB" /\ g.section = "XXHZB"
          /\ h.row \in RowsOf(h.section, i) /\ g.row \in RowsOf(g.section, i)
          /\ \A n \in RowsOf(h.section, i) : h.row <= n
          /\ \A n \in RowsOf(g.section, i) : g.row <= n
      BY <1>1, <3>1 DEF HeaderIsFirstRow
    <3> HIDE DEF h, g
    <3>4. h # g /\ h \in Place /\ g \in Place
      BY <2>4, <3>2 DEF h, g
    <3>5. h.section # g.section
      <4>1. SUFFICES ASSUME h.section = g.section PROVE FALSE
        OBVIOUS
      <4>2. h.row <= g.row /\ g.row <= h.row /\ h.row \in Nat /\ g.row \in Nat
        BY <3>3, <3>4, <4>1, RowBounds DEF Place
      <4>3. h.row = g.row
        BY <4>2
      <4> QED BY <3>4, <4>1, <4>3 DEF Place
    <3> QED BY <3>1, <3>3, <3>5 DEF h, g
  <2> QED BY <2>3, <2>4
<1>2. ParseInv /\ HeaderIsFirstRow => PassesAgree
  BY <1>1 DEF PassesAgree
<1> QED BY <1>2, ParseInvariance, HeaderComesFirst, PTL
=============================================================================
