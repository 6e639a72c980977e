--------------------------- MODULE WebSearchProofs ---------------------------
(***************************************************************************)
(* What is proved about the search page, for any apexes, names, pages,     *)
(* blocks, reads and changes of the catalog: what is shown is the record of*)
(* the apex that heading and location name, and the pages of a record show *)
(* the names that do not change in between once each.                      *)
(***************************************************************************)
EXTENDS WebSearch, FiniteSetTheorems, WellFoundedInduction, TLAPS
-----------------------------------------------------------------------------
(* Rows in order *)

IsOrder(S, R) ==
    /\ \A x \in S : <<x, x>> \notin R
    /\ \A x, y, z \in S : <<x, y>> \in R /\ <<y, z>> \in R => <<x, z>> \in R
    /\ \A x, y \in S : x # y => <<x, y>> \in R \/ <<y, x>> \in R

Preceding(S, R, x) == {y \in S : <<y, x>> \in R}

Rank(S, R, x) == Cardinality(Preceding(S, R, x))

LEMMA RankTypes ==
    ASSUME NEW S, IsFiniteSet(S), NEW R, IsOrder(S, R), NEW x \in S
    PROVE  Rank(S, R, x) \in Nat /\ Rank(S, R, x) < Cardinality(S)
<1>1. Preceding(S, R, x) \in SUBSET S /\ Preceding(S, R, x) # S
  BY DEF Preceding, IsOrder
<1>2. /\ Rank(S, R, x) <= Cardinality(S) /\ Rank(S, R, x) # Cardinality(S)
      /\ IsFiniteSet(Preceding(S, R, x))
  BY <1>1, FS_Subset DEF Rank
<1>3. Rank(S, R, x) \in Nat /\ Cardinality(S) \in Nat
  BY <1>2, FS_CardinalityType DEF Rank
<1> QED
  BY <1>2, <1>3

LEMMA RanksGrow ==
    ASSUME NEW S, IsFiniteSet(S), NEW R, IsOrder(S, R), NEW x \in S, NEW y \in S,
           <<x, y>> \in R
    PROVE  Rank(S, R, x) < Rank(S, R, y)
<1>1. Preceding(S, R, x) \in SUBSET Preceding(S, R, y)
  BY DEF Preceding, IsOrder
<1>2. Preceding(S, R, x) # Preceding(S, R, y)
  BY DEF Preceding, IsOrder
<1>3. IsFiniteSet(Preceding(S, R, y))
  BY FS_Subset DEF Preceding
<1>4. Rank(S, R, x) <= Rank(S, R, y) /\ Rank(S, R, x) # Rank(S, R, y)
  BY <1>1, <1>2, <1>3, FS_Subset DEF Rank
<1> QED
  BY <1>4, RankTypes

\* In a finite order each place is held by one element.
LEMMA RanksAreFilled ==
    ASSUME NEW S, IsFiniteSet(S), NEW R, IsOrder(S, R),
           NEW k \in Nat, k < Cardinality(S)
    PROVE  \E x \in S : Rank(S, R, x) = k
<1>1. PICK n \in Nat : n = Cardinality(S)
  BY FS_CardinalityType
<1>2. PICK rank : rank = [x \in S |-> Rank(S, R, x)]
  OBVIOUS
<1>3. \A x \in S : rank[x] = Rank(S, R, x) /\ rank[x] \in 0..(n - 1)
  BY <1>1, <1>2, RankTypes
<1>4. \A x, y \in S : rank[x] = rank[y] => x = y
  <2> SUFFICES ASSUME NEW x \in S, NEW y \in S, rank[x] = rank[y], x # y
               PROVE  FALSE
    OBVIOUS
  <2>1. <<x, y>> \in R \/ <<y, x>> \in R
    BY DEF IsOrder
  <2>2. Rank(S, R, x) < Rank(S, R, y) \/ Rank(S, R, y) < Rank(S, R, x)
    BY <2>1, RanksGrow
  <2>3. Rank(S, R, x) = Rank(S, R, y) /\ Rank(S, R, x) \in Nat
    BY <1>3, RankTypes
  <2> QED
    BY <2>2, <2>3
<1>5. rank \in Injection(S, 0..(n - 1))
  BY <1>2, <1>3, <1>4 DEF Injection, IsInjective
<1>6. IsFiniteSet(0..(n - 1)) /\ Cardinality(0..(n - 1)) = n
  <2>1. 0 \in Int /\ n - 1 \in Int /\ (0 > n - 1 => n = 0) /\ (n - 1) - 0 + 1 = n
    OBVIOUS
  <2> QED
    BY <2>1, FS_Interval
<1>7. rank \in Surjection(S, 0..(n - 1))
  BY <1>1, <1>5, <1>6, FS_Injection
<1>8. k \in 0..(n - 1)
  BY <1>1
<1> QED
  BY <1>3, <1>7, <1>8 DEF Surjection

\* A sequence of the elements of S in the order R.
Lists(s, S, R) ==
    /\ s \in [1..Cardinality(S) -> S]
    /\ \A i, j \in 1..Cardinality(S) : i < j <=> <<s[i], s[j]>> \in R
    /\ \A x \in S : \E i \in 1..Cardinality(S) : s[i] = x

LEMMA OrderedList ==
    ASSUME NEW S, IsFiniteSet(S), NEW R, IsOrder(S, R)
    PROVE  /\ Lists(InOrder(S, R), S, R) /\ InOrder(S, R) \in Seq(S)
           /\ Len(InOrder(S, R)) = Cardinality(S) /\ Cardinality(S) \in Nat
<1>1. PICK s : s = InOrder(S, R)
  OBVIOUS
<1>2. PICK n \in Nat : n = Cardinality(S)
  BY FS_CardinalityType
<1>3. ASSUME NEW i \in 1..n PROVE s[i] \in S /\ Rank(S, R, s[i]) = i - 1
  <2>1. i - 1 \in Nat /\ i - 1 < n
    OBVIOUS
  <2>2. \E x \in S : Rank(S, R, x) = i - 1
    BY <1>2, <2>1, RanksAreFilled
  <2>3. s[i] = CHOOSE x \in S : Rank(S, R, x) = i - 1
    BY <1>1, <1>2 DEF InOrder, Rank, Preceding
  <2> QED
    BY <2>2, <2>3
<1>4. s \in [1..n -> S]
  <2> DEFINE At(i) == CHOOSE x \in S : Cardinality({y \in S : <<y, x>> \in R}) = i - 1
  <2>1. s = [i \in 1..n |-> At(i)]
    BY <1>1, <1>2 DEF InOrder
  <2> HIDE DEF At
  <2> QED
    BY <1>3, <2>1
<1>5. ASSUME NEW i \in 1..n, NEW j \in 1..n
      PROVE  i < j <=> <<s[i], s[j]>> \in R
  <2>1. PICK x \in S, y \in S : x = s[i] /\ y = s[j]
    BY <1>3
  <2>2. Rank(S, R, x) = i - 1 /\ Rank(S, R, y) = j - 1
    BY <1>3, <2>1
  <2>3. <<x, y>> \in R => i < j
    BY <2>2, RanksGrow
  <2>4. <<y, x>> \in R => j < i
    BY <2>2, RanksGrow
  <2>5. x = y => i = j
    BY <2>2
  <2>6. x # y => <<x, y>> \in R \/ <<y, x>> \in R
    BY DEF IsOrder
  <2> QED
    BY <2>1, <2>3, <2>4, <2>5, <2>6
<1>6. ASSUME NEW x \in S PROVE \E i \in 1..n : s[i] = x
  <2>1. PICK k \in 1..n : k = Rank(S, R, x) + 1
    BY <1>2, RankTypes
  <2>2. PICK y \in S : y = s[k] /\ Rank(S, R, y) = k - 1
    BY <1>3
  <2>3. Rank(S, R, x) \in Nat
    BY RankTypes
  <2>4. Rank(S, R, y) = Rank(S, R, x)
    BY <2>1, <2>2, <2>3
  <2>5. x = y
    <3>1. x # y => <<x, y>> \in R \/ <<y, x>> \in R
      BY DEF IsOrder
    <3>2. <<x, y>> \in R => Rank(S, R, x) < Rank(S, R, y)
      BY RanksGrow
    <3>3. <<y, x>> \in R => Rank(S, R, y) < Rank(S, R, x)
      BY RanksGrow
    <3> QED
      BY <2>3, <2>4, <3>1, <3>2, <3>3
  <2> QED
    BY <2>2, <2>5
<1>7. Lists(s, S, R)
  BY <1>2, <1>4, <1>5, <1>6 DEF Lists
<1>8. s \in Seq(S) /\ Len(s) = n
  BY <1>4
<1> QED
  BY <1>1, <1>2, <1>7, <1>8
-----------------------------------------------------------------------------
(* Pages *)

LEMMA ConstantFacts ==
    /\ Apexes \in Nat \ {0} /\ Names \in Nat \ {0} /\ PageSize \in Nat \ {0}
    /\ BlockSize \in Nat \ {0} /\ MaxReads \in Nat /\ Undated \in Nat
    /\ Starts \subseteq [Apex -> [Name -> 0..Absent]] /\ MaxChanges \in Nat
    /\ Apex \subseteq Nat \ {0} /\ Name \subseteq Nat \ {0} /\ Absent \in Nat
BY WebSearchAssumption DEF Apex, Name, Absent

LEMMA RowFacts ==
    /\ NoCursor \notin Row /\ NoCursor.apex = 0 /\ 0 \notin Apex
    /\ \A r \in Row : /\ r.apex \in Apex /\ r.name \in Name /\ r.name \in Nat
                      /\ r.date \in 0..Undated /\ r.date \in Nat
                      /\ r = [apex |-> r.apex, name |-> r.name, date |-> r.date]
<1>1. NoCursor.apex = 0 /\ 0 \notin Apex
  BY ConstantFacts DEF NoCursor
<1>2. \A r \in Row : /\ r.apex \in Apex /\ r.name \in Name /\ r.date \in 0..Undated
                     /\ r = [apex |-> r.apex, name |-> r.name, date |-> r.date]
  BY DEF Row
<1>3. \A n \in Name : n \in Nat
  BY ConstantFacts
<1>4. \A d \in 0..Undated : d \in Nat
  BY ConstantFacts
<1> QED
  BY <1>1, <1>2, <1>3, <1>4

\* The rows of an apex.
Of(a, rows) == \A i \in DOMAIN rows : rows[i].apex = a

LEMMA RecordFacts ==
    ASSUME TypeOK, NEW a \in Apex
    PROVE  /\ IsFiniteSet(Records(a)) /\ Records(a) \subseteq Row
           /\ \A r \in Records(a) : r.apex = a
<1>1. ASSUME NEW n \in NamesOf(catalog, a)
      PROVE  RowOf(a, n) \in Row /\ RowOf(a, n).apex = a
  <2>1. catalog[a][n] \in 0..Absent /\ catalog[a][n] # Absent /\ n \in Name
    BY DEF TypeOK, NamesOf
  <2>2. catalog[a][n] \in 0..Undated
    BY <2>1, ConstantFacts DEF Absent
  <2> QED
    BY <2>1, <2>2 DEF RowOf, Row
<1>2. IsFiniteSet(NamesOf(catalog, a))
  <2>1. IsFiniteSet(Name)
    BY ConstantFacts, FS_Interval DEF Name
  <2> QED
    BY <2>1, FS_Subset DEF NamesOf
<1>3. PICK f : f = [n \in NamesOf(catalog, a) |-> RowOf(a, n)]
  OBVIOUS
<1>4. f \in Surjection(NamesOf(catalog, a), Records(a))
  BY <1>3 DEF Surjection, Records
<1>5. IsFiniteSet(Records(a))
  BY <1>2, <1>4, FS_Surjection
<1> QED
  BY <1>1, <1>5 DEF Records

\* Rows of one apex are in a strict order, which is theirs in a list.
LEMMA RowsAreOrdered ==
    ASSUME NEW a, NEW S \in SUBSET Row, \A r \in S : r.apex = a
    PROVE  IsOrder(S, ByDate)
<1>1. \A x, y \in S : <<x, y>> \in ByDate <=> Earlier(x, y)
  BY DEF ByDate
<1>2. \A x, y \in S : x.date = y.date /\ x.name = y.name => x = y
  BY RowFacts
<1>3. ASSUME NEW x \in S, NEW y \in S, x # y PROVE Earlier(x, y) \/ Earlier(y, x)
  BY <1>2, <1>3, RowFacts DEF Earlier
<1>4. \A x \in S : ~Earlier(x, x)
  BY RowFacts DEF Earlier
<1>5. ASSUME NEW x \in S, NEW y \in S, NEW z \in S, Earlier(x, y), Earlier(y, z)
      PROVE  Earlier(x, z)
  BY <1>5, RowFacts DEF Earlier
<1> QED
  BY <1>1, <1>3, <1>4, <1>5 DEF IsOrder

LEMMA RowsInOrder ==
    ASSUME NEW a, NEW S \in SUBSET Row, \A r \in S : r.apex = a, IsFiniteSet(S)
    PROVE  /\ Lists(InOrder(S, ByDate), S, ByDate)
           /\ InOrder(S, ByDate) \in Seq(S)
           /\ Len(InOrder(S, ByDate)) = Cardinality(S) /\ Cardinality(S) \in Nat
BY RowsAreOrdered, OrderedList
LEMMA MinOfTwo ==
    ASSUME NEW m \in Nat, NEW n \in Nat
    PROVE  Min({m, n}) \in {m, n} /\ Min({m, n}) <= m /\ Min({m, n}) <= n
<1>1. \E x \in {m, n} : \A y \in {m, n} : x <= y
  OBVIOUS
<1> QED
  BY <1>1 DEF Min

\* What a page holds.
LEMMA PageFacts ==
    ASSUME TypeOK, NEW a \in Apex, NEW cursor
    PROVE  PageOf(a, cursor) \in Page /\ Of(a, PageOf(a, cursor).rows)
<1>1. PICK all : all = Located(a)
  OBVIOUS
<1>2. PICK S : S = {r \in all : Follows(cursor, r)}
  OBVIOUS
<1>3. IsFiniteSet(all) /\ all \subseteq Row /\ \A r \in all : r.apex = a
  BY <1>1, RecordFacts, FS_EmptySet DEF Located
<1>4. IsFiniteSet(S) /\ S \in SUBSET Row /\ \A r \in S : r.apex = a
  BY <1>2, <1>3, FS_Subset
<1>5. PICK rest \in Seq(S) : rest = InOrder(S, ByDate)
  BY <1>4, RowsInOrder
<1>6. PICK k \in 0..Len(rest) :
        k = Min({PageSize, Len(rest)}) /\ (Len(rest) > PageSize => k # 0)
  <2>1. PageSize \in Nat /\ PageSize # 0 /\ Len(rest) \in Nat
    BY ConstantFacts
  <2> QED
    BY <2>1, MinOfTwo
<1>7. PICK rows : rows = SubSeq(rest, 1, k)
  OBVIOUS
<1>8. /\ rows \in Seq(S) /\ Len(rows) = k
  BY <1>7
<1>9. rows \in Seq(Row) /\ Of(a, rows)
  BY <1>4, <1>8 DEF Of
<1>10. Len(rest) > PageSize => Last(rows) \in Row
  BY <1>6, <1>8, <1>9 DEF Last
<1>11. Cardinality(all) \in Nat
  BY <1>3, FS_CardinalityType
<1>12. PageOf(a, cursor) =
         [rows |-> rows, next |-> IF Len(rest) > PageSize THEN Last(rows) ELSE NoCursor,
          total |-> Cardinality(all), version |-> version]
  BY <1>1, <1>2, <1>5, <1>6, <1>7 DEF PageOf
<1>13. version \in 0..MaxChanges
  BY DEF TypeOK
<1> QED
  BY <1>9, <1>10, <1>11, <1>12, <1>13 DEF Page
-----------------------------------------------------------------------------
(* The inductive invariant *)

\* Every page an object holds, or may step back to, is of its apex.
ObjectsAreOne ==
    \A k \in DOMAIN heap :
        /\ Of(heap[k].apex, heap[k].rows)
        /\ \A i \in DOMAIN heap[k].back : Of(heap[k].apex, heap[k].back[i].rows)

CacheIsOfItsApex == \A a \in Apex : cache[a] # 0 => heap[cache[a]].apex = a

\* What a read will bring, and the object that a page will be put into.
ReadsAreRight ==
    \A r \in Read : reads[r] # Idle =>
        /\ Of(reads[r].apex, reads[r].page.rows)
        /\ reads[r].kind = "next" =>
             /\ current # 0 /\ heap[current].apex = reads[r].apex
             /\ Of(reads[r].apex, reads[r].entry.rows)

OneKindAtATime == UnderWay("search") = {} \/ UnderWay("next") = {}

\* A screen that waits is empty and closed, and waits for something.
BusyIsSearching ==
    screen.busy => ~screen.open /\ screen.rows = <<>> /\ UnderWay("search") # {}

ScreenInv ==
    /\ TypeOK
    /\ ObjectsAreOne
    /\ CacheIsOfItsApex
    /\ ReadsAreRight
    /\ OneKindAtATime
    /\ BusyIsSearching
    /\ ScreenIsConsistent
-----------------------------------------------------------------------------
(* Types *)

LEMMA NoPageIsAPage == NoPage \in Page /\ \A a : Of(a, NoPage.rows)
<1>1. 0 \in 0..MaxChanges /\ <<>> \in Seq(Row)
  BY ConstantFacts
<1> QED
  BY <1>1 DEF NoPage, Page, Of

\* The reads there can be.
Search == [pc: {"sent", "refused", "answered"}, kind: {"search"}, apex: Apex,
           cursor: {NoCursor}, page: Page]
Turn == [pc: {"sent", "refused", "answered"}, kind: {"next"}, apex: Apex,
         cursor: Row, page: Page, entry: Entry]

LEMMA ReadFacts ==
    ASSUME TypeOK, NEW r \in Read
    PROVE  /\ reads[r] \in {Idle} \cup Search \cup Turn
           /\ reads[r].pc # "idle" => reads[r] # Idle
           /\ reads[r] # Idle /\ reads[r].kind = "search" => reads[r] \in Search
           /\ reads[r] # Idle /\ reads[r].kind = "next" => reads[r] \in Turn
           /\ reads[r] # Idle =>
                /\ reads[r].apex \in Apex /\ reads[r].page \in Page
                /\ reads[r].pc \in {"sent", "refused", "answered"}
                /\ reads[r].kind \in {"search", "next"}
<1>1. reads[r] \in {Idle} \cup Search \cup Turn
  BY DEF TypeOK, ReadJob, Search, Turn
<1> QED
  BY <1>1 DEF Search, Turn, Idle

LEMMA HeapFacts ==
    ASSUME TypeOK, NEW k \in DOMAIN heap
    PROVE  /\ heap[k] \in Object /\ k \in 1..Len(heap)
           /\ heap[k].apex \in Apex /\ heap[k].rows \in Seq(Row)
           /\ heap[k].back \in Seq(Entry) /\ heap[k].start \in Nat
           /\ heap[k].cursor \in Row \cup {NoCursor} /\ heap[k].next \in Row \cup {NoCursor}
<1>1. heap \in Seq(Object)
  BY DEF TypeOK
<1>2. heap[k] \in Object /\ k \in 1..Len(heap)
  BY <1>1
<1> QED
  BY <1>2 DEF Object

\* An object is rendered, or a screen is painted or closed.
Screen == [shown: BOOLEAN, busy: BOOLEAN, open: BOOLEAN, heading: {0} \cup Apex,
           rows: Seq(Row)]

LEMMA ScreenMoves ==
    ASSUME NEW o \in Object, NEW scr \in Screen
    PROVE  /\ Painted(o, scr) \in Screen
           /\ Painted(o, scr).shown = scr.shown /\ Painted(o, scr).busy = scr.busy
           /\ Painted(o, scr).open = scr.open /\ Painted(o, scr).heading = scr.heading
           /\ Painted(o, scr).rows = o.rows
           /\ Rendered(o, scr) \in Screen
           /\ Rendered(o, scr).shown /\ ~Rendered(o, scr).busy
           /\ Rendered(o, scr).open = scr.open /\ Rendered(o, scr).heading = o.apex
           /\ Rendered(o, scr).rows = o.rows
<1>1. o.rows \in Seq(Row) /\ o.apex \in Apex
  BY DEF Object
<1>2. PICK p : p = Painted(o, scr)
  OBVIOUS
<1>3. p = [shown |-> scr.shown, busy |-> scr.busy, open |-> scr.open,
           heading |-> scr.heading, rows |-> o.rows]
  BY <1>2 DEF Painted, Screen
<1>4. PICK q : q = Rendered(o, scr)
  OBVIOUS
<1>5. q = [shown |-> TRUE, busy |-> FALSE, open |-> scr.open,
           heading |-> o.apex, rows |-> o.rows]
  <2>1. q = [p EXCEPT !.shown = TRUE, !.busy = FALSE, !.heading = o.apex]
    BY <1>2, <1>4 DEF Rendered
  <2> QED
    BY <1>3, <2>1
<1> QED
  BY <1>1, <1>2, <1>3, <1>4, <1>5 DEF Screen

\* Other changes of a screen.
LEMMA ScreenHides ==
    ASSUME NEW scr \in Screen, NEW x, x = [scr EXCEPT !.shown = FALSE]
    PROVE  /\ x \in Screen /\ ~x.shown /\ x.busy = scr.busy /\ x.open = scr.open
           /\ x.rows = scr.rows
<1>1. x = [shown |-> FALSE, busy |-> scr.busy, open |-> scr.open,
           heading |-> scr.heading, rows |-> scr.rows]
  BY DEF Screen
<1> QED
  BY <1>1 DEF Screen

LEMMA ScreenGivesUp ==
    ASSUME NEW scr \in Screen, NEW x, x = [scr EXCEPT !.shown = FALSE, !.busy = FALSE]
    PROVE  /\ x \in Screen /\ ~x.shown /\ ~x.busy /\ x.open = scr.open
           /\ x.heading = scr.heading /\ x.rows = scr.rows
<1>1. x = [shown |-> FALSE, busy |-> FALSE, open |-> scr.open,
           heading |-> scr.heading, rows |-> scr.rows]
  BY DEF Screen
<1> QED
  BY <1>1 DEF Screen

LEMMA ScreenOpens ==
    ASSUME NEW scr \in Screen, NEW x, x = [scr EXCEPT !.open = TRUE]
    PROVE  /\ x \in Screen /\ x.open /\ x.busy = scr.busy /\ x.shown = scr.shown
           /\ x.heading = scr.heading /\ x.rows = scr.rows
<1>1. x = [shown |-> scr.shown, busy |-> scr.busy, open |-> TRUE,
           heading |-> scr.heading, rows |-> scr.rows]
  BY DEF Screen
<1> QED
  BY <1>1 DEF Screen

LEMMA ScreenCloses ==
    ASSUME NEW scr \in Screen, NEW x, x = [scr EXCEPT !.open = FALSE]
    PROVE  /\ x \in Screen /\ ~x.open /\ x.busy = scr.busy /\ x.shown = scr.shown
           /\ x.heading = scr.heading /\ x.rows = scr.rows
<1>1. x = [shown |-> scr.shown, busy |-> scr.busy, open |-> FALSE,
           heading |-> scr.heading, rows |-> scr.rows]
  BY DEF Screen
<1> QED
  BY <1>1 DEF Screen

LEMMA ScreenWaits ==
    ASSUME NEW scr \in Screen, NEW a \in Apex, NEW x,
           x = [scr EXCEPT !.shown = TRUE, !.busy = TRUE, !.heading = a, !.rows = <<>>]
    PROVE  x \in Screen /\ x.busy /\ x.open = scr.open /\ x.rows = <<>>
<1>1. x = [shown |-> TRUE, busy |-> TRUE, open |-> scr.open, heading |-> a, rows |-> <<>>]
  BY DEF Screen
<1>2. <<>> \in Seq(Row)
  OBVIOUS
<1> QED
  BY <1>1, <1>2 DEF Screen

LEMMA TypesStay ==
    ASSUME TypeOK, UNCHANGED catalogVars, heap' \in Seq(Object),
           cache' \in [Apex -> 0..Len(heap')], current' \in 0..Len(heap'),
           screen' \in Screen, url' \in {0} \cup Apex, reads' \in [Read -> ReadJob]
    PROVE  TypeOK'
BY DEF TypeOK, catalogVars, Screen

LEMMA VariableTypes ==
    ASSUME TypeOK
    PROVE  /\ heap \in Seq(Object) /\ Len(heap) \in Nat /\ DOMAIN heap = 1..Len(heap)
           /\ cache \in [Apex -> 0..Len(heap)] /\ current \in 0..Len(heap)
           /\ screen \in Screen /\ url \in {0} \cup Apex /\ reads \in [Read -> ReadJob]
           /\ current # 0 => current \in DOMAIN heap
<1>1. heap \in Seq(Object) /\ current \in 0..Len(heap)
  BY DEF TypeOK
<1>2. Len(heap) \in Nat /\ DOMAIN heap = 1..Len(heap)
  BY <1>1
<1>3. current # 0 => current \in DOMAIN heap
  BY <1>1, <1>2
<1> QED
  BY <1>1, <1>2, <1>3 DEF TypeOK, Screen

\* One read goes on.
LEMMA ReadMoves ==
    ASSUME TypeOK, NEW r \in Read, NEW at \in {Idle} \cup Search \cup Turn, ReadGoes(r, at)
    PROVE  /\ reads' \in [Read -> ReadJob] /\ reads'[r] = at
           /\ \A s \in Read : s # r => reads'[s] = reads[s]
           /\ \A k : UnderWay(k)' \subseteq UnderWay(k) \cup {r}
           /\ \A k : at = Idle \/ at.kind # k => r \notin UnderWay(k)'
           /\ \A k, s : s # r => (s \in UnderWay(k)' <=> s \in UnderWay(k))
           /\ \A k : at # Idle /\ at.kind = k => r \in UnderWay(k)'
<1>1. reads \in [Read -> ReadJob] /\ at \in ReadJob
  BY DEF TypeOK, ReadJob, Search, Turn
<1>2. /\ reads' \in [Read -> ReadJob] /\ reads'[r] = at
      /\ \A s \in Read : s # r => reads'[s] = reads[s]
  BY <1>1 DEF ReadGoes
<1> QED
  BY <1>2 DEF UnderWay

\* An object is replaced.
LEMMA HeapPut ==
    ASSUME TypeOK, current # 0, NEW o \in Object, heap' = [heap EXCEPT ![current] = o]
    PROVE  /\ heap' \in Seq(Object) /\ Len(heap') = Len(heap) /\ DOMAIN heap' = DOMAIN heap
           /\ heap'[current] = o /\ \A k \in DOMAIN heap : k # current => heap'[k] = heap[k]
BY VariableTypes

\* One that is of the same apex.
LEMMA SameApex ==
    ASSUME TypeOK, ObjectsAreOne, CacheIsOfItsApex, current # 0, NEW o \in Object,
           heap' = [heap EXCEPT ![current] = o], cache' = cache,
           o.apex = heap[current].apex, Of(o.apex, o.rows),
           \A i \in DOMAIN o.back : Of(o.apex, o.back[i].rows)
    PROVE  /\ ObjectsAreOne' /\ CacheIsOfItsApex'
           /\ \A k \in DOMAIN heap : heap'[k].apex = heap[k].apex
<1>1. /\ DOMAIN heap' = DOMAIN heap
      /\ heap'[current] = o /\ \A k \in DOMAIN heap : k # current => heap'[k] = heap[k]
  BY HeapPut
<1>2. ObjectsAreOne'
  BY <1>1 DEF ObjectsAreOne, Of
<1>3. \A k \in DOMAIN heap : heap'[k].apex = heap[k].apex
  BY <1>1
<1>4. ASSUME NEW a \in Apex, cache[a] # 0 PROVE cache[a] \in DOMAIN heap
  BY <1>4, VariableTypes
<1> QED
  BY <1>2, <1>3, <1>4 DEF CacheIsOfItsApex

\* A screen that shows the current object.
Shows ==
    /\ current # 0 /\ heap[current].apex = screen.heading /\ url = screen.heading
    /\ screen.rows = heap[current].rows

LEMMA ShownAfter ==
    ASSUME TypeOK', ObjectsAreOne',
           (screen.shown \/ screen.open)' /\ ~screen.busy' => Shows'
    PROVE  ScreenIsConsistent'
<1>1. current' # 0 => current' \in DOMAIN heap'
  BY DEF TypeOK
<1> QED
  BY <1>1 DEF ScreenIsConsistent, Shows, ObjectsAreOne, Of

LEMMA ShownBefore ==
    ASSUME ScreenInv, screen.shown \/ screen.open, ~screen.busy
    PROVE  Shows /\ current \in DOMAIN heap
BY VariableTypes DEF ScreenInv, ScreenIsConsistent, Shows

\* An open shelf is not busy.
LEMMA OpenShows ==
    ASSUME ScreenInv, screen.open
    PROVE  ~screen.busy /\ Shows /\ current \in DOMAIN heap
BY ShownBefore DEF ScreenInv, BusyIsSearching

LEMMA ClosedFacts ==
    ASSUME ScreenInv
    PROVE  /\ Closed \in Screen /\ ~Closed.open /\ Closed.busy = screen.busy
           /\ Closed.shown = screen.shown /\ Closed.heading = screen.heading
           /\ Closed.rows = screen.rows
<1>1. TypeOK /\ screen \in Screen
  BY VariableTypes DEF ScreenInv
<1>2. CASE screen.open
  <2>1. Shows /\ heap[current] \in Object
    BY <1>1, <1>2, OpenShows, HeapFacts
  <2>2. PICK p \in Screen : p = Painted(heap[current], screen)
    BY <1>1, <2>1, ScreenMoves
  <2>3. /\ p.shown = screen.shown /\ p.busy = screen.busy
        /\ p.heading = screen.heading /\ p.rows = screen.rows
    BY <1>1, <2>1, <2>2, ScreenMoves DEF Shows
  <2>4. PICK c : c = Closed
    OBVIOUS
  <2>5. c = [p EXCEPT !.open = FALSE]
    BY <1>2, <2>2, <2>4 DEF Closed
  <2>6. /\ c \in Screen /\ ~c.open /\ c.busy = p.busy /\ c.shown = p.shown
        /\ c.heading = p.heading /\ c.rows = p.rows
    BY <2>5, ScreenCloses
  <2> QED
    BY <2>3, <2>4, <2>6
<1>3. CASE ~screen.open
  BY <1>1, <1>3 DEF Closed, Screen
<1> QED
  BY <1>2, <1>3
-----------------------------------------------------------------------------
(* Steps of the reader *)

LEMMA SearchStep ==
    ASSUME WaitsForPages, ScreenInv, NEW a \in Apex, NEW r \in Read,
           NEW scr \in Screen, ~scr.open, NEW location \in {0} \cup Apex,
           SearchesFor(a, r, scr, location)
    PROVE  ScreenInv'
<1>1. /\ TypeOK /\ ObjectsAreOne /\ CacheIsOfItsApex /\ ReadsAreRight
      /\ UnderWay("next") = {} /\ UNCHANGED <<catalogVars, heap, cache>>
  BY DEF ScreenInv, SearchesFor
<1>2. ObjectsAreOne' /\ CacheIsOfItsApex'
  BY <1>1 DEF ObjectsAreOne, CacheIsOfItsApex, Of
<1>3. ASSUME cache[a] # 0, current' = cache[a], screen' = Rendered(heap[cache[a]], scr),
             url' = a, reads' = reads
      PROVE  ScreenInv'
  <2>1. cache[a] \in DOMAIN heap /\ heap[cache[a]] \in Object /\ heap[cache[a]].apex = a
    BY <1>1, <1>3, VariableTypes, HeapFacts DEF CacheIsOfItsApex
  <2>2. /\ screen' \in Screen /\ screen'.shown /\ ~screen'.busy
        /\ screen'.heading = a /\ screen'.rows = heap[cache[a]].rows
    BY <1>3, <2>1, ScreenMoves
  <2>3. TypeOK'
    BY <1>1, <1>3, <2>1, <2>2, VariableTypes, TypesStay
  <2>4. UnderWay("next")' = {}
    BY <1>1, <1>3 DEF UnderWay
  <2>5. ReadsAreRight'
    BY <1>1, <1>3 DEF ReadsAreRight, UnderWay, Of
  <2>6. Shows'
    BY <1>1, <1>3, <2>1, <2>2 DEF Shows
  <2>7. ScreenIsConsistent'
    BY <1>2, <2>3, <2>6, ShownAfter
  <2> QED
    BY <1>2, <2>2, <2>3, <2>4, <2>5, <2>7 DEF ScreenInv, OneKindAtATime, BusyIsSearching
<1>4. ASSUME IsFree(r),
             ReadGoes(r, [pc |-> "sent", kind |-> "search", apex |-> a,
                          cursor |-> NoCursor, page |-> NoPage]),
             screen' = [scr EXCEPT !.shown = TRUE, !.busy = TRUE, !.heading = a,
                                   !.rows = <<>>],
             url' = location, current' = current
      PROVE  ScreenInv'
  <2>1. PICK at \in Search :
          ReadGoes(r, at) /\ at.kind = "search" /\ Of(at.apex, at.page.rows)
    <3>1. PICK at : at = [pc |-> "sent", kind |-> "search", apex |-> a,
                          cursor |-> NoCursor, page |-> NoPage]
      OBVIOUS
    <3>2. at \in Search /\ at.kind = "search" /\ Of(at.apex, at.page.rows)
      BY <3>1, NoPageIsAPage DEF Search
    <3> QED
      BY <1>4, <3>1, <3>2
  <2>2. at # Idle
    BY DEF Search, Idle
  <2>3. /\ reads' \in [Read -> ReadJob] /\ reads'[r] = at
        /\ \A s \in Read : s # r => reads'[s] = reads[s]
        /\ UnderWay("next")' = {} /\ UnderWay("search")' # {}
    BY <1>1, <2>1, <2>2, ReadMoves
  <2>4. screen' \in Screen /\ screen'.busy /\ ~screen'.open /\ screen'.rows = <<>>
    BY <1>4, ScreenWaits
  <2>5. TypeOK'
    BY <1>1, <1>4, <2>3, <2>4, VariableTypes, TypesStay
  <2>6. ReadsAreRight'
    BY <1>1, <2>1, <2>3 DEF ReadsAreRight, UnderWay, Of
  <2>7. ScreenIsConsistent'
    BY <2>4 DEF ScreenIsConsistent
  <2> QED
    BY <1>2, <2>3, <2>4, <2>5, <2>6, <2>7 DEF ScreenInv, OneKindAtATime, BusyIsSearching
<1> QED
  BY <1>3, <1>4 DEF SearchesFor

\* The back button to the page without an apex, and the shelf.
LEMMA ShelfStep ==
    ASSUME WaitsForPages, ScreenInv, PopsToNone \/ OpensShelf \/ ClosesShelf
    PROVE  ScreenInv'
<1>1. /\ TypeOK /\ ObjectsAreOne /\ CacheIsOfItsApex /\ ReadsAreRight /\ OneKindAtATime
      /\ BusyIsSearching /\ UNCHANGED <<catalogVars, heap, cache, current, reads>>
  BY DEF ScreenInv, PopsToNone, OpensShelf, ClosesShelf
<1>2. /\ ObjectsAreOne' /\ CacheIsOfItsApex' /\ ReadsAreRight' /\ OneKindAtATime'
      /\ UnderWay("search")' = UnderWay("search")
  BY <1>1 DEF ObjectsAreOne, CacheIsOfItsApex, ReadsAreRight, OneKindAtATime, UnderWay, Of
<1>3. ASSUME screen' \in Screen, url' \in {0} \cup Apex,
             screen'.busy = screen.busy, screen'.rows = screen.rows,
             screen.busy => ~screen'.open,
             (screen'.shown \/ screen'.open) /\ ~screen'.busy => Shows'
      PROVE  ScreenInv'
  <2>1. TypeOK'
    BY <1>1, <1>3, VariableTypes, TypesStay
  <2>2. BusyIsSearching'
    BY <1>1, <1>2, <1>3 DEF BusyIsSearching
  <2>3. ScreenIsConsistent'
    BY <1>2, <1>3, <2>1, ShownAfter
  <2> QED
    BY <1>2, <2>1, <2>2, <2>3 DEF ScreenInv
<1>4. CASE PopsToNone
  <2>1. PICK scr \in Screen : scr = Closed
    BY ClosedFacts
  <2>2. screen' = [scr EXCEPT !.shown = FALSE] /\ url' = 0
    BY <1>4, <2>1 DEF PopsToNone
  <2>3. /\ screen' \in Screen /\ ~screen'.shown /\ ~screen'.open
        /\ screen'.busy = screen.busy /\ screen'.rows = screen.rows
    BY <2>1, <2>2, ClosedFacts, ScreenHides
  <2> QED
    BY <1>3, <2>2, <2>3
<1>5. CASE OpensShelf
  <2>1. ~screen.busy /\ screen.shown
    BY <1>1, <1>5 DEF OpensShelf, BusyIsSearching
  <2>2. Shows /\ heap[current] \in Object /\ screen \in Screen
    BY <1>1, <2>1, ShownBefore, HeapFacts, VariableTypes
  <2>3. PICK p \in Screen : p = Painted(heap[current], screen)
    BY <2>2, ScreenMoves
  <2>4. /\ p.shown = screen.shown /\ p.busy = screen.busy
        /\ p.heading = screen.heading /\ p.rows = screen.rows
    BY <2>2, <2>3, ScreenMoves DEF Shows
  <2>5. screen' = [p EXCEPT !.open = TRUE] /\ url' = url
    BY <1>5, <2>3 DEF OpensShelf
  <2>6. /\ screen' \in Screen /\ screen'.busy = screen.busy /\ screen'.rows = screen.rows
        /\ screen'.heading = screen.heading
    BY <2>4, <2>5, ScreenOpens
  <2>7. Shows'
    BY <1>1, <2>2, <2>5, <2>6 DEF Shows
  <2> QED
    BY <1>1, <1>3, <2>1, <2>5, <2>6, <2>7, VariableTypes
<1>6. CASE ClosesShelf
  <2>1. screen.open /\ screen' = Closed /\ url' = url
    BY <1>6 DEF ClosesShelf
  <2>2. Shows /\ ~screen.busy
    BY <2>1, OpenShows
  <2>3. /\ screen' \in Screen /\ screen'.busy = screen.busy /\ screen'.rows = screen.rows
        /\ screen'.heading = screen.heading
    BY <2>1, ClosedFacts
  <2>4. Shows'
    BY <1>1, <2>1, <2>2, <2>3 DEF Shows
  <2> QED
    BY <1>1, <1>3, <2>1, <2>2, <2>3, <2>4, VariableTypes
<1> QED
  BY <1>4, <1>5, <1>6
-----------------------------------------------------------------------------
(* Pages that are turned *)

LEMMA ObjectLoads ==
    ASSUME NEW o \in Object, NEW b \in BOOLEAN, NEW x, x = [o EXCEPT !.loading = b]
    PROVE  /\ x \in Object /\ x.apex = o.apex /\ x.rows = o.rows /\ x.cursor = o.cursor
           /\ x.next = o.next /\ x.start = o.start /\ x.back = o.back /\ x.loading = b
           /\ x.since = o.since
<1>1. x = [apex |-> o.apex, rows |-> o.rows, cursor |-> o.cursor, next |-> o.next,
           start |-> o.start, back |-> o.back, total |-> o.total, loading |-> b,
           since |-> o.since]
  BY DEF Object
<1> QED
  BY <1>1 DEF Object

LEMMA ObjectGoesBack ==
    ASSUME NEW o \in Object, o.back # <<>>, NEW x, x = TurnedBack(o)
    PROVE  /\ x \in Object /\ x.apex = o.apex
           /\ Len(o.back) \in DOMAIN o.back /\ x.rows = o.back[Len(o.back)].rows
           /\ DOMAIN x.back \subseteq DOMAIN o.back
           /\ \A i \in DOMAIN x.back : x.back[i] = o.back[i]
           /\ x.next = o.back[Len(o.back)].next /\ x.start = o.back[Len(o.back)].start
           /\ x.since = o.since /\ Len(x.back) = Len(o.back) - 1
<1>1. PICK old \in Seq(Entry) : old = o.back
  BY DEF Object
<1>2. Len(old) \in Nat \ {0} /\ DOMAIN old = 1..Len(old)
  BY <1>1
<1>3. PICK e \in Entry : e = Last(old) /\ e = old[Len(old)]
  BY <1>2 DEF Last
<1>4. PICK f : f = Front(old)
  OBVIOUS
<1>5. /\ f \in Seq(Entry) /\ DOMAIN f \subseteq DOMAIN old /\ Len(f) = Len(old) - 1
      /\ \A i \in DOMAIN f : f[i] = old[i]
  BY <1>2, <1>4 DEF Front
<1>6. /\ e.rows \in Seq(Row) /\ e.cursor \in Row \cup {NoCursor}
      /\ e.next \in Row \cup {NoCursor} /\ e.start \in Nat
  BY DEF Entry
<1>7. /\ o.total \in Nat /\ o.loading \in BOOLEAN
  BY DEF Object
<1>8. x = [o EXCEPT !.rows = e.rows, !.cursor = e.cursor, !.next = e.next,
                    !.start = e.start, !.back = f]
  BY <1>1, <1>3, <1>4 DEF TurnedBack
<1>9. x = [apex |-> o.apex, rows |-> e.rows, cursor |-> e.cursor, next |-> e.next,
           start |-> e.start, back |-> f, total |-> o.total, loading |-> o.loading,
           since |-> o.since]
  BY <1>8 DEF Object
<1>10. /\ x \in Object /\ x.apex = o.apex /\ x.rows = e.rows /\ x.back = f
       /\ x.next = e.next /\ x.start = e.start /\ x.since = o.since
  BY <1>5, <1>6, <1>7, <1>9 DEF Object
<1> QED
  BY <1>1, <1>2, <1>3, <1>5, <1>10

LEMMA ObjectTurns ==
    ASSUME NEW o \in Object, NEW read \in Turn, NEW x, x = Turned(o, read)
    PROVE  /\ x \in Object /\ x.apex = o.apex /\ x.rows = read.page.rows
           /\ \A i \in DOMAIN x.back :
                x.back[i] = read.entry \/ (i \in DOMAIN o.back /\ x.back[i] = o.back[i])
           /\ x.next = read.page.next /\ x.since = o.since
           /\ x.back = Append(o.back, read.entry)
           /\ x.start = read.entry.start + Len(read.entry.rows)
<1>1. PICK old \in Seq(Entry) : old = o.back
  BY DEF Object
<1>2. PICK page \in Page : page = read.page
  BY DEF Turn
<1>3. PICK entry \in Entry : entry = read.entry
  BY DEF Turn
<1>4. PICK cursor \in Row : cursor = read.cursor
  BY DEF Turn
<1>5. PICK start \in Nat : start = entry.start + Len(entry.rows)
  <2>1. entry.start \in Nat /\ entry.rows \in Seq(Row)
    BY DEF Entry
  <2> QED
    BY <2>1
<1>6. PICK back : back = Append(old, entry)
  OBVIOUS
<1>7. /\ back \in Seq(Entry)
      /\ \A i \in DOMAIN back : back[i] = entry \/ (i \in DOMAIN old /\ back[i] = old[i])
  <2>1. back \in Seq(Entry) /\ Len(back) = Len(old) + 1 /\ Len(old) \in Nat
    BY <1>6
  <2>2. DOMAIN back = 1..Len(old) + 1 /\ DOMAIN old = 1..Len(old)
    BY <2>1
  <2>3. \A i \in 1..Len(old) : back[i] = old[i]
    BY <1>6
  <2>4. back[Len(old) + 1] = entry
    BY <1>6
  <2>5. ASSUME NEW i \in DOMAIN back
        PROVE  back[i] = entry \/ (i \in DOMAIN old /\ back[i] = old[i])
    <3>1. i \in 1..Len(old) \/ i = Len(old) + 1
      BY <2>1, <2>2
    <3> QED
      BY <2>2, <2>3, <2>4, <3>1
  <2> QED
    BY <2>1, <2>5
<1>8. /\ page.rows \in Seq(Row) /\ page.next \in Row \cup {NoCursor} /\ page.total \in Nat
  BY DEF Page
<1>9. x = [o EXCEPT !.rows = page.rows, !.cursor = cursor, !.next = page.next,
                    !.start = start, !.back = back, !.total = page.total, !.loading = FALSE]
  BY <1>1, <1>2, <1>3, <1>4, <1>5, <1>6 DEF Turned
<1>10. x = [apex |-> o.apex, rows |-> page.rows, cursor |-> cursor, next |-> page.next,
            start |-> start, back |-> back, total |-> page.total, loading |-> FALSE,
            since |-> o.since]
  BY <1>9 DEF Object
<1>11. /\ x \in Object /\ x.apex = o.apex /\ x.rows = page.rows /\ x.back = back
       /\ x.next = page.next /\ x.since = o.since /\ x.start = start
  BY <1>7, <1>8, <1>10 DEF Object
<1> QED
  BY <1>1, <1>2, <1>3, <1>5, <1>6, <1>7, <1>11

\* What stays right when the current object becomes another of its apex.
LEMMA PutStep ==
    ASSUME ScreenInv, current # 0, NEW o \in Object,
           o.apex = heap[current].apex, Of(o.apex, o.rows),
           \A i \in DOMAIN o.back : Of(o.apex, o.back[i].rows),
           heap' = [heap EXCEPT ![current] = o],
           UNCHANGED <<catalogVars, cache, current, url>>,
           screen' \in Screen, reads' \in [Read -> ReadJob],
           \A s \in Read : \/ reads'[s] = Idle \/ reads'[s] = reads[s]
                           \/ /\ Of(reads'[s].apex, reads'[s].page.rows)
                              /\ reads'[s].kind = "next" =>
                                   /\ reads'[s].apex = o.apex
                                   /\ Of(o.apex, reads'[s].entry.rows)
    PROVE  TypeOK' /\ ObjectsAreOne' /\ CacheIsOfItsApex' /\ ReadsAreRight'
<1>1. TypeOK /\ ObjectsAreOne /\ CacheIsOfItsApex /\ ReadsAreRight
  BY DEF ScreenInv
<1>2. /\ ObjectsAreOne' /\ CacheIsOfItsApex'
      /\ \A k \in DOMAIN heap : heap'[k].apex = heap[k].apex
  BY <1>1, SameApex
<1>3. heap' \in Seq(Object) /\ Len(heap') = Len(heap)
  BY <1>1, HeapPut
<1>4. TypeOK'
  BY <1>1, <1>3, VariableTypes, TypesStay
<1>5. heap'[current].apex = heap[current].apex
  BY <1>1, <1>2, VariableTypes
<1>6. ReadsAreRight'
  BY <1>1, <1>5 DEF ReadsAreRight, Of
<1> QED
  BY <1>2, <1>4, <1>6

LEMMA TurnStep ==
    ASSUME WaitsForPages, ScreenInv, NEW r \in Read, TurnsPage(r)
    PROVE  ScreenInv'
<1>1. /\ TypeOK /\ ObjectsAreOne /\ UnderWay("search") = {}
      /\ screen.open /\ UNCHANGED <<catalogVars, cache, current, screen, url>>
  BY DEF ScreenInv, TurnsPage
<1>2. /\ Shows /\ current # 0 /\ ~screen.busy /\ heap[current] \in Object
      /\ Of(heap[current].apex, heap[current].rows)
      /\ \A i \in DOMAIN heap[current].back :
           Of(heap[current].apex, heap[current].back[i].rows)
  BY <1>1, OpenShows, HeapFacts DEF ObjectsAreOne, Shows
<1>3. PICK o : o = heap[current]
  OBVIOUS
<1>4. PICK at : at = [pc |-> "sent", kind |-> "next", apex |-> o.apex, cursor |-> o.next,
                      page |-> NoPage,
                      entry |-> [rows |-> o.rows, cursor |-> o.cursor,
                                 next |-> o.next, start |-> o.start]]
  OBVIOUS
<1>5. o.next # NoCursor /\ ReadGoes(r, at) /\ heap' = [heap EXCEPT ![current].loading = TRUE]
  BY <1>3, <1>4 DEF TurnsPage, CursorAfter
<1>6. /\ at \in Turn /\ at.kind = "next" /\ at.apex = o.apex
      /\ Of(at.apex, at.page.rows) /\ Of(o.apex, at.entry.rows)
  <2>1. [rows |-> o.rows, cursor |-> o.cursor, next |-> o.next, start |-> o.start] \in Entry
    BY <1>2, <1>3 DEF Object, Entry
  <2>2. o.apex \in Apex /\ o.next \in Row
    BY <1>2, <1>3, <1>5 DEF Object
  <2>3. at \in Turn /\ at.kind = "next" /\ at.apex = o.apex /\ at.page = NoPage
        /\ at.entry.rows = o.rows
    BY <1>4, <2>1, <2>2, NoPageIsAPage DEF Turn
  <2> QED
    BY <1>2, <1>3, <2>3, NoPageIsAPage
<1>7. /\ reads' \in [Read -> ReadJob] /\ reads'[r] = at
      /\ \A s \in Read : s # r => reads'[s] = reads[s]
      /\ UnderWay("search")' = {}
  <2>1. at # Idle => at.kind # "search"
    BY <1>6
  <2> QED
    BY <1>1, <1>5, <1>6, <2>1, ReadMoves
<1>8. PICK x : x = [o EXCEPT !.loading = TRUE]
  OBVIOUS
<1>9. x \in Object /\ x.apex = o.apex /\ x.rows = o.rows /\ x.back = o.back
  <2>1. o \in Object /\ TRUE \in BOOLEAN
    BY <1>2, <1>3
  <2> QED
    BY ONLY <1>8, <2>1, ObjectLoads
<1>10. heap' = [heap EXCEPT ![current] = x]
  BY <1>3, <1>5, <1>8
<1>11. TypeOK' /\ ObjectsAreOne' /\ CacheIsOfItsApex' /\ ReadsAreRight'
  BY <1>1, <1>2, <1>3, <1>6, <1>7, <1>9, <1>10, VariableTypes, PutStep
<1>12. Shows'
  BY <1>1, <1>2, <1>3, <1>9, <1>10, HeapPut DEF Shows
<1>13. ScreenIsConsistent'
  BY <1>11, <1>12, ShownAfter
<1> QED
  BY <1>1, <1>2, <1>7, <1>11, <1>13 DEF ScreenInv, OneKindAtATime, BusyIsSearching

LEMMA BackStep ==
    ASSUME ScreenInv, TurnsBack
    PROVE  ScreenInv'
<1>1. /\ TypeOK /\ ObjectsAreOne /\ OneKindAtATime /\ screen.open
      /\ UNCHANGED <<catalogVars, cache, current, url, reads>>
  BY DEF ScreenInv, TurnsBack
<1>2. /\ Shows /\ current # 0 /\ current \in DOMAIN heap /\ ~screen.busy
      /\ heap[current] \in Object
  BY <1>1, OpenShows, HeapFacts DEF Shows
<1>3. PICK o \in Object : o = heap[current]
  BY <1>2
<1>4. PICK x : x = TurnedBack(o)
  OBVIOUS
<1>5. o.back # <<>> /\ heap' = [heap EXCEPT ![current] = x]
  BY <1>3, <1>4 DEF TurnsBack
<1>6. /\ x \in Object /\ x.apex = o.apex /\ x.rows = o.back[Len(o.back)].rows
      /\ Len(o.back) \in DOMAIN o.back
      /\ \A i \in DOMAIN x.back : i \in DOMAIN o.back /\ x.back[i] = o.back[i]
  BY <1>4, <1>5, ObjectGoesBack
<1>7. /\ Of(x.apex, x.rows) /\ \A i \in DOMAIN x.back : Of(x.apex, x.back[i].rows)
  BY <1>1, <1>2, <1>3, <1>6 DEF ObjectsAreOne
<1>8. heap'[current] = x
  BY <1>1, <1>2, <1>5, <1>6, HeapPut
<1>9. /\ screen' \in Screen /\ screen'.busy = screen.busy
      /\ screen'.heading = screen.heading /\ screen'.rows = x.rows
  <2>1. screen' = Painted(x, screen)
    BY <1>1, <1>8 DEF TurnsBack
  <2> QED
    BY <1>1, <1>6, <2>1, VariableTypes, ScreenMoves
<1>10. TypeOK' /\ ObjectsAreOne' /\ CacheIsOfItsApex' /\ ReadsAreRight'
  BY <1>1, <1>2, <1>3, <1>5, <1>6, <1>7, <1>9, VariableTypes, PutStep
<1>11. Shows'
  BY <1>1, <1>2, <1>3, <1>6, <1>8, <1>9 DEF Shows
<1>12. ScreenIsConsistent'
  BY <1>10, <1>11, ShownAfter
<1> QED
  BY <1>1, <1>2, <1>9, <1>10, <1>12 DEF ScreenInv, OneKindAtATime, BusyIsSearching, UnderWay
-----------------------------------------------------------------------------
(* Reads that are answered *)

\* One that goes on as it was, with another answer.
Answered(read, pc, page) == [read EXCEPT !.pc = pc, !.page = page]

LEMMA AnswerFacts ==
    ASSUME NEW read \in Search \cup Turn, NEW page \in Page,
           NEW pc \in {"answered", "refused"}, NEW x, x = Answered(read, pc, page)
    PROVE  /\ x \in Search \cup Turn /\ x.kind = read.kind /\ x.apex = read.apex
           /\ x.page = page /\ (x.kind = "next" => x.entry = read.entry)
           /\ x.cursor = read.cursor /\ x.pc = pc
<1>2. CASE read \in Search
  <2>1. x = [pc |-> pc, kind |-> read.kind, apex |-> read.apex, cursor |-> read.cursor,
             page |-> page]
    BY <1>2 DEF Answered, Search
  <2> QED
    BY <1>2, <2>1 DEF Search
<1>3. CASE read \in Turn
  <2>1. x = [pc |-> pc, kind |-> read.kind, apex |-> read.apex, cursor |-> read.cursor,
             page |-> page, entry |-> read.entry]
    BY <1>3 DEF Answered, Turn
  <2> QED
    BY <1>3, <2>1 DEF Turn
<1> QED
  BY <1>2, <1>3

LEMMA AnswerStep ==
    ASSUME ScreenInv, NEW r \in Read, Answers(r)
    PROVE  ScreenInv'
<1>1. /\ TypeOK /\ ObjectsAreOne /\ CacheIsOfItsApex /\ ReadsAreRight /\ OneKindAtATime
      /\ BusyIsSearching /\ UNCHANGED <<catalogVars, heap, cache, current, screen, url>>
  BY DEF ScreenInv, Answers
<1>2. PICK read : read = reads[r]
  OBVIOUS
<1>3. /\ read \in Search \cup Turn /\ read # Idle /\ read.apex \in Apex /\ read.page \in Page
      /\ Of(read.apex, read.page.rows)
  <2>1. reads[r].pc # "idle"
    BY DEF Answers
  <2> QED
    BY <1>1, <1>2, <2>1, ReadFacts DEF ReadsAreRight
<1> DEFINE GoesTo(at) ==
      /\ ReadGoes(r, at) /\ at \in Search \cup Turn /\ at.kind = read.kind
      /\ at.apex = read.apex /\ Of(read.apex, at.page.rows)
      /\ at.kind = "next" => at.entry = read.entry
<1>4. PICK at : GoesTo(at)
  <2>1. ASSUME ReadGoes(r, [read EXCEPT !.pc = "answered",
                                        !.page = PageOf(read.apex, read.cursor)])
        PROVE  \E at : GoesTo(at)
    <3>1. PICK page : page = PageOf(read.apex, read.cursor)
      OBVIOUS
    <3>2. page \in Page /\ Of(read.apex, page.rows)
      BY <1>1, <1>3, <3>1, PageFacts
    <3>3. PICK at : at = Answered(read, "answered", page)
      OBVIOUS
    <3>4. /\ at \in Search \cup Turn /\ at.kind = read.kind /\ at.apex = read.apex
          /\ at.page = page /\ (at.kind = "next" => at.entry = read.entry)
      <4>1. read \in Search \cup Turn /\ "answered" \in {"answered", "refused"}
        BY <1>3
      <4>2. page \in Page /\ at = Answered(read, "answered", page)
        BY <3>2, <3>3
      <4> QED
        BY ONLY <4>1, <4>2, AnswerFacts
    <3>5. ReadGoes(r, at)
      BY <2>1, <3>1, <3>3 DEF Answered
    <3> QED
      BY <3>2, <3>4, <3>5
  <2>2. ASSUME ReadGoes(r, [read EXCEPT !.pc = "refused"])
        PROVE  \E at : GoesTo(at)
    <3>1. PICK at : at = [read EXCEPT !.pc = "refused"]
      OBVIOUS
    <3>2. PICK page \in Page : page = read.page
      BY <1>3
    <3>3. at = Answered(read, "refused", page)
      BY <1>3, <3>1, <3>2 DEF Search, Turn, Answered
    <3>4. /\ at \in Search \cup Turn /\ at.kind = read.kind /\ at.apex = read.apex
          /\ at.page = page /\ (at.kind = "next" => at.entry = read.entry)
      <4>1. read \in Search \cup Turn /\ "refused" \in {"answered", "refused"} /\ page \in Page
        BY <1>3
      <4> QED
        BY ONLY <4>1, <3>3, AnswerFacts
    <3> QED
      BY <1>3, <2>2, <3>1, <3>2, <3>4
  <2> QED
    BY <1>2, <2>1, <2>2 DEF Answers
<1>5. at # Idle
  BY <1>4 DEF Search, Turn, Idle
<1>6. /\ reads' \in [Read -> ReadJob] /\ reads'[r] = at
      /\ \A s \in Read : s # r => reads'[s] = reads[s]
  BY <1>1, <1>4, ReadMoves
<1>7. UnderWay("search")' = UnderWay("search") /\ UnderWay("next")' = UnderWay("next")
  BY <1>2, <1>3, <1>4, <1>5, <1>6 DEF UnderWay
<1>8. TypeOK'
  BY <1>1, <1>6, VariableTypes, TypesStay
<1>9. ReadsAreRight'
  BY <1>1, <1>2, <1>3, <1>4, <1>6 DEF ReadsAreRight, Of
<1> QED
  BY <1>1, <1>7, <1>8, <1>9
  DEF ScreenInv, ObjectsAreOne, CacheIsOfItsApex, OneKindAtATime, BusyIsSearching,
      ScreenIsConsistent, Of

\* The record of an apex, from its first page.
FirstOf(a, page) ==
    [apex |-> a, rows |-> page.rows, cursor |-> NoCursor, next |-> page.next, start |-> 0,
     back |-> <<>>, total |-> page.total, loading |-> FALSE, since |-> page.version]

LEMMA FirstFacts ==
    ASSUME NEW a \in Apex, NEW page \in Page, NEW o, o = FirstOf(a, page)
    PROVE  o \in Object /\ o.apex = a /\ o.rows = page.rows /\ o.back = <<>>
<1>1. /\ page.rows \in Seq(Row) /\ page.next \in Row \cup {NoCursor} /\ page.total \in Nat
      /\ page.version \in 0..MaxChanges
  BY DEF Page
<1>2. <<>> \in Seq(Entry)
  OBVIOUS
<1> QED
  BY <1>1, <1>2 DEF FirstOf, Object

LEMMA HeapGrows ==
    ASSUME TypeOK, NEW o \in Object, heap' = Append(heap, o)
    PROVE  /\ heap' \in Seq(Object) /\ Len(heap') = Len(heap) + 1
           /\ DOMAIN heap' = DOMAIN heap \cup {Len(heap')} /\ Len(heap') # 0
           /\ heap'[Len(heap')] = o /\ \A k \in DOMAIN heap : heap'[k] = heap[k]
<1>1. PICK h \in Seq(Object) : h = heap
  BY VariableTypes
<1>2. PICK n \in Nat : n = Len(h)
  BY <1>1
<1>3. PICK g : g = Append(h, o)
  OBVIOUS
<1>4. g \in Seq(Object) /\ Len(g) = n + 1
  BY <1>2, <1>3
<1>5. g[n + 1] = o /\ \A k \in 1..n : g[k] = h[k]
  BY <1>2, <1>3
<1>6. DOMAIN g = 1..n + 1 /\ DOMAIN h = 1..n
  BY <1>2, <1>4
<1>7. 1..n + 1 = 1..n \cup {n + 1}
  OBVIOUS
<1> QED
  BY <1>1, <1>2, <1>3, <1>4, <1>5, <1>6, <1>7

LEMMA SearchArrivesStep ==
    ASSUME WaitsForPages, ScreenInv, NEW r \in Read, SearchArrives(r)
    PROVE  ScreenInv'
<1>1. /\ TypeOK /\ ObjectsAreOne /\ CacheIsOfItsApex /\ ReadsAreRight /\ OneKindAtATime
      /\ ReadGoes(r, Idle) /\ UNCHANGED catalogVars
      /\ reads[r].pc = "answered" /\ reads[r].kind = "search"
  BY DEF ScreenInv, SearchArrives
<1>2. PICK page : page = reads[r].page
  OBVIOUS
<1>3. PICK a : a = reads[r].apex
  OBVIOUS
<1>4. /\ reads[r] # Idle /\ a \in Apex /\ page \in Page /\ Of(a, page.rows)
      /\ r \in UnderWay("search")
  BY <1>1, <1>2, <1>3, ReadFacts DEF ReadsAreRight, UnderWay
<1>5. PICK o : o = FirstOf(a, page)
  OBVIOUS
<1>6. o \in Object /\ o.apex = a /\ o.rows = page.rows /\ o.back = <<>>
  BY <1>4, <1>5, FirstFacts
<1>7. /\ heap' = Append(heap, o) /\ cache' = [cache EXCEPT ![a] = Len(heap')]
      /\ current' = Len(heap') /\ screen' = Rendered(o, screen) /\ url' = a
  BY <1>2, <1>3, <1>5, <1>6 DEF SearchArrives, FirstOf
<1>8. /\ heap' \in Seq(Object) /\ Len(heap') = Len(heap) + 1
      /\ DOMAIN heap' = DOMAIN heap \cup {Len(heap')} /\ Len(heap') # 0
      /\ heap'[Len(heap')] = o /\ \A k \in DOMAIN heap : heap'[k] = heap[k]
  BY <1>1, <1>6, <1>7, HeapGrows
<1>9. /\ reads' \in [Read -> ReadJob] /\ reads'[r] = Idle
      /\ \A s \in Read : s # r => reads'[s] = reads[s]
      /\ UnderWay("next")' = {}
  <2>1. UnderWay("next") = {}
    BY <1>1, <1>4 DEF OneKindAtATime
  <2>2. r \notin UnderWay("next")' /\ UnderWay("next")' \subseteq UnderWay("next") \cup {r}
    BY <1>1, ReadMoves
  <2> QED
    BY <1>1, <2>1, <2>2, ReadMoves
<1>10. /\ screen' \in Screen /\ screen'.shown /\ ~screen'.busy
       /\ screen'.heading = a /\ screen'.rows = o.rows
  BY <1>1, <1>6, <1>7, VariableTypes, ScreenMoves
<1>11. /\ cache' \in [Apex -> 0..Len(heap')]
       /\ \A b \in Apex : b # a => cache'[b] = cache[b]
       /\ cache'[a] = Len(heap')
  <2>1. cache \in [Apex -> 0..Len(heap)] /\ Len(heap) \in Nat
    BY <1>1, VariableTypes
  <2>2. 0..Len(heap) \subseteq 0..Len(heap') /\ Len(heap') \in 0..Len(heap')
    BY <1>8, <2>1
  <2> QED
    BY <1>4, <1>7, <2>1, <2>2
<1>12. TypeOK'
  <2>1. current' \in 0..Len(heap')
    BY <1>1, <1>7, <1>8, VariableTypes
  <2> QED
    BY <1>1, <1>4, <1>7, <1>8, <1>9, <1>10, <1>11, <2>1, TypesStay
<1>13. ObjectsAreOne'
  <2>1. ASSUME NEW k \in DOMAIN heap'
        PROVE  /\ Of(heap'[k].apex, heap'[k].rows)
               /\ \A i \in DOMAIN heap'[k].back : Of(heap'[k].apex, heap'[k].back[i].rows)
    <3>1. CASE k \in DOMAIN heap
      BY <1>1, <1>8, <3>1 DEF ObjectsAreOne
    <3>2. CASE k = Len(heap')
      BY <1>4, <1>6, <1>8, <3>2
    <3> QED
      BY <1>8, <3>1, <3>2
  <2> QED
    BY <2>1 DEF ObjectsAreOne, Of
<1>14. CacheIsOfItsApex'
  <2>1. ASSUME NEW b \in Apex, cache'[b] # 0
        PROVE  heap'[cache'[b]].apex = b
    <3>1. CASE b = a
      BY <1>6, <1>8, <1>11, <3>1
    <3>2. CASE b # a
      <4>1. cache[b] # 0 /\ cache[b] \in DOMAIN heap
        BY <1>1, <1>11, <2>1, <3>2, VariableTypes
      <4> QED
        BY <1>1, <1>8, <1>11, <3>2, <4>1 DEF CacheIsOfItsApex
    <3> QED
      BY <3>1, <3>2
  <2> QED
    BY <2>1 DEF CacheIsOfItsApex
<1>15. ReadsAreRight'
  BY <1>1, <1>9 DEF ReadsAreRight, UnderWay, Of
<1>16. ScreenIsConsistent'
  <2>1. Shows'
    BY <1>6, <1>7, <1>8, <1>10 DEF Shows
  <2> QED
    BY <1>12, <1>13, <2>1, ShownAfter
<1> QED
  BY <1>9, <1>10, <1>12, <1>13, <1>14, <1>15, <1>16
  DEF ScreenInv, OneKindAtATime, BusyIsSearching

\* A screen whose busy flag nothing changes, while a page is read.
LEMMA PageReadFacts ==
    ASSUME ScreenInv, NEW r \in Read, reads[r] # Idle, reads[r].kind = "next"
    PROVE  /\ reads[r] \in Turn /\ UnderWay("search") = {} /\ ~screen.busy
           /\ current # 0 /\ current \in DOMAIN heap /\ heap[current] \in Object
           /\ heap[current].apex = reads[r].apex
           /\ Of(reads[r].apex, reads[r].page.rows) /\ Of(reads[r].apex, reads[r].entry.rows)
           /\ Of(heap[current].apex, heap[current].rows)
           /\ \A i \in DOMAIN heap[current].back :
                Of(heap[current].apex, heap[current].back[i].rows)
<1>1. /\ TypeOK /\ ObjectsAreOne /\ ReadsAreRight /\ OneKindAtATime /\ BusyIsSearching
  BY DEF ScreenInv
<1>2. r \in UnderWay("next")
  BY DEF UnderWay
<1>3. UnderWay("search") = {}
  BY <1>1, <1>2 DEF OneKindAtATime
<1>4. /\ current # 0 /\ heap[current].apex = reads[r].apex
      /\ Of(reads[r].apex, reads[r].page.rows) /\ Of(reads[r].apex, reads[r].entry.rows)
  BY <1>1 DEF ReadsAreRight
<1>5. current \in DOMAIN heap /\ heap[current] \in Object
  BY <1>1, <1>4, VariableTypes, HeapFacts
<1>6. reads[r] \in Turn
  BY <1>1, ReadFacts
<1> QED
  BY <1>1, <1>3, <1>4, <1>5, <1>6 DEF BusyIsSearching, ObjectsAreOne

\* The read of a page ends: the current object becomes another of its apex.
LEMMA PageReadEnds ==
    ASSUME ScreenInv, NEW r \in Read, reads[r] # Idle, reads[r].kind = "next",
           NEW o \in Object, o.apex = heap[current].apex, Of(o.apex, o.rows),
           \A i \in DOMAIN o.back : Of(o.apex, o.back[i].rows),
           heap' = [heap EXCEPT ![current] = o], ReadGoes(r, Idle),
           UNCHANGED <<catalogVars, cache, current, url>>,
           screen' \in Screen, ~screen'.busy, screen'.shown = screen.shown,
           screen'.open = screen.open, screen'.heading = screen.heading,
           screen.shown \/ screen.open => screen'.rows = o.rows
    PROVE  ScreenInv'
<1>1. /\ TypeOK /\ UnderWay("search") = {} /\ ~screen.busy
      /\ current # 0 /\ current \in DOMAIN heap
  BY PageReadFacts DEF ScreenInv
<1>2. /\ reads' \in [Read -> ReadJob] /\ reads'[r] = Idle
      /\ \A s \in Read : s # r => reads'[s] = reads[s]
      /\ UnderWay("search")' = {}
  <2>1. /\ reads' \in [Read -> ReadJob] /\ reads'[r] = Idle
        /\ \A s \in Read : s # r => reads'[s] = reads[s]
    BY <1>1, ReadMoves
  <2> QED
    BY <1>1, <2>1 DEF UnderWay
<1>3. \A s \in Read : reads'[s] = Idle \/ reads'[s] = reads[s]
  BY <1>2
<1>4. TypeOK' /\ ObjectsAreOne' /\ CacheIsOfItsApex' /\ ReadsAreRight'
  BY <1>1, <1>2, <1>3, PutStep
<1>5. heap'[current] = o
  BY <1>1, HeapPut
<1>6. ASSUME screen'.shown \/ screen'.open PROVE Shows'
  <2>1. Shows
    BY <1>1, <1>6, ShownBefore
  <2> QED
    BY <1>5, <1>6, <2>1 DEF Shows
<1>7. ScreenIsConsistent'
  BY <1>4, <1>6, ShownAfter
<1> QED
  BY <1>2, <1>4, <1>7 DEF ScreenInv, OneKindAtATime, BusyIsSearching

LEMMA PageArrivesStep ==
    ASSUME ScreenInv, NEW r \in Read, PageArrives(r)
    PROVE  ScreenInv'
<1>1. /\ TypeOK /\ reads[r] # Idle /\ reads[r].kind = "next" /\ ReadGoes(r, Idle)
      /\ UNCHANGED <<catalogVars, cache, current, url>>
  <2>1. TypeOK /\ reads[r].pc = "answered"
    BY DEF ScreenInv, PageArrives
  <2> QED
    BY <2>1, ReadFacts DEF PageArrives
<1>2. PICK read \in Turn : read = reads[r]
  BY <1>1, PageReadFacts
<1>3. /\ current # 0 /\ ~screen.busy /\ heap[current].apex = read.apex
      /\ Of(read.apex, read.page.rows) /\ Of(read.apex, read.entry.rows)
      /\ \A i \in DOMAIN heap[current].back : Of(read.apex, heap[current].back[i].rows)
  BY <1>1, <1>2, PageReadFacts
<1>4. PICK o \in Object : o = heap[current]
  BY <1>1, PageReadFacts
<1>5. PICK x : x = Turned(o, read)
  OBVIOUS
<1>6. heap' = [heap EXCEPT ![current] = x]
  BY <1>2, <1>4, <1>5 DEF PageArrives
<1>7. /\ x \in Object /\ x.apex = o.apex /\ x.rows = read.page.rows
      /\ \A i \in DOMAIN x.back :
           x.back[i] = read.entry \/ (i \in DOMAIN o.back /\ x.back[i] = o.back[i])
  BY <1>5, ObjectTurns
<1>8. /\ x.apex = heap[current].apex /\ Of(x.apex, x.rows)
      /\ \A i \in DOMAIN x.back : Of(x.apex, x.back[i].rows)
  BY <1>3, <1>4, <1>7
<1>9. heap'[current] = x
  BY <1>1, <1>3, <1>6, <1>7, HeapPut
<1>10. /\ screen' \in Screen /\ screen'.busy = screen.busy /\ screen'.shown = screen.shown
       /\ screen'.open = screen.open /\ screen'.heading = screen.heading
       /\ screen'.rows = x.rows
  <2>1. screen' = Painted(x, screen)
    BY <1>1, <1>9 DEF PageArrives
  <2> QED
    BY <1>1, <1>7, <2>1, VariableTypes, ScreenMoves
<1> QED
  BY <1>1, <1>3, <1>6, <1>7, <1>8, <1>10, PageReadEnds

LEMMA ReadFailsStep ==
    ASSUME ScreenInv, NEW r \in Read, ReadFails(r)
    PROVE  ScreenInv'
<1>1. /\ TypeOK /\ ObjectsAreOne /\ CacheIsOfItsApex /\ ReadsAreRight /\ OneKindAtATime
      /\ reads[r] # Idle /\ ReadGoes(r, Idle) /\ UNCHANGED <<catalogVars, cache, current, url>>
  BY DEF ScreenInv, ReadFails
<1>2. ASSUME reads[r].kind = "search",
             screen' = [screen EXCEPT !.shown = FALSE, !.busy = FALSE], heap' = heap
      PROVE  ScreenInv'
  <2>1. /\ screen' \in Screen /\ ~screen'.shown /\ ~screen'.busy /\ screen'.open = screen.open
        /\ screen'.heading = screen.heading /\ screen'.rows = screen.rows
    BY <1>1, <1>2, VariableTypes, ScreenGivesUp
  <2>2. /\ reads' \in [Read -> ReadJob] /\ reads'[r] = Idle
        /\ \A s \in Read : s # r => reads'[s] = reads[s]
    BY <1>1, ReadMoves
  <2>3. TypeOK'
    BY <1>1, <1>2, <2>1, <2>2, VariableTypes, TypesStay
  <2>4. ObjectsAreOne' /\ CacheIsOfItsApex' /\ ReadsAreRight'
    BY <1>1, <1>2, <2>2 DEF ObjectsAreOne, CacheIsOfItsApex, ReadsAreRight, Of
  <2>5. OneKindAtATime'
    <3>1. /\ UnderWay("search")' \subseteq UnderWay("search")
          /\ UnderWay("next")' \subseteq UnderWay("next")
      BY <2>2 DEF UnderWay
    <3> QED
      BY <1>1, <3>1 DEF OneKindAtATime
  <2>6. ASSUME screen'.open PROVE Shows'
    <3>1. screen.open
      BY <2>1, <2>6
    <3>2. Shows
      BY <3>1, OpenShows
    <3> QED
      BY <1>1, <1>2, <2>1, <3>2 DEF Shows
  <2>7. ScreenIsConsistent'
    BY <2>1, <2>3, <2>4, <2>6, ShownAfter
  <2> QED
    BY <2>1, <2>3, <2>4, <2>5, <2>7 DEF ScreenInv, BusyIsSearching
<1>3. ASSUME reads[r].kind = "next", heap' = [heap EXCEPT ![current].loading = Loading],
             screen' = screen
      PROVE  ScreenInv'
  <2>1. PICK o \in Object : o = heap[current]
    BY <1>1, <1>3, PageReadFacts
  <2>2. PICK x : x = [o EXCEPT !.loading = FALSE]
    OBVIOUS
  <2>3. x \in Object /\ x.apex = o.apex /\ x.rows = o.rows /\ x.back = o.back
    BY <2>2, ObjectLoads
  <2>4. heap' = [heap EXCEPT ![current] = x]
    BY <1>3, <2>1, <2>2 DEF Loading
  <2>5. /\ ~screen.busy /\ screen \in Screen /\ Of(x.apex, x.rows)
        /\ \A i \in DOMAIN x.back : Of(x.apex, x.back[i].rows)
    BY <1>1, <1>3, <2>1, <2>3, PageReadFacts, VariableTypes
  <2>6. screen.shown \/ screen.open => screen'.rows = x.rows
    <3>1. screen.shown \/ screen.open => Shows
      BY <2>5, ShownBefore
    <3> QED
      BY <1>3, <2>1, <2>3, <3>1 DEF Shows
  <2> QED
    BY <1>1, <1>3, <2>1, <2>3, <2>4, <2>5, <2>6, PageReadEnds
<1> QED
  BY <1>2, <1>3 DEF ReadFails
-----------------------------------------------------------------------------
(* The catalog *)

LEMMA CatalogStep ==
    ASSUME ScreenInv, Publishes \/ Withdraws
    PROVE  ScreenInv'
<1>1. PICK cat \in [Apex -> [Name -> 0..Absent]] : BecomesActive(cat)
  <2>1. TypeOK
    BY DEF ScreenInv
  <2>2. CASE Withdraws
    BY <2>1, <2>2 DEF Withdraws, TypeOK
  <2>3. CASE Publishes
    <3>1. PICK a \in Apex, n \in Name :
            \E date \in 0..(catalog[a][n] - 1) : BecomesActive([catalog EXCEPT ![a][n] = date])
      BY <2>3 DEF Publishes
    <3>2. PICK date \in 0..(catalog[a][n] - 1) : BecomesActive([catalog EXCEPT ![a][n] = date])
      BY <3>1
    <3>3. catalog \in [Apex -> [Name -> 0..Absent]] /\ Absent \in Nat
      BY <2>1, ConstantFacts DEF TypeOK
    <3>4. catalog[a][n] \in 0..Absent
      BY <3>3
    <3>5. date \in 0..Absent
      BY <3>3, <3>4
    <3> QED
      BY <3>2, <3>3, <3>5
  <2> QED
    BY <2>2, <2>3
<1>2. /\ TypeOK /\ ObjectsAreOne /\ CacheIsOfItsApex /\ ReadsAreRight /\ OneKindAtATime
      /\ BusyIsSearching /\ ScreenIsConsistent
      /\ UNCHANGED <<heap, cache, current, screen, url, reads>>
  BY <1>1 DEF ScreenInv, BecomesActive
<1>3. TypeOK'
  <2>1. /\ version \in 0..MaxChanges /\ version < MaxChanges /\ version' = version + 1
        /\ changed \in [Apex -> [Name -> 0..version]] /\ MaxChanges \in Nat
    BY <1>1, <1>2, ConstantFacts DEF TypeOK, BecomesActive
  <2>2. version' \in 0..MaxChanges
    BY <2>1
  <2>3. changed' \in [Apex -> [Name -> 0..version']]
    <3>1. changed' = [a \in Apex |-> [n \in Name |->
                        IF cat[a][n] = catalog[a][n] THEN changed[a][n] ELSE version + 1]]
      BY <1>1 DEF BecomesActive
    <3>2. \A a \in Apex, n \in Name :
            changed[a][n] \in 0..version' /\ version + 1 \in 0..version'
      <4>1. 0..version \subseteq 0..version' /\ version + 1 \in 0..version'
        BY <2>1
      <4> QED
        BY <2>1, <4>1
    <3> QED
      BY <3>1, <3>2
  <2>4. catalog' = cat /\ layout' = Layout(cat) /\ before' = catalog
    BY <1>1 DEF BecomesActive
  <2>5. layout' = Layout(catalog)'
    BY <2>4 DEF Layout, NamesOf, InOrder
  <2> QED
    BY <1>2, <2>2, <2>3, <2>4, <2>5 DEF TypeOK
<1> QED
  BY <1>2, <1>3
  DEF ScreenInv, ObjectsAreOne, CacheIsOfItsApex, ReadsAreRight, OneKindAtATime,
      BusyIsSearching, ScreenIsConsistent, UnderWay, Of
-----------------------------------------------------------------------------
(* What is proved of the screen *)

LEMMA ScreenInit ==
    ASSUME Init
    PROVE  ScreenInv
<1>1. TypeOK
  <2>1. /\ 0 \in 0..MaxChanges /\ MaxChanges \in Nat
        /\ Starts \subseteq [Apex -> [Name -> 0..Absent]]
    BY ConstantFacts, WebSearchAssumption
  <2>2. catalog \in [Apex -> [Name -> 0..Absent]] /\ before \in [Apex -> [Name -> 0..Absent]]
    BY <2>1 DEF Init
  <2>3. heap \in Seq(Object) /\ Len(heap) = 0
    BY DEF Init
  <2>4. screen \in [shown: BOOLEAN, busy: BOOLEAN, open: BOOLEAN, heading: {0} \cup Apex,
                    rows: Seq(Row)]
    BY DEF Init
  <2>5. cache \in [Apex -> 0..Len(heap)] /\ current \in 0..Len(heap)
    BY <2>3 DEF Init
  <2>6. changed \in [Apex -> [Name -> 0..version]] /\ version \in 0..MaxChanges
    BY <2>1 DEF Init
  <2>7. reads \in [Read -> ReadJob]
    BY DEF Init, ReadJob
  <2>8. layout = Layout(catalog) /\ url \in {0} \cup Apex
    BY DEF Init
  <2> QED
    BY <2>2, <2>3, <2>4, <2>5, <2>6, <2>7, <2>8 DEF TypeOK
<1>2. DOMAIN heap = {}
  BY DEF Init
<1>3. ~screen.shown /\ ~screen.open /\ ~screen.busy
  BY DEF Init
<1>4. (\A r \in Read : reads[r] = Idle) /\ \A a \in Apex : cache[a] = 0
  BY DEF Init
<1> QED
  BY <1>1, <1>2, <1>3, <1>4
  DEF ScreenInv, ObjectsAreOne, CacheIsOfItsApex, ReadsAreRight, OneKindAtATime,
      BusyIsSearching, ScreenIsConsistent, UnderWay

LEMMA ScreenStep ==
    ASSUME WaitsForPages, ScreenInv, [Next]_vars
    PROVE  ScreenInv'
<1>1. ASSUME NEW r \in Read, NEW a \in Apex, Searches(a, r)
      PROVE  ScreenInv'
  <2>1. screen \in Screen /\ url \in {0} \cup Apex /\ ~screen.open
    BY <1>1, VariableTypes DEF ScreenInv, Searches
  <2> QED
    BY <1>1, <2>1, SearchStep DEF Searches
<1>2. ASSUME NEW r \in Read, NEW a \in Apex, PopsTo(a, r)
      PROVE  ScreenInv'
  BY <1>2, ClosedFacts, SearchStep DEF PopsTo
<1>3. ASSUME NEW r \in Read, ReadStep(r)
      PROVE  ScreenInv'
  BY <1>3, AnswerStep, SearchArrivesStep, PageArrivesStep, ReadFailsStep DEF ReadStep
<1>4. CASE UNCHANGED vars
  <2>1. /\ UNCHANGED <<heap, cache, current, screen, url, reads>>
        /\ UNCHANGED <<catalog, layout, before, version, changed>>
    BY <1>4 DEF vars, catalogVars
  <2>2. TypeOK'
    <3>1. layout' = Layout(catalog)'
      BY <2>1 DEF ScreenInv, TypeOK, Layout, NamesOf, InOrder
    <3> QED
      BY <2>1, <3>1 DEF ScreenInv, TypeOK
  <2> QED
    BY <2>1, <2>2
    DEF ScreenInv, ObjectsAreOne, CacheIsOfItsApex, ReadsAreRight, OneKindAtATime,
        BusyIsSearching, ScreenIsConsistent, UnderWay, Of
<1> QED
  BY <1>1, <1>2, <1>3, <1>4, TurnStep, ShelfStep, BackStep, CatalogStep DEF Next

\* The invariant of the page, for a reader that waits for a page before searching and
\* for a search before turning a page (app.js; WaitsForPages).
THEOREM ScreenInvariant ==
    ASSUME WaitsForPages
    PROVE  Spec => []ScreenInv
<1>1. Init => ScreenInv
  BY ScreenInit
<1>2. ScreenInv /\ [Next]_vars => ScreenInv'
  BY ScreenStep
<1> QED
  BY <1>1, <1>2, PTL DEF Spec

\* What is shown is the record of the apex that heading and location name, whichever
\* order searches, answers, the cache and the back button come in (renderRegister,
\* closeShelf and restoreRoute, app.js).
THEOREM ScreenStaysConsistent ==
    ASSUME WaitsForPages
    PROVE  Spec => []ScreenIsConsistent
<1>1. ScreenInv => ScreenIsConsistent
  BY DEF ScreenInv
<1> QED
  BY <1>1, ScreenInvariant, PTL
-----------------------------------------------------------------------------
(* The binary search of findRegularBlock *)

LEMMA LeastIsMember ==
    ASSUME NEW T \in SUBSET Nat, T # {}
    PROVE  \E m \in T : \A k \in T : m <= k
<1> DEFINE R == {ss \in Nat \X Nat : ss[1] < ss[2]}
<1>1. IsWellFoundedOn(R, Nat)
  BY NatLessThanWellFounded, Zenon DEF OpToRel
<1>2. PICK m \in T : \A k \in T : ~(<<k, m>> \in R)
  <2> HIDE DEF R
  <2> QED
    BY <1>1, WFMin
<1>3. ASSUME NEW k \in T PROVE m <= k
  <2>1. ~(<<k, m>> \in R) /\ k \in Nat /\ m \in Nat
    BY <1>2
  <2> QED
    BY <2>1
<1> QED
  BY <1>3

\* A step of the search in the span from low to high, whose rest is in g.
Halved(a, g, low, high) ==
    LET middle == (low + high) \div 2 IN
    IF low >= high THEN low
    ELSE IF layout[middle + 1].first <= a THEN g[<<middle + 1, high>>]
    ELSE g[<<low, middle>>]

IsSearch(a, g) == g = [span \in Span |-> Halved(a, g, span[1], span[2])]

IsSearchTo(a, g, d) ==
    \A low, high \in 0..Len(layout) :
        high - low <= d => g[<<low, high>>] = Halved(a, g, low, high)

LEMMA MiddleFacts ==
    ASSUME NEW n \in Nat, NEW low \in 0..n, NEW high \in 0..n, low < high
    PROVE  /\ (low + high) \div 2 \in 0..n /\ (low + high) \div 2 + 1 \in 1..n
           /\ low <= (low + high) \div 2 /\ (low + high) \div 2 < high
OBVIOUS

\* Two searches that agree on the spans within one agree on it.
AgreeWithin(g, h, low, high) ==
    \A l, m \in 0..Len(layout) : m - l < high - low => g[<<l, m>>] = h[<<l, m>>]

LEMMA HalvedAgree ==
    ASSUME NEW a, Len(layout) \in Nat, NEW low \in 0..Len(layout),
           NEW high \in 0..Len(layout), NEW g, NEW h, AgreeWithin(g, h, low, high)
    PROVE  Halved(a, g, low, high) = Halved(a, h, low, high)
<1>1. PICK n \in Nat : n = Len(layout)
  OBVIOUS
<1>2. CASE low >= high
  BY <1>2 DEF Halved
<1>3. CASE low < high
  <2>1. PICK middle : middle = (low + high) \div 2
    OBVIOUS
  <2>2. /\ middle \in 0..n /\ middle + 1 \in 0..n /\ low <= middle /\ middle < high
        /\ ~(low >= high)
    BY <1>1, <1>3, <2>1, MiddleFacts
  <2>3. high - (middle + 1) < high - low /\ middle - low < high - low
    BY <2>2
  <2>4. g[<<middle + 1, high>>] = h[<<middle + 1, high>>]
    BY <1>1, <2>2, <2>3 DEF AgreeWithin
  <2>5. g[<<low, middle>>] = h[<<low, middle>>]
    BY <1>1, <2>2, <2>3 DEF AgreeWithin
  <2> QED
    BY <2>1, <2>2, <2>4, <2>5 DEF Halved
<1> QED
  BY <1>2, <1>3

LEMMA SearchDeepens ==
    ASSUME NEW a, Len(layout) \in Nat, NEW d \in Nat, NEW g, IsSearchTo(a, g, d)
    PROVE  \E h : IsSearchTo(a, h, d + 1)
<1>1. PICK n \in Nat : n = Len(layout)
  OBVIOUS
<1>2. PICK h : h = [span \in Span |-> IF span[2] - span[1] <= d THEN g[span]
                                     ELSE Halved(a, g, span[1], span[2])]
  OBVIOUS
<1>3. \A low, high \in 0..n :
        h[<<low, high>>] = IF high - low <= d THEN g[<<low, high>>]
                           ELSE Halved(a, g, low, high)
  BY <1>1, <1>2 DEF Span
<1>4. ASSUME NEW low \in 0..n, NEW high \in 0..n, high - low <= d + 1
      PROVE  h[<<low, high>>] = Halved(a, h, low, high)
  <2>1. AgreeWithin(g, h, low, high)
    <3>1. \A l, m \in 0..n : m - l < high - low => m - l <= d
      BY <1>4
    <3> QED
      BY <1>1, <1>3, <3>1 DEF AgreeWithin
  <2>2. Halved(a, g, low, high) = Halved(a, h, low, high)
    BY <1>1, <2>1, HalvedAgree
  <2>3. high - low <= d => g[<<low, high>>] = Halved(a, g, low, high)
    BY <1>1 DEF IsSearchTo
  <2> QED
    BY <1>3, <2>2, <2>3
<1> QED
  BY <1>1, <1>4 DEF IsSearchTo

LEMMA SearchIsDefined ==
    ASSUME NEW a, Len(layout) \in Nat
    PROVE  \E g : IsSearch(a, g) /\ UpperBound(a) = g[<<0, Len(layout)>>]
<1>1. PICK n \in Nat : n = Len(layout)
  OBVIOUS
<1> DEFINE T == {d \in Nat : ~\E g : IsSearchTo(a, g, d)}
<1>2. T = {}
  <2> SUFFICES ASSUME T # {} PROVE FALSE
    OBVIOUS
  <2>1. PICK d \in T : \A k \in T : d <= k
    <3>1. T \in SUBSET Nat
      OBVIOUS
    <3> QED
      BY <3>1, LeastIsMember
  <2>2. d # 0
    <3>1. PICK g : g = [span \in Span |-> span[1]]
      OBVIOUS
    <3>2. ASSUME NEW low \in 0..n, NEW high \in 0..n, high - low <= 0
          PROVE  g[<<low, high>>] = Halved(a, g, low, high)
      <4>1. low >= high
        BY <3>2
      <4>2. g[<<low, high>>] = low
        BY <1>1, <3>1 DEF Span
      <4> QED
        BY <4>1, <4>2 DEF Halved
    <3>3. IsSearchTo(a, g, 0)
      BY <1>1, <3>2 DEF IsSearchTo
    <3> QED
      BY <3>3
  <2>3. d - 1 \in Nat /\ d - 1 \notin T /\ (d - 1) + 1 = d
    BY <2>1, <2>2
  <2>4. PICK g : IsSearchTo(a, g, d - 1)
    BY <2>3
  <2>5. \E h : IsSearchTo(a, h, (d - 1) + 1)
    BY <2>3, <2>4, SearchDeepens
  <2> QED
    BY <2>1, <2>3, <2>5
<1>3. PICK g : IsSearchTo(a, g, n)
  BY <1>2
<1>4. PICK h : h = [span \in Span |-> g[span]]
  OBVIOUS
<1>5. \A low, high \in 0..n : h[<<low, high>>] = g[<<low, high>>]
  BY <1>1, <1>4 DEF Span
<1>6. ASSUME NEW span \in Span PROVE g[span] = Halved(a, h, span[1], span[2])
  <2>1. PICK low \in 0..n, high \in 0..n : span = <<low, high>>
    BY <1>1 DEF Span
  <2>2. high - low <= n
    BY <2>1
  <2>3. g[<<low, high>>] = Halved(a, g, low, high)
    BY <1>1, <1>3, <2>2 DEF IsSearchTo
  <2>4. AgreeWithin(g, h, low, high)
    BY <1>1, <1>5 DEF AgreeWithin
  <2>5. Halved(a, g, low, high) = Halved(a, h, low, high)
    BY <1>1, <2>4, HalvedAgree
  <2> QED
    BY <2>1, <2>3, <2>5
<1>7. IsSearch(a, h)
  BY <1>4, <1>6 DEF IsSearch
<1> DEFINE s == CHOOSE f : IsSearch(a, f)
<1>8. UpperBound(a) = s[<<0, Len(layout)>>]
  BY DEF UpperBound, IsSearch, Halved
<1>9. IsSearch(a, s)
  BY <1>7
<1> QED
  BY <1>8, <1>9

\* The first of each block is less than that of the next.
FirstsGrow ==
    /\ \A i \in 1..Len(layout) : layout[i].first \in Nat
    /\ \A i, j \in 1..Len(layout) : i < j => layout[i].first < layout[j].first

\* As many blocks as begin at a or before.
Bounds(a, low, high) ==
    /\ \A i \in 1..Len(layout) : i <= low => layout[i].first <= a
    /\ \A i \in 1..Len(layout) : i > high => layout[i].first > a

LEMMA UpperBoundIsRight ==
    ASSUME Len(layout) \in Nat, FirstsGrow, NEW a \in Nat
    PROVE  UpperBound(a) \in 0..Len(layout) /\ Bounds(a, UpperBound(a), UpperBound(a))
<1>1. PICK n \in Nat : n = Len(layout)
  OBVIOUS
<1>2. PICK g : IsSearch(a, g) /\ UpperBound(a) = g[<<0, n>>]
  BY <1>1, SearchIsDefined
<1> DEFINE Right(low, high) ==
      g[<<low, high>>] \in 0..n /\ Bounds(a, g[<<low, high>>], g[<<low, high>>])
<1> DEFINE Wrong(low, high) == low <= high /\ Bounds(a, low, high) /\ ~Right(low, high)
<1> DEFINE T == {d \in Nat : \E low, high \in 0..n : d = high - low /\ Wrong(low, high)}
<1>3. T = {}
  <2> SUFFICES ASSUME T # {} PROVE FALSE
    OBVIOUS
  <2>1. PICK d \in T : \A k \in T : d <= k
    <3>1. T \in SUBSET Nat
      OBVIOUS
    <3> QED
      BY <3>1, LeastIsMember
  <2>2. PICK low \in 0..n, high \in 0..n : d = high - low /\ Wrong(low, high)
    BY <2>1
  <2>3. g[<<low, high>>] = Halved(a, g, low, high)
    BY <1>1, <1>2 DEF IsSearch, Span
  <2>4. low < high
    <3>1. ASSUME low >= high PROVE FALSE
      <4>1. low = high
        BY <2>2, <3>1
      <4>2. g[<<low, high>>] = low
        BY <2>3, <3>1 DEF Halved
      <4> QED
        BY <2>2, <4>1, <4>2
    <3> QED
      BY <3>1
  <2>5. PICK middle \in 0..n :
          /\ middle = (low + high) \div 2 /\ middle + 1 \in 1..n
          /\ low <= middle /\ middle < high
    BY <2>4, MiddleFacts
  <2>6. \A l, m \in 0..n : l <= m /\ m - l < d /\ Bounds(a, l, m) => Right(l, m)
    <3> SUFFICES ASSUME NEW l \in 0..n, NEW m \in 0..n, l <= m, m - l < d,
                        Bounds(a, l, m), ~Right(l, m)
                 PROVE  FALSE
      OBVIOUS
    <3>1. Wrong(l, m) /\ m - l \in Nat
      OBVIOUS
    <3>2. m - l \in T
      <4> HIDE DEF Wrong
      <4> QED
        BY <3>1
    <3>3. d <= m - l /\ d \in Nat
      <4> HIDE DEF Wrong
      <4> QED
        BY <2>1, <3>2
    <3> QED
      BY <3>1, <3>3
  <2>7. CASE layout[middle + 1].first <= a
    <3>1. g[<<low, high>>] = g[<<middle + 1, high>>]
      BY <2>3, <2>4, <2>5, <2>7 DEF Halved
    <3>2. Bounds(a, middle + 1, high)
      <4>1. ASSUME NEW i \in 1..n, i <= middle + 1
            PROVE  layout[i].first <= a
        <5>1. layout[i].first <= layout[middle + 1].first
          BY <1>1, <2>5, <4>1 DEF FirstsGrow
        <5>2. layout[i].first \in Nat /\ layout[middle + 1].first \in Nat
          BY <1>1, <2>5 DEF FirstsGrow
        <5> QED
          BY <2>7, <5>1, <5>2
      <4> QED
        BY <1>1, <2>2, <4>1 DEF Bounds
    <3>3. middle + 1 \in 0..n /\ middle + 1 <= high /\ high - (middle + 1) < d
      BY <2>2, <2>5
    <3>4. Right(middle + 1, high)
      BY <2>6, <3>2, <3>3
    <3> QED
      BY <2>2, <3>1, <3>4
  <2>8. CASE ~(layout[middle + 1].first <= a)
    <3>1. g[<<low, high>>] = g[<<low, middle>>]
      BY <2>3, <2>4, <2>5, <2>8 DEF Halved
    <3>2. Bounds(a, low, middle)
      <4>1. ASSUME NEW i \in 1..n, i > middle
            PROVE  layout[i].first > a
        <5>1. i = middle + 1 \/ middle + 1 < i
          BY <2>5, <4>1
        <5>2. layout[i].first >= layout[middle + 1].first
          BY <1>1, <2>5, <5>1 DEF FirstsGrow
        <5>3. layout[i].first \in Nat /\ layout[middle + 1].first \in Nat
          BY <1>1, <2>5 DEF FirstsGrow
        <5> QED
          BY <2>8, <5>2, <5>3
      <4> QED
        BY <1>1, <2>2, <4>1 DEF Bounds
    <3>3. low <= middle /\ middle - low < d
      BY <2>2, <2>5
    <3>4. Right(low, middle)
      BY <2>6, <3>2, <3>3
    <3> QED
      BY <2>2, <3>1, <3>4
  <2> QED
    BY <2>7, <2>8
<1>4. Bounds(a, 0, n)
  BY <1>1 DEF Bounds
<1>5. Right(0, n)
  <2>1. 0 \in 0..n /\ n \in 0..n /\ 0 <= n /\ n - 0 = n
    OBVIOUS
  <2>2. ~Wrong(0, n)
    <3>1. Wrong(0, n) => n \in T
      <4> HIDE DEF Wrong
      <4> QED
        BY <2>1
    <3> QED
      BY <1>3, <3>1
  <2> QED
    BY <1>4, <2>1, <2>2
<1> QED
  BY <1>1, <1>2, <1>5
-----------------------------------------------------------------------------
(* The blocks of a partition *)

LEMMA TimesGrows ==
    ASSUME NEW i \in Nat, NEW j \in Nat, NEW b \in Nat, i <= j
    PROVE  i * b <= j * b /\ i * b \in Nat /\ j * b \in Nat
<1>1. PICK d \in Nat : j = i + d
  <2>1. j - i \in Nat /\ j = i + (j - i)
    OBVIOUS
  <2> QED
    BY <2>1
<1>2. j * b = i * b + d * b /\ d * b \in Nat /\ i * b \in Nat
  BY <1>1
<1> QED
  BY <1>1, <1>2

\* n things in blocks of b.
LEMMA BlocksHoldAll ==
    ASSUME NEW b \in Nat \ {0}, NEW n \in Nat
    PROVE  /\ (n + b - 1) \div b \in Nat
           /\ \A i \in 1..((n + b - 1) \div b) : (i - 1) * b < n
           /\ \A k \in 1..n : \E i \in 1..((n + b - 1) \div b) :
                (i - 1) * b < k /\ k <= i * b
<1>1. PICK m \in Nat : m = n + b - 1
  <2>1. n + b - 1 \in Nat
    OBVIOUS
  <2> QED
    BY <2>1
<1>2. PICK c : c = m \div b
  OBVIOUS
<1>3. c \in Nat /\ c * b <= m /\ m < c * b + b
  BY <1>2
<1>4. PICK cb \in Nat : cb = c * b
  BY <1>3
<1>5. cb <= n + b - 1 /\ n <= cb
  BY <1>1, <1>3, <1>4
<1>6. ASSUME NEW i \in 1..c PROVE (i - 1) * b < n
  <2>1. PICK j \in Nat : j = i - 1 /\ j + 1 <= c
    <3>1. i - 1 \in Nat /\ (i - 1) + 1 <= c
      BY <1>3
    <3> QED
      BY <3>1
  <2>2. (j + 1) * b <= cb
    BY <1>3, <1>4, <2>1, TimesGrows
  <2>3. (j + 1) * b = j * b + b /\ j * b \in Nat
    OBVIOUS
  <2>4. j * b + b <= n + b - 1
    BY <1>5, <2>2, <2>3
  <2>5. j * b < n
    BY <2>3, <2>4
  <2> QED
    BY <2>1, <2>5
<1>7. ASSUME NEW k \in 1..n PROVE \E i \in 1..c : (i - 1) * b < k /\ k <= i * b
  <2> DEFINE T == {i \in Nat : k <= i * b}
  <2>1. c \in T
    BY <1>3, <1>4, <1>5
  <2>2. PICK i \in T : \A j \in T : i <= j
    <3>1. T \in SUBSET Nat /\ T # {}
      BY <2>1
    <3> HIDE DEF T
    <3> QED
      BY <3>1, LeastIsMember
  <2>3. i \in Nat /\ i <= c /\ k <= i * b
    BY <2>1, <2>2
  <2>4. i # 0
    <3>1. 0 * b = 0
      OBVIOUS
    <3> QED
      BY <2>3, <3>1
  <2>5. PICK j \in Nat : j = i - 1
    BY <2>3, <2>4
  <2>6. j \notin T
    <3>1. j \in Nat /\ ~(i <= j)
      BY <2>3, <2>5
    <3> HIDE DEF T
    <3> QED
      BY <2>2, <3>1
  <2>7. ~(k <= j * b) /\ j * b \in Nat
    BY <2>6
  <2>8. j * b < k
    BY <2>7
  <2> QED
    BY <2>3, <2>4, <2>5, <2>8
<1> QED
  BY <1>1, <1>2, <1>3, <1>6, <1>7

LEMMA SubSeqEnds ==
    ASSUME NEW S, NEW s \in Seq(S), NEW low \in 1..Len(s), NEW high \in low..Len(s)
    PROVE  /\ Head(SubSeq(s, low, high)) = s[low]
           /\ Last(SubSeq(s, low, high)) = s[high]
<1>1. PICK n \in Nat : n = Len(s)
  OBVIOUS
<1>2. PICK t : t = SubSeq(s, low, high)
  OBVIOUS
<1>3. t \in Seq(S) /\ Len(t) = high - low + 1
  BY <1>2
<1>4. t[1] = s[low] /\ t[Len(t)] = s[high]
  <2>1. \A i \in 1..(high - low + 1) : t[i] = s[low + i - 1]
    BY <1>2
  <2>2. /\ 1 \in 1..(high - low + 1) /\ high - low + 1 \in 1..(high - low + 1)
        /\ low + 1 - 1 = low /\ low + (high - low + 1) - 1 = high
    BY <1>1
  <2>3. t[1] = s[low]
    BY <2>1, <2>2
  <2>4. t[high - low + 1] = s[high]
    BY <2>1, <2>2
  <2> QED
    BY <1>3, <2>3, <2>4
<1>5. Head(t) = t[1] /\ Last(t) = t[Len(t)]
  BY <1>3 DEF Last
<1> QED
  BY <1>2, <1>4, <1>5

\* Every apex that has names is in the last block that begins at it or before.
IsInBlock(a, i) ==
    /\ layout[i].first <= a /\ a <= layout[i].last /\ layout[i].last \in Nat
    /\ \A j \in 1..Len(layout) : j > i => a < layout[j].first

LEMMA LayoutFacts ==
    ASSUME TypeOK
    PROVE  /\ Len(layout) \in Nat /\ FirstsGrow
           /\ \A a \in Apex : NamesOf(catalog, a) # {} =>
                \E i \in 1..Len(layout) : IsInBlock(a, i)
<1>1. PICK S : S = {a \in Apex : NamesOf(catalog, a) # {}}
  OBVIOUS
<1>2. IsFiniteSet(S) /\ S \subseteq Apex /\ S \subseteq Nat
  <2>1. IsFiniteSet(Apex)
    BY ConstantFacts, FS_Interval DEF Apex
  <2> QED
    BY <1>1, <2>1, ConstantFacts, FS_Subset
<1>3. IsOrder(S, ByApex)
  BY <1>2 DEF IsOrder, ByApex
<1>4. PICK s : s = InOrder(S, ByApex)
  OBVIOUS
<1>5. PICK n \in Nat : n = Cardinality(S)
  BY <1>2, FS_CardinalityType
<1>6. Lists(s, S, ByApex) /\ s \in Seq(S) /\ Len(s) = n
  BY <1>2, <1>3, <1>4, <1>5, OrderedList
<1>7. /\ \A i \in 1..n : s[i] \in S /\ s[i] \in Nat
      /\ \A i, j \in 1..n : i < j <=> s[i] < s[j]
      /\ \A a \in S : \E k \in 1..n : s[k] = a
  BY <1>2, <1>5, <1>6 DEF Lists, ByApex
<1>8. PICK b \in Nat \ {0} : b = BlockSize
  BY ConstantFacts
<1>9. PICK c : c = (n + b - 1) \div b
  OBVIOUS
<1>10. /\ c \in Nat /\ \A i \in 1..c : (i - 1) * b < n
       /\ \A k \in 1..n : \E i \in 1..c : (i - 1) * b < k /\ k <= i * b
  BY <1>9, BlocksHoldAll
<1> DEFINE BlockOf(i) == SubSeq(s, (i - 1) * b + 1, Min({i * b, n}))
<1>11. layout = [i \in 1..c |-> [first |-> Head(BlockOf(i)), last |-> Last(BlockOf(i))]]
  BY <1>1, <1>4, <1>6, <1>8, <1>9 DEF TypeOK, Layout
<1>12. Len(layout) = c
  <2> HIDE DEF BlockOf
  <2> QED
    BY <1>10, <1>11
<1>13. ASSUME NEW i \in 1..c
       PROVE  \E low, high \in 1..n :
                /\ low = (i - 1) * b + 1 /\ high <= i * b /\ (high = n \/ high = i * b)
                /\ layout[i].first = s[low] /\ layout[i].last = s[high]
  <2>1. PICK j \in Nat : j = i - 1 /\ i = j + 1
    BY <1>10
  <2>2. PICK jb \in Nat : jb = j * b
    OBVIOUS
  <2>3. i * b = jb + b /\ jb < n /\ i * b \in Nat
    BY <1>10, <2>1, <2>2
  <2>4. PICK high : high = Min({i * b, n})
    OBVIOUS
  <2>5. /\ high \in {i * b, n} /\ high <= i * b /\ high <= n
    BY <2>3, <2>4, MinOfTwo
  <2>6. jb + 1 \in 1..n /\ high \in (jb + 1)..n
    BY <2>3, <2>5
  <2>7. BlockOf(i) = SubSeq(s, jb + 1, high)
    BY <2>1, <2>2, <2>4
  <2>8. Head(BlockOf(i)) = s[jb + 1] /\ Last(BlockOf(i)) = s[high]
    BY <1>6, <2>6, <2>7, SubSeqEnds
  <2>9. layout[i].first = Head(BlockOf(i)) /\ layout[i].last = Last(BlockOf(i))
    <3> HIDE DEF BlockOf
    <3> QED
      BY <1>11
  <2>10. PICK low \in 1..n : low = jb + 1
    BY <2>6
  <2>11. low = (i - 1) * b + 1 /\ layout[i].first = s[low] /\ layout[i].last = s[high]
    BY <2>1, <2>2, <2>8, <2>9, <2>10
  <2>12. high \in 1..n /\ (high = n \/ high = i * b) /\ high <= i * b
    BY <2>5, <2>6
  <2> QED
    BY <2>11, <2>12
<1>14. FirstsGrow
  <2>1. ASSUME NEW i \in 1..c PROVE layout[i].first \in Nat
    BY <1>7, <1>13
  <2>2. ASSUME NEW i \in 1..c, NEW j \in 1..c, i < j
        PROVE  layout[i].first < layout[j].first
    <3>1. PICK l \in 1..n : l = (i - 1) * b + 1 /\ layout[i].first = s[l]
      BY <1>13
    <3>2. PICK m \in 1..n : m = (j - 1) * b + 1 /\ layout[j].first = s[m]
      BY <1>13
    <3>3. l < m
      <4>1. PICK x \in Nat : x = i - 1
        OBVIOUS
      <4>2. PICK y \in Nat : y = j - 1
        OBVIOUS
      <4>3. (x + 1) * b <= y * b /\ (x + 1) * b = x * b + b /\ x * b \in Nat /\ y * b \in Nat
        BY <2>2, <4>1, <4>2, TimesGrows
      <4>4. x * b < y * b
        BY <4>3
      <4> QED
        BY <3>1, <3>2, <4>1, <4>2, <4>3, <4>4
    <3> QED
      BY <1>7, <3>1, <3>2, <3>3
  <2> QED
    BY <1>12, <2>1, <2>2 DEF FirstsGrow
<1>15. ASSUME NEW a \in Apex, NamesOf(catalog, a) # {}
       PROVE  \E i \in 1..c : IsInBlock(a, i)
  <2>1. PICK k \in 1..n : s[k] = a
    BY <1>1, <1>7, <1>15
  <2>2. PICK i \in 1..c : (i - 1) * b < k /\ k <= i * b
    BY <1>10
  <2>3. PICK low \in 1..n, high \in 1..n :
          /\ low = (i - 1) * b + 1 /\ high <= i * b /\ (high = n \/ high = i * b)
          /\ layout[i].first = s[low] /\ layout[i].last = s[high]
    BY <1>13
  <2>4. low <= k /\ k <= high
    <3>1. PICK x \in Nat : x = (i - 1) * b
      <4>1. i - 1 \in Nat
        OBVIOUS
      <4> QED
        BY <4>1
    <3> QED
      BY <2>2, <2>3, <3>1
  <2>5. \A l, m \in 1..n : l <= m => s[l] <= s[m]
    BY <1>7
  <2>6. layout[i].first <= a /\ a <= layout[i].last /\ layout[i].last \in Nat
    BY <1>7, <2>1, <2>3, <2>4, <2>5
  <2>7. ASSUME NEW j \in 1..c, j > i PROVE a < layout[j].first
    <3>1. PICK m \in 1..n : m = (j - 1) * b + 1 /\ layout[j].first = s[m]
      BY <1>13
    <3>2. k < m
      <4>1. PICK y \in Nat : y = j - 1
        OBVIOUS
      <4>2. i * b <= y * b /\ i * b \in Nat /\ y * b \in Nat
        BY <2>7, <4>1, TimesGrows
      <4> QED
        BY <2>2, <3>1, <4>1, <4>2
    <3> QED
      BY <1>7, <2>1, <3>1, <3>2
  <2> QED
    BY <1>12, <2>6, <2>7 DEF IsInBlock
<1> QED
  BY <1>10, <1>12, <1>14, <1>15

\* The Worker finds an apex if it has names, and then all of them.
LEMMA LocatedIsRecords ==
    ASSUME TypeOK, NEW a \in Apex
    PROVE  Located(a) = Records(a)
<1>1. PICK n \in Nat : n = Len(layout)
  BY LayoutFacts
<1>2. PICK u \in 0..n : u = UpperBound(a) /\ Bounds(a, u, u)
  BY <1>1, LayoutFacts, UpperBoundIsRight, ConstantFacts
<1>3. CASE NamesOf(catalog, a) = {}
  BY <1>3 DEF Located, Records
<1>4. CASE NamesOf(catalog, a) # {}
  <2>1. PICK i \in 1..n : IsInBlock(a, i)
    BY <1>1, <1>4, LayoutFacts
  <2>2. a \in Nat /\ \A j \in 1..n : layout[j].first \in Nat
    BY <1>1, LayoutFacts, ConstantFacts DEF FirstsGrow
  <2>3. ~(i > u)
    BY <1>1, <1>2, <2>1, <2>2 DEF IsInBlock, Bounds
  <2>4. ~(u > i)
    <3>1. ASSUME u > i PROVE FALSE
      <4>1. u \in 1..n
        BY <3>1
      <4> QED
        BY <1>1, <1>2, <2>1, <2>2, <3>1, <4>1 DEF IsInBlock, Bounds
    <3> QED
      BY <3>1
  <2>5. u = i /\ u # 0 /\ a <= layout[u].last /\ layout[u].last \in Nat
    BY <2>1, <2>3, <2>4 DEF IsInBlock
  <2>6. ~(a > layout[u].last)
    BY <2>2, <2>5
  <2> QED
    BY <1>2, <2>5, <2>6 DEF Located
<1> QED
  BY <1>3, <1>4
-----------------------------------------------------------------------------
(* Pages: what is read *)

\* The rows are those of an apex after the cursor and up to the next one, in order.
\* Of names that changed since the catalog v nothing is said.
InOrderAfter(cursor, rows, next) ==
    /\ \A i, j \in DOMAIN rows : i < j => Earlier(rows[i], rows[j])
    /\ \A i \in DOMAIN rows : Follows(cursor, rows[i])
    /\ next # NoCursor =>
         /\ Follows(cursor, next)
         /\ \A i \in DOMAIN rows : ~Earlier(next, rows[i])

\* Whether a row comes no later than the cursor of the next page.
Covers(next, r) == next = NoCursor \/ ~Earlier(next, r)

IsAsListed(a, rows, v) ==
    \A i \in DOMAIN rows : changed[a][rows[i].name] <= v => rows[i] = RowOf(a, rows[i].name)

LeavesNoneOut(a, cursor, rows, next, v) ==
    \A n \in NamesOf(catalog, a) :
        changed[a][n] <= v /\ Follows(cursor, RowOf(a, n)) /\ Covers(next, RowOf(a, n)) =>
            \E i \in DOMAIN rows : rows[i].name = n

Cut(a, cursor, rows, next, v) ==
    /\ InOrderAfter(cursor, rows, next)
    /\ IsAsListed(a, rows, v)
    /\ LeavesNoneOut(a, cursor, rows, next, v)
-----------------------------------------------------------------------------
(* Pages: the walk *)

\* Where the page j of an object ends, where it begins, and after how many rows.
NextAt(o, j) == IF j \in DOMAIN o.back THEN o.back[j].next ELSE o.next

CursorAt(o, j) == IF j = 1 THEN NoCursor ELSE NextAt(o, j - 1)

StartAt(o, j) == IF j \in DOMAIN o.back THEN o.back[j].start ELSE o.start

PagesOf(o) == 1..(Len(o.back) + 1)

\* The places of the rows on the pages before j.
PlacesBefore(o, j) == {p \in Walked(o) : p[1] < j}

\* Each page was read where the one before it ends.
WalkIsCut(o) ==
    /\ o.since <= version
    /\ \A j \in PagesOf(o) : Cut(o.apex, CursorAt(o, j), RowsAt(o, j), NextAt(o, j), o.since)

\* A page begins after as many rows as there are on the pages before it, and no row up to
\* it comes after the cursor of the next one.
WalkIsCounted(o) ==
    /\ \A j \in PagesOf(o) :
         /\ StartAt(o, j) = Cardinality(PlacesBefore(o, j))
         /\ \A p \in Walked(o) :
              p[1] <= j => Covers(NextAt(o, j), RowsAt(o, p[1])[p[2]])
    /\ \A j \in DOMAIN o.back : o.back[j].next # NoCursor

WalkIsRight(o) == WalkIsCut(o) /\ WalkIsCounted(o)

WalksAreRight == \A o \in Range(heap) : WalkIsRight(o)

AnswerIsRight(read) ==
    read.pc = "answered" =>
        /\ read.page.version <= version
        /\ Cut(read.apex, read.cursor, read.page.rows, read.page.next, read.page.version)

AnswersAreRight == \A read \in Range(reads) : AnswerIsRight(read)

\* A page under way is the next one of the current object, which waits for it alone.
TurnIsRight(read, o) ==
    /\ o.loading
    /\ read.cursor = o.next /\ o.next # NoCursor
    /\ read.entry = [rows |-> o.rows, cursor |-> o.cursor, next |-> o.next, start |-> o.start]
    /\ read.pc = "answered" => o.since <= read.page.version

TurnsAreRight ==
    \A r \in UnderWay("next") :
        TurnIsRight(reads[r], heap[current]) /\ UnderWay("next") = {r}

PagesInv == ScreenInv /\ WalksAreRight /\ AnswersAreRight /\ TurnsAreRight

LEMMA EarlierIsAnOrder ==
    /\ \A r \in Row : ~Earlier(r, r)
    /\ \A r, s \in Row : Earlier(r, s) => ~Earlier(s, r)
    /\ \A r, s, t \in Row : Earlier(r, s) /\ Earlier(s, t) => Earlier(r, t)
    /\ \A r, s \in Row : ~Earlier(r, s) /\ ~Earlier(s, r) => r.date = s.date /\ r.name = s.name
<1>1. \A r \in Row : r.date \in Nat /\ r.name \in Nat
  BY RowFacts
<1> QED
  BY <1>1 DEF Earlier

\* The page that the Worker makes, of a catalog that is in place.
LEMMA PageIsCut ==
    ASSUME TypeOK, NEW a \in Apex, NEW cursor \in Row \cup {NoCursor},
           NEW page, page = PageOf(a, cursor)
    PROVE  /\ page.version = version
           /\ Cut(a, cursor, page.rows, page.next, page.version)
<1>1. PICK S : S = {r \in Records(a) : Follows(cursor, r)}
  OBVIOUS
<1>2. /\ IsFiniteSet(S) /\ S \in SUBSET Row /\ \A r \in S : r.apex = a
      /\ \A r \in S : Follows(cursor, r) /\ r = RowOf(a, r.name)
  <2>1. \A r \in Records(a) : r = RowOf(a, r.name)
    BY DEF Records, RowOf
  <2> QED
    BY <1>1, <2>1, RecordFacts, FS_Subset
<1>3. PICK n \in Nat : n = Cardinality(S)
  BY <1>2, FS_CardinalityType
<1>4. PICK rest \in Seq(S) :
        rest = InOrder(S, ByDate) /\ Lists(rest, S, ByDate) /\ Len(rest) = n
  BY <1>2, <1>3, RowsInOrder
<1>5. /\ \A i \in 1..n : rest[i] \in S /\ rest[i] \in Row
      /\ \A i, j \in 1..n : i < j <=> Earlier(rest[i], rest[j])
      /\ \A r \in S : \E i \in 1..n : rest[i] = r
  <2>1. \A r, s \in Row : <<r, s>> \in ByDate <=> Earlier(r, s)
    BY DEF ByDate
  <2>2. \A i \in 1..n : rest[i] \in S /\ rest[i] \in Row
    BY <1>2, <1>3, <1>4 DEF Lists
  <2>3. /\ \A i, j \in 1..n : i < j <=> <<rest[i], rest[j]>> \in ByDate
        /\ \A r \in S : \E i \in 1..n : rest[i] = r
    BY <1>3, <1>4 DEF Lists
  <2>4. \A i, j \in 1..n : i < j <=> Earlier(rest[i], rest[j])
    BY <2>1, <2>2, <2>3
  <2> QED
    BY <2>2, <2>3, <2>4
<1>6. PICK k \in 0..n :
        /\ k = Min({PageSize, n}) /\ k \in {PageSize, n} /\ PageSize \in Nat
        /\ n > PageSize => k # 0 /\ k = PageSize
  <2>1. PageSize \in Nat /\ PageSize # 0
    BY ConstantFacts
  <2> QED
    BY <2>1, MinOfTwo
<1>7. PICK rows : rows = SubSeq(rest, 1, k)
  OBVIOUS
<1>8. /\ rows \in Seq(S) /\ Len(rows) = k /\ DOMAIN rows = 1..k
      /\ \A i \in 1..k : rows[i] = rest[i]
  BY <1>4, <1>7
<1>9. PICK next : next = IF n > PageSize THEN Last(rows) ELSE NoCursor
  OBVIOUS
<1>10. page = [rows |-> rows, next |-> next, total |-> Cardinality(Records(a)),
               version |-> version]
  BY <1>1, <1>4, <1>6, <1>7, <1>9, LocatedIsRecords DEF PageOf
<1>11. 1..k \subseteq 1..n
  BY <1>6
<1>12. next # NoCursor => n > PageSize /\ k \in 1..k /\ next = rest[k] /\ next \in S
  <2>1. ASSUME n > PageSize PROVE k \in 1..k /\ next = rest[k] /\ next \in S
    <3>1. k \in 1..k
      BY <1>6, <2>1
    <3>2. next = rows[k]
      BY <1>8, <1>9, <2>1 DEF Last
    <3> QED
      BY <1>5, <1>8, <1>11, <3>1, <3>2
  <2> QED
    BY <1>9, <2>1
<1>13. next = NoCursor => k = n
  <2>1. ASSUME n > PageSize PROVE next # NoCursor
    <3>1. k \in 1..k
      BY <1>6, <2>1
    <3>2. next = rows[k]
      BY <1>8, <1>9, <2>1 DEF Last
    <3>3. next \in Row
      BY <1>5, <1>8, <1>11, <3>1, <3>2
    <3> QED
      BY <3>3, RowFacts
  <2> QED
    BY <1>6, <2>1
<1>14. InOrderAfter(cursor, rows, next)
  <2>1. \A i, j \in DOMAIN rows : i < j => Earlier(rows[i], rows[j])
    BY <1>5, <1>8, <1>11
  <2>2. \A i \in DOMAIN rows : Follows(cursor, rows[i])
    BY <1>2, <1>5, <1>8, <1>11
  <2>3. ASSUME next # NoCursor, NEW i \in DOMAIN rows PROVE ~Earlier(next, rows[i])
    <3>1. ~(k < i)
      BY <1>8
    <3> QED
      BY <1>5, <1>8, <1>11, <1>12, <2>3, <3>1
  <2> QED
    BY <1>2, <1>12, <2>1, <2>2, <2>3 DEF InOrderAfter
<1>15. IsAsListed(a, rows, version)
  BY <1>2, <1>5, <1>8, <1>11 DEF IsAsListed
<1>16. LeavesNoneOut(a, cursor, rows, next, version)
  <2> SUFFICES ASSUME NEW m \in NamesOf(catalog, a), Follows(cursor, RowOf(a, m)),
                      Covers(next, RowOf(a, m))
               PROVE  \E i \in DOMAIN rows : rows[i].name = m
    BY DEF LeavesNoneOut
  <2>1. PICK r \in S : r = RowOf(a, m) /\ r.name = m
    BY <1>1 DEF Records, RowOf
  <2>2. PICK i \in 1..n : rest[i] = r
    BY <1>5
  <2>3. i \in 1..k
    <3>1. CASE next = NoCursor
      BY <1>13, <3>1
    <3>2. CASE next # NoCursor
      <4>1. ~Earlier(rest[k], rest[i])
        BY <1>12, <2>1, <2>2, <3>2 DEF Covers
      <4>2. ~(k < i)
        BY <1>5, <1>11, <1>12, <3>2, <4>1
      <4> QED
        BY <4>2
    <3> QED
      BY <3>1, <3>2
  <2> QED
    BY <1>8, <2>1, <2>2, <2>3
<1> QED
  BY <1>10, <1>14, <1>15, <1>16 DEF Cut
-----------------------------------------------------------------------------
(* Pages: what changes of the catalog leave right *)

LEMMA CutStays ==
    ASSUME UNCHANGED catalogVars, NEW a, NEW cursor, NEW rows, NEW next, NEW v,
           Cut(a, cursor, rows, next, v)
    PROVE  Cut(a, cursor, rows, next, v)'
<1>1. catalog' = catalog /\ changed' = changed
  BY DEF catalogVars
<1>2. IsAsListed(a, rows, v)' /\ LeavesNoneOut(a, cursor, rows, next, v)'
  BY <1>1 DEF Cut, IsAsListed, LeavesNoneOut, RowOf, NamesOf
<1> QED
  BY <1>2 DEF Cut

LEMMA CutSurvives ==
    ASSUME TypeOK, NEW cat, BecomesActive(cat), NEW a \in Apex, NEW cursor,
           NEW rows \in Seq(Row), NEW next, NEW v \in 0..version,
           Cut(a, cursor, rows, next, v)
    PROVE  Cut(a, cursor, rows, next, v)'
<1>1. /\ version \in Nat
      /\ catalog' = cat
      /\ changed' = [b \in Apex |-> [n \in Name |->
                       IF cat[b][n] = catalog[b][n] THEN changed[b][n] ELSE version + 1]]
  BY ConstantFacts DEF TypeOK, BecomesActive
<1>2. ASSUME NEW n \in Name, changed'[a][n] <= v
      PROVE  changed[a][n] <= v /\ RowOf(a, n)' = RowOf(a, n) /\ catalog'[a][n] = catalog[a][n]
  <2>1. changed'[a][n] = IF cat[a][n] = catalog[a][n] THEN changed[a][n] ELSE version + 1
    BY <1>1
  <2>2. cat[a][n] = catalog[a][n]
    <3>1. ~(version + 1 <= v)
      BY <1>1
    <3> QED
      BY <1>2, <2>1, <3>1
  <2> QED
    BY <1>1, <1>2, <2>1, <2>2 DEF RowOf
<1>3. IsAsListed(a, rows, v)'
  <2>1. \A i \in DOMAIN rows : rows[i].name \in Name
    BY RowFacts
  <2> QED
    BY <1>2, <2>1 DEF Cut, IsAsListed
<1>4. LeavesNoneOut(a, cursor, rows, next, v)'
  <2> SUFFICES ASSUME NEW n \in NamesOf(catalog, a)', changed'[a][n] <= v,
                      Follows(cursor, RowOf(a, n)'), Covers(next, RowOf(a, n)')
               PROVE  \E i \in DOMAIN rows : rows[i].name = n
    BY DEF LeavesNoneOut
  <2>1. n \in Name /\ catalog'[a][n] # Absent
    BY DEF NamesOf
  <2>2. changed[a][n] <= v /\ RowOf(a, n)' = RowOf(a, n) /\ catalog'[a][n] = catalog[a][n]
    BY <1>2, <2>1
  <2>3. n \in NamesOf(catalog, a)
    BY <2>1, <2>2 DEF NamesOf
  <2> QED
    BY <2>2, <2>3 DEF Cut, LeavesNoneOut
<1> QED
  BY <1>3, <1>4 DEF Cut
-----------------------------------------------------------------------------
(* Pages: the objects *)

\* Where the pages of an object are.
LEMMA PageTypes ==
    ASSUME NEW o \in Object
    PROVE  /\ Len(o.back) \in Nat /\ DOMAIN o.back = 1..Len(o.back)
           /\ Len(o.back) + 1 \in PagesOf(o) /\ Len(o.back) + 1 \notin DOMAIN o.back
           /\ \A j \in PagesOf(o) : j \in Nat /\ (j \in DOMAIN o.back \/ j = Len(o.back) + 1)
           /\ \A j \in PagesOf(o) : RowsAt(o, j) \in Seq(Row)
           /\ \A j \in PagesOf(o) : NextAt(o, j) \in Row \cup {NoCursor}
           /\ RowsAt(o, Len(o.back) + 1) = o.rows
           /\ NextAt(o, Len(o.back) + 1) = o.next
           /\ StartAt(o, Len(o.back) + 1) = o.start
<1>1. PICK back \in Seq(Entry) : back = o.back
  BY DEF Object
<1>2. PICK n \in Nat : n = Len(back)
  BY <1>1
<1>3. DOMAIN back = 1..n /\ n + 1 \notin DOMAIN back /\ PagesOf(o) = 1..(n + 1)
  BY <1>1, <1>2 DEF PagesOf
<1>4. \A j \in PagesOf(o) : j \in Nat /\ (j \in DOMAIN back \/ j = n + 1)
  BY <1>2, <1>3
<1>5. o.rows \in Seq(Row) /\ o.next \in Row \cup {NoCursor}
  BY DEF Object
<1>6. ASSUME NEW j \in DOMAIN back
      PROVE  back[j].rows \in Seq(Row) /\ back[j].next \in Row \cup {NoCursor}
  <2>1. back[j] \in Entry
    BY <1>1
  <2> QED
    BY <2>1 DEF Entry
<1>7. \A j \in PagesOf(o) : RowsAt(o, j) \in Seq(Row) /\ NextAt(o, j) \in Row \cup {NoCursor}
  BY <1>1, <1>5, <1>6 DEF RowsAt, NextAt
<1>8. /\ RowsAt(o, n + 1) = o.rows /\ NextAt(o, n + 1) = o.next /\ StartAt(o, n + 1) = o.start
  BY <1>1, <1>3 DEF RowsAt, NextAt, StartAt
<1> QED
  BY <1>1, <1>2, <1>3, <1>4, <1>7, <1>8

LEMMA WalkedFacts ==
    ASSUME NEW o \in Object
    PROVE  /\ \A p : p \in Walked(o) <=>
                \E j \in PagesOf(o) : \E i \in DOMAIN RowsAt(o, j) : p = <<j, i>>
           /\ \A p \in Walked(o) : /\ p[1] \in PagesOf(o) /\ p[2] \in DOMAIN RowsAt(o, p[1])
                                   /\ p = <<p[1], p[2]>>
                                   /\ RowsAt(o, p[1])[p[2]] \in Row
<1>1. \A p : p \in Walked(o) <=>
               \E j \in PagesOf(o) : \E i \in DOMAIN RowsAt(o, j) : p = <<j, i>>
  BY DEF Walked, PagesOf
<1>2. ASSUME NEW p \in Walked(o)
      PROVE  /\ p[1] \in PagesOf(o) /\ p[2] \in DOMAIN RowsAt(o, p[1]) /\ p = <<p[1], p[2]>>
             /\ RowsAt(o, p[1])[p[2]] \in Row
  <2>1. PICK j \in PagesOf(o) : \E i \in DOMAIN RowsAt(o, j) : p = <<j, i>>
    BY <1>1
  <2>2. PICK i \in DOMAIN RowsAt(o, j) : p = <<j, i>>
    BY <2>1
  <2>3. p[1] = j /\ p[2] = i
    BY <2>2
  <2>4. RowsAt(o, j) \in Seq(Row)
    BY PageTypes
  <2>5. RowsAt(o, j)[i] \in Row
    BY <2>2, <2>4
  <2> QED
    BY <2>2, <2>3, <2>5
<1> QED
  BY <1>1, <1>2

\* The first m pages of two objects are the same.
SamePages(o, x, m) ==
    \A j \in 1..m : /\ RowsAt(x, j) = RowsAt(o, j) /\ NextAt(x, j) = NextAt(o, j)
                    /\ StartAt(x, j) = StartAt(o, j)

LEMMA SamePlaces ==
    ASSUME NEW o \in Object, NEW x \in Object, NEW m \in Nat, SamePages(o, x, m),
           m <= Len(o.back) + 1, m <= Len(x.back) + 1
    PROVE  /\ \A p : p[1] <= m => (p \in Walked(o) <=> p \in Walked(x))
           /\ \A j \in 1..m : PlacesBefore(x, j) = PlacesBefore(o, j)
           /\ \A j \in 1..m : CursorAt(x, j) = CursorAt(o, j)
<1>1. /\ \A j \in PagesOf(o) : j <= m => j \in 1..m
      /\ \A j \in PagesOf(x) : j <= m => j \in 1..m
      /\ 1..m \subseteq PagesOf(o) /\ 1..m \subseteq PagesOf(x)
  BY PageTypes DEF PagesOf
<1>2. ASSUME NEW p, p[1] <= m, p \in Walked(o) PROVE p \in Walked(x)
  BY <1>1, <1>2, WalkedFacts DEF SamePages
<1>3. ASSUME NEW p, p[1] <= m, p \in Walked(x) PROVE p \in Walked(o)
  BY <1>1, <1>3, WalkedFacts DEF SamePages
<1>4. ASSUME NEW j \in 1..m PROVE PlacesBefore(x, j) = PlacesBefore(o, j)
  <2>1. ASSUME NEW p, p[1] < j, p \in Walked(o) \/ p \in Walked(x) PROVE p[1] <= m
    <3>1. p[1] \in Nat
      BY <2>1, WalkedFacts, PageTypes
    <3> QED
      BY <2>1, <3>1
  <2> QED
    BY <1>2, <1>3, <2>1 DEF PlacesBefore
<1>5. ASSUME NEW j \in 1..m PROVE CursorAt(x, j) = CursorAt(o, j)
  <2>1. j # 1 => j - 1 \in 1..m
    OBVIOUS
  <2> QED
    BY <2>1 DEF CursorAt, SamePages
<1> QED
  BY <1>2, <1>3, <1>4, <1>5
-----------------------------------------------------------------------------
(* Pages: the walk stays right *)

\* A page is as good for an older catalog.
LEMMA CutWeakens ==
    ASSUME TypeOK, NEW a \in Apex, NEW cursor, NEW rows \in Seq(Row), NEW next,
           NEW v \in Nat, NEW w \in Nat, w <= v, Cut(a, cursor, rows, next, v)
    PROVE  Cut(a, cursor, rows, next, w)
<1>1. \A n \in Name : changed[a][n] \in Nat
  <2>1. changed \in [Apex -> [Name -> 0..version]] /\ version \in Nat
    BY ConstantFacts DEF TypeOK
  <2> QED
    BY <2>1
<1>2. \A n \in Name : changed[a][n] <= w => changed[a][n] <= v
  BY <1>1
<1>3. IsAsListed(a, rows, w)
  <2>1. \A i \in DOMAIN rows : rows[i].name \in Name
    BY RowFacts
  <2> QED
    BY <1>2, <2>1 DEF Cut, IsAsListed
<1>4. LeavesNoneOut(a, cursor, rows, next, w)
  BY <1>2 DEF Cut, LeavesNoneOut, NamesOf
<1> QED
  BY <1>3, <1>4 DEF Cut

LEMMA WalkStays ==
    ASSUME UNCHANGED catalogVars, NEW o, WalkIsRight(o)
    PROVE  WalkIsRight(o)'
<1>1. version' = version
  BY DEF catalogVars
<1>2. WalkIsCut(o)'
  BY <1>1, CutStays DEF WalkIsRight, WalkIsCut
<1> QED
  BY <1>2 DEF WalkIsRight

LEMMA WalkSurvives ==
    ASSUME TypeOK, NEW cat, BecomesActive(cat), NEW o \in Object, WalkIsRight(o)
    PROVE  WalkIsRight(o)'
<1>1. /\ version \in Nat /\ version' = version + 1
      /\ o.apex \in Apex /\ o.since \in 0..version /\ o.since <= version
  BY ConstantFacts DEF TypeOK, BecomesActive, Object, WalkIsRight, WalkIsCut
<1>2. ASSUME NEW j \in PagesOf(o)
      PROVE  Cut(o.apex, CursorAt(o, j), RowsAt(o, j), NextAt(o, j), o.since)'
  <2>1. Cut(o.apex, CursorAt(o, j), RowsAt(o, j), NextAt(o, j), o.since)
    BY DEF WalkIsRight, WalkIsCut
  <2>2. RowsAt(o, j) \in Seq(Row)
    BY PageTypes
  <2> QED
    BY <1>1, <2>1, <2>2, CutSurvives
<1>3. WalkIsCut(o)'
  BY <1>1, <1>2 DEF WalkIsCut
<1> QED
  BY <1>3 DEF WalkIsRight

\* The pages of an object up to some page are right as well.
LEMMA PagesBefore ==
    ASSUME NEW o \in Object, NEW x \in Object, WalkIsRight(o),
           x.apex = o.apex, x.since = o.since,
           Len(x.back) <= Len(o.back), SamePages(o, x, Len(x.back) + 1)
    PROVE  WalkIsRight(x)
<1>1. PICK m \in Nat : m = Len(x.back) + 1
  BY PageTypes
<1>2. /\ Len(o.back) \in Nat /\ m <= Len(o.back) + 1 /\ PagesOf(x) = 1..m
      /\ 1..m \subseteq PagesOf(o)
  BY <1>1, PageTypes DEF PagesOf
<1>3. /\ \A p : p[1] <= m => (p \in Walked(o) <=> p \in Walked(x))
      /\ \A j \in 1..m : PlacesBefore(x, j) = PlacesBefore(o, j)
      /\ \A j \in 1..m : CursorAt(x, j) = CursorAt(o, j)
  BY <1>1, <1>2, SamePlaces
<1>4. \A j \in 1..m : /\ RowsAt(x, j) = RowsAt(o, j) /\ NextAt(x, j) = NextAt(o, j)
                      /\ StartAt(x, j) = StartAt(o, j)
  BY <1>1 DEF SamePages
<1>5. WalkIsCut(x)
  BY <1>2, <1>3, <1>4 DEF WalkIsRight, WalkIsCut
<1>6. ASSUME NEW j \in PagesOf(x), NEW p \in Walked(x), p[1] <= j
      PROVE  Covers(NextAt(x, j), RowsAt(x, p[1])[p[2]])
  <2>1. p[1] \in 1..m
    BY <1>2, WalkedFacts
  <2>2. p[1] <= m
    BY <2>1
  <2> QED
    BY <1>2, <1>3, <1>4, <1>6, <2>1, <2>2 DEF WalkIsRight, WalkIsCounted
<1>7. ASSUME NEW j \in DOMAIN x.back PROVE x.back[j].next # NoCursor
  <2>1. j \in 1..m /\ j \in DOMAIN o.back
    BY <1>1, <1>2, PageTypes
  <2>2. x.back[j].next = NextAt(x, j) /\ o.back[j].next = NextAt(o, j)
    BY <2>1 DEF NextAt
  <2> QED
    BY <1>4, <2>1, <2>2 DEF WalkIsRight, WalkIsCounted
<1>8. \A j \in PagesOf(x) : StartAt(x, j) = Cardinality(PlacesBefore(x, j))
  BY <1>2, <1>3, <1>4 DEF WalkIsRight, WalkIsCounted
<1> QED
  BY <1>5, <1>6, <1>7, <1>8 DEF WalkIsRight, WalkIsCounted

\* The first page.
LEMMA FirstIsRight ==
    ASSUME TypeOK, NEW a \in Apex, NEW page \in Page, page.version <= version,
           Cut(a, NoCursor, page.rows, page.next, page.version)
    PROVE  WalkIsRight(FirstOf(a, page))
<1>1. PICK o \in Object :
        /\ o = FirstOf(a, page) /\ o.apex = a /\ o.rows = page.rows /\ o.back = <<>>
        /\ o.next = page.next /\ o.start = 0 /\ o.since = page.version
  <2>1. PICK o : o = FirstOf(a, page)
    OBVIOUS
  <2>2. o \in Object /\ o.apex = a /\ o.rows = page.rows /\ o.back = <<>>
    BY <2>1, FirstFacts
  <2>3. o.next = page.next /\ o.start = 0 /\ o.since = page.version
    BY <2>1 DEF FirstOf
  <2> QED
    BY <2>1, <2>2, <2>3
<1>2. /\ Len(o.back) = 0 /\ DOMAIN o.back = {} /\ PagesOf(o) = {1}
      /\ RowsAt(o, 1) = o.rows /\ NextAt(o, 1) = o.next /\ StartAt(o, 1) = 0
      /\ CursorAt(o, 1) = NoCursor
  <2>1. Len(o.back) = 0 /\ DOMAIN o.back = {}
    BY <1>1
  <2> QED
    BY <1>1, <2>1, PageTypes DEF PagesOf, CursorAt
<1>3. WalkIsCut(o)
  BY <1>1, <1>2 DEF WalkIsCut
<1>4. PlacesBefore(o, 1) = {}
  <2>1. \A p \in Walked(o) : p[1] = 1
    BY <1>2, WalkedFacts
  <2> QED
    BY <2>1 DEF PlacesBefore
<1>5. \A p \in Walked(o) : Covers(o.next, RowsAt(o, p[1])[p[2]])
  <2>1. \A p \in Walked(o) : p[1] = 1 /\ p[2] \in DOMAIN o.rows
    BY <1>2, WalkedFacts
  <2> QED
    BY <1>1, <1>2, <2>1 DEF Cut, InOrderAfter, Covers
<1>6. WalkIsCounted(o)
  BY <1>2, <1>4, <1>5, FS_EmptySet DEF WalkIsCounted
<1> QED
  BY <1>1, <1>3, <1>6 DEF WalkIsRight

LEMMA WalkedIsFinite ==
    ASSUME NEW o \in Object
    PROVE  IsFiniteSet(Walked(o))
<1>1. PICK m \in Nat : m = Len(o.back) + 1
  BY PageTypes
<1>2. PICK P : P = [j \in 1..m |-> {j} \X DOMAIN RowsAt(o, j)]
  OBVIOUS
<1>3. IsFiniteSet(Range(P))
  <2>1. P \in Surjection(1..m, Range(P))
    BY <1>2 DEF Surjection, Range
  <2>2. IsFiniteSet(1..m)
    BY FS_Interval
  <2> QED
    BY <2>1, <2>2, FS_Surjection
<1>4. ASSUME NEW T \in Range(P) PROVE IsFiniteSet(T)
  <2>1. PICK j \in 1..m : T = {j} \X DOMAIN RowsAt(o, j)
    BY <1>2 DEF Range
  <2>2. RowsAt(o, j) \in Seq(Row)
    BY <1>1, PageTypes DEF PagesOf
  <2>3. PICK n \in Nat : DOMAIN RowsAt(o, j) = 1..n
    BY <2>2
  <2>4. IsFiniteSet(1..n)
    BY FS_Interval
  <2>5. IsFiniteSet({j})
    BY FS_Singleton
  <2> QED
    BY <2>1, <2>3, <2>4, <2>5, FS_Product
<1>5. Walked(o) = UNION Range(P)
  BY <1>1, <1>2 DEF Walked, Range
<1> QED
  BY <1>3, <1>4, <1>5, FS_UNION

\* The rows of a page count after those before it.
LEMMA PlacesAdd ==
    ASSUME NEW o \in Object, NEW j \in PagesOf(o)
    PROVE  Cardinality(PlacesBefore(o, j + 1))
             = Cardinality(PlacesBefore(o, j)) + Len(RowsAt(o, j))
<1>1. j \in Nat /\ RowsAt(o, j) \in Seq(Row)
  BY PageTypes
<1>2. PICK n \in Nat : n = Len(RowsAt(o, j)) /\ DOMAIN RowsAt(o, j) = 1..n
  BY <1>1
<1>3. PICK S : S = PlacesBefore(o, j)
  OBVIOUS
<1>4. PICK T : T = {j} \X (1..n)
  OBVIOUS
<1>5. PlacesBefore(o, j + 1) = S \cup T
  <2>1. ASSUME NEW p \in Walked(o), p[1] < j + 1 PROVE p \in S \cup T
    <3>1. p[1] \in Nat /\ p[2] \in DOMAIN RowsAt(o, p[1]) /\ p = <<p[1], p[2]>>
      BY WalkedFacts, PageTypes
    <3>2. p[1] < j \/ p[1] = j
      BY <1>1, <2>1, <3>1
    <3> QED
      BY <1>2, <1>3, <1>4, <3>1, <3>2 DEF PlacesBefore
  <2>2. ASSUME NEW p \in S PROVE p \in Walked(o) /\ p[1] < j + 1
    <3>1. p \in Walked(o) /\ p[1] < j
      BY <1>3 DEF PlacesBefore
    <3>2. p[1] \in Nat
      BY <3>1, WalkedFacts, PageTypes
    <3> QED
      BY <1>1, <3>1, <3>2
  <2>3. ASSUME NEW p \in T PROVE p \in Walked(o) /\ p[1] < j + 1
    <3>1. PICK i \in 1..n : p = <<j, i>>
      BY <1>4
    <3>2. p \in Walked(o)
      BY <1>2, <3>1, WalkedFacts
    <3> QED
      BY <1>1, <3>1, <3>2
  <2> QED
    BY <2>1, <2>2, <2>3 DEF PlacesBefore
<1>6. IsFiniteSet(S)
  BY <1>3, WalkedIsFinite, FS_Subset DEF PlacesBefore
<1>7. IsFiniteSet(T) /\ Cardinality(T) = n
  <2>1. IsFiniteSet(1..n) /\ Cardinality(1..n) = n
    BY FS_Interval
  <2>2. IsFiniteSet({j}) /\ Cardinality({j}) = 1
    BY FS_Singleton
  <2>3. IsFiniteSet(T) /\ Cardinality(T) = 1 * n
    BY <1>4, <2>1, <2>2, FS_Product
  <2> QED
    BY <2>3
<1>8. S \cap T = {}
  <2>1. \A p \in T : p[1] = j
    BY <1>4
  <2>2. \A p \in S : p[1] < j
    BY <1>3 DEF PlacesBefore
  <2> QED
    BY <1>1, <2>1, <2>2
<1>9. /\ Cardinality(S) \in Nat
      /\ Cardinality(S \cup T) = Cardinality(S) + Cardinality(T) - Cardinality(S \cap T)
  BY <1>6, <1>7, FS_Union, FS_CardinalityType
<1>10. Cardinality(S \cap T) = 0
  BY <1>8, FS_EmptySet
<1>11. Cardinality(S \cup T) = Cardinality(S) + n
  BY <1>7, <1>9, <1>10
<1> QED
  BY <1>2, <1>3, <1>5, <1>11
-----------------------------------------------------------------------------
(* Pages: the walk goes on *)

LEMMA WalkTurns ==
    ASSUME TypeOK, NEW o \in Object, WalkIsRight(o), NEW read \in Turn, read.apex = o.apex,
           read.pc = "answered", AnswerIsRight(read), TurnIsRight(read, o)
    PROVE  WalkIsRight(Turned(o, read))
<1>1. PICK page \in Page : page = read.page
  BY DEF Turn
<1>2. PICK entry \in Entry :
        /\ entry = read.entry /\ entry.rows = o.rows /\ entry.next = o.next
        /\ entry.start = o.start
  <2>1. read.entry \in Entry
    BY DEF Turn
  <2>2. /\ read.entry.rows = o.rows /\ read.entry.next = o.next
        /\ read.entry.start = o.start
    BY DEF TurnIsRight
  <2> QED
    BY <2>1, <2>2
<1>3. PICK m \in Nat \ {0} : m = Len(o.back) + 1
  BY PageTypes
<1>4. PICK old \in Seq(Entry) : old = o.back
  BY DEF Object
<1>5. PICK x \in Object :
        /\ x = Turned(o, read) /\ x.apex = o.apex /\ x.since = o.since
        /\ x.rows = page.rows /\ x.next = page.next /\ x.back = Append(old, entry)
        /\ x.start = o.start + Len(o.rows)
  <2>1. PICK x : x = Turned(o, read)
    OBVIOUS
  <2>2. /\ x \in Object /\ x.apex = o.apex /\ x.rows = read.page.rows
        /\ x.next = read.page.next /\ x.since = o.since /\ x.back = Append(o.back, read.entry)
        /\ x.start = read.entry.start + Len(read.entry.rows)
    BY <2>1, ObjectTurns
  <2> QED
    BY <1>1, <1>2, <1>4, <2>1, <2>2
<1>6. /\ Len(x.back) = m /\ DOMAIN x.back = 1..m /\ DOMAIN o.back = 1..(m - 1)
      /\ x.back[m] = entry /\ \A i \in 1..(m - 1) : x.back[i] = o.back[i]
  <2>1. /\ Len(old) = m - 1 /\ DOMAIN old = 1..(m - 1)
        /\ Len(x.back) = Len(old) + 1 /\ x.back \in Seq(Entry)
    BY <1>3, <1>4, <1>5
  <2>2. x.back[Len(old) + 1] = entry /\ \A i \in 1..Len(old) : x.back[i] = old[i]
    BY <1>4, <1>5
  <2> QED
    BY <1>4, <2>1, <2>2
<1>7. /\ PagesOf(o) = 1..m /\ PagesOf(x) = 1..(m + 1)
      /\ \A j \in PagesOf(x) : j \in PagesOf(o) \/ j = m + 1
      /\ m \in PagesOf(o) /\ m \in PagesOf(x) /\ m + 1 \in PagesOf(x) /\ m + 1 # 1
  BY <1>3, <1>6 DEF PagesOf
<1>8. SamePages(o, x, m)
  <2>1. ASSUME NEW j \in 1..(m - 1)
        PROVE  /\ RowsAt(x, j) = RowsAt(o, j) /\ NextAt(x, j) = NextAt(o, j)
               /\ StartAt(x, j) = StartAt(o, j)
    <3>1. j \in DOMAIN x.back /\ j \in DOMAIN o.back /\ x.back[j] = o.back[j]
      BY <1>6
    <3> QED
      BY <3>1 DEF RowsAt, NextAt, StartAt
  <2>2. /\ RowsAt(o, m) = o.rows /\ NextAt(o, m) = o.next /\ StartAt(o, m) = o.start
    BY <1>3, PageTypes
  <2>3. /\ RowsAt(x, m) = entry.rows /\ NextAt(x, m) = entry.next
        /\ StartAt(x, m) = entry.start
    <3>1. m \in DOMAIN x.back
      BY <1>6
    <3> QED
      BY <1>6, <3>1 DEF RowsAt, NextAt, StartAt
  <2>4. \A j \in 1..m : j \in 1..(m - 1) \/ j = m
    OBVIOUS
  <2> QED
    BY <1>2, <2>1, <2>2, <2>3, <2>4 DEF SamePages
<1>9. /\ \A p : p[1] <= m => (p \in Walked(o) <=> p \in Walked(x))
      /\ \A j \in PagesOf(o) : PlacesBefore(x, j) = PlacesBefore(o, j)
      /\ \A j \in PagesOf(o) : CursorAt(x, j) = CursorAt(o, j)
  <2>1. m <= Len(o.back) + 1 /\ m <= Len(x.back) + 1
    BY <1>3, <1>6
  <2> QED
    BY <1>7, <1>8, <2>1, SamePlaces
<1>10. \A j \in PagesOf(o) : /\ RowsAt(x, j) = RowsAt(o, j) /\ NextAt(x, j) = NextAt(o, j)
                             /\ StartAt(x, j) = StartAt(o, j)
  BY <1>7, <1>8 DEF SamePages
<1>11. /\ RowsAt(x, m + 1) = page.rows /\ NextAt(x, m + 1) = page.next
       /\ StartAt(x, m + 1) = o.start + Len(o.rows)
       /\ CursorAt(x, m + 1) = read.cursor
       /\ RowsAt(x, m) = o.rows /\ NextAt(x, m) = o.next /\ StartAt(x, m) = o.start
  <2>1. /\ RowsAt(x, m) = o.rows /\ NextAt(x, m) = o.next /\ StartAt(x, m) = o.start
    BY <1>3, <1>7, <1>10, PageTypes
  <2>2. /\ RowsAt(x, m + 1) = x.rows /\ NextAt(x, m + 1) = x.next
        /\ StartAt(x, m + 1) = x.start
    BY <1>6, PageTypes
  <2>3. CursorAt(x, m + 1) = NextAt(x, m)
    BY <1>7 DEF CursorAt
  <2> QED
    BY <1>5, <2>1, <2>2, <2>3 DEF TurnIsRight
<1>12. /\ read.cursor = o.next /\ o.next # NoCursor /\ o.next \in Row
       /\ o.apex \in Apex /\ o.since \in Nat /\ page.version \in Nat
       /\ o.since <= page.version
       /\ page.rows \in Seq(Row) /\ page.next \in Row \cup {NoCursor}
  BY <1>1, ConstantFacts DEF TurnIsRight, Object, Page
<1>13. Cut(o.apex, o.next, page.rows, page.next, o.since)
  <2>1. Cut(o.apex, o.next, page.rows, page.next, page.version)
    BY <1>1, <1>12 DEF AnswerIsRight
  <2> QED
    BY <1>12, <2>1, CutWeakens
<1>14. WalkIsCut(x)
  <2>1. ASSUME NEW j \in PagesOf(o)
        PROVE  Cut(x.apex, CursorAt(x, j), RowsAt(x, j), NextAt(x, j), x.since)
    BY <1>5, <1>9, <1>10 DEF WalkIsRight, WalkIsCut
  <2>2. Cut(x.apex, CursorAt(x, m + 1), RowsAt(x, m + 1), NextAt(x, m + 1), x.since)
    BY <1>5, <1>11, <1>12, <1>13
  <2>3. x.since <= version
    BY <1>5 DEF WalkIsRight, WalkIsCut
  <2> QED
    BY <1>7, <2>1, <2>2, <2>3 DEF WalkIsCut
<1>15. \A j \in PagesOf(x) : StartAt(x, j) = Cardinality(PlacesBefore(x, j))
  <2>1. \A j \in PagesOf(o) : StartAt(x, j) = Cardinality(PlacesBefore(x, j))
    BY <1>9, <1>10 DEF WalkIsRight, WalkIsCounted
  <2>2. StartAt(x, m + 1) = Cardinality(PlacesBefore(x, m + 1))
    <3>1. Cardinality(PlacesBefore(x, m + 1))
            = Cardinality(PlacesBefore(x, m)) + Len(RowsAt(x, m))
      BY <1>7, PlacesAdd
    <3> QED
      BY <1>7, <1>11, <2>1, <3>1
  <2> QED
    BY <1>7, <2>1, <2>2
<1>16. ASSUME NEW j \in PagesOf(x), NEW p \in Walked(x), p[1] <= j
       PROVE  Covers(NextAt(x, j), RowsAt(x, p[1])[p[2]])
  <2>1. PICK r \in Row : r = RowsAt(x, p[1])[p[2]]
    BY WalkedFacts
  <2>2. p[1] \in PagesOf(x) /\ p[1] \in Nat /\ p[2] \in DOMAIN RowsAt(x, p[1])
    BY WalkedFacts, PageTypes
  <2>3. ASSUME NEW i \in PagesOf(o), p[1] <= i PROVE Covers(NextAt(x, i), r)
    <3>1. p[1] \in PagesOf(o) /\ p[1] <= m
      BY <1>7, <2>2, <2>3
    <3>2. p \in Walked(o) /\ r = RowsAt(o, p[1])[p[2]]
      BY <1>9, <1>10, <2>1, <3>1
    <3> QED
      BY <1>10, <2>3, <3>2 DEF WalkIsRight, WalkIsCounted
  <2>4. CASE j \in PagesOf(o)
    BY <1>16, <2>1, <2>3, <2>4
  <2>5. CASE j = m + 1 /\ p[1] <= m
    <3>1. ~Earlier(o.next, r)
      BY <1>7, <1>11, <1>12, <2>3, <2>5 DEF Covers
    <3>2. ASSUME page.next # NoCursor PROVE ~Earlier(page.next, r)
      <4>1. Earlier(o.next, page.next)
        BY <1>12, <1>13, <3>2 DEF Cut, InOrderAfter, Follows
      <4>2. page.next \in Row
        BY <1>12, <3>2
      <4> QED
        BY <1>12, <3>1, <4>1, <4>2, EarlierIsAnOrder
    <3> QED
      BY <1>11, <2>1, <2>5, <3>2 DEF Covers
  <2>6. CASE j = m + 1 /\ ~(p[1] <= m)
    <3>1. p[1] = m + 1
      BY <1>7, <2>2, <2>6
    <3>2. p[2] \in DOMAIN page.rows /\ r = page.rows[p[2]]
      BY <1>11, <2>1, <2>2, <3>1
    <3> QED
      BY <1>11, <1>13, <2>1, <2>6, <3>2 DEF Cut, InOrderAfter, Covers
  <2> QED
    BY <1>7, <2>4, <2>5, <2>6
<1>17. \A j \in DOMAIN x.back : x.back[j].next # NoCursor
  <2>1. \A j \in 1..(m - 1) : x.back[j].next # NoCursor
    BY <1>6 DEF WalkIsRight, WalkIsCounted
  <2>2. x.back[m].next # NoCursor
    BY <1>2, <1>6, <1>12
  <2>3. \A j \in 1..m : j \in 1..(m - 1) \/ j = m
    OBVIOUS
  <2> QED
    BY <1>6, <2>1, <2>2, <2>3
<1> QED
  BY <1>5, <1>14, <1>15, <1>16, <1>17 DEF WalkIsRight, WalkIsCounted

LEMMA WalkGoesBack ==
    ASSUME NEW o \in Object, WalkIsRight(o), o.back # <<>>
    PROVE  WalkIsRight(TurnedBack(o))
<1>1. PICK x : x = TurnedBack(o)
  OBVIOUS
<1>2. /\ x \in Object /\ x.apex = o.apex /\ x.since = o.since
      /\ Len(o.back) \in DOMAIN o.back /\ Len(x.back) = Len(o.back) - 1
      /\ x.rows = o.back[Len(o.back)].rows /\ x.next = o.back[Len(o.back)].next
      /\ x.start = o.back[Len(o.back)].start
      /\ \A i \in DOMAIN x.back : x.back[i] = o.back[i]
  BY <1>1, ObjectGoesBack
<1>3. PICK n \in Nat : n = Len(o.back) /\ DOMAIN o.back = 1..n /\ n \in 1..n
  BY <1>2, PageTypes
<1>4. Len(x.back) = n - 1 /\ DOMAIN x.back = 1..(n - 1) /\ Len(x.back) <= Len(o.back)
  BY <1>2, <1>3, PageTypes
<1>5. SamePages(o, x, n)
  <2>1. ASSUME NEW j \in 1..(n - 1)
        PROVE  /\ RowsAt(x, j) = RowsAt(o, j) /\ NextAt(x, j) = NextAt(o, j)
               /\ StartAt(x, j) = StartAt(o, j)
    <3>1. j \in DOMAIN x.back /\ j \in DOMAIN o.back /\ x.back[j] = o.back[j]
      BY <1>2, <1>3, <1>4
    <3> QED
      BY <3>1 DEF RowsAt, NextAt, StartAt
  <2>2. RowsAt(x, n) = x.rows /\ NextAt(x, n) = x.next /\ StartAt(x, n) = x.start
    <3>1. n = Len(x.back) + 1
      BY <1>4
    <3> QED
      BY <1>2, <3>1, PageTypes
  <2>3. RowsAt(o, n) = x.rows /\ NextAt(o, n) = x.next /\ StartAt(o, n) = x.start
    BY <1>2, <1>3 DEF RowsAt, NextAt, StartAt
  <2>4. \A j \in 1..n : j \in 1..(n - 1) \/ j = n
    OBVIOUS
  <2> QED
    BY <2>1, <2>2, <2>3, <2>4 DEF SamePages
<1>6. SamePages(o, x, Len(x.back) + 1)
  <2>1. Len(x.back) + 1 = n
    BY <1>4
  <2> QED
    BY <1>5, <2>1
<1> QED
  BY <1>1, <1>2, <1>4, <1>6, PagesBefore

LEMMA WalkLoads ==
    ASSUME NEW o \in Object, WalkIsRight(o), NEW b \in BOOLEAN, NEW x,
           x = [o EXCEPT !.loading = b]
    PROVE  WalkIsRight(x)
<1>1. /\ x \in Object /\ x.apex = o.apex /\ x.rows = o.rows /\ x.next = o.next
      /\ x.start = o.start /\ x.back = o.back /\ x.since = o.since
  BY ObjectLoads
<1>2. SamePages(o, x, Len(x.back) + 1)
  BY <1>1 DEF SamePages, RowsAt, NextAt, StartAt
<1>3. Len(x.back) <= Len(o.back)
  BY <1>1, PageTypes
<1> QED
  BY <1>1, <1>2, <1>3, PagesBefore
-----------------------------------------------------------------------------
(* Pages: steps *)

\* The objects stay as they are, but for one at most.
LEMMA WalksStay ==
    ASSUME UNCHANGED catalogVars, WalksAreRight, NEW x, WalkIsRight(x),
           \A k \in DOMAIN heap' : (k \in DOMAIN heap /\ heap'[k] = heap[k]) \/ heap'[k] = x
    PROVE  WalksAreRight'
<1>1. ASSUME NEW o \in Range(heap') PROVE WalkIsRight(o)'
  <2>1. WalkIsRight(o)
    BY DEF WalksAreRight, Range
  <2> QED
    BY <2>1, WalkStays
<1> QED
  BY <1>1 DEF WalksAreRight

LEMMA HeapStays ==
    ASSUME UNCHANGED catalogVars, WalksAreRight, heap' = heap
    PROVE  WalksAreRight'
<1>1. ASSUME NEW o \in Range(heap') PROVE WalkIsRight(o)'
  <2>1. WalkIsRight(o)
    BY DEF WalksAreRight
  <2> QED
    BY <2>1, WalkStays
<1> QED
  BY <1>1 DEF WalksAreRight

\* The answers stay as they are, but for one at most.
LEMMA AnswersStay ==
    ASSUME UNCHANGED catalogVars, AnswersAreRight, TypeOK, TypeOK', NEW at, AnswerIsRight(at),
           \A s \in Read : reads'[s] = reads[s] \/ reads'[s] = at
    PROVE  AnswersAreRight'
<1>1. DOMAIN reads = Read /\ DOMAIN reads' = Read
  BY DEF TypeOK
<1>2. ASSUME NEW read \in Range(reads') PROVE AnswerIsRight(read)'
  <2>1. AnswerIsRight(read)
    BY <1>1 DEF AnswersAreRight, Range
  <2>2. version' = version
    BY DEF catalogVars
  <2> QED
    BY <2>1, <2>2, CutStays DEF AnswerIsRight
<1> QED
  BY <1>2 DEF AnswersAreRight

LEMMA NoAnswerIsRight ==
    AnswerIsRight(Idle) /\ \A read : read.pc # "answered" => AnswerIsRight(read)
BY DEF AnswerIsRight, Idle

\* The pages under way stay as they are, or end.
LEMMA TurnsStay ==
    ASSUME TurnsAreRight, UnderWay("next")' \subseteq UnderWay("next"), heap' = heap,
           \A r \in UnderWay("next")' : reads'[r] = reads[r] /\ current' = current
    PROVE  TurnsAreRight'
<1>1. ASSUME NEW r \in UnderWay("next")'
      PROVE  TurnIsRight(reads'[r], heap'[current']) /\ UnderWay("next")' = {r}
  <2>1. TurnIsRight(reads[r], heap[current]) /\ UnderWay("next") = {r}
    BY <1>1 DEF TurnsAreRight
  <2>2. reads'[r] = reads[r] /\ current' = current /\ heap' = heap
    BY <1>1
  <2> QED
    BY <1>1, <2>1, <2>2
<1> QED
  BY <1>1 DEF TurnsAreRight

LEMMA SearchPages ==
    ASSUME WaitsForPages, PagesInv, ScreenInv', NEW a \in Apex, NEW r \in Read, NEW scr,
           NEW location, SearchesFor(a, r, scr, location)
    PROVE  PagesInv'
<1>1. /\ TypeOK /\ TypeOK' /\ WalksAreRight /\ AnswersAreRight /\ TurnsAreRight
      /\ UnderWay("next") = {} /\ UNCHANGED <<catalogVars, heap>>
  BY DEF PagesInv, ScreenInv, SearchesFor
<1>2. PICK at : at = [pc |-> "sent", kind |-> "search", apex |-> a, cursor |-> NoCursor,
                      page |-> NoPage]
  OBVIOUS
<1>3. at \in Search /\ at.pc # "answered" /\ at.kind # "next"
  BY <1>2, NoPageIsAPage DEF Search
<1>4. reads' = reads \/ ReadGoes(r, at)
  BY <1>2 DEF SearchesFor
<1>5. /\ \A s \in Read : reads'[s] = reads[s] \/ reads'[s] = at
      /\ UnderWay("next")' = {}
  <2>1. CASE reads' = reads
    BY <1>1, <2>1 DEF UnderWay
  <2>2. CASE ReadGoes(r, at)
    <3>1. /\ reads'[r] = at /\ \A s \in Read : s # r => reads'[s] = reads[s]
          /\ UnderWay("next")' \subseteq UnderWay("next") \cup {r}
          /\ r \notin UnderWay("next")'
      BY <1>1, <1>3, <2>2, ReadMoves
    <3> QED
      BY <1>1, <3>1
  <2> QED
    BY <1>4, <2>1, <2>2
<1>6. WalksAreRight'
  BY <1>1, HeapStays
<1>7. AnswersAreRight'
  BY <1>1, <1>3, <1>5, NoAnswerIsRight, AnswersStay
<1> QED
  BY <1>5, <1>6, <1>7 DEF PagesInv, TurnsAreRight

LEMMA ShelfPages ==
    ASSUME PagesInv, ScreenInv', PopsToNone \/ OpensShelf \/ ClosesShelf
    PROVE  PagesInv'
<1>1. /\ TypeOK /\ TypeOK' /\ WalksAreRight /\ AnswersAreRight /\ TurnsAreRight
      /\ UNCHANGED <<catalogVars, heap, current, reads>>
  BY DEF PagesInv, ScreenInv, PopsToNone, OpensShelf, ClosesShelf
<1>2. UnderWay("next")' = UnderWay("next")
  BY <1>1 DEF UnderWay
<1>3. TurnsAreRight'
  BY <1>1, <1>2, TurnsStay
<1>4. AnswersAreRight'
  BY <1>1, NoAnswerIsRight, AnswersStay
<1> QED
  BY <1>1, <1>3, <1>4, HeapStays DEF PagesInv

\* A pager that does not wait has no page under way.
LEMMA NoneUnderWay ==
    ASSUME PagesInv, ~heap[current].loading
    PROVE  UnderWay("next") = {}
BY DEF PagesInv, TurnsAreRight, TurnIsRight

LEMMA TurnPages ==
    ASSUME PagesInv, ScreenInv', NEW r \in Read, TurnsPage(r)
    PROVE  PagesInv'
<1>1. /\ TypeOK /\ TypeOK' /\ WalksAreRight /\ AnswersAreRight
      /\ UNCHANGED <<catalogVars, current>> /\ UnderWay("next") = {}
  BY NoneUnderWay DEF PagesInv, ScreenInv, TurnsPage
<1>2. current # 0 /\ current \in DOMAIN heap
  <2>1. ScreenInv /\ screen.open
    BY DEF PagesInv, TurnsPage
  <2> QED
    BY <2>1, OpenShows DEF Shows
<1>3. PICK o \in Object : o = heap[current] /\ WalkIsRight(o)
  BY <1>1, <1>2, HeapFacts DEF WalksAreRight, Range
<1>4. PICK at : at = [pc |-> "sent", kind |-> "next", apex |-> o.apex, cursor |-> o.next,
                      page |-> NoPage,
                      entry |-> [rows |-> o.rows, cursor |-> o.cursor,
                                 next |-> o.next, start |-> o.start]]
  OBVIOUS
<1>5. o.next # NoCursor /\ ReadGoes(r, at) /\ heap' = [heap EXCEPT ![current].loading = TRUE]
  BY <1>3, <1>4 DEF TurnsPage, CursorAfter
<1>6. PICK x : x = [o EXCEPT !.loading = TRUE]
  OBVIOUS
<1>7. /\ x \in Object /\ x.rows = o.rows /\ x.cursor = o.cursor /\ x.next = o.next
      /\ x.start = o.start /\ x.loading /\ WalkIsRight(x)
  <2>1. o \in Object /\ TRUE \in BOOLEAN /\ WalkIsRight(o)
    BY <1>3
  <2>2. /\ x \in Object /\ x.rows = o.rows /\ x.cursor = o.cursor /\ x.next = o.next
        /\ x.start = o.start /\ x.loading = TRUE
    BY ONLY <1>6, <2>1, ObjectLoads
  <2>3. WalkIsRight(x)
    BY ONLY <1>6, <2>1, WalkLoads
  <2> QED
    BY <2>2, <2>3
<1>8. /\ DOMAIN heap' = DOMAIN heap /\ heap'[current] = x
      /\ \A k \in DOMAIN heap : k # current => heap'[k] = heap[k]
  <2>1. heap' = [heap EXCEPT ![current] = x]
    BY <1>3, <1>5, <1>6
  <2> QED
    BY <1>1, <1>2, <1>7, <2>1, HeapPut
<1>9. WalksAreRight'
  BY <1>1, <1>7, <1>8, WalksStay
<1>10. at \in Turn /\ at.kind = "next"
  <2>1. [rows |-> o.rows, cursor |-> o.cursor, next |-> o.next, start |-> o.start] \in Entry
    BY DEF Object, Entry
  <2>2. o.apex \in Apex /\ o.next \in Row
    BY <1>5 DEF Object
  <2> QED
    BY <1>4, <2>1, <2>2, NoPageIsAPage DEF Turn
<1>11. /\ reads'[r] = at /\ \A s \in Read : s # r => reads'[s] = reads[s]
       /\ UnderWay("next")' \subseteq UnderWay("next") \cup {r}
  BY <1>1, <1>5, <1>10, ReadMoves
<1>12. AnswersAreRight'
  <2>1. at.pc # "answered"
    BY <1>4
  <2> QED
    BY <1>1, <1>11, <2>1, NoAnswerIsRight, AnswersStay
<1>13. TurnsAreRight'
  <2>1. TurnIsRight(at, x)
    BY <1>4, <1>5, <1>7 DEF TurnIsRight
  <2>2. ASSUME NEW s \in UnderWay("next")'
        PROVE  TurnIsRight(reads'[s], heap'[current']) /\ UnderWay("next")' = {s}
    <3>1. s = r /\ current' = current
      BY <1>1, <1>11
    <3> QED
      BY <1>1, <1>8, <1>11, <2>1, <3>1
  <2> QED
    BY <2>2 DEF TurnsAreRight
<1> QED
  BY <1>9, <1>12, <1>13 DEF PagesInv

LEMMA BackPages ==
    ASSUME PagesInv, ScreenInv', TurnsBack
    PROVE  PagesInv'
<1>1. /\ TypeOK /\ TypeOK' /\ WalksAreRight /\ AnswersAreRight
      /\ UNCHANGED <<catalogVars, current, reads>> /\ UnderWay("next") = {}
  BY NoneUnderWay DEF PagesInv, ScreenInv, TurnsBack
<1>2. current # 0 /\ current \in DOMAIN heap
  <2>1. ScreenInv /\ screen.open
    BY DEF PagesInv, TurnsBack
  <2> QED
    BY <2>1, OpenShows DEF Shows
<1>3. PICK o \in Object : o = heap[current] /\ WalkIsRight(o)
  BY <1>1, <1>2, HeapFacts DEF WalksAreRight, Range
<1>4. PICK x : x = TurnedBack(o)
  OBVIOUS
<1>5. o.back # <<>> /\ heap' = [heap EXCEPT ![current] = x]
  BY <1>3, <1>4 DEF TurnsBack
<1>6. x \in Object /\ WalkIsRight(x)
  BY <1>3, <1>4, <1>5, ObjectGoesBack, WalkGoesBack
<1>7. /\ DOMAIN heap' = DOMAIN heap /\ heap'[current] = x
      /\ \A k \in DOMAIN heap : k # current => heap'[k] = heap[k]
  BY <1>1, <1>2, <1>5, <1>6, HeapPut
<1>8. WalksAreRight'
  BY <1>1, <1>6, <1>7, WalksStay
<1>9. AnswersAreRight'
  BY <1>1, NoAnswerIsRight, AnswersStay
<1>10. TurnsAreRight'
  BY <1>1 DEF TurnsAreRight, UnderWay
<1> QED
  BY <1>8, <1>9, <1>10 DEF PagesInv
-----------------------------------------------------------------------------
(* Pages: reads *)

LEMMA AnswerPages ==
    ASSUME PagesInv, ScreenInv', NEW r \in Read, Answers(r)
    PROVE  PagesInv'
<1>1. /\ ScreenInv /\ TypeOK /\ TypeOK' /\ WalksAreRight /\ AnswersAreRight /\ TurnsAreRight
      /\ UNCHANGED catalogVars /\ heap' = heap /\ current' = current
  BY DEF PagesInv, ScreenInv, Answers
<1>2. PICK read \in Search \cup Turn : read = reads[r] /\ read # Idle
  <2>1. reads[r].pc # "idle"
    BY DEF Answers
  <2> QED
    BY <1>1, <2>1, ReadFacts
<1>3. read.apex \in Apex /\ read.cursor \in Row \cup {NoCursor} /\ read.page \in Page
  BY DEF Search, Turn
<1> DEFINE GoesTo(at) ==
      /\ ReadGoes(r, at) /\ at \in Search \cup Turn /\ at.kind = read.kind /\ AnswerIsRight(at)
      /\ at.kind = "next" => at.entry = read.entry /\ at.cursor = read.cursor
      /\ at.pc = "answered" => at.page.version = version
<1>4. PICK at : GoesTo(at)
  <2>1. ASSUME ReadGoes(r, [read EXCEPT !.pc = "answered",
                                        !.page = PageOf(read.apex, read.cursor)])
        PROVE  \E at : GoesTo(at)
    <3>1. PICK page : page = PageOf(read.apex, read.cursor)
      OBVIOUS
    <3>2. page \in Page
      BY <1>1, <1>3, <3>1, PageFacts
    <3>3. PICK at : at = Answered(read, "answered", page)
      OBVIOUS
    <3>4. /\ at \in Search \cup Turn /\ at.kind = read.kind /\ at.apex = read.apex
          /\ at.page = page /\ (at.kind = "next" => at.entry = read.entry)
          /\ at.cursor = read.cursor
      <4>1. read \in Search \cup Turn /\ "answered" \in {"answered", "refused"}
        OBVIOUS
      <4>2. page \in Page /\ at = Answered(read, "answered", page)
        BY <3>2, <3>3
      <4> QED
        BY ONLY <4>1, <4>2, AnswerFacts
    <3>5. ReadGoes(r, at)
      BY <2>1, <3>1, <3>3 DEF Answered
    <3>6. /\ page.version = version
          /\ Cut(read.apex, read.cursor, page.rows, page.next, page.version)
      BY <1>1, <1>3, <3>1, PageIsCut
    <3>7. AnswerIsRight(at)
      <4>1. version \in Nat
        BY <1>1, ConstantFacts DEF TypeOK
      <4> QED
        BY <3>4, <3>6, <4>1 DEF AnswerIsRight
    <3> QED
      BY <3>4, <3>5, <3>6, <3>7
  <2>2. ASSUME ReadGoes(r, [read EXCEPT !.pc = "refused"])
        PROVE  \E at : GoesTo(at)
    <3>1. PICK at : at = [read EXCEPT !.pc = "refused"]
      OBVIOUS
    <3>2. PICK page \in Page : page = read.page
      BY <1>3
    <3>3. at = Answered(read, "refused", page)
      BY <3>1, <3>2 DEF Search, Turn, Answered
    <3>4. /\ at \in Search \cup Turn /\ at.kind = read.kind /\ at.cursor = read.cursor
          /\ (at.kind = "next" => at.entry = read.entry) /\ at.pc = "refused"
      <4>1. read \in Search \cup Turn /\ "refused" \in {"answered", "refused"} /\ page \in Page
        OBVIOUS
      <4> QED
        BY ONLY <4>1, <3>3, AnswerFacts
    <3>5. AnswerIsRight(at)
      BY <3>4, NoAnswerIsRight
    <3> QED
      BY <2>2, <3>1, <3>4, <3>5
  <2> QED
    BY <1>2, <2>1, <2>2 DEF Answers
<1>5. at # Idle
  BY <1>4 DEF Search, Turn, Idle
<1>6. reads'[r] = at /\ \A s \in Read : s # r => reads'[s] = reads[s]
  BY <1>1, <1>4, ReadMoves
<1>7. UnderWay("next")' = UnderWay("next")
  BY <1>2, <1>4, <1>5, <1>6 DEF UnderWay
<1>8. ASSUME NEW s \in UnderWay("next") PROVE TurnIsRight(reads'[s], heap[current])
  <2>1. s \in Read /\ TurnIsRight(reads[s], heap[current])
    BY <1>1 DEF UnderWay, TurnsAreRight
  <2>2. CASE s # r
    BY <1>6, <2>1, <2>2
  <2>3. CASE s = r
    <3>1. current \in DOMAIN heap
      BY <1>1, <1>8, <2>1, PageReadFacts DEF UnderWay
    <3>2. heap[current].since <= version
      BY <1>1, <3>1 DEF WalksAreRight, Range, WalkIsRight, WalkIsCut
    <3>3. at.kind = "next"
      BY <1>2, <1>4, <1>8, <2>3 DEF UnderWay
    <3> QED
      BY <1>2, <1>4, <1>6, <2>1, <2>3, <3>2, <3>3 DEF TurnIsRight
  <2> QED
    BY <2>2, <2>3
<1>9. TurnsAreRight'
  <2>1. ASSUME NEW s \in UnderWay("next")'
        PROVE  TurnIsRight(reads'[s], heap'[current']) /\ UnderWay("next")' = {s}
    <3>1. s \in UnderWay("next") /\ UnderWay("next") = {s}
      BY <1>1, <1>7, <2>1 DEF TurnsAreRight
    <3>2. heap'[current'] = heap[current]
      BY <1>1
    <3> QED
      BY <1>7, <1>8, <3>1, <3>2
  <2> QED
    BY <2>1 DEF TurnsAreRight
<1>10. AnswersAreRight'
  BY <1>1, <1>4, <1>6, AnswersStay
<1> QED
  BY <1>1, <1>9, <1>10, HeapStays DEF PagesInv

\* A read that ends.
LEMMA ReadEnds ==
    ASSUME PagesInv, ScreenInv', NEW r \in Read, ReadGoes(r, Idle), UNCHANGED catalogVars
    PROVE  /\ AnswersAreRight'
           /\ reads[r] # Idle /\ reads[r].kind = "next" => UnderWay("next")' = {}
           /\ UnderWay("next")' \subseteq UnderWay("next")
           /\ \A s \in UnderWay("next")' : reads'[s] = reads[s]
<1>1. TypeOK /\ TypeOK' /\ AnswersAreRight /\ TurnsAreRight
  BY DEF PagesInv, ScreenInv
<1>2. reads'[r] = Idle /\ \A s \in Read : s # r => reads'[s] = reads[s]
  BY <1>1, ReadMoves
<1>3. /\ UnderWay("next")' \subseteq UnderWay("next") /\ r \notin UnderWay("next")'
      /\ \A s \in UnderWay("next")' : reads'[s] = reads[s]
  BY <1>2 DEF UnderWay
<1>4. AnswersAreRight'
  BY <1>1, <1>2, NoAnswerIsRight, AnswersStay
<1>5. ASSUME reads[r] # Idle, reads[r].kind = "next" PROVE UnderWay("next")' = {}
  <2>1. r \in UnderWay("next")
    BY <1>5 DEF UnderWay
  <2>2. UnderWay("next") = {r}
    BY <1>1, <2>1 DEF TurnsAreRight
  <2> QED
    BY <1>3, <2>2
<1> QED
  BY <1>3, <1>4, <1>5

LEMMA SearchArrivesPages ==
    ASSUME PagesInv, ScreenInv', NEW r \in Read, SearchArrives(r)
    PROVE  PagesInv'
<1>1. /\ ScreenInv /\ TypeOK /\ TypeOK' /\ WalksAreRight /\ AnswersAreRight /\ OneKindAtATime
      /\ UNCHANGED catalogVars /\ ReadGoes(r, Idle)
      /\ reads[r].pc = "answered" /\ reads[r].kind = "search"
  BY DEF PagesInv, ScreenInv, SearchArrives
<1>2. PICK read \in Search : read = reads[r] /\ read # Idle
  <2>1. reads[r].pc # "idle"
    BY <1>1
  <2> QED
    BY <1>1, <2>1, ReadFacts
<1>3. UnderWay("next") = {}
  <2>1. r \in UnderWay("search")
    BY <1>1, <1>2 DEF UnderWay
  <2> QED
    BY <1>1, <2>1 DEF OneKindAtATime
<1>4. PICK page \in Page : page = read.page
  BY DEF Search
<1>5. PICK a \in Apex : a = read.apex /\ read.cursor = NoCursor
  BY DEF Search
<1>6. PICK o : o = FirstOf(a, page)
  OBVIOUS
<1>7. heap' = Append(heap, o)
  BY <1>2, <1>4, <1>5, <1>6 DEF SearchArrives, FirstOf
<1>8. o \in Object /\ WalkIsRight(o)
  <2>1. AnswerIsRight(read)
    <3>1. DOMAIN reads = Read
      BY <1>1 DEF TypeOK
    <3> QED
      BY <1>1, <1>2, <3>1 DEF AnswersAreRight, Range
  <2>2. page.version <= version /\ Cut(a, NoCursor, page.rows, page.next, page.version)
    BY <1>1, <1>2, <1>4, <1>5, <2>1 DEF AnswerIsRight
  <2> QED
    BY <1>1, <1>6, <2>2, FirstFacts, FirstIsRight
<1>9. WalksAreRight'
  <2>1. \A k \in DOMAIN heap' : (k \in DOMAIN heap /\ heap'[k] = heap[k]) \/ heap'[k] = o
    BY <1>1, <1>7, <1>8, HeapGrows
  <2> QED
    BY <1>1, <1>8, <2>1, WalksStay
<1>10. AnswersAreRight' /\ UnderWay("next")' = {}
  BY <1>1, <1>3, ReadEnds
<1> QED
  BY <1>9, <1>10 DEF PagesInv, TurnsAreRight

LEMMA PageArrivesPages ==
    ASSUME PagesInv, ScreenInv', NEW r \in Read, PageArrives(r)
    PROVE  PagesInv'
<1>1. /\ ScreenInv /\ TypeOK /\ WalksAreRight /\ AnswersAreRight /\ TurnsAreRight
      /\ UNCHANGED catalogVars /\ ReadGoes(r, Idle)
      /\ reads[r].pc = "answered" /\ reads[r] # Idle /\ reads[r].kind = "next"
  <2>1. TypeOK /\ reads[r].pc = "answered"
    BY DEF PagesInv, ScreenInv, PageArrives
  <2> QED
    BY <2>1, ReadFacts DEF PagesInv, PageArrives
<1>2. PICK read \in Turn : read = reads[r]
  BY <1>1, PageReadFacts
<1>3. /\ current # 0 /\ current \in DOMAIN heap /\ heap[current] \in Object
      /\ heap[current].apex = read.apex
  BY <1>1, <1>2, PageReadFacts
<1>4. PICK o \in Object : o = heap[current] /\ WalkIsRight(o)
  BY <1>1, <1>3 DEF WalksAreRight, Range
<1>5. PICK x : x = Turned(o, read)
  OBVIOUS
<1>6. heap' = [heap EXCEPT ![current] = x]
  BY <1>2, <1>4, <1>5 DEF PageArrives
<1>7. x \in Object /\ WalkIsRight(x)
  <2>1. AnswerIsRight(read)
    <3>1. DOMAIN reads = Read
      BY <1>1 DEF TypeOK
    <3> QED
      BY <1>1, <1>2, <3>1 DEF AnswersAreRight, Range
  <2>2. TurnIsRight(read, o)
    <3>1. r \in UnderWay("next")
      BY <1>1 DEF UnderWay
    <3> QED
      BY <1>1, <1>2, <1>4, <3>1 DEF TurnsAreRight
  <2> QED
    BY <1>1, <1>2, <1>3, <1>4, <1>5, <2>1, <2>2, ObjectTurns, WalkTurns
<1>8. /\ DOMAIN heap' = DOMAIN heap /\ heap'[current] = x
      /\ \A k \in DOMAIN heap : k # current => heap'[k] = heap[k]
  BY <1>1, <1>3, <1>6, <1>7, HeapPut
<1>9. WalksAreRight'
  BY <1>1, <1>7, <1>8, WalksStay
<1>10. AnswersAreRight' /\ UnderWay("next")' = {}
  BY <1>1, ReadEnds
<1> QED
  BY <1>9, <1>10 DEF PagesInv, TurnsAreRight

LEMMA ReadFailsPages ==
    ASSUME PagesInv, ScreenInv', NEW r \in Read, ReadFails(r)
    PROVE  PagesInv'
<1>1. /\ ScreenInv /\ TypeOK /\ WalksAreRight /\ TurnsAreRight
      /\ UNCHANGED catalogVars /\ current' = current /\ ReadGoes(r, Idle) /\ reads[r] # Idle
  BY DEF PagesInv, ScreenInv, ReadFails
<1>2. /\ AnswersAreRight'
      /\ UnderWay("next")' \subseteq UnderWay("next")
      /\ \A s \in UnderWay("next")' : reads'[s] = reads[s]
      /\ reads[r].kind = "next" => UnderWay("next")' = {}
  BY <1>1, ReadEnds
<1>3. CASE heap' = heap
  <2>1. WalksAreRight'
    BY <1>1, <1>3, HeapStays
  <2>2. TurnsAreRight'
    BY <1>1, <1>2, <1>3, TurnsStay
  <2> QED
    BY <1>2, <2>1, <2>2 DEF PagesInv
<1>4. CASE reads[r].kind = "next" /\ heap' = [heap EXCEPT ![current].loading = Loading]
  <2>1. current # 0 /\ current \in DOMAIN heap /\ heap[current] \in Object
    BY <1>1, <1>4, PageReadFacts
  <2>2. PICK o \in Object : o = heap[current] /\ WalkIsRight(o)
    BY <1>1, <2>1 DEF WalksAreRight, Range
  <2>3. PICK x : x = [o EXCEPT !.loading = FALSE]
    OBVIOUS
  <2>4. x \in Object /\ WalkIsRight(x)
    <3>1. o \in Object /\ FALSE \in BOOLEAN /\ WalkIsRight(o)
      BY <2>2
    <3>2. x \in Object
      BY ONLY <2>3, <3>1, ObjectLoads
    <3> QED
      BY ONLY <2>3, <3>1, <3>2, WalkLoads
  <2>5. heap' = [heap EXCEPT ![current] = x]
    BY <1>4, <2>2, <2>3 DEF Loading
  <2>6. /\ DOMAIN heap' = DOMAIN heap /\ heap'[current] = x
        /\ \A k \in DOMAIN heap : k # current => heap'[k] = heap[k]
    BY <1>1, <2>1, <2>4, <2>5, HeapPut
  <2>7. WalksAreRight'
    BY <1>1, <2>4, <2>6, WalksStay
  <2> QED
    BY <1>2, <1>4, <2>7 DEF PagesInv, TurnsAreRight
<1> QED
  BY <1>3, <1>4 DEF ReadFails

LEMMA CatalogPages ==
    ASSUME PagesInv, ScreenInv', Publishes \/ Withdraws
    PROVE  PagesInv'
<1>1. PICK cat : BecomesActive(cat)
  BY DEF Publishes, Withdraws
<1>2. /\ TypeOK /\ WalksAreRight /\ AnswersAreRight /\ TurnsAreRight
      /\ heap' = heap /\ reads' = reads /\ current' = current
      /\ version \in Nat /\ version' = version + 1
  BY <1>1, ConstantFacts DEF PagesInv, ScreenInv, BecomesActive, TypeOK
<1>3. WalksAreRight'
  <2>1. ASSUME NEW o \in Range(heap') PROVE WalkIsRight(o)'
    <3>1. o \in Object /\ WalkIsRight(o)
      BY <1>2, HeapFacts DEF WalksAreRight, Range
    <3> QED
      BY <1>1, <1>2, <3>1, WalkSurvives
  <2> QED
    BY <2>1 DEF WalksAreRight
<1>4. AnswersAreRight'
  <2>1. ASSUME NEW read \in Range(reads'), read.pc = "answered"
        PROVE  /\ read.page.version <= version + 1
               /\ Cut(read.apex, read.cursor, read.page.rows, read.page.next,
                      read.page.version)'
    <3>1. /\ read.page.version <= version
          /\ Cut(read.apex, read.cursor, read.page.rows, read.page.next, read.page.version)
      BY <1>2, <2>1 DEF AnswersAreRight, AnswerIsRight
    <3>2. PICK r \in Read : read = reads[r]
      BY <1>2 DEF Range, TypeOK
    <3>3. read.apex \in Apex /\ read.page \in Page
      BY <1>2, <2>1, <3>2, ReadFacts
    <3>4. read.page.version \in 0..version /\ read.page.rows \in Seq(Row)
      BY <1>2, <3>1, <3>3, ConstantFacts DEF Page
    <3> QED
      BY <1>1, <1>2, <3>1, <3>3, <3>4, CutSurvives
  <2> QED
    BY <1>2, <2>1 DEF AnswersAreRight, AnswerIsRight
<1>5. TurnsAreRight'
  BY <1>2 DEF TurnsAreRight, UnderWay
<1> QED
  BY <1>3, <1>4, <1>5 DEF PagesInv
-----------------------------------------------------------------------------
(* What is proved of the pages *)

LEMMA PagesInit ==
    ASSUME Init
    PROVE  PagesInv
<1>1. Range(heap) = {}
  BY DEF Init, Range
<1>2. AnswersAreRight
  BY NoAnswerIsRight DEF Init, Range, AnswersAreRight
<1>3. UnderWay("next") = {}
  BY DEF Init, UnderWay
<1> QED
  BY <1>1, <1>2, <1>3, ScreenInit DEF PagesInv, WalksAreRight, TurnsAreRight

LEMMA PagesStep ==
    ASSUME WaitsForPages, PagesInv, [Next]_vars
    PROVE  PagesInv'
<1>1. ScreenInv'
  BY ScreenStep DEF PagesInv
<1>2. ASSUME NEW r \in Read, NEW a \in Apex, Searches(a, r) \/ PopsTo(a, r)
      PROVE  PagesInv'
  BY <1>1, <1>2, SearchPages DEF Searches, PopsTo
<1>3. ASSUME NEW r \in Read, ReadStep(r)
      PROVE  PagesInv'
  BY <1>1, <1>3, AnswerPages, SearchArrivesPages, PageArrivesPages, ReadFailsPages
  DEF ReadStep
<1>4. CASE UNCHANGED vars
  <2>1. UNCHANGED <<catalogVars, heap, current, reads>>
    BY <1>4 DEF vars
  <2>2. /\ TypeOK /\ TypeOK' /\ WalksAreRight /\ AnswersAreRight /\ TurnsAreRight
    BY <1>1 DEF PagesInv, ScreenInv
  <2>3. UnderWay("next")' = UnderWay("next")
    BY <2>1 DEF UnderWay
  <2>4. TurnsAreRight'
    BY <2>1, <2>2, <2>3, TurnsStay
  <2>5. AnswersAreRight'
    BY <2>1, <2>2, NoAnswerIsRight, AnswersStay
  <2> QED
    BY <1>1, <2>1, <2>2, <2>4, <2>5, HeapStays DEF PagesInv
<1> QED
  BY <1>1, <1>2, <1>3, <1>4, TurnPages, ShelfPages, BackPages, CatalogPages DEF Next

\* The page that a steady name is on, and its only place.
LEMMA SteadyIsShownOnce ==
    ASSUME TypeOK, NEW o \in Object, WalkIsRight(o), NEW n \in Steady(o)
    PROVE  Cardinality({p \in Walked(o) : RowsAt(o, p[1])[p[2]].name = n})
             = IF Reached(o, n) THEN 1 ELSE 0
<1>1. PICK m \in Nat \ {0} :
        m = Len(o.back) + 1 /\ PagesOf(o) = 1..m /\ DOMAIN o.back = 1..(m - 1) /\ m \in 1..m
  BY PageTypes DEF PagesOf
<1>2. PICK r \in Row : r = RowOf(o.apex, n) /\ r.name = n
  <2>1. o.apex \in Apex /\ n \in NamesOf(catalog, o.apex)
    BY DEF Object, Steady
  <2>2. RowOf(o.apex, n) \in Records(o.apex)
    BY <2>1 DEF Records
  <2> QED
    BY <2>1, <2>2, RecordFacts DEF RowOf
<1>3. PICK Q : Q = {p \in Walked(o) : RowsAt(o, p[1])[p[2]].name = n}
  OBVIOUS
<1>4. \A j \in 1..m : Cut(o.apex, CursorAt(o, j), RowsAt(o, j), NextAt(o, j), o.since)
  BY <1>1 DEF WalkIsRight, WalkIsCut
<1>5. ASSUME NEW p \in Q
      PROVE  /\ p \in Walked(o) /\ p[1] \in 1..m /\ p[2] \in DOMAIN RowsAt(o, p[1])
             /\ p = <<p[1], p[2]>> /\ RowsAt(o, p[1])[p[2]] = r
             /\ Follows(CursorAt(o, p[1]), r)
             /\ \A j \in 1..m : p[1] <= j => Covers(NextAt(o, j), r)
  <2>1. p \in Walked(o) /\ RowsAt(o, p[1])[p[2]].name = n
    BY <1>3
  <2>2. p[1] \in 1..m /\ p[2] \in DOMAIN RowsAt(o, p[1]) /\ p = <<p[1], p[2]>>
    BY <1>1, <2>1, WalkedFacts
  <2>3. RowsAt(o, p[1])[p[2]] = r
    BY <1>2, <1>4, <2>1, <2>2 DEF Cut, IsAsListed, Steady
  <2>4. Follows(CursorAt(o, p[1]), r)
    BY <1>4, <2>2, <2>3 DEF Cut, InOrderAfter
  <2>5. \A j \in 1..m : p[1] <= j => Covers(NextAt(o, j), r)
    BY <1>1, <2>1, <2>3 DEF WalkIsRight, WalkIsCounted
  <2> QED
    BY <2>1, <2>2, <2>3, <2>4, <2>5
<1>6. NextAt(o, m) = o.next
  BY <1>1, PageTypes
<1>7. Covers(o.next, r) <=> Reached(o, n)
  BY <1>2 DEF Covers, Reached
<1>8. CASE ~Reached(o, n)
  <2>1. Q = {}
    <3>1. ASSUME NEW p \in Q PROVE FALSE
      <4>1. p[1] \in 1..m /\ p[1] <= m
        BY <1>1, <1>5
      <4> QED
        BY <1>1, <1>5, <1>6, <1>7, <1>8, <4>1
    <3> QED
      BY <3>1
  <2> QED
    BY <1>3, <1>8, <2>1, FS_EmptySet
<1>9. CASE Reached(o, n)
  <2>1. PICK j \in 1..m : /\ Covers(NextAt(o, j), r)
                          /\ \A i \in 1..m : Covers(NextAt(o, i), r) => j <= i
    <3>1. PICK T : T = {i \in 1..m : Covers(NextAt(o, i), r)}
      OBVIOUS
    <3>2. m \in T
      BY <1>1, <1>6, <1>7, <1>9, <3>1
    <3>3. T \in SUBSET Nat /\ T # {}
      BY <3>1, <3>2
    <3>4. PICK j \in T : \A i \in T : j <= i
      BY <3>3, LeastIsMember
    <3> QED
      BY <3>1, <3>4
  <2>2. Follows(CursorAt(o, j), r)
    <3>1. CASE j = 1
      BY <3>1 DEF CursorAt, Follows
    <3>2. CASE j # 1
      <4>1. j - 1 \in 1..m /\ ~(j <= j - 1)
        BY <3>2
      <4>2. ~Covers(NextAt(o, j - 1), r)
        BY <2>1, <4>1
      <4> QED
        BY <3>2, <4>2 DEF Covers, CursorAt, Follows
    <3> QED
      BY <3>1, <3>2
  <2>3. PICK i \in DOMAIN RowsAt(o, j) : RowsAt(o, j)[i].name = n
    BY <1>2, <1>4, <2>1, <2>2 DEF Cut, LeavesNoneOut, Steady
  <2>4. <<j, i>> \in Q
    <3>1. <<j, i>> \in Walked(o)
      BY <1>1, WalkedFacts
    <3> QED
      BY <1>3, <2>3, <3>1
  <2>5. ASSUME NEW p \in Q, NEW q \in Q PROVE ~(p[1] < q[1])
    <3> SUFFICES ASSUME p[1] < q[1] PROVE FALSE
      OBVIOUS
    <3>1. PICK k \in 1..m : k = q[1] /\ k # 1 /\ p[1] <= k - 1 /\ k - 1 \in 1..(m - 1)
      BY <1>5
    <3>2. NextAt(o, k - 1) # NoCursor
      BY <1>1, <3>1 DEF NextAt, WalkIsRight, WalkIsCounted
    <3>3. Follows(NextAt(o, k - 1), r)
      BY <1>5, <3>1 DEF CursorAt
    <3>4. k - 1 \in 1..m
      BY <3>1
    <3>5. Covers(NextAt(o, k - 1), r)
      BY <1>5, <3>1, <3>4
    <3> QED
      BY <3>2, <3>3, <3>5 DEF Covers, Follows
  <2>6. ASSUME NEW p \in Q, NEW q \in Q PROVE p = q
    <3>1. p[1] = q[1]
      <4>1. p[1] \in Nat /\ q[1] \in Nat
        BY <1>5
      <4> QED
        BY <2>5, <4>1
    <3>2. PICK k \in 1..m : k = p[1]
      BY <1>5
    <3>3. p[2] \in DOMAIN RowsAt(o, k) /\ q[2] \in DOMAIN RowsAt(o, k)
      BY <1>5, <3>1, <3>2
    <3>4. RowsAt(o, k)[p[2]] = r /\ RowsAt(o, k)[q[2]] = r
      BY <1>5, <3>1, <3>2
    <3>5. p[2] = q[2]
      <4>1. RowsAt(o, k) \in Seq(Row)
        BY <1>1, <3>2, PageTypes
      <4>2. p[2] \in Nat /\ q[2] \in Nat
        BY <3>3, <4>1
      <4>3. ~(p[2] < q[2]) /\ ~(q[2] < p[2])
        BY <1>4, <3>3, <3>4, EarlierIsAnOrder DEF Cut, InOrderAfter
      <4> QED
        BY <4>2, <4>3
    <3> QED
      BY <1>5, <3>1, <3>5
  <2>7. Q = {<<j, i>>}
    BY <2>4, <2>6
  <2> QED
    BY <1>3, <1>9, <2>7, FS_Singleton
<1> QED
  BY <1>8, <1>9

LEMMA PagesShow ==
    ASSUME PagesInv
    PROVE  PagesShowSteadyNamesOnce
<1> SUFFICES ASSUME NEW k \in DOMAIN heap, NEW o, o = heap[k]
             PROVE  /\ o.start = Cardinality({p \in Walked(o) : p[1] <= Len(o.back)})
                    /\ \A n \in Steady(o) :
                         Cardinality({p \in Walked(o) : RowsAt(o, p[1])[p[2]].name = n})
                             = IF Reached(o, n) THEN 1 ELSE 0
  BY DEF PagesShowSteadyNamesOnce
<1>1. TypeOK /\ o \in Object /\ WalkIsRight(o)
  <2>1. TypeOK /\ WalksAreRight
    BY DEF PagesInv, ScreenInv
  <2> QED
    BY <2>1, HeapFacts DEF WalksAreRight, Range
<1>2. o.start = Cardinality({p \in Walked(o) : p[1] <= Len(o.back)})
  <2>1. PICK m \in Nat : m = Len(o.back) /\ m + 1 \in PagesOf(o) /\ StartAt(o, m + 1) = o.start
    BY <1>1, PageTypes
  <2>2. \A p \in Walked(o) : p[1] < m + 1 <=> p[1] <= m
    <3>1. \A p \in Walked(o) : p[1] \in Nat
      BY <1>1, WalkedFacts, PageTypes
    <3> QED
      BY <3>1
  <2>3. PlacesBefore(o, m + 1) = {p \in Walked(o) : p[1] <= m}
    BY <2>2 DEF PlacesBefore
  <2> QED
    BY <1>1, <2>1, <2>3 DEF WalkIsRight, WalkIsCounted
<1> QED
  BY <1>1, <1>2, SteadyIsShownOnce

\* The invariant of the pages an object has been turned through.
THEOREM PagesInvariant ==
    ASSUME WaitsForPages
    PROVE  Spec => []PagesInv
<1>1. Init => PagesInv
  BY PagesInit
<1>2. PagesInv /\ [Next]_vars => PagesInv'
  BY PagesStep
<1> QED
  BY <1>1, <1>2, PTL DEF Spec

\* Names that do not change while a record is paged through are shown once each, and the
\* row number a page starts with counts what the pages before it showed (pageRecords of the
\* read Worker, nextPage and previousPage of the page).
THEOREM SteadyNamesAreShownOnce ==
    ASSUME WaitsForPages
    PROVE  Spec => []PagesShowSteadyNamesOnce
<1>1. PagesInv => PagesShowSteadyNamesOnce
  BY PagesShow
<1> QED
  BY <1>1, PagesInvariant, PTL
=============================================================================
