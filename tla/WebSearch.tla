------------------------------ MODULE WebSearch ------------------------------
(***************************************************************************)
(* A reader of the index: the search page (web/app.js) and the route of the*)
(* read Worker that answers it (search in cloudflare/index-worker), over a *)
(* catalog that changes while the reader turns pages.                      *)
(*                                                                         *)
(* A handler of the page runs until it waits for a read; the reader, the   *)
(* back button and other answers come in between.  The pages read for an   *)
(* apex are one object, which CACHE and `current` refer to: here, its      *)
(* position in heap.  The Worker keeps nothing: a cursor is the last row of*)
(* a page, and the next page is what comes after that row in the catalog   *)
(* there is by then.                                                       *)
(***************************************************************************)
EXTENDS Integers, SequencesExt

CONSTANTS
    Apexes,          \* the apexes are 1..Apexes, in their order
    Names,           \* the names of an apex are 1..Names, in their order
    Undated,         \* a name is first seen at 0..Undated - 1, or at no known time
    PageSize,
    BlockSize,       \* apexes in a block of the catalog
    MaxReads,        \* reads that may be under way at a time
    Starts,          \* the catalogs to start with
    MaxChanges,      \* bound on the catalogs that follow
    MaxSearches,     \* bound on the searches that are read
    WaitsForPages    \* whether the reader waits for a page before searching, and
                     \* for a search before turning a page

Apex == 1..Apexes
Name == 1..Names
Read == 1..MaxReads
Absent == Undated + 1

ASSUME WebSearchAssumption ==
    /\ Apexes \in Nat \ {0} /\ Names \in Nat \ {0}
    /\ PageSize \in Nat \ {0} /\ BlockSize \in Nat \ {0} /\ MaxReads \in Nat
    /\ Undated \in Nat
    /\ Starts \subseteq [Apex -> [Name -> 0..Absent]]
    /\ MaxChanges \in Nat /\ MaxSearches \in Nat
    /\ WaitsForPages \in BOOLEAN

VARIABLES
    catalog,    \* first_seen of the names of an apex, by the active root
    layout,     \* the blocks of apexes of its partition
    before,     \* the catalog before the last change
    version,    \* history: how many changes there were
    changed,    \* history: the last change of a name
    heap,       \* the objects of the page
    cache,      \* CACHE; 0 if there is none
    current,    \* current; 0 at first
    screen,     \* what is shown
    url,        \* the apex in the location, or 0
    reads       \* the reads under way

catalogVars == <<catalog, layout, before, version, changed>>
vars == <<catalogVars, heap, cache, current, screen, url, reads>>
-----------------------------------------------------------------------------
(* The read Worker *)

\* A row, and the cursor that it makes.
Row == [apex: Apex, name: Name, date: 0..Undated]
NoCursor == [apex |-> 0]

\* cursorKey and compareKeys: by date, those without one last, then by name.
Earlier(r, s) == r.date < s.date \/ (r.date = s.date /\ r.name < s.name)

RowOf(a, n) == [apex |-> a, name |-> n, date |-> catalog[a][n]]

NamesOf(cat, a) == {n \in Name : cat[a][n] # Absent}

Records(a) == {RowOf(a, n) : n \in NamesOf(catalog, a)}

\* The elements of S in an order: each is preceded by as many as come before it.
InOrder(S, precedes) ==
    [i \in 1..Cardinality(S) |->
       CHOOSE x \in S : Cardinality({y \in S : <<y, x>> \in precedes}) = i - 1]

ByDate == {p \in Row \X Row : Earlier(p[1], p[2])}
ByApex == {p \in Apex \X Apex : p[1] < p[2]}

\* Blocks hold all apexes that have names, in their order.
Layout(cat) ==
    LET listed == InOrder({a \in Apex : NamesOf(cat, a) # {}}, ByApex)
        BlockOf(i) ==
            SubSeq(listed, (i - 1) * BlockSize + 1, Min({i * BlockSize, Len(listed)}))
    IN [i \in 1..((Len(listed) + BlockSize - 1) \div BlockSize) |->
          [first |-> Head(BlockOf(i)), last |-> Last(BlockOf(i))]]

\* The binary search of findRegularBlock: how many blocks begin at a or before.
Span == (0..Len(layout)) \X (0..Len(layout))

UpperBound(a) ==
    LET search[span \in Span] ==
          LET low == span[1]
              high == span[2]
              middle == (low + high) \div 2
          IN IF low >= high THEN low
             ELSE IF layout[middle + 1].first <= a THEN search[<<middle + 1, high>>]
             ELSE search[<<low, middle>>]
    IN search[<<0, Len(layout)>>]

Located(a) ==
    LET position == UpperBound(a) IN
    IF position = 0 \/ a > layout[position].last THEN {} ELSE Records(a)

\* (Here and below, an operator whose comment begins with "Faulty" is no part of
\* the model: it is a mistake the code could have made in the next definition.)
\* Faulty: a page begins with the row the cursor names.
FollowsOrIs(cursor, r) == cursor = NoCursor \/ ~Earlier(r, cursor)

Follows(cursor, r) == cursor = NoCursor \/ Earlier(cursor, r)

\* pageRecords reads one row more, to know whether there is a next page.
PageOf(a, cursor) ==
    LET all == Located(a)
        rest == InOrder({r \in all : Follows(cursor, r)}, ByDate)
        rows == SubSeq(rest, 1, Min({PageSize, Len(rest)}))
    IN [rows |-> rows,
        next |-> IF Len(rest) > PageSize THEN Last(rows) ELSE NoCursor,
        total |-> Cardinality(all), version |-> version]
-----------------------------------------------------------------------------
(* The page *)

Idle == [pc |-> "idle"]

Entry == [rows: Seq(Row), cursor: Row \cup {NoCursor}, next: Row \cup {NoCursor}, start: Nat]

Page == [rows: Seq(Row), next: Row \cup {NoCursor}, total: Nat, version: 0..MaxChanges]

\* That of a read that is not answered.
NoPage == [rows |-> <<>>, next |-> NoCursor, total |-> 0, version |-> 0]

\* The last field, since, is a history: the catalog its first page was read from.
Object == [apex: Apex, rows: Seq(Row), cursor: Row \cup {NoCursor},
           next: Row \cup {NoCursor}, start: Nat, back: Seq(Entry), total: Nat,
           loading: BOOLEAN, since: 0..MaxChanges]

ReadJob == {Idle}
    \cup [pc: {"sent", "refused", "answered"}, kind: {"search"}, apex: Apex,
          cursor: {NoCursor}, page: Page]
    \cup [pc: {"sent", "refused", "answered"}, kind: {"next"}, apex: Apex,
          cursor: Row, page: Page, entry: Entry]

TypeOK ==
    /\ catalog \in [Apex -> [Name -> 0..Absent]] /\ before \in [Apex -> [Name -> 0..Absent]]
    /\ layout = Layout(catalog)
    /\ version \in 0..MaxChanges /\ changed \in [Apex -> [Name -> 0..version]]
    /\ heap \in Seq(Object)
    /\ cache \in [Apex -> 0..Len(heap)] /\ current \in 0..Len(heap)
    /\ screen \in [shown: BOOLEAN, busy: BOOLEAN, open: BOOLEAN, heading: {0} \cup Apex,
                   rows: Seq(Row)]
    /\ url \in {0} \cup Apex
    /\ reads \in [Read -> ReadJob]

Init ==
    /\ catalog \in Starts /\ layout = Layout(catalog)
    /\ before \in Starts /\ \A a \in Apex, n \in Name : catalog[a][n] <= before[a][n]
    /\ version = 0
    /\ changed = [a \in Apex |-> [n \in Name |-> 0]]
    /\ heap = <<>>
    /\ cache = [a \in Apex |-> 0]
    /\ current = 0
    /\ screen = [shown |-> FALSE, busy |-> FALSE, open |-> FALSE, heading |-> 0, rows |-> <<>>]
    /\ url = 0
    /\ reads = [r \in Read |-> Idle]

\* Which of the reads a new one is does not matter.
IsFree(r) == reads[r] = Idle /\ \A s \in 1..(r - 1) : reads[s] # Idle

UnderWay(kind) == {r \in Read : reads[r] # Idle /\ reads[r].kind = kind}

ReadGoes(r, at) == reads' = [reads EXCEPT ![r] = at]

\* paint, of the object o.
Painted(o, scr) == [scr EXCEPT !.rows = o.rows]

\* Faulty: the heading is left to those who asked.
RenderedBelow(o, scr) ==
    [Painted(o, scr) EXCEPT !.shown = TRUE, !.busy = FALSE]

\* renderRegister
Rendered(o, scr) ==
    [Painted(o, scr) EXCEPT !.shown = TRUE, !.busy = FALSE, !.heading = o.apex]

\* The handler of a search for a, on a screen like scr at a location: the object of
\* CACHE is rendered, or read r is sent.
SearchesFor(a, r, scr, location) ==
    /\ WaitsForPages => UnderWay("next") = {}
    /\ \/ /\ cache[a] # 0
          /\ current' = cache[a]
          /\ screen' = Rendered(heap[cache[a]], scr)
          /\ url' = a
          /\ UNCHANGED reads
       \/ /\ cache[a] = 0
          /\ IsFree(r)
          /\ Len(heap) + Cardinality(UnderWay("search")) < MaxSearches
          /\ ReadGoes(r, [pc |-> "sent", kind |-> "search", apex |-> a,
                      cursor |-> NoCursor, page |-> NoPage])
          /\ screen' = [scr EXCEPT !.shown = TRUE, !.busy = TRUE, !.heading = a, !.rows = <<>>]
          /\ url' = location
          /\ UNCHANGED current
    /\ UNCHANGED <<catalogVars, heap, cache>>

\* By a form; an open shelf is modal.
Searches(a, r) == ~screen.open /\ SearchesFor(a, r, screen, url)

\* closeShelf
Closed ==
    IF screen.open THEN [Painted(heap[current], screen) EXCEPT !.open = FALSE] ELSE screen

\* By the back button, which may also lead to the page without an apex.
PopsTo(a, r) == SearchesFor(a, r, Closed, a)

PopsToNone ==
    /\ WaitsForPages => UnderWay("next") = {}
    /\ url' = 0
    /\ screen' = [Closed EXCEPT !.shown = FALSE]
    /\ UNCHANGED <<catalogVars, heap, cache, current, reads>>

OpensShelf ==
    /\ screen.shown /\ ~screen.open /\ screen.rows # <<>>
    /\ screen' = [Painted(heap[current], screen) EXCEPT !.open = TRUE]
    /\ UNCHANGED <<catalogVars, heap, cache, current, url, reads>>

ClosesShelf ==
    /\ screen.open
    /\ screen' = Closed
    /\ UNCHANGED <<catalogVars, heap, cache, current, url, reads>>

CursorAfter(o) == o.next

TurnsPage(r) ==
    /\ WaitsForPages => UnderWay("search") = {}
    /\ screen.open
    /\ IsFree(r)
    /\ LET o == heap[current] IN
       /\ ~o.loading /\ o.next # NoCursor
       /\ ReadGoes(r, [pc |-> "sent", kind |-> "next", apex |-> o.apex,
                       cursor |-> CursorAfter(o), page |-> NoPage,
                       entry |-> [rows |-> o.rows, cursor |-> o.cursor,
                                  next |-> o.next, start |-> o.start]])
    /\ heap' = [heap EXCEPT ![current].loading = TRUE]
    /\ UNCHANGED <<catalogVars, cache, current, screen, url>>

\* An object at the page it was at, before the last turn.
TurnedBack(o) ==
    LET entry == Last(o.back) IN
    [o EXCEPT !.rows = entry.rows, !.cursor = entry.cursor, !.next = entry.next,
              !.start = entry.start, !.back = Front(@)]

TurnsBack ==
    /\ screen.open
    /\ ~heap[current].loading /\ heap[current].back # <<>>
    /\ heap' = [heap EXCEPT ![current] = TurnedBack(@)]
    /\ screen' = Painted(heap'[current], screen)
    /\ UNCHANGED <<catalogVars, cache, current, url, reads>>
-----------------------------------------------------------------------------
(* Reads *)

\* A cursor of another apex is refused, as is a read beyond the allowance.
Answers(r) ==
    /\ reads[r].pc = "sent"
    /\ LET read == reads[r] IN
       \/ /\ read.cursor.apex \in {0, read.apex}
          /\ ReadGoes(r, [read EXCEPT !.pc = "answered",
                                      !.page = PageOf(read.apex, read.cursor)])
       \/ ReadGoes(r, [read EXCEPT !.pc = "refused"])
    /\ UNCHANGED <<catalogVars, heap, cache, current, screen, url>>

SearchArrives(r) ==
    /\ reads[r].pc = "answered" /\ reads[r].kind = "search"
    /\ LET page == reads[r].page
           o == [apex |-> reads[r].apex, rows |-> page.rows, cursor |-> NoCursor,
                 next |-> page.next, start |-> 0, back |-> <<>>, total |-> page.total,
                 loading |-> FALSE, since |-> page.version]
       IN /\ heap' = Append(heap, o)
          /\ cache' = [cache EXCEPT ![o.apex] = Len(heap')]
          /\ current' = Len(heap')
          /\ screen' = Rendered(o, screen)
          /\ url' = o.apex
    /\ ReadGoes(r, Idle)
    /\ UNCHANGED catalogVars

\* Faulty: the pager comes back with a page only.
StillLoading == TRUE

Loading == FALSE

\* An object at the page that was read.
Turned(o, read) ==
    LET page == read.page
        entry == read.entry
    IN [o EXCEPT !.rows = page.rows, !.cursor = read.cursor, !.next = page.next,
                 !.start = entry.start + Len(entry.rows), !.back = Append(@, entry),
                 !.total = page.total, !.loading = FALSE]

\* The object it is put into is the current one by now.
PageArrives(r) ==
    /\ reads[r].pc = "answered" /\ reads[r].kind = "next"
    /\ heap' = [heap EXCEPT ![current] = Turned(@, reads[r])]
    /\ screen' = Painted(heap'[current], screen)
    /\ ReadGoes(r, Idle)
    /\ UNCHANGED <<catalogVars, cache, current, url>>

\* Refused, or not answered in time.
ReadFails(r) ==
    /\ reads[r] # Idle
    /\ \/ /\ reads[r].kind = "search"
          /\ screen' = [screen EXCEPT !.shown = FALSE, !.busy = FALSE]
          /\ UNCHANGED heap
       \/ /\ reads[r].kind = "next"
          /\ heap' = [heap EXCEPT ![current].loading = Loading]
          /\ UNCHANGED screen
    /\ ReadGoes(r, Idle)
    /\ UNCHANGED <<catalogVars, cache, current, url>>
-----------------------------------------------------------------------------
(* The catalog *)

BecomesActive(cat) ==
    /\ version < MaxChanges
    /\ catalog' = cat /\ layout' = Layout(cat)
    /\ before' = catalog
    /\ version' = version + 1
    /\ changed' = [a \in Apex |-> [n \in Name |->
                     IF cat[a][n] = catalog[a][n] THEN changed[a][n] ELSE version + 1]]
    /\ UNCHANGED <<heap, cache, current, screen, url, reads>>

\* A generation adds names, and earlier dates of names.
Publishes ==
    \E a \in Apex, n \in Name : \E date \in 0..(catalog[a][n] - 1) :
        BecomesActive([catalog EXCEPT ![a][n] = date])

\* A rollback.
Withdraws == before # catalog /\ BecomesActive(before)
-----------------------------------------------------------------------------
ReadStep(r) == Answers(r) \/ SearchArrives(r) \/ PageArrives(r) \/ ReadFails(r)

Next ==
    \/ \E r \in Read :
         \/ \E a \in Apex : Searches(a, r) \/ PopsTo(a, r)
         \/ TurnsPage(r) \/ ReadStep(r)
    \/ PopsToNone \/ OpensShelf \/ ClosesShelf \/ TurnsBack
    \/ Publishes \/ Withdraws

Spec == Init /\ [][Next]_vars

\* A read is answered or times out (FETCH_TIMEOUT_MS).
LiveSpec == Spec /\ \A r \in Read : WF_vars(ReadStep(r))
-----------------------------------------------------------------------------
(* Properties *)

\* What is shown is the record of the apex that heading and location name, whichever
\* order searches, answers, the cache and the back button come in: "A back step that
\* changes the result must not leave the shelf up over it, holding the rows of the
\* domain you just left" (app.js).
ScreenIsConsistent ==
    (screen.shown \/ screen.open) /\ ~screen.busy =>
        /\ current # 0
        /\ heap[current].apex = screen.heading /\ url = screen.heading
        /\ screen.rows = heap[current].rows
        /\ \A i \in DOMAIN screen.rows : screen.rows[i].apex = screen.heading

\* The pages of an object up to the one it is at, and the places of their rows.
RowsAt(o, j) == IF j \in DOMAIN o.back THEN o.back[j].rows ELSE o.rows

Walked(o) == UNION {{j} \X DOMAIN RowsAt(o, j) : j \in 1..(Len(o.back) + 1)}

\* Of the names that have not changed since the first page of a record was read, the
\* pages turned so far show each one up to their end once and no other, and the
\* last page leaves none out: neither publications nor rollbacks between two pages
\* shift what a cursor skips or repeats (pageRecords, nextPage, previousPage).
Steady(o) == {n \in NamesOf(catalog, o.apex) : changed[o.apex][n] <= o.since}

Reached(o, n) == o.next = NoCursor \/ ~Earlier(o.next, RowOf(o.apex, n))

PagesShowSteadyNamesOnce ==
    \A k \in DOMAIN heap :
        LET o == heap[k] IN
        /\ o.start = Cardinality({p \in Walked(o) : p[1] <= Len(o.back)})
        /\ \A n \in Steady(o) :
             Cardinality({p \in Walked(o) : RowsAt(o, p[1])[p[2]].name = n})
                 = IF Reached(o, n) THEN 1 ELSE 0

\* The pager of a record comes back, whether its read is answered, refused or times
\* out (finally of nextPage).
PagerComesBack ==
    \A k \in 1..MaxSearches :
        (k \in DOMAIN heap /\ heap[k].loading) ~> (k \in DOMAIN heap /\ ~heap[k].loading)
=============================================================================
