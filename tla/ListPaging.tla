----------------------------- MODULE ListPaging -----------------------------
(***************************************************************************)
(* GET /proxy/list and a reader that pages through it.  One call of        *)
(* list_filtered_proxies counts the rows its SQL filters keep, reads one   *)
(* page of them, and applies the text query to that page alone.  The reader*)
(* (ProxiesPage.tsx) turns to the next page as long as the last total says *)
(* there is one, and back from a page that came out empty.  Between two    *)
(* statements others change the table.                                     *)
(***************************************************************************)
EXTENDS Naturals, Sequences, FiniteSets

CONSTANTS
    ProxyId,
    Limit,      \* rows per page
    Query,      \* whether the reader gives a text query
    Changes     \* bound: changes of the table during one walk

ASSUME PagingAssumption ==
    /\ IsFiniteSet(ProxyId)
    /\ Limit \in Nat \ {0}
    /\ Query \in BOOLEAN
    /\ Changes \in Nat

VARIABLES
    rows,     \* the rows the SQL filters keep, ORDER BY score DESC, id
    named,    \* the proxies whose host or id contains the query
    reader,   \* the call under way and where the walk is
    shown,    \* history: what the reader last saw of each page, by its offset
    steady,   \* history: the proxies that kept their place in the list all along
    changed   \* how often the table has changed

vars == <<rows, named, reader, shown, steady, changed>>

\* The lists of distinct rows of S.
Orders(S) == {s \in [1..Cardinality(S) -> S] : \A i, j \in DOMAIN s : s[i] = s[j] => i = j}
Lists == UNION {Orders(S) : S \in SUBSET ProxyId}
Listed(list) == {list[i] : i \in DOMAIN list}
Offsets == {Limit * i : i \in 0..Cardinality(ProxyId)}

Init ==
    /\ rows \in Lists
    /\ named \in SUBSET ProxyId
    /\ reader = [pc |-> "count", offset |-> 0, total |-> 0, items |-> <<>>]
    /\ shown = [o \in Offsets |-> <<>>]
    /\ steady = Listed(rows)
    /\ changed = 0

Named(p) == p \in named

\* The text query, over rows that were already read.
Matching(list) == IF Query THEN SelectSeq(list, Named) ELSE list

\* SELECT COUNT(*)
Count ==
    /\ reader.pc = "count"
    /\ reader' = [reader EXCEPT !.pc = "page", !.total = Len(rows)]
    /\ UNCHANGED <<rows, named, shown, steady, changed>>

Window(first, list) ==
    SubSeq(list, first + 1, IF first + Limit < Len(list) THEN first + Limit ELSE Len(list))

\* Mutant: the offset counts pages instead of rows.
MutPageOffsetInPages ==
    /\ reader.pc = "page"
    /\ reader' = [reader EXCEPT !.pc = "answered",
                    !.items = Matching(Window(reader.offset \div Limit, rows))]
    /\ UNCHANGED <<rows, named, shown, steady, changed>>

\* SELECT ... LIMIT ? OFFSET ?, then the text query over the page, and a new
\* total when the page came out short.
Page ==
    LET items == Matching(Window(reader.offset, rows))
        short == Len(items) < (IF reader.offset = 0 THEN Limit ELSE Limit + reader.offset)
    IN  /\ reader.pc = "page"
        /\ reader' = [reader EXCEPT !.pc = "answered", !.items = items,
                        !.total = IF Query /\ short THEN Len(items) + reader.offset ELSE @]
        /\ UNCHANGED <<rows, named, shown, steady, changed>>

\* The page is shown, unless it is empty and not the only one: then the
\* reader is sent back a page.
BeyondEnd == reader.items = <<>> /\ reader.total > 0 /\ reader.offset > 0

GoTo(offset) == reader' = [reader EXCEPT !.pc = "count", !.offset = offset, !.items = <<>>]

StepBack ==
    /\ reader.pc = "answered"
    /\ BeyondEnd
    /\ GoTo(reader.offset - Limit)
    /\ UNCHANGED <<rows, named, shown, steady, changed>>

\* There is a next page when page < ceil(total / PAGE_SIZE).
Turn ==
    /\ reader.pc = "answered"
    /\ ~BeyondEnd
    /\ shown' = [shown EXCEPT ![reader.offset] = reader.items]
    /\ IF reader.offset + Limit < reader.total
       THEN GoTo(reader.offset + Limit)
       ELSE reader' = [reader EXCEPT !.pc = "done", !.items = <<>>]
    /\ UNCHANGED <<rows, named, steady, changed>>

\* Feeds, jobs, reports and deletes add, drop and reorder rows.
Change ==
    /\ changed < Changes
    /\ reader.pc # "done"
    /\ rows' \in Lists \ {rows}
    /\ steady' = {p \in steady : \E i \in DOMAIN rows \cap DOMAIN rows' : rows[i] = p /\ rows'[i] = p}
    /\ changed' = changed + 1
    /\ UNCHANGED <<named, reader, shown>>

Next == Count \/ Page \/ StepBack \/ Turn \/ Change

Spec == Init /\ [][Next]_vars

-----------------------------------------------------------------------------
\* Properties

\* Without a text query a walk shows every proxy that kept its place in the
\* list exactly once, whatever happens to the others between its statements
\* (count and page are two statements, pages are separate calls).
SteadyShownOnce ==
    reader.pc = "done" /\ ~Query =>
        \A p \in steady : \E o \in Offsets :
            /\ Cardinality({i \in DOMAIN shown[o] : shown[o][i] = p}) = 1
            /\ \A other \in Offsets \ {o} : p \notin Listed(shown[other])

\* storage/sqlite_store.py:289, "Re-count after text filter for accuracy": on
\* a table that does not change the total is the number of matching rows.
TotalCountsMatches ==
    reader.pc = "answered" /\ changed = 0 => reader.total = Len(Matching(rows))
=============================================================================
