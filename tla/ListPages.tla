----------------------------- MODULE ListPages -----------------------------
(***************************************************************************)
(* LogsPage.tsx and ValidationPage.tsx: a list the server pages, loaded    *)
(* again at each turn of the page; ProvidersPage.tsx: a list paged in the  *)
(* browser, with the form that submits a URL and loads the list again.     *)
(***************************************************************************)
EXTENDS DashboardView

-----------------------------------------------------------------------------
\* LogsPage.tsx, ValidationPage.tsx.  The validation page waits for its jobs,
\* an overview and a sample of events with one Promise.all: they are one call
\* here, which fails when one of them does.

ListOp == [logs |-> "events", validation |-> "validation"]
OnListPage == view.page \in DOMAIN ListOp

ListFirst(page) ==
    [page |-> page, number |-> 1, data |-> NoReply, error |-> FALSE, loading |-> TRUE]
ListCalls(page) == [read |-> [op |-> ListOp[page], page |-> 1]]

\* An effect that runs again: it clears the error, and its load shows a spinner.
Reloading(v, number) == [v EXCEPT !.number = number, !.loading = TRUE, !.error = FALSE]
ListCall(number) == Calling([op |-> ListOp[view.page], page |-> number])

\* A page that has become blank steps back to the one before it.
Blank(r, number) == r.items = <<>> /\ r.total > 0 /\ number > 1

\* The page after its load has settled.  (Where the load steps the page back, its
\* finally renders the old list under the new number for the one frame before the
\* effect; that frame is left out.)
ListSettled(r) ==
    IF r.status = 200 THEN [view EXCEPT !.data = r, !.loading = FALSE]
    ELSE [view EXCEPT !.error = TRUE, !.loading = FALSE]

LogsLoad ==
    /\ At("logs")
    /\ \E r \in Results("read") :
        IF r.status = 200 /\ Blank(r, view.number)
        THEN /\ Settle("read", r, [read |-> ListCall(view.number - 1)])
             /\ view' = Reloading(view, view.number - 1)
        ELSE Settle("read", r, Ended("read")) /\ view' = ListSettled(r)
    /\ UNCHANGED <<auth, spent>>

\* Mutant: the page it came from is shown although it has become blank.
MutValidationLoad ==
    /\ At("validation")
    /\ \E r \in Results("read") : Settle("read", r, Ended("read")) /\ view' = ListSettled(r)
    /\ UNCHANGED <<auth, spent>>

ValidationLoad ==
    /\ At("validation")
    /\ \E r \in Results("read") :
        IF r.status = 200 /\ Blank(r, view.number)
        THEN /\ Settle("read", r, [read |-> ListCall(view.number - 1)])
             /\ view' = Reloading(view, view.number - 1)
        ELSE Settle("read", r, Ended("read")) /\ view' = ListSettled(r)
    /\ UNCHANGED <<auth, spent>>

\* What the two pages render: the list of events, or of jobs with the error types
\* of the sample.
LogsShow ==
    IF view.loading THEN "loading" ELSE IF view.error THEN "error"
    ELSE IF view.data = NoReply \/ view.data.items = <<>> THEN "empty" ELSE "list"

ValidationShows ==
    IF view.loading THEN "loading" ELSE IF view.error THEN "error"
    ELSE IF view.data = NoReply \/ view.data.items = <<>> THEN "empty" ELSE "list"

ListShows == IF At("logs") THEN LogsShow ELSE ValidationShows

TurnListPage(number) ==
    /\ OnListPage /\ ListShows = "list"
    /\ number \in Neighbours(view.number, view.data.total, PageSize)
    /\ Act
    /\ view' = Reloading(view, number)
    /\ Call("read", [op |-> ListOp[view.page], page |-> number])
    /\ UNCHANGED auth

\* The activity log grows at its head and is pruned at its tail; jobs likewise.
LogMoves ==
    /\ OnListPage /\ view.page \notin env.missing
    /\ LET field == IF At("logs") THEN "events" ELSE "jobs"
           log == srv[field]
       IN  /\ log # <<>>
           /\ \/ Len(log) < 3 /\ World([srv EXCEPT ![field] = <<log[1]>> \o log])
              \/ World([srv EXCEPT ![field] = Front(log)])
              \/ World([srv EXCEPT ![field] = <<>>])
    /\ UNCHANGED view

\* Every warning and error of the sample once, the commonest type first.
ErrorsAreCounted(events) ==
    LET types == countErrorTypes(events)
        bad == {i \in DOMAIN events : events[i].level # "info"}
    IN  /\ Total(types, LAMBDA t : t.total) = Cardinality(bad)
        /\ \A i \in DOMAIN types :
            /\ \E j \in bad : events[j].type = types[i].type
            /\ \A j \in DOMAIN types : i < j => types[i].total >= types[j].total
                                                /\ types[i].type # types[j].type

\* A list that is shown is the page the number in its pager says, and the page
\* says there is nothing only where there is nothing.
PageIsRight ==
    OnListPage /\ ~view.loading /\ ~view.error =>
        /\ view.data.page = view.number
        /\ ListShows = "empty" => view.data.total = 0

\* The error types beside the jobs are those of the sample that is shown.
ErrorsAddUp ==
    At("validation") /\ ~view.loading /\ ~view.error => ErrorsAreCounted(view.data.events)

\* logs.liveNote: in live mode the mock entries stand in only for an endpoint the
\* server does not have, never for one that failed, was slow or wants a login.
MockOnlyWhenMissing ==
    At("logs") /\ view.data # NoReply /\ view.data.at = "mock" => ~Live \/ "events" \in env.missing

-----------------------------------------------------------------------------
\* ProvidersPage.tsx and ProviderUrlImportForm.tsx.

EmptyForm == [submitting |-> FALSE, error |-> FALSE, result |-> Null]

\* imported, crossed: history.  What the last import that was answered brought; a
\* delete that was given up on could still be served when one was submitted.
ProvidersFirst ==
    [page |-> "providers", items |-> NoReply, number |-> 1, error |-> FALSE, loading |-> TRUE,
     form |-> EmptyForm, imported |-> "nothing", crossed |-> FALSE]
ProvidersCalls == [read |-> [op |-> "providers"]]

\* The form is part of the page only while the list is shown.
ProvidersShow ==
    IF view.loading THEN "loading" ELSE IF view.error THEN "error" ELSE "list"

ListedProviders == IF view.items = NoReply THEN <<>> ELSE view.items.list

ProvidersLoad ==
    /\ At("providers")
    /\ \E r \in Results("read") :
        /\ Settle("read", r, Ended("read"))
        /\ view' = IF r.status = 200 THEN [view EXCEPT !.items = r, !.error = FALSE, !.loading = FALSE]
                   ELSE [view EXCEPT !.error = TRUE, !.loading = FALSE]
    /\ UNCHANGED <<auth, spent>>

TurnProviders(number) ==
    /\ At("providers") /\ ProvidersShow = "list" /\ ListedProviders # <<>>
    /\ number \in Neighbours(view.number, Len(ListedProviders), PageSize)
    /\ Act
    /\ view' = [view EXCEPT !.number = number]
    /\ UNCHANGED <<apiVars, auth>>

\* What the form renders; its button is enabled only when it is idle.
FormShows ==
    [status |-> IF view.form.error THEN "error"
                ELSE IF view.form.result # Null THEN "stored" ELSE "blank",
     idle |-> ~view.form.submitting]

\* handleSubmit up to its await.
SubmitImport(direct) ==
    /\ At("providers") /\ ProvidersShow = "list" /\ FormShows.idle
    /\ Act
    /\ view' = [view EXCEPT !.form.submitting = TRUE, !.form.error = FALSE,
                            !.crossed = @ \/ \E c \in strays : c.req.op = "delete"]
    /\ Call("write", [op |-> "import", direct |-> direct])
    /\ UNCHANGED auth

ImportedNow == IF calls["write"].req.direct THEN "proxies" ELSE "adapters"

\* Mutant: the form keeps its result and does not call onImported.
MutImportSettles ==
    /\ At("providers") /\ Holds("write", "import")
    /\ \E r \in Results("write") :
        /\ Settle("write", r, Ended("write"))
        /\ view' = IF r.status = 200
                   THEN [view EXCEPT !.form = [EmptyForm EXCEPT !.result = r],
                                        !.imported = ImportedNow]
                   ELSE [view EXCEPT !.form = [@ EXCEPT !.submitting = FALSE, !.error = TRUE]]
    /\ UNCHANGED <<auth, spent>>

\* setResult, then onImported: loadProviders shows the spinner in the same render,
\* the form is unmounted, and its result with it.
ImportSettles ==
    /\ At("providers") /\ Holds("write", "import")
    /\ \E r \in Results("write") :
        IF r.status = 200
        THEN /\ Settle("write", r, [write |-> Calling([op |-> "providers"])])
             /\ view' = [view EXCEPT !.form = EmptyForm, !.loading = TRUE, !.error = FALSE,
                                     !.imported = ImportedNow]
        ELSE /\ Settle("write", r, Ended("write"))
             /\ view' = [view EXCEPT !.form = [@ EXCEPT !.submitting = FALSE, !.error = TRUE]]
    /\ UNCHANGED <<auth, spent>>

\* loadProviders after its await.
ImportedLoad ==
    /\ At("providers") /\ (Holds("write", "providers") \/ Holds("write", "providersUniverse"))
    /\ \E r \in Results("write") :
        /\ Settle("write", r, Ended("write"))
        /\ view' = IF r.status = 200
                   THEN [view EXCEPT !.items = r, !.number = 1, !.loading = FALSE]
                   ELSE [view EXCEPT !.error = TRUE, !.loading = FALSE]
    /\ UNCHANGED <<auth, spent>>

\* A universe that is full, of rows none of which an imported proxy goes before.
Crowded(rows) ==
    /\ Live /\ "providers" \in env.missing /\ Len(rows) = SnapshotLimit
    /\ \A p \in ToSet(rows), q \in Imported : RowOf[p].score >= RowOf[q].score

\* Once an import was answered and the list is shown again, its source is listed,
\* unless the list is derived of a universe that better rows have filled; one that
\* brought no proxy of its own, or whose proxies a delete given up on may have
\* reached, only by a server that lists its providers.
ImportIsListed ==
    /\ At("providers") /\ ProvidersShow = "list"
    /\ \/ view.imported = "proxies" /\ ~view.crossed
       \/ view.imported # "nothing" /\ Live /\ "providers" \notin env.missing
    => "submitted" \in Names(view.items.list) \cup view.items.more \/ Crowded(view.items.rows)

\* The derived list has every source once, with all its rows, the one with most
\* valid proxies first, and an error and a time only of its own rows.
ProvidersAddUp ==
    At("providers") /\ view.items # NoReply =>
        LET list == view.items.list
            rows == view.items.rows
        IN  /\ {list[i].name : i \in DOMAIN list} = {Source(p) : p \in ToSet(rows)}
            /\ Total(list, LAMBDA s : s.fetched) = Len(rows)
            /\ \A i \in DOMAIN list :
                LET own == {p \in ToSet(rows) : Source(p) = list[i].name}
                IN  /\ list[i].fetched = Cardinality(own)
                    /\ list[i].error # Null => \E p \in own : RowOf[p].error = list[i].error
                    /\ list[i].fetchedAt # Null => \E p \in own : FetchedAt(p) = list[i].fetchedAt
                    /\ \A p \in own : FetchedAt(p) # Null => list[i].fetchedAt >= FetchedAt(p)
                    /\ i > 1 => list[i].valid <= list[i - 1].valid

\* What the list pages derive from their rows adds up to them.
DerivedAddsUp == ProvidersAddUp /\ ErrorsAddUp

ListPagesNext ==
    \/ LogsLoad
    \/ ValidationLoad
    \/ LogMoves
    \/ ProvidersLoad
    \/ \E direct \in BOOLEAN : SubmitImport(direct)
    \/ ImportSettles
    \/ ImportedLoad
    \/ \E number \in 1..Cardinality(Proxy) : TurnListPage(number) \/ TurnProviders(number)
=============================================================================
