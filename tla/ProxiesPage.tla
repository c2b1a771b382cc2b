---------------------------- MODULE ProxiesPage ----------------------------
(***************************************************************************)
(* ProxiesPage.tsx: the list with its filters and pager, the drawer with   *)
(* the detail of a proxy, and the dialog that deletes one and loads the    *)
(* list again.  The load of the list is cancelled by the next one; those of*)
(* the drawer and of the dialog are not.                                   *)
(***************************************************************************)
EXTENDS DashboardView

CONSTANT Filter   \* the settings of the filter bar in this instance

\* touched: the filter is an object other than defaultFilters, whatever its fields.
\* closure: the filter, page and selected proxy that confirmDelete has captured.
\* drawer.opened, drawer.awaited, dismissed, gone: history.  The proxy of the click
\* that opened the drawer, and those whose details were on their way at it; the
\* dialog was closed over a delete that was; the proxies whose delete was answered.
\* closure.back: history, those an import that was given up on may bring back.
NoDrawer == [open |-> FALSE, shown |-> Null, loading |-> FALSE, opened |-> Null, awaited |-> {}]

defaultFilters == [fields |-> <<>>, minScore |-> Null, named |-> Null]

ProxiesFirst ==
    [page |-> "proxies", filter |-> defaultFilters, touched |-> FALSE, number |-> 1, data |-> NoReply,
     options |-> collectProxyFilterOptions(<<>>), loading |-> TRUE, error |-> FALSE,
     drawer |-> NoDrawer, target |-> Null, pending |-> FALSE, closure |-> Null,
     dismissed |-> FALSE, gone |-> {}]

ListReq(v) == [op |-> "list", filter |-> v.filter, page |-> v.number]
ProxiesCalls == [options |-> [op |-> "options"], read |-> ListReq(ProxiesFirst)]

\* The two overlays.
DrawerShows(d) ==
    IF ~d.open THEN [body |-> "closed", proxy |-> Null]
    ELSE [body |-> IF d.loading THEN "loading" ELSE IF d.shown = Null THEN "empty" ELSE "detail",
          proxy |-> d.shown]

DialogShows(v) == [open |-> v.target # Null, confirm |-> ~v.pending]

\* What is under an overlay cannot be clicked.
Uncovered ==
    At("proxies") /\ DrawerShows(view.drawer).body = "closed" /\ ~DialogShows(view).open

\* What is rendered below the filter bar and the pager.
ProxiesShow ==
    IF view.loading THEN "loading" ELSE IF view.error THEN "error"
    ELSE IF view.data = NoReply THEN "nothing"
    ELSE IF view.data.items = <<>> THEN "empty" ELSE "table"

\* ProxyTable: each row with the buttons that open its drawer and its dialog.
TableShown == ProxiesShow \in {"empty", "table"}
Rows == IF TableShown THEN ToSet(view.data.items) ELSE {}

\* The list effect runs again: the load under way is cancelled, and a new one
\* shows the spinner.  A cancelled load still fills the cache when it ends.
Rerun(v, number) == [v EXCEPT !.number = number, !.loading = TRUE, !.error = FALSE]
Renewed(v) ==
    Over([read |-> Calling(ListReq(v))],
         IF Busy("read") THEN [late |-> calls["read"]] ELSE NoCall)

Reload(v) ==
    /\ view' = v
    \* bound: one cancelled load at a time
    /\ Busy("read") => ~Busy("late")
    /\ Replace(Renewed(v))
    /\ UNCHANGED <<env, srv, mock, cache, cookie, auth>>

-----------------------------------------------------------------------------
\* The two effects.

OptionsLoad ==
    /\ At("proxies")
    /\ \E r \in Results("options") :
        /\ Settle("options", r, Ended("options"))
        /\ view' = IF r.status = 200
                   THEN [view EXCEPT !.options = collectProxyFilterOptions(r.rows)]
                   ELSE [view EXCEPT !.error = TRUE]
    /\ UNCHANGED <<auth, spent>>

\* The page after its load has settled.
Listed(r) ==
    IF r.status = 200 THEN [view EXCEPT !.data = r, !.loading = FALSE]
    ELSE [view EXCEPT !.error = TRUE, !.loading = FALSE]

BlankPage(r, number) == r.items = <<>> /\ r.total > 0 /\ number > 1

ProxiesLoad ==
    /\ At("proxies")
    /\ \E r \in Results("read") :
        IF r.status = 200 /\ BlankPage(r, view.number)
        THEN LET back == Rerun(view, view.number - 1)
             IN  Settle("read", r, [read |-> Calling(ListReq(back))]) /\ view' = back
        ELSE /\ Settle("read", r, Ended("read"))
             /\ view' = Listed(r)
    /\ UNCHANGED <<auth, spent>>

\* Mutant: the cleanup does not cancel the load.
MutLateLoad ==
    /\ At("proxies")
    /\ \E r \in Results("late") :
        /\ Settle("late", r, Ended("late"))
        /\ view' = Listed(r)
    /\ UNCHANGED <<auth, spent>>

\* What a cancelled load brings is dropped.
LateLoad ==
    /\ At("proxies")
    /\ \E r \in Results("late") : Settle("late", r, Ended("late"))
    /\ UNCHANGED <<auth, view, spent>>

\* ProxyFilters: one field at a time; a country or a source only of the options.
ChangedFields(f, g) ==
    {k \in {"minScore", "named"} : f[k] # g[k]}
        \cup {k \in DOMAIN f.fields \cup DOMAIN g.fields :
                ~(k \in DOMAIN f.fields \cap DOMAIN g.fields /\ f.fields[k] = g.fields[k])}

ChangeFilter(filter) ==
    LET changed == ChangedFields(view.filter, filter)
        Chosen(field, options) ==
            field \in changed \cap DOMAIN filter.fields => filter.fields[field] \in options
    IN
    /\ Uncovered
    /\ Cardinality(changed) = 1
    /\ Chosen("country", view.options.countries)
    /\ Chosen("source", view.options.sources)
    /\ Act
    /\ Reload(Rerun([view EXCEPT !.filter = filter, !.touched = TRUE], 1))

\* The effect runs again only when this changes the filter or the page.
ResetFilters ==
    /\ Uncovered
    /\ view.touched \/ view.number # 1
    /\ Act
    /\ Reload(Rerun([view EXCEPT !.filter = defaultFilters, !.touched = FALSE], 1))

\* The pager is there whatever is shown below it.
TurnPage(number) ==
    /\ Uncovered /\ ~view.loading
    /\ number \in Neighbours(view.number, IF view.data = NoReply THEN 0 ELSE view.data.total, PageSize)
    /\ Act
    /\ Reload(Rerun(view, number))

-----------------------------------------------------------------------------
\* The drawer.

Details == {"detail", "detail2"}
Awaited == {calls[s].req.proxy : s \in {d \in Details : Busy(d)}}

OpenDrawer(s, p) ==
    /\ Uncovered /\ p \in Rows
    /\ ~Busy(s)
    /\ Act
    /\ view' = [view EXCEPT !.drawer =
                    [open |-> TRUE, shown |-> p, loading |-> TRUE, opened |-> p, awaited |-> Awaited]]
    /\ Call(s, [op |-> "detail", proxy |-> p])
    /\ UNCHANGED auth

\* Mutant: an answer that comes after the drawer was closed opens it again.
MutDetailArrives(s) ==
    /\ At("proxies")
    /\ \E r \in Results(s) :
        /\ Settle(s, r, Ended(s))
        /\ view' = IF r.status = 200
                   THEN [view EXCEPT !.drawer = [@ EXCEPT !.open = TRUE, !.shown = r.proxy,
                                                          !.loading = FALSE]]
                   ELSE [view EXCEPT !.error = TRUE, !.drawer.loading = FALSE]
    /\ UNCHANGED <<auth, spent>>

\* Whatever the drawer shows by now, and whether it is open or not.
DetailArrives(s) ==
    /\ At("proxies")
    /\ \E r \in Results(s) :
        /\ Settle(s, r, Ended(s))
        /\ view' = IF r.status = 200
                   THEN [view EXCEPT !.drawer = [@ EXCEPT !.shown = r.proxy, !.loading = FALSE]]
                   ELSE [view EXCEPT !.error = TRUE, !.drawer.loading = FALSE]
    /\ UNCHANGED <<auth, spent>>

CloseDrawer ==
    /\ At("proxies") /\ DrawerShows(view.drawer).body # "closed"
    /\ Act
    /\ view' = [view EXCEPT !.drawer = NoDrawer]
    /\ UNCHANGED <<apiVars, auth>>

-----------------------------------------------------------------------------
\* The dialog.

AskDelete(p) ==
    /\ Uncovered /\ p \in Rows
    /\ Act
    /\ view' = [view EXCEPT !.target = p]
    /\ UNCHANGED <<apiVars, auth>>

\* Cancel is not disabled while the delete is pending.
CancelDelete ==
    /\ At("proxies") /\ DialogShows(view).open
    /\ Act
    /\ view' = [view EXCEPT !.target = Null, !.dismissed = @ \/ view.pending]
    /\ UNCHANGED <<apiVars, auth>>

Imports(waiting) == {c \in waiting : c.req.op = "import"}

ConfirmDelete ==
    /\ At("proxies") /\ DialogShows(view).open /\ DialogShows(view).confirm
    /\ Act
    /\ view' = [view EXCEPT !.pending = TRUE,
                    !.closure = [filter |-> view.filter, number |-> view.number,
                                 selected |-> view.drawer.shown, target |-> view.target,
                                 back |-> UNION {Brought(c.req) : c \in Imports(strays)}]]
    /\ Call("write", [op |-> "delete", proxy |-> view.target])
    /\ UNCHANGED auth

Failed(v) == [v EXCEPT !.error = TRUE, !.pending = FALSE, !.closure = Null]

\* Mutant: the dialog is closed on the answer and the list not loaded again.
MutDeleteAnswered ==
    /\ At("proxies") /\ Holds("write", "delete")
    /\ \E r \in Results("write") :
        /\ Settle("write", r, Ended("write"))
        /\ view' = IF r.status = 200 /\ r.deleted
                   THEN [view EXCEPT !.gone = @ \cup ({view.closure.target} \ view.closure.back),
                                     !.target = Null,
                                     !.pending = FALSE, !.closure = Null]
                   ELSE Failed(view)
    /\ UNCHANGED <<auth, spent>>

\* The delete was answered: close the drawer on that proxy, load the list of the
\* click again.  A failure leaves the dialog open over the error.
DeleteAnswered ==
    /\ At("proxies") /\ Holds("write", "delete")
    /\ \E r \in Results("write") :
        IF r.status = 200 /\ r.deleted
        THEN /\ Settle("write", r, [write |-> Calling(ListReq(view.closure))])
             /\ view' = [view EXCEPT !.gone = @ \cup ({view.closure.target} \ view.closure.back),
                            !.drawer = IF view.closure.selected = view.closure.target
                                       THEN NoDrawer ELSE @]
        ELSE Settle("write", r, Ended("write")) /\ view' = Failed(view)
    /\ UNCHANGED <<auth, spent>>

\* The list the dialog loaded.  Its own blank page steps the page back, from
\* whatever page it is on by now; if that changes it, the list effect runs.
ListReloaded ==
    /\ At("proxies") /\ Holds("write", "list")
    /\ \E r \in Results("write") :
        LET done == [view EXCEPT !.target = Null, !.pending = FALSE, !.closure = Null]
            back == Rerun(done, view.number - 1)
        IN  IF r.status # 200
            THEN Settle("write", r, Ended("write")) /\ view' = Failed(view)
            ELSE IF ~BlankPage(r, view.closure.number)
            THEN Settle("write", r, Ended("write")) /\ view' = [done EXCEPT !.data = r]
            ELSE IF view.number = 1
            THEN Settle("write", r, Ended("write")) /\ view' = done
            ELSE /\ Busy("read") => ~Busy("late")
                 /\ Settle("write", r, Over(Ended("write"), Renewed(back)))
                 /\ view' = back
    /\ UNCHANGED <<auth, spent>>

\* Others delete proxies and find them again.
PoolMoves ==
    /\ At("proxies")
    /\ \E p \in Proxy :
        \/ /\ p \in ToSet(srv.proxies)
           /\ World([srv EXCEPT !.proxies = Without(@, p)])
           /\ UNCHANGED view
        \/ /\ p \notin ToSet(srv.proxies) /\ p \in view.gone
           /\ World([srv EXCEPT !.proxies = Append(@, p)])
           /\ view' = [view EXCEPT !.gone = @ \ {p}]

ProxiesNext ==
    \/ OptionsLoad
    \/ ProxiesLoad
    \/ LateLoad
    \/ \E filter \in Filter : ChangeFilter(filter)
    \/ ResetFilters
    \/ \E number \in 1..Cardinality(Proxy) : TurnPage(number)
    \/ \E p \in Proxy : AskDelete(p)
    \/ \E s \in Details : DetailArrives(s) \/ \E p \in Proxy : OpenDrawer(s, p)
    \/ CloseDrawer
    \/ CancelDelete
    \/ ConfirmDelete
    \/ DeleteAnswered
    \/ ListReloaded
    \/ PoolMoves

-----------------------------------------------------------------------------
\* The table is the list its filter bar and its pager ask for, whatever loads,
\* cancelled loads and reloads came before, unless a dialog was dismissed over a
\* pending delete: its reload is of the filter and page of the click.
ListMatchesControls ==
    At("proxies") /\ TableShown /\ ~view.dismissed =>
        /\ view.data.filter = view.filter
        /\ view.data.page = view.number

\* A proxy whose delete was answered is in the table or in an open drawer no
\* more, unless the server found it again or was still to be given it by an import,
\* or its dialog was dismissed.  A drawer may still get details of it that were
\* asked for before the delete, and on their way when the drawer was opened.
DeletedIsGone ==
    At("proxies") /\ ~view.dismissed =>
        /\ view.target = Null => Rows \cap view.gone = {}
        /\ DrawerShows(view.drawer).proxy \in view.gone =>
                DrawerShows(view.drawer).proxy \in view.drawer.awaited

\* Nothing opens the drawer but a click, and it shows the proxy of that click or one
\* whose details were on their way at it: never one that was asked for later, that
\* had been answered before, or that was not asked for at all.
DrawerIsOfClick ==
    At("proxies") /\ DrawerShows(view.drawer).body # "closed" =>
        DrawerShows(view.drawer).proxy \in {view.drawer.opened} \cup view.drawer.awaited
=============================================================================
