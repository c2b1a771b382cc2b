------------------------------ MODULE GeoPage ------------------------------
(***************************************************************************)
(* GeoPage.tsx: one load with a guard of its own, and two tables paged in  *)
(* the browser.  Where the server has no summary endpoint the load takes a *)
(* second call, each with a timeout of its own, and derives the summary.   *)
(***************************************************************************)
EXTENDS DashboardView

\* seen, derived: history, the rows behind the summary and where it came from.
GeoFirst ==
    [page |-> "geo", data |-> Null, error |-> FALSE, loading |-> TRUE, guard |-> 0,
     countryPage |-> 1, asnPage |-> 1, seen |-> <<>>, derived |-> FALSE]
GeoCalls == [read |-> [op |-> "geo"]]

GeoCleared == GuardTicks + 1

\* Mutant: the guard is not cleared when the load settles.
MutGeoSettled(v, r) ==
    IF r.status = 200
    THEN [v EXCEPT !.data = r.geo, !.seen = r.rows, !.derived = Holds("read", "geoUniverse"),
                   !.loading = FALSE]
    ELSE [v EXCEPT !.error = TRUE, !.loading = FALSE]

\* A success sets no error back.
GeoSettled(v, r) ==
    IF r.status = 200
    THEN [v EXCEPT !.data = r.geo, !.seen = r.rows, !.derived = Holds("read", "geoUniverse"),
                   !.loading = FALSE, !.guard = GeoCleared]
    ELSE [v EXCEPT !.error = TRUE, !.loading = FALSE, !.guard = GeoCleared]

GeoLoads ==
    /\ At("geo")
    /\ \E r \in Results("read") :
        /\ Settle("read", r, Ended("read"))
        /\ view' = GeoSettled(view, r)
    /\ UNCHANGED <<auth, spent>>

GeoGuardFires ==
    /\ At("geo") /\ GuardDue
    /\ view' = [view EXCEPT !.guard = GeoCleared, !.error = TRUE, !.loading = FALSE]
    /\ UNCHANGED <<apiVars, auth, spent>>

GeoShows ==
    IF view.loading THEN "loading" ELSE IF view.error THEN "error"
    ELSE IF view.data = Null THEN "noData" ELSE "data"

\* PaginationControls under each table.
TurnCountries(page) ==
    /\ At("geo") /\ GeoShows = "data"
    /\ page \in Neighbours(view.countryPage, Len(view.data.countries), PageSize)
    /\ Act
    /\ view' = [view EXCEPT !.countryPage = page]
    /\ UNCHANGED <<apiVars, auth>>

TurnAsns(page) ==
    /\ At("geo") /\ GeoShows = "data"
    /\ page \in Neighbours(view.asnPage, Len(view.data.asns), PageSize)
    /\ Act
    /\ view' = [view EXCEPT !.asnPage = page]
    /\ UNCHANGED <<apiVars, auth>>

GeoNext ==
    \/ GeoLoads
    \/ GeoGuardFires
    \/ \E page \in 1..Cardinality(Proxy) : TurnCountries(page) \/ TurnAsns(page)

\* The latency panel: the tables of the five fastest and the five slowest groups.
Fastest(geo) == PageOf(buildLatencyGroups(geo), 1, 5)
Slowest(geo) == PageOf(Reverse(buildLatencyGroups(geo)), 1, 5)

-----------------------------------------------------------------------------
\* The guard is longer than one call may take: it can only go off while the load
\* is in the second call of its fallback.
GuardOnlyInFallback ==
    At("geo") /\ view.error /\ Busy("read") => Holds("read", "geoUniverse")

\* A summary the endpoint has answered is shown.  (One that was derived may have
\* come after the guard, whose error nothing takes back.)
AnswerIsShown ==
    At("geo") /\ view.data # Null /\ ~view.derived => GeoShows = "data"

\* What is shown adds up and agrees with the rows it was made from: each country
\* and ASN once, with all its rows and no others, the largest first, a mean that
\* lies between its latencies, and no more tagged proxies than there are.
Agrees(list, rows, Key(_)) ==
    /\ \A p \in ToSet(rows) : Key(p) # Null =>
            Cardinality({i \in DOMAIN list : list[i].name = Key(p)}) = 1
    /\ \A i \in DOMAIN list :
        LET own == {p \in ToSet(rows) : Key(p) = list[i].name}
            latencies == {Latency(p) : p \in own} \ {Null}
        IN  /\ list[i].total = Cardinality(own) /\ own # {}
            /\ list[i].elite = Cardinality({p \in own : Status(p) = "elite"})
            /\ list[i].latency = Null <=> latencies = {}
            /\ latencies # {} => /\ list[i].latency <= Max(latencies)
                                 /\ list[i].latency >= Min(latencies)
            /\ i > 1 => list[i].total <= list[i - 1].total

GeoAddsUp ==
    At("geo") /\ view.data # Null =>
        LET fast == Fastest(view.data)
            slow == Slowest(view.data)
        IN
        /\ Agrees(view.data.countries, view.seen, Country)
        /\ Agrees(view.data.asns, view.seen, Asn)
        /\ view.data.coverage.total = view.data.coverage.tagged + view.data.coverage.unresolved
        /\ Total(view.data.countries, LAMBDA c : c.total) <= view.data.coverage.tagged
        /\ Len(fast) = Len(slow)
        /\ \A i \in DOMAIN fast : fast[1].latency <= fast[i].latency
        /\ \A j \in DOMAIN slow : slow[1].latency >= slow[j].latency
=============================================================================
