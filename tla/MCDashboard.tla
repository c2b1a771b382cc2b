----------------------------- MODULE MCDashboard -----------------------------
(* Instances of DashboardApp for TLC: rows, and where behaviours start. *)
EXTENDS DashboardApp

MCProxy == {"p1", "p2", "p3", "p4"}

Row(id, country, asn, source, status, latency, score, checkedAt, successAt, error) ==
    [id |-> id, country |-> country, asn |-> asn, source |-> source, status |-> status,
     latency |-> latency, score |-> score, checkedAt |-> checkedAt,
     successAt |-> successAt, error |-> error]

\* p2 is as good as p3 but was checked earlier; p4 is what an import brings.
MCRowOf ==
    [p1 |-> Row(1, "US", "AS1", "list", "elite", 10, 9, 5, 5, Null),
     p2 |-> Row(2, "US", "AS2", "list", "checked", Null, 7, Null, 3, "refused"),
     p3 |-> Row(3, "SG", "AS1", "file", "dead", 35, 7, 4, Null, "timeout"),
     p4 |-> Row(4, Null, Null, "submitted", "raw", Null, 0, Null, Null, Null)]

MCImported == {"p4"}
MCSetting == {"old", "new"}
MCToken == {1, 2}
MCSlot == AppSlots \cup {"read", "late", "options", "detail", "detail2", "write"}

\* A country, and a text that none of its rows on the page has.
US == [defaultFilters EXCEPT !.fields = [country |-> "US"]]
MCFilter == {defaultFilters, US, [US EXCEPT !.named = {"p3"}]}

Event(type, level) == [type |-> type, level |-> level]
Log == <<Event("timeout", "warning"), Event("deleted", "info"), Event("fetch", "error")>>

Store(proxies) ==
    [proxies |-> proxies, settings |-> "old", submitted |-> FALSE,
     events |-> Log, jobs |-> <<1, 2>>, tokens |-> {}, issued |-> {}]
MCMockStore == Store(<<"p1", "p3">>)

\* doc: what the documentation page renders.
Env(mode, missing) ==
    [mode |-> mode, missing |-> missing, strict |-> FALSE, auth |-> FALSE, covered |-> TRUE,
     doc |-> <<>>]
Plain == Env("live", {})
Mock == Env("mock", {})
Older == Env("live", {"geo", "providers", "events", "jobs", "settings", "patch"})
Builds == {Plain, Mock, Older}

\* The snapshots a summary is made of: up to three of the rows, in any order.
Snapshots == {s \in UNION {[1..n -> MCProxy] : n \in 0..3} :
                \A i, j \in DOMAIN s : s[i] = s[j] => i = j}

Start(env_, route, proxies, acts, world, hashes) ==
    [env |-> env_, route |-> route, store |-> Store(proxies),
     spent |-> [acts |-> MaxActs - acts, world |-> MaxWorld - world, hashes |-> hashes]]

Overviews ==
    {Start(e, "overview", <<>>, 1, 0, {"doc"}) : e \in {Plain, Mock, [Plain EXCEPT !.strict = TRUE]}}
\* In mock mode the server's rows do not matter.
Geos ==
    {Start(e, "geo", s, 1, 0, {}) : e \in {Plain, Older, [Plain EXCEPT !.covered = FALSE]},
                                    s \in Snapshots}
        \cup {Start(Mock, "geo", <<>>, 2, 0, {})}
Lists ==
    {Start(e, route, <<>>, 3, 1, {}) : e \in Builds, route \in {"logs", "validation"}}
Providers ==
    {Start(e, "providers", s, 1, 0, {}) : e \in {Plain, Older}, s \in Snapshots}
        \cup {Start(e, "providers", <<"p2", "p3">>, 3, 0, {}) : e \in Builds}
Forms == {Start(e, "settings", <<>>, 5, 0, {"settings", "doc"}) : e \in Builds}
Docs ==
    {Start([Plain EXCEPT !.doc = doc], "doc", <<>>, 0, 0, {}) :
        doc \in UNION {[1..n -> LineKind] : n \in 0..3}}
        \cup {Start(Plain, "doc", <<>>, 2, 0, {"doc", "elsewhere"})}
Logins == {Start([Plain EXCEPT !.auth = TRUE], "logs", <<>>, 4, 1, {})}
Pools(acts, world, hashes) ==
    {Start(e, "proxies", <<"p1", "p3">>, acts, world, hashes) : e \in {Plain, Mock}}

MCStarts ==
    Overviews \cup Geos \cup Lists \cup Providers \cup Forms \cup Docs \cup Logins
        \cup Pools(5, 0, {}) \cup Pools(3, 1, {"doc", "proxies"})
=============================================================================
