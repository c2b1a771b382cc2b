---------------------------- MODULE DashboardApi ----------------------------
(***************************************************************************)
(* createDashboardApiClient: what each of its operations asks the server   *)
(* for, what it does with the answer or with a 404, the cache of proxies it*)
(* keeps, and the mock store it answers from in mock mode and where the    *)
(* server has no endpoint.  The server is modelled from what the client    *)
(* uses of it: a store that one request at a time reads or changes.        *)
(***************************************************************************)
EXTENDS FetchJson, DashboardDerive

CONSTANTS
    Setting,    \* values of the settings form
    Imported,   \* the proxies behind the URL an admin submits
    Token,      \* session cookies the server can issue, as 1..n
    PageSize,   \* rows on a page of any list
    SnapshotLimit, \* LIVE_PROXY_SNAPSHOT_LIMIT: rows of a universe
    MockStore   \* what the mock store starts with

ASSUME ApiAssumption ==
    /\ PageSize \in Nat \ {0} /\ SnapshotLimit \in Nat \ {0} /\ 0 \notin Token
    /\ Imported \subseteq Proxy /\ IsFiniteSet(Imported) /\ Imported # {}
    /\ \A p \in Imported : Source(p) = "submitted"

VARIABLES
    env,      \* the build and the server it talks to; never changes
    srv,      \* the server's store
    mock,     \* mock-data.ts: the mock store
    cache,    \* proxyCache: the ids it holds
    cookie,   \* the session cookie in the browser, 0 for none
    strays    \* requests whose call has ended and that the server may still get

apiVars == <<calls, env, srv, mock, cache, cookie, strays>>

Live == env.mode = "live"
\* What changes the server; a login the client has given up on leaves no cookie.
Mutations == {"delete", "import", "patch", "logout"}

ApiTypeOK ==
    /\ FetchTypeOK
    /\ env.mode \in {"live", "mock"}
    /\ \A store \in {srv, mock} :
        /\ ToSet(store.proxies) \subseteq Proxy
        /\ store.settings \in Setting
        /\ store.tokens \subseteq Token
        /\ store.submitted \in BOOLEAN
    /\ cache \subseteq Proxy
    /\ cookie \in Token \cup {0}
    /\ \A c \in strays : c.phase = "sent" /\ c.req.op \in Mutations

-----------------------------------------------------------------------------
\* What a store answers and what is left of it.

Ok(fields) == Over([status |-> 200], fields)

Slice(list, page, at) ==
    [status |-> 200, items |-> PageOf(list, page, PageSize), total |-> Len(list), page |-> page, at |-> at]

\* The names in a list of providers.  The server's has the sources it has fetched
\* or was given, more than there are rows of; a derived one has those of the rows.
Names(list) == {list[i].name : i \in DOMAIN list}
Submitted(store, at) == IF at = "srv" /\ store.submitted THEN {"submitted"} ELSE {}

\* The order of the server's list: the best score first, then by id.
BestFirst(rows) ==
    Sorted(rows, LAMBDA p, q : \/ RowOf[p].score > RowOf[q].score
                               \/ RowOf[p].score = RowOf[q].score /\ RowOf[p].id < RowOf[q].id)

\* loadLiveProxyUniverse: the client's picture of the pool is its best rows; the mock
\* store knows all of its own.
Universe(store, at) ==
    IF at = "srv" THEN PageOf(BestFirst(store.proxies), 1, SnapshotLimit) ELSE store.proxies

\* The server searches the page it has fetched, and takes what is left, with the
\* rows before the page, for the total.
Searched(rows, filter, page) ==
    LET all == BestFirst(Filtered(rows, LAMBDA p : Passes(p, [filter EXCEPT !.named = Null])))
        found == Filtered(PageOf(all, page, PageSize), LAMBDA p : Passes(p, filter))
        offset == (page - 1) * PageSize
    IN  [Slice(all, page, "srv") EXCEPT
            !.items = found,
            !.total = IF filter.named # Null /\ Len(found) < PageSize + offset
                      THEN Len(found) + offset ELSE @]

\* `at' names the store: "srv" or "mock".  The operations on proxies:
ProxyAnswer(req, store, at) ==
    CASE req.op = "list" ->
            Over([filter |-> req.filter],
                 IF at = "srv" THEN Searched(store.proxies, req.filter, req.page)
                 ELSE Slice(filterAndSortProxies(store.proxies, req.filter), req.page, at))
      [] req.op = "options" -> Ok([rows |-> Universe(store, at)])
      [] req.op = "detail" ->
            IF req.proxy \in ToSet(store.proxies) THEN Ok([proxy |-> req.proxy])
            ELSE [status |-> IF at = "srv" THEN 404 ELSE 0]
      [] req.op = "delete" ->
            IF req.proxy \in ToSet(store.proxies) THEN Ok([deleted |-> TRUE])
            ELSE IF at = "srv" THEN [status |-> 404] ELSE Ok([deleted |-> FALSE])

\* The summaries of them: the server's own are of all rows, those the client derives
\* of its universe.
SummaryAnswer(req, store, at) ==
    CASE req.op = "geo" ->
            [status |-> 200, rows |-> store.proxies,
             geo |-> normalizeGeoSummary(deriveGeoSummary(store.proxies),
                                         at = "mock" \/ env.covered)]
      [] req.op = "geoUniverse" ->
            [status |-> 200, rows |-> Universe(store, at), geo |-> deriveGeoSummary(Universe(store, at))]
      [] req.op = "providers" ->
            [status |-> 200, rows |-> store.proxies, list |-> deriveProviderSummaries(store.proxies),
             more |-> Submitted(store, at)]
      [] req.op = "providersUniverse" ->
            [status |-> 200, rows |-> Universe(store, at),
             list |-> deriveProviderSummaries(Universe(store, at)), more |-> {}]

\* The lists of jobs and events.  One call of the validation page stands for all
\* three of its Promise.all.
PagedAnswer(req, store, at) ==
    IF req.op = "events" THEN Slice(store.events, req.page, at)
    ELSE LET jobs == IF "jobs" \in env.missing THEN mock.jobs ELSE store.jobs
             events == IF "events" \in env.missing THEN mock.events ELSE store.events
         IN  Over([events |-> events], Slice(jobs, req.page, at))

SettingsAnswer(req, store, at) ==
    Ok([value |-> IF req.op = "patch" THEN req.value ELSE store.settings, at |-> at])

\* What a URL brings: an adapter subscription has no proxy that can be used directly.
Brought(req) == IF req.direct THEN Imported ELSE {}

\* The server counts the proxies it has written, the mock store those that are new.
ImportAnswer(req, store, at) ==
    Ok([stored |-> Cardinality(IF at = "srv" THEN Brought(req)
                               ELSE Brought(req) \ ToSet(store.proxies))])

Answer(req, store, at) ==
    CASE req.op \in {"list", "options", "detail", "delete"} -> ProxyAnswer(req, store, at)
      [] req.op \in {"geo", "geoUniverse", "providers", "providersUniverse"} ->
            SummaryAnswer(req, store, at)
      [] req.op \in {"events", "validation"} -> PagedAnswer(req, store, at)
      [] req.op \in {"settings", "patch"} -> SettingsAnswer(req, store, at)
      [] req.op = "import" -> ImportAnswer(req, store, at)
      [] OTHER -> Ok([at |-> at])

Without(list, p) == Filtered(list, LAMBDA q : q # p)

\* The imported proxies a store does not have come first.
WithImported(req, list) == SetToSeq(Brought(req) \ ToSet(list)) \o list

After(req, store) ==
    CASE req.op = "delete" -> [store EXCEPT !.proxies = Without(@, req.proxy)]
      [] req.op = "import" ->
            [store EXCEPT !.proxies = WithImported(req, @), !.submitted = TRUE]
      [] req.op = "patch" -> [store EXCEPT !.settings = req.value]
      [] OTHER -> store

-----------------------------------------------------------------------------
\* The server.

SignedIn(c) == c.cookie \in srv.tokens
Open == {"session", "login", "logout"}
Admitted(c) == ~env.auth \/ c.req.op \in Open \/ SignedIn(c)

Session(c) ==
    [status |-> 200, enabled |-> env.auth, authenticated |-> env.auth /\ SignedIn(c)]

\* POST /auth/login issues a token, POST /auth/logout deletes the one it came with.
Serve(s) ==
    LET c == calls[s]
        Reply(r) == calls' = [calls EXCEPT ![s].phase = "replied", ![s].reply = r]
    IN
    /\ c.phase = "sent"
    /\ \/ c.req.op = "session" /\ Reply(Session(c)) /\ UNCHANGED srv
       \/ c.req.op = "login" /\ ~c.req.right /\ Reply([status |-> 401]) /\ UNCHANGED srv
       \/ /\ c.req.op = "login" /\ c.req.right
          /\ \E token \in Token \ srv.issued :
                /\ \A t \in Token \ srv.issued : token <= t
                /\ Reply(Ok([enabled |-> TRUE, authenticated |-> TRUE, token |-> token]))
                /\ srv' = [srv EXCEPT !.tokens = @ \cup {token}, !.issued = @ \cup {token}]
       \/ /\ c.req.op = "logout"
          /\ Reply(Ok([enabled |-> env.auth, authenticated |-> FALSE]))
          /\ srv' = [srv EXCEPT !.tokens = @ \ {c.cookie}]
       \/ /\ c.req.op \notin Open
          /\ IF ~Admitted(c) THEN Reply([status |-> 401]) /\ UNCHANGED srv
             ELSE IF c.req.op \in env.missing THEN Reply([status |-> 404]) /\ UNCHANGED srv
             ELSE Reply(Answer(c.req, srv, "srv")) /\ srv' = After(c.req, srv)
    /\ UNCHANGED <<env, mock, cache, cookie, strays>>

\* The response's headers: the race is won, and the browser keeps its Set-Cookie.
HeadersArrive(s) ==
    LET c == calls[s]
    IN
    /\ c.phase = "replied"
    /\ calls' = [calls EXCEPT ![s].phase = "reading"]
    /\ cookie' = IF c.req.op = "logout" THEN 0
                 ELSE IF c.req.op = "login" /\ c.reply.status = 200 THEN c.reply.token
                 ELSE cookie
    /\ UNCHANGED <<env, srv, mock, cache, strays>>

\* A request the client has given up on reaches the server.
ServeStray(c) ==
    /\ c \in strays
    /\ strays' = strays \ {c}
    /\ srv' = IF c.req.op = "logout" THEN [srv EXCEPT !.tokens = @ \ {c.cookie}]
              ELSE IF Admitted(c) /\ c.req.op \notin env.missing THEN After(c.req, srv) ELSE srv
    /\ UNCHANGED <<calls, env, mock, cache, cookie>>

-----------------------------------------------------------------------------
\* The client's operations.

\* In mock mode the answer is computed, and the mock store changed, at the call.
Calling(req) ==
    IF Live THEN Fetching(req, cookie) ELSE Delayed(req, Answer(req, mock, "mock"))
MockAfter(req) == IF Live THEN mock ELSE After(req, mock)

Fallback == {"geo", "providers", "events", "settings", "patch"}

\* Mutant: any answer that is an error falls back.
MutFallsBack(c, r) == Live /\ c.req.op \in Fallback /\ r.status \notin {0, 200}

FallsBack(c, r) == Live /\ c.req.op \in Fallback /\ r.status = 404

\* The second step of an operation whose endpoint the server does not have: the
\* universe of proxies, or the mock store.
FallBack(s) ==
    LET req == calls[s].req
        answer == Answer(req, IF req.op = "patch" THEN After(req, mock) ELSE mock, "mock")
    IN
    /\ calls[s].phase = "reading"
    /\ FallsBack(calls[s], calls[s].reply)
    /\ calls' = [calls EXCEPT ![s] =
                    CASE req.op = "geo" -> Fetching([op |-> "geoUniverse"], cookie)
                      [] req.op = "providers" -> Fetching([op |-> "providersUniverse"], cookie)
                      [] OTHER -> Delayed(req, answer)]
    /\ mock' = IF req.op = "patch" THEN After(req, mock) ELSE mock
    /\ UNCHANGED <<env, srv, cache, cookie, strays>>

\* getProxy answers the cached proxy whatever went wrong.
FromCache(c, r) ==
    IF Live /\ c.req.op = "detail" /\ r.status # 200 /\ c.req.proxy \in cache
    THEN Ok([proxy |-> c.req.proxy]) ELSE r

\* What the operation in a slot can settle with: a rejection has a status other
\* than 200.
Results(s) ==
    {FromCache(calls[s], r) : r \in {o \in Outcomes(calls[s]) : ~FallsBack(calls[s], o)}}

CacheAfter(req, r) ==
    IF ~Live \/ r.status # 200 THEN cache
    ELSE CASE req.op = "list" -> cache \cup ToSet(r.items)
           [] req.op \in {"options", "geoUniverse", "providersUniverse"} ->
                    cache \cup ToSet(r.rows)
           [] req.op = "detail" -> cache \cup {r.proxy}
           [] req.op = "delete" -> cache \ {req.proxy}
           [] OTHER -> cache

\* Calls are replaced, and with them forgotten; a mutation the server has not
\* seen yet may get there all the same.
Unserved(c) == c.phase = "sent" /\ c.req.op \in Mutations
Replace(news) ==
    /\ calls' = Over(news, calls)
    /\ strays' = strays \cup {[calls[s] EXCEPT !.age = 0] :
                    s \in {t \in DOMAIN news : Unserved(calls[t])}}

\* The await in slot s ends with r, and the code after it replaces some calls,
\* this one among them.
Settle(s, r, news) ==
    /\ Busy(s)
    /\ r \in Results(s)
    /\ Replace(news)
    /\ cache' = CacheAfter(calls[s].req, r)
    /\ UNCHANGED <<env, srv, mock, cookie>>

\* The page calls an operation.
Call(s, req) ==
    /\ calls' = [calls EXCEPT ![s] = Calling(req)]
    /\ mock' = MockAfter(req)
    /\ UNCHANGED <<env, srv, cache, cookie, strays>>
=============================================================================
