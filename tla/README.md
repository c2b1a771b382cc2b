# Verification of proxy-pool-architect

TLA+ models of the FastAPI service under `src/app` and of the parts of its React
dashboard (`src/dashboard/src`) that keep state over time, the TLC runs that check
them, and TLAPS proofs of what matters most. Source paths below are relative to
`src/`.

`PROJECT.json` maps every definition to the lines it stands for and lists the runs,
the hazards of the code, the findings and the theorems.

## 1. The system

One Python process, one event loop, one SQLite file. Coroutines interleave at every
`await`; nothing else runs in parallel except the connection's thread, which executes
one SQL statement at a time. The dashboard is a browser client of the HTTP API.

| Component | State it keeps | Operations | Interacts with |
|---|---|---|---|
| Store (`app/storage/sqlite_store.py`) | `proxies` table, `kv_store` table, one lazy shared connection | `add_proxy`, `save_proxy`, `remove_proxy`, `delete_proxy`, listings, session binding, admin sessions | everything; one connection means one transaction for all coroutines |
| Proxy service (`services/proxy_service.py`) | none | get (with session affinity), list, report, delete | store, scoring |
| Validation (`services/validate_service.py`, `validators/`) | a semaphore per job | list raw, validate each in its own coroutine, move to the target pool | store, scoring, network |
| Cooldown (`services/cooldown_service.py`) | none | release expired rows to raw | store |
| Scoring (`services/scoring_service.py`) | none | score steps of reports and validations | — |
| Fetch (`services/fetch_service.py`, `providers/`) | provider list; a child process for the core adapter | fetch all providers, deduplicate, add to raw | store, network, runtime activity |
| URL import (`services/url_import_service.py`, `utils/proxy_text.py`, `utils/proxy_url.py`) | none | fetch a URL, extract candidates, add to raw | store, network |
| Scheduler (`core/scheduler.py`) | APScheduler jobs, `_validate_lock` | start, shutdown, refresh intervals, fetch job, validation job (scheduled or requested) | validation, cooldown, fetch, runtime activity |
| Geo (`services/geo_service.py`, `geo_enrich.py`) | prefix table in memory | longest-prefix lookup; enrichment of stored rows at start-up | store |
| Admin auth (`services/auth_service.py`, `api/auth.py`, `api/routes_auth.py`) | sessions in `kv_store` | login, logout, check of every protected route | store, clock |
| Gateway (`gateway/proxy_gateway.py`) | server socket, rotation index, two pipes per connection | CONNECT handling, upstream handshake, relay | store, network |
| Runtime activity (`services/runtime_activity_service.py`) | bounded deques of events and jobs, provider states | record, list, prune | scheduler, dashboard API |
| Dashboard API, stats, metrics (`services/dashboard_api_service.py`, ...) | none; `Settings` object shared with the scheduler | summaries, settings update | store, runtime activity, scheduler |
| Application (`main.py`) | `app.state` | start and stop of scheduler, gateway, enrichment, store | all |
| Dashboard API client (`dashboard/src/lib/api-client.ts`, `mock-data.ts`) | a proxy cache; a mock store | every operation of the pages, with a timeout, a fallback for missing endpoints and a mock mode | HTTP API, pages |
| Dashboard application (`App.tsx`, `LoginPage.tsx`, `navigation.ts`, `AppShell.tsx`) | session, route | session check, login, logout, hash routes, mounting one page at a time | API client, pages |
| Dashboard pages (`pages/*.tsx` and their components) | React state of the mounted page | load, poll, filter, page, drawer, delete, import, edit and save | API client |
| Dashboard derivations (`lib/dashboard-derive.ts`, `lib/proxy-list.ts`) | none | summaries per country, ASN and source, filter and sort | API client, mock store |

Where it is hard, and what makes each part correct:

- **Proxy table.** A "move" between pools is `remove_proxy` then `add_proxy`: four
  statements with other coroutines in between, and each writes back the whole copy
  it read earlier. Correct means: no move loses a proxy, deletes are final, nothing
  unhealthy becomes selectable, a crash costs at most what is in a coroutine's hand.
- **Life cycle of one proxy.** Three services, six score rules and two counters decide
  the pool. Correct means: a pool is only reached by the history it stands for, the
  cooldown deadline exists exactly where it should, a cooldown ends.
- **Validation jobs.** Scheduled and requested runs share a lock; the semaphore is
  built anew for each job. Correct means: the concurrency bound is global, no proxy is
  validated twice at once, a requested run ends.
- **Sessions (admin, affinity).** Check, expiry, delete and rewrite of one key are
  separate statements. Correct means: logout is final, an answered login or binding
  survives crashes, an expired entry is never used, a session stays on its proxy.
- **Listing.** A count, a page and a filter per call, a walk of many calls.
- **Gateway connection.** Two pipes, two transports and peers that end in any order.
  Correct means: what the side that ended had sent arrives, nothing stays open, the
  handler ends. Its selection with the shared rotation index is not modelled yet.
- **Dashboard.** JavaScript runs one callback at a time, but every page awaits answers
  that come late, in another order, or never; a page that is left, a filter that is
  changed, a dialog that is dismissed does not stop them. Timers of the page race the
  timeout of the call. Correct means: what is on the screen is what its controls, its
  drawer and its form ask for; a spinner ends; an error does not hide data that has
  come; the session the app believes in is the server's; summaries add up to their rows.
- **Activity log, start and stop**: pruning, ordering of callbacks. Not modelled yet
  (section 9).

## 2. Modules

| Module | Role |
|---|---|
| `ProxyRules` | pure rules: what a report, a validation, a release and an enrichment do to a row |
| `ProxyPool` | the `proxies` table and every coroutine that writes it, statement by statement |
| `MCProxyPool` | symmetry for TLC |
| `ProxyPoolProofs` | theorems about `ProxyPool` |
| `PoolLifecycle` | abstract life cycle of one proxy: which pool changes are legal |
| `ProxyHistory`, `MCProxyHistory` | the same with scores, counters, deadlines and batches; implements `PoolLifecycle` |
| `ProxyHistoryProofs` | theorems about `ProxyHistory`, the refinement among them |
| `KvStore` | the `kv_store` table: entries with a time to live, commit, rollback, clock |
| `AdminSession`, `MCAdminSession` | login, logout and the session check on `KvStore` |
| `AdminSessionProofs` | theorems about `AdminSession` |
| `SessionAffinity`, `MCSessionAffinity` | `GET /proxy?session_id=` on `KvStore` |
| `SessionAffinityProofs` | theorems about `SessionAffinity` |
| `GatewayConnection` | one CONNECT connection: answer, upstream handshake, tunnel |
| `GatewayConnectionProofs` | theorems about `GatewayConnection` |
| `ListPaging`, `MCListPaging` | `GET /proxy/list` and a reader who pages through it |
| `ListPagingProofs` | the theorem about `ListPaging` |
| `FetchJson` | one HTTP call of the dashboard with its timer |
| `DashboardDerive` | pure functions over rows: summaries, means, filter, sort, pages |
| `DashboardApi` | the API client's operations, fallbacks and cache, the mock store, the server as the client sees it |
| `DashboardView` | what the pages share: the mounted page, bounds, the page's clock |
| `OverviewPage`, `GeoPage`, `ListPages` (logs, validation, providers), `SettingsPage`, `ProxiesPage`, `DocPage` | one page each, with its properties |
| `DashboardApp` | session check, login, logout, routes; composes all of the above |
| `MCDashboard` | rows, builds and the states behaviours start from |
| `DashboardFrame` | what every step of the dashboard leaves alone, page by page: the lemmas the proofs below rest on |
| `DashboardProofs` | theorems about the pages and the session, on `DashboardApp` |

### ProxyPool

`table` is what every statement sees, `disk` the last commit. `op[t]` is the store call
of task `t`: `select`, `delete`, `commitDelete` are the three statements of
`remove_proxy` (`sqlite_store.py` 106-116), `upsert`, `commitUpsert` those of
`add_proxy`/`save_proxy` (400-426); `op[t].row` is the copy it will write. `held` is the
list a loop still has to process, `phase` the place of a job or of the enrichment.
Tasks are jobs, the coroutines a job gathers, API calls, feeds and the enrichment; a
task is reused when it ends, so the number of calls is unbounded and only their
overlap is bounded. `known`, `lost` and `erased` are history variables of the
properties.

Abstractions: a row keeps its pool, its failure streak (saturating at the dead
threshold, beyond which the code makes no difference) and whether a deadline is set;
whether a deadline has passed is a free choice, and so are the score order of a list
(any `Batch` rows) and the result of a validation. A SELECT and its fetch are one
statement. The validators' awaits are one state, `checking`: they touch no row. With
store faults on, every statement of a store call may raise (`StatementFails`), and so may
the SELECTs a job and the enrichment make outside of one (`ReadFails`); a read that fails
in an API call ends the call and changes nothing.

### PoolLifecycle and ProxyHistory

`ProxyHistory` executes each handler atomically but keeps what `ProxyPool` leaves out:
the score with its steps, success and failure counters, latency, the
deadline in ticks, score-ordered batches. Its property `Lifecycle` is the refinement:
every step of every proxy is a step of `PoolLifecycle` (`Life(p)`) or leaves that proxy
alone. The two modules together cover what one could not: interleaving without
scores, scores without interleaving.

### KvStore, AdminSession, SessionAffinity

Each store call is split at its statements: lookup, delete of an expired entry and its
commit; insert and its commit. Time is a counter that any step may find advanced.
`deadline`, `issued`, `leaving`, `ended` (admin) and `pin`, `seenGood`, `alone`
(affinity) are history. Tokens are fresh (`secrets.token_urlsafe`). A filter is the set
of proxies that pass it. `OtherCommit` is any other coroutine's commit on the shared
connection.

### GatewayConnection

`pc` is the place of `_handle_client`. For each side, `peer` is what the peer still does,
`transport` and `heard` what asyncio knows of it, and `sent`, `fed`, `taken`, `got` count
the chunks from the peer through the `StreamReader` and the pipe to the other peer.
`Receive`, `HearEof`, `Lose` and `Close` are asyncio's callbacks, modelled from how the
code uses streams (external). A transport that is closed is `closing` until what was
written to it is sent, and a pipe is `draining` until its peer has taken enough; both may
last for ever. The handshake's exchange is one step with its outcomes: accepted, declined,
or an exception. `read(10)` may take less than a SOCKS reply, and what it leaves in the
reader is relayed to the client like data of the target (`Accept`: at most one chunk). The
loops over header lines (104-115, 233-236) have a timeout for each line and none for all,
so the handshake is not assumed to end. A write to a peer that is there arrives.

### ListPaging

`rows` is the filtered, ordered table; `Count` and `Page` are the two statements,
`Turn` and `StepBack` what `ProxiesPage.tsx` does with an answer.

### The dashboard

One behaviour is one page load of the dashboard: `view` is the state of the mounted page
(a record whose fields are the page's `useState`s and refs), `auth` that of `App`, `calls`
the awaits under way, `cache` and `mock` the module state of `api-client.ts` and
`mock-data.ts`, `srv` and `cookie` the server and the browser. A handler or effect with an
`await` is two actions or more: what it does up to the await, with the call it starts, and
what it does with the outcome (`Settle`). So `confirmDelete` is `ConfirmDelete`,
`DeleteAnswered` and `ListReloaded`, and a closure that outlives a render is kept in a
field (`view.closure`).

- *Slots.* Each await has a slot in `calls`: `read` for the effect's load, `late` for a
  load that was cancelled, `options`, `write`, two details, two logouts, and the session
  check. `fetchJson` is the life of a slot: sent, replied, reading, settled; the timer may
  end it until the body is read (`Armed`, `Outcomes`). Aborting a mutation does not recall
  it: it becomes a stray that the server may still execute, a logout like a save.
- *Server.* `srv` answers what the client uses of it, one request at a time. Its list is
  ordered by score and id and searched page by page, with the total that gives
  (`Searched`, `sqlite_store.py` 263-293); the mock store sorts and searches all of its own
  (`filterAndSortProxies`). What the client derives without an endpoint, and the filter
  options, are of the best `SnapshotLimit` rows only (`Universe`; 500 in `api-client.ts:41`). Which
  endpoints an older server lacks is part of `env`, and so are mock mode, protection,
  StrictMode and the document of the documentation page.
- *Screen.* The `...Shows` operators are what is rendered, to the detail the properties
  tell apart; acts of the user are enabled by what is on the screen: a row's button needs
  the row, a covered page takes no clicks, a disabled button none.
- *Time.* Overview and Geo run timers of their own, so calls age in ticks there and no
  timer is passed over (`Tick`). On the other pages a call may time out at any moment.

Left out: fields of answers that only change name; the figures of the overview and of the
jobs; the theme. `Promise.all` of the validation page is one call. StrictMode's double
effects are modelled on Overview, where an in-flight flag makes them matter. Where a load steps a
blank page back, its `finally` renders the old list under the new page number for the one
frame before the effect runs; that frame is left out. The answers a
page is left with are not read and do not fill the cache. Edits of the settings by
another admin are not modelled. The text filter of the list is the set of proxies it names.

## 3. Runs

| Run | Shows |
|---|---|
| `PoolRaces` | one proxy, a job, an API call, a feed, the start-up enrichment, crashes: `Conserved`, `DurableOrInHand`, `ErasedStaysErased` |
| `PoolFaults` | two jobs, any statement may raise, gathers are left early: `Conserved` up to the faulted task, `SelectableIsHealthy` |
| `PoolProgress` | two proxies, two jobs, fairness of the event loop: `ValidationsExclusive`, `JobEnds` (a requested run ends as long as every check does), `MoveEnds` |
| `PoolDeleteRace` | finding: a proxy deleted during its validation is stored again |
| `HistoryRules` | real thresholds, score and latency rules, running clock and scheduler: `PoolEarned`, refinement `Lifecycle`, `CooldownEnds` |
| `HistoryStarved` | finding: an expired proxy is kept out of the released batch |
| `AdminRaces` | three requests, two tokens, clock, crashes: `LogoutFinal`, `AcceptedHadSession`, `LoginHolds` |
| `AffinitySerial` | two calls of one session, moving proxies: `AnswersGoodProxy`, `SerialCallsSticky` |
| `GatewayTunnel` | one gateway connection, peers that half-close, vanish or stop taking data: `RelayComplete`, `UpstreamReleased`, `HandlerEnds` (a tunnel ends once the end of a side was seen, as long as its peers take what is written) |
| `ListWalk` | a walk while rows move: `SteadyShownOnce` |
| `ListSearch` | finding: the total of a text search is not the number of matches |
| `Dashboard` | every page in a live build, a mock build and against an older server; its properties are below |

The properties of `Dashboard`, page by page:

- *API client*: `MockOnlyWhenMissing`, in a live build mock entries stand in for a missing
  endpoint only (`translations.ts:284`); `GuardOnlyInFallback`, a page's 5 s guard can only
  go off in the second call of a fallback.
- *Overview*: `DataStays`, no guard and no failed poll hides data that has come;
  `OverviewRefreshes`, polls never stop, under StrictMode either.
- *Geo*: `AnswerIsShown`; `GeoAddsUp`, over every order of up to three of four rows.
- *Logs, validation*: `PageIsRight`, the page shown is the pager's, and an empty page means
  an empty list.
- *Providers*: `ImportIsListed`, after an import its source is in the list. A list the
  client derives does without it where its universe is at the row limit with rows no worse
  than the imported ones (`Crowded`: raw proxies have no score yet, so in a pool of more
  than 500 this is the normal case), and any list if a delete given up on was served
  between and took the proxies.
  `DerivedAddsUp`, the sources count each row once, and on the validation page the error
  types beside the jobs each warning and error.
- *Settings*: `FormIsStored`, a form that was not edited is what is stored, unless a save
  and a load crossed.
- *Proxies*: `ListMatchesControls`, `DeletedIsGone`, `DrawerIsOfClick`. The first two leave
  out a delete whose dialog was dismissed: there the code does show the wrong list, and no
  document says it should not (hazards, PROJECT.json). The drawer may show the details that
  were awaited when it was opened (`drawer.awaited`), whichever come last, and `DrawerIsOfClick`
  says that it shows no others: none asked for later, answered before, or never asked for.
  `DeletedIsGone` makes the same exception for a drawer, so a deleted proxy is in one only if
  its details crossed the click. It also leaves out the proxies of an import that was given
  up on before the delete and may be served after it.
- *Documentation*: `LinesOnce`, over every document of up to three lines of all kinds. A
  table takes every line with a bar, a fence, a heading or an item among them, and
  `slice(1, -1)` cuts the ends of those that have no outer bars: such a line is in a block,
  but not whole.
- *App*: `SessionAgrees`, unless a login or a reload crossed a logout or somebody else
  ended the session; `WaitsEnd`, no spinner, pending button or loading drawer stays for ever.

Every property of a passing run has a mutant, an operator named `Mut...` next to the
definition it replaces: the code with a plausible mistake, under which TLC finds the
property violated.

## 4. Bounds

- `ProxyPool`: the properties speak of each id alone and no statement touches two rows,
  so one proxy suffices for all but `ValidationsExclusive` (two proxies and batches of
  two, so that two jobs want the same proxies and the semaphore has someone waiting). A job, a client and the enrichment are three concurrent
  writers of one row, the fewest for which a stale copy meets a half-done move of
  another kind. Thresholds 1/1 and 1/2 keep the streak short: a streak of one is
  enough to tell a stale row from a fresh one. `HistoryRules` has the real 3/5, and the
  theorems hold for all thresholds.
- `ProxyHistory`: `Floor`, `ScoreMax` and `CountCap` saturate score and counters beyond
  the values the rules compare; `CooldownTicks` is the deadline length.
- `KvStore`: `MaxTime` ticks and a `Ttl` of 1 let an entry be written, expire and be
  written again.
- `GatewayConnection`: three chunks in each direction let some be delivered, some buffered
  and some unread when a side ends; the theorems hold for any number.
- `ListPaging`: four rows, pages of two, two changes of the table during a walk.
- `Dashboard`: `TimeoutTicks`, `GuardTicks`, `RefreshTicks` are 2, 3, 3 for the 4 s, 5 s and
  5 s of the code: the guard is longer than one call and shorter than two. Each start has
  acts (`MaxActs`, at most five: enough to open, dismiss, ask and confirm while something
  is under way) and changes by others (`MaxWorld`, at most one) of its own, and the hashes
  its user navigates to. `SnapshotLimit` is 3, with up to four rows in the store: a universe
  can be full, and an imported row in it or not. Pages of one row make every list of two rows turn and every delete
  blank a page. One cancelled load, two details and two logouts at a time. The browser is
  only reloaded from the error page, from where there is no other way.

## 5. Fairness

`PoolProgress` assumes weak fairness of every statement, worker and job step (the event
loop runs every ready coroutine, the connection's thread every queued statement) and strong
fairness of taking the lock, because `asyncio.Lock` wakes waiters in order of arrival.
Nothing is assumed of the end of a check: `httpx.Timeout` bounds each connect and each read
(`connectivity.py:19`, `anonymity.py:23`), nothing bounds them together, and a proxy that
drips keeps the lock. So `JobEnds` is conditional: if no check goes on for ever
(`ChecksEnd`), a requested run ends; nothing else can hold the lock, the semaphore or the
gather. `MoveEnds` needs no condition, because no check comes between the two calls. Store faults and crashes are off:
the code has no retry. `HistoryRules` assumes weak fairness of the clock, of the
release and of the validation of a pool: the interval trigger repeats them for ever.
`GatewayTunnel` assumes weak fairness of what the event loop runs (a pipe that has something
to read or the end to see, one whose drain is released by a lost transport, the handler
after both pipes) and of nothing else: not of
the handshake, not of a peer taking what is written to it, and not of `Lose`, because the
relay has neither an idle timeout nor a keepalive (`proxy_gateway.py` 145, 304-310) and an
idle tunnel whose peer is gone stays. `HandlerEnds` therefore starts where the end of a side
has been seen, and is conditional on peers that take what is written to them (`PeersTake`).
`Dashboard` assumes weak fairness of the client's own callbacks and timers: an await is
resumed once its call has settled or its timeout is due, the mock store's timer and the
page's guard and interval fire. Nothing is assumed of the server or the network, which may
never answer, nor of the user.

## 6. What is proved

TLAPS checks the following for every set of proxies, tasks, tokens and requests, every
threshold, time to live, batch and page size, every build and store the dashboard may
start from. A state bound (`MaxTime`, `MaxActs`, ...) is a constant of the theorem, any
natural number.

`ProxyPoolProofs` (assumptions `ThresholdAssumption`: the cooldown threshold is
positive and not above the dead threshold; `PoolAssumption`: batch and concurrency are
positive; `DisjointAssumption`: tasks of different kinds are different):

- `TypeCorrect`: `TypeOK`. Rests on `RulesTyped`, the rules map rows to rows.
- `ProxiesConserved`: `Conserved`. Inductive with `TypeOK` and with the shape of a
  job's tasks: only a task that holds a copy deletes a known row without making it
  unknown, and it is then in hand until its upsert.
- `ErasedFinal`: `ErasedStaysErased`. The strengthening says that for an erased id no
  task holds a copy and no statement is under way that could write one: the code's
  writes are all of copies.
- `SelectionHealthy`: `SelectableIsHealthy`. The property speaks of the table, but what
  reaches it are copies: the invariant says the same of every copy in a call and in a
  list.
- `ProxiesDurable`: `DurableOrInHand`. The commit that saves a row may be any task's;
  the invariant relates `table`, `disk` and the uncommitted calls.
- `ValidationExclusive`: `ValidationsExclusive`. The invariant `ExclusiveInv` has what the
  property leaves out: which phases of a job are inside the lock, and that a coroutine of
  a job is at work only while that job gathers, so that the semaphore of the job that is
  running counts every coroutine there is.

`AdminSessionProofs` (assumptions `KvAssumption`, `AdminAssumption`): `AdminTyped`,
`LogoutIsFinal`, `AcceptedSessions` and `LoginsHold`, all from one inductive invariant,
`AdminInv`. Besides the four properties it says that a login under way has its token to
itself and that other requests carry issued tokens (`TokensKnown`), that an entry is what
its login wrote, on both sides of the commit (`EntriesKnown`), and what the program point
of each request implies (`Point`). `LogoutFinal` alone is not inductive: without
`TokensKnown` a login could write the ended token again.

`SessionAffinityProofs` (assumptions `KvAssumption`, `AffinityAssumption`): `AffinityTyped`,
`AnswersGood` and `SerialCallsStick`, from the invariant `AffinityInv`. Stickiness needs
more than the binding: that a session's entry differs from the disk only while a call of
the session is about to commit it (`UnsavedIsHeld`), so that a crash cannot take an
answered binding back; that a call which is alone follows the entry in the table
(`BindingsFollowed`); and that the call which comes next to a session that counts on its
proxy can only be looking the entry up, checking it or answering it (`PinHolds`).

`GatewayConnectionProofs` (assumption `SentAssumption`: the bound is a natural number):
`GatewayTyped`, `RelaysComplete`, `UpstreamsReleased`. `RelayComplete` speaks of the end
only; the invariant `GatewayInv` says why a pipe may have ended at all (`FirstCause`: a
peer is gone, or one has sent its last chunk and all were read), what the gateway's view
of a side stands for (`Reasons`), and that what is read for a peer that never left has
reached it (`Counts`).

`ProxyHistoryProofs` (assumptions `ThresholdAssumption`, `HistoryAssumption`: the batch is
positive, the caps are natural numbers beyond what the rules compare): `PoolIsEarned`, and
`HistoryLives`, which is the refinement `Spec => Lifecycle`. `HistoryInv` says of every
stored record that its fields are in range and that it has earned its pool; each operation
on a record keeps that (one lemma per operation) and is, on the row the record stands for,
the rule of `ProxyRules` that `PoolLifecycle` allows. A batch moves many proxies in one
step; for each of them alone it is one step of `PoolLifecycle` or none.

`ListPagingProofs` (assumption `PagingAssumption`: the table is finite, the page size
positive): `SteadyIsShownOnce`. `WalkInv` says of each page that was shown that it has a
steady proxy only at its place (`Sound`) and misses none in its window (`Full`), that the
pages shown leave no place out, and that the total a page was turned by reaches the last
steady proxy. It holds without a text query; with one the property claims nothing
(`Matching` filters after the page was cut, finding 3).

`DashboardFrame` and `DashboardProofs` (assumptions `FetchAssumption`, `ViewAssumption`: a
call's timeout is positive and shorter than a page's guard, the guard not longer than the
refresh; `ApiAssumption`: pages and universes have rows, no cookie is a cookie's absence, and an import
brings some proxies, all of the source `submitted`; `RowsAssumption`: a row has a source, a
score and an id that can be ordered, its latency and times are numbers where there are any; `AppAssumption`: the slots;
`StartsAssumption`: the stores a behaviour starts from have their lists, settings and
sessions, no proxy is in a list twice, events have types and levels, the sessions issued
tokens, a server lacks both endpoints of the settings or neither, a document is lines, and
the bounds start within themselves) prove fifteen of the properties of `Dashboard`, all its
invariants, one page at a time, of the whole dashboard. The frame is what makes that possible: every call
is whole (`CallsWhole`), a step of one page is taken with that page mounted, and a page that
is left and mounted again is as new (`PageSteps`, `PageCalls`, `AppCalls`). With it each
page has an invariant of its state and of the calls in its slots that only the steps of
that page and the server's can disturb:

- `OverviewDataStays` from `OverviewInv`: the guard and the poll timer start together and
  the guard is not longer, so no poll has brought data before the guard is gone.
- `GuardFiresInFallback` and `GeoAnswerShown` from `GeoInv`: in the first call of a load the
  guard is as old as the call, which ends by its timeout before the guard is due.
- `ListPageRight` and `MockStandsIn` from `ListInv`: a call under way is for the page of the
  pager unless a step back is, an answer has the page it was asked for, and mock entries
  are only in calls and answers where the endpoint is missing. The log may be cut and grow
  between any two steps.
- `TableIsAsked` and `DrawerAsClicked` from `ProxiesInv`: the load of the list effect and the
  reload of the dialog are both for the filter and the page on the screen, the dialog's as
  long as it is open, and no list is loading while it is; while the drawer is open, a detail
  under way is for the proxy of the click or for one of those awaited at it.
- `FormAsStored` from `SettingsInv`: unless a save and a load crossed or one of them failed,
  no save is on its way from before, load and save do not run at once, what an answer
  brings is what is stored, and so is a form nobody edited.
- `SessionTrue` from `SessionInv`: unless a login or a reload crossed a logout, the app does
  one thing at a time (a session check before anything is shown, a login on the login page,
  logouts), no logout it gave up on waits to be served, cookies are tokens the server has
  issued, and what an answer to a session check says stays true until it is read.
  `SessionAgrees` alone is not inductive: a check is answered long before it is read, and
  the cookie of a login comes with its headers.
- `DeletedStaysGone` from `GoneInv`, for proxies that count as gone: none is in the store the
  page reads or still to be brought by an import given up on (`GoneBase`), no list that is
  shown, loading or answered has one (`TablesClear`), an open drawer is about one only if it
  was awaited at the click (`Drawn`). A delete becomes final where it is served, long before it is read:
  `Deleting` says that once it is answered its proxy is out of the store unless an import
  may bring it back. That exception was found here: the invariant is not inductive without
  it, because an import that timed out may be served after the delete.
- `ImportListed` from `ProvidersInv`: the page's load and its import take turns (`Turns`); an
  answered import's proxies stay in the store, since no delete is under way where the page
  is mounted, unless one was given up on before (`Undisturbed`, `Kept`); a list answered
  after the import has its source, from the server's own list or from the rows, unless
  those are `SnapshotLimit` rows none of which an imported one goes before (`ListComing`,
  `ProvidersAre`; `UniverseIs` is what the best rows of a store are).
- `DerivedListsAddUp` from `ProvidersInv` and `SampleInv`: the list answered or shown is the
  one derived of its rows (`OfRows`), the sample one of events. For every list of rows the
  sources share the rows out, and parts that are disjoint add up (`ProvidersAre`,
  `ProvidersTotal`, `SumOfParts`, `ErrorsCount`).
- `GeoSummaryAddsUp` from `GeoSumsInv`: the summary answered or shown is that of the rows
  behind it. `GeoIs` says for every list of rows what such a summary is, from what a filter,
  a stable sort, the buckets of a `Map` and a rounded mean are (`ListedIs`, `SortRanks`,
  `KeysAre`, `SummariesAre`, `MeanBetween`), `PanelIs` what the latency panel shows of it.
- `DashboardTyped` from `TypedInv`: what is asked for is well-formed because the page has it
  so (the numbers of the pager and of the dialog's captured state, `NumbersInv`, the
  settings of the form, `FormInv`), and what is answered fits what was asked (`Replied`), so
  that the cache, the form and the stores stay what they are.
- `LinesShownOnce` from `DocInv`: every line before `i` that has something to show is in a
  block, blocks are in the order of their lines and behind `i`, and an odd number of fences
  that no table has taken lies before exactly the lines of code blocks; between two passes
  of the loop it is even.
  Of the counting nothing is needed but that one more fence is one more (`CodeIs`), and of
  the inner loops only where they stop (`RunEnds`), for documents of every length.

Only model-checked, and why:

- liveness (`JobEnds`, `MoveEnds`, `CooldownEnds`, `HandlerEnds`, `WaitsEnd`,
  `OverviewRefreshes`): the prover has neither fairness nor `ENABLED`.

Every invariant of every passing run and the refinement is a theorem. What made
the derivations provable is how they are written: `Filtered` gives each place of the result
its place in the list, `Sorted` each place its element by rank, and `Sum` is a recursive
function over prefixes, of which one inductive argument up to a length (`UpTo`, `SumsAre`,
by well-founded induction over a set of lengths) is all that is needed; an induction over
rows is not.

## 7. Findings

1. `PoolDeleteRace`: a delete answered while the proxy is being validated is undone by
   the worker's upsert (`validate_service.py` 60-61), against `tests/test_api.py:221`.
2. `HistoryStarved`: `README.md:145-146` says expired proxies are released before each
   validation; only those among the best-scored `limit` rows are
   (`cooldown_service.py:14`).
3. `ListSearch`: the comment at `sqlite_store.py:289` says the total is accurate after a
   text query; it is computed from one page.

Not a run, but visible in `PoolLifecycle`: a failed report on a proxy that is in `dead`
moves it to `cooldown`, because the rule for `dead` asks whether it is elsewhere and the
rule for `cooldown` comes next (`proxy_service.py:88-96`). From there it is released.

Not a run either: two overlapping first calls of one session find no binding, select and
bind separately, and can be answered different proxies (`proxy_service.py:20-34`);
`README.md:158` advertises affinity for tasks without saying whether their calls overlap.
`SerialCallsSticky` states what holds, for calls that do not.

Hazards the models show but no property judges, because nothing in the repository says
what should happen: the list of proxies, its filter options, a detail and a delete share
one error state, so a failure of the options hides a loaded list until the next load
(`ProxiesPage.tsx:78`); a failed save replaces the settings form by the error page
(`SettingsPage.tsx:79`); the counts of an import are stored in a form that the reload
unmounts (`ProviderUrlImportForm.tsx:52`); a page told 401 after the session ended shows an
error and the app stays signed in (`App.tsx:111`); a gateway client that half-closes after
its request gets its answer cut (`proxy_gateway.py:317`); the rest of a SOCKS reply that was
not read in one piece reaches the client as if the target had sent it
(`proxy_gateway.py:269`).

Hazards of parts that are not modelled yet (section 9): entries of the activity log are
pruned from the tail although a fetch is entered with an earlier time
(`runtime_activity_service.py:115`); a metrics snapshot spans several awaits
(`metrics_service.py:13`); a provider that raises must not cost the others' results
(`manager.py:35`); the rotation index shared by connections with different filters (`proxy_gateway.py:180`).

## 8. Not modelled

The network exchanges of validators, providers and the gateway's peers (only their
possible results matter), formatting and rendering, the Prometheus text, settings
parsing, the health route, translations, the mock rows, the texts of the documentation,
inline markup, styles, build files. `move_proxy` and
`update_score` of the store have no caller. The malformed-payload branch of
`get_session` handles entries the program never writes.

## 9. Plan

In this order:

1. `GatewaySelection`: the three strategies over a changing table and the rotation index
   shared by connections. Properties: rotation is even over an unchanged list, `best`
   answers no row outside the selection pools.
2. `StoreConnection` and `AppLifecycle`: lazy connect, start, shutdown with jobs and
   enrichment still running; composed with the statements of `ProxyPool`.
3. `RuntimeActivity`: deques, numbering, pruning; against an abstract log with a window.
4. `ProviderFetch`, `UrlImport`, `ProxyText`, `GeoLookup`, `CoreAdapter`: partial failure,
   deduplication, longest prefix and the restart of a child process.
5. `Snapshots` and `SettingsUpdate`: statistics over several awaits, interval refresh.

Theorems to come: the invariants of the modules above, the activity log's first.
