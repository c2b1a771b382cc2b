---------------------------- MODULE DashboardApp ----------------------------
(***************************************************************************)
(* App.tsx and LoginPage.tsx: the session check that comes first, login,   *)
(* logout and the routes, with one page mounted at a time; and the whole   *)
(* dashboard: every page over the API client and a server.                 *)
(***************************************************************************)
EXTENDS OverviewPage, GeoPage, ListPages, SettingsPage, ProxiesPage, DocPage

CONSTANT
    Starts   \* where a behaviour can start: the build, the server, the route, and
             \* what is left of the bounds

ASSUME AppAssumption ==
    Slot = AppSlots \cup {"read", "late", "options", "detail", "detail2", "write"}

\* The lists of a store are lists, no proxy in one twice; its sessions have cookies; a
\* server has GET and PATCH of its settings, or neither; a document is lines.
ASSUME StartsAssumption ==
    /\ \A store \in {MockStore} \cup {start.store : start \in Starts} :
        /\ {"events", "jobs", "settings", "tokens", "issued", "proxies", "submitted"} \subseteq DOMAIN store
        /\ store.proxies \in Seq(Proxy) /\ IsInjective(store.proxies)
        /\ store.settings \in Setting /\ store.submitted \in BOOLEAN
        /\ \A e \in ToSet(store.events) : e.type # Null /\ e.level \in {"info", "warning", "error"}
        /\ store.events \in Seq(ToSet(store.events)) /\ store.jobs \in Seq(ToSet(store.jobs))
        /\ store.tokens \subseteq store.issued /\ store.issued \subseteq Token
    /\ \A start \in Starts :
        /\ "settings" \in start.env.missing <=> "patch" \in start.env.missing
        /\ start.env.mode \in {"live", "mock"} /\ start.env.auth \in BOOLEAN
        /\ start.env.doc \in Seq(LineKind)
        /\ {"acts", "world", "hashes"} \subseteq DOMAIN start.spent
        /\ start.spent.acts \in 0..MaxActs /\ start.spent.world \in 0..MaxWorld

navigationItems ==
    {"overview", "proxies", "providers", "geo", "validation", "logs", "settings", "doc"}

toRoute(hash) == IF hash \in navigationItems THEN hash ELSE "overview"

\* What App renders.
Screen(a) ==
    IF a.loading THEN "boot" ELSE IF a.error THEN "failed"
    ELSE IF a.enabled /\ ~a.authenticated THEN "login" ELSE a.route

LoginFirst == [page |-> "login", pending |-> FALSE, error |-> FALSE]

\* renderRoute: the page in its first state, and the calls of its effects.
First(screen) ==
    CASE screen = "overview" -> OverviewFirst
      [] screen = "geo" -> GeoFirst
      [] screen \in DOMAIN ListOp -> ListFirst(screen)
      [] screen = "providers" -> ProvidersFirst
      [] screen = "settings" -> SettingsFirst
      [] screen = "proxies" -> ProxiesFirst
      [] screen = "doc" -> DocFirst
      [] screen = "login" -> LoginFirst
      [] OTHER -> [page |-> screen]

Calls(screen) ==
    CASE screen = "overview" -> OverviewCalls
      [] screen = "geo" -> GeoCalls
      [] screen \in DOMAIN ListOp -> ListCalls(screen)
      [] screen = "providers" -> ProvidersCalls
      [] screen = "settings" -> SettingsCalls
      [] screen = "proxies" -> ProxiesCalls
      [] OTHER -> NoCall

\* The screen after App's state became `a': the page that is mounted stays, or
\* another takes its place.
Stays(a) == Screen(a) = view.page
Rendered(a) == IF Stays(a) THEN view ELSE First(Screen(a))
Remounted(a) == IF Stays(a) THEN NoCall ELSE Opening(Calls(Screen(a)))

\* expired, crossed: history.  Somebody else ended a session; a login or a reload
\* was begun while a logout was on its way.
InitAuth(e, route) ==
    [loading |-> e.mode = "live", error |-> FALSE, enabled |-> FALSE, authenticated |-> FALSE,
     route |-> toRoute(route), expired |-> FALSE, crossed |-> FALSE]

Init ==
    \E start \in Starts :
        /\ env = start.env
        /\ srv = start.store
        /\ mock = MockStore
        /\ cache = {} /\ strays = {} /\ cookie = 0
        /\ auth = InitAuth(start.env, start.route)
        /\ view = First(Screen(auth))
        /\ LET page == [s \in PageSlots |->
                    IF s \in DOMAIN Calls(Screen(auth)) THEN Calling(Calls(Screen(auth))[s]) ELSE Free]
               boot == [s \in AppSlots |->
                    IF s = "auth" /\ Live THEN Fetching([op |-> "session"], 0) ELSE Free]
           IN  calls = Over(page, boot)
        /\ spent = start.spent

-----------------------------------------------------------------------------
\* App and LoginPage.

CheckSession == [auth |-> Calling([op |-> "session"])]

\* loadAuthStatus after its await.
SessionChecked ==
    /\ Holds("auth", "session")
    /\ \E r \in Results("auth") :
        /\ auth' = IF r.status = 200
                   THEN [auth EXCEPT !.enabled = r.enabled, !.authenticated = r.authenticated,
                                     !.loading = FALSE]
                   ELSE [auth EXCEPT !.error = TRUE, !.loading = FALSE]
        /\ view' = Rendered(auth')
        /\ Settle("auth", r, Over(Ended("auth"), Remounted(auth')))
    /\ UNCHANGED spent

\* handleSubmit up to its await: with the right password or not.
SubmitLogin(right) ==
    /\ At("login") /\ ~view.pending
    /\ Act
    /\ view' = [view EXCEPT !.pending = TRUE, !.error = FALSE]
    /\ auth' = [auth EXCEPT !.crossed = @ \/ Busy("logout") \/ Busy("logout2")]
    /\ Call("auth", [op |-> "login", right |-> right])

\* A login that was answered goes on to check the session.
LoginAnswered ==
    /\ Holds("auth", "login")
    /\ \E r \in Results("auth") :
        IF r.status = 200
        THEN /\ auth' = [auth EXCEPT !.loading = TRUE, !.error = FALSE]
             /\ view' = Rendered(auth')
             /\ Settle("auth", r, Over(CheckSession, Remounted(auth')))
        ELSE /\ UNCHANGED auth
             /\ view' = IF At("login") THEN [view EXCEPT !.pending = FALSE, !.error = TRUE] ELSE view
             /\ Settle("auth", r, Ended("auth"))
    /\ UNCHANGED spent

\* AppShell: the links, the user, and whether there is a logout button.
ShellShows(a) == [active |-> a.route, user |-> a.authenticated, logout |-> a.enabled]

InShell == view.page \in navigationItems

\* The button stays enabled while a logout is on its way.
\* bound: two at a time
PressLogout(s) ==
    /\ InShell /\ (At("proxies") => Uncovered)
    /\ ShellShows(auth).logout
    /\ ~Busy(s)
    /\ Act
    /\ Call(s, [op |-> "logout"])
    /\ UNCHANGED <<auth, view>>

\* Mutant: the login page is shown although the logout failed.
MutLogoutAnswered(s) ==
    /\ Busy(s)
    /\ \E r \in Results(s) :
        /\ auth' = IF r.status = 200
                   THEN [auth EXCEPT !.enabled = r.enabled, !.authenticated = r.authenticated]
                   ELSE [auth EXCEPT !.authenticated = FALSE]
        /\ view' = Rendered(auth')
        /\ Settle(s, r, Over(Ended(s), Remounted(auth')))
    /\ UNCHANGED spent

LogoutAnswered(s) ==
    /\ Busy(s)
    /\ \E r \in Results(s) :
        /\ auth' = IF r.status = 200
                   THEN [auth EXCEPT !.enabled = r.enabled, !.authenticated = r.authenticated]
                   ELSE [auth EXCEPT !.error = TRUE]
        /\ view' = Rendered(auth')
        /\ Settle(s, r, Over(Ended(s), Remounted(auth')))
    /\ UNCHANGED spent

\* useHashRoute: a link of the shell, the address bar or the browser's buttons.
\* bound: the hashes the start allows
Navigate(hash) ==
    /\ toRoute(hash) # auth.route
    /\ Act
    /\ auth' = [auth EXCEPT !.route = toRoute(hash)]
    /\ view' = Rendered(auth')
    /\ Replace(Remounted(auth'))
    /\ mock' = mock /\ UNCHANGED <<env, srv, cache, cookie>>

\* The browser loads the dashboard again: all of it is lost but the cookie.
\* bound: from the error page, the only way out of it
LoadAgain ==
    /\ At("failed")
    /\ Act
    /\ view' = First("boot")
    /\ Replace([s \in Slot |-> IF s = "auth" THEN Fetching([op |-> "session"], cookie) ELSE Free])
    /\ auth' = [InitAuth(env, auth.route) EXCEPT
                    !.expired = auth.expired, !.crossed = \E c \in strays' : c.req.op = "logout"]
    /\ cache' = {} /\ mock' = MockStore
    /\ UNCHANGED <<env, srv, cookie>>

\* A session ends on the server: it has expired, or another tab logged out.
SessionEnds ==
    /\ srv.tokens # {}
    /\ spent.world < MaxWorld
    /\ spent' = [spent EXCEPT !.world = @ + 1]
    /\ srv' = [srv EXCEPT !.tokens = {}]
    /\ auth' = [auth EXCEPT !.expired = TRUE]
    /\ UNCHANGED <<calls, env, mock, cache, cookie, strays, view>>

AppNext ==
    \/ SessionChecked
    \/ \E right \in BOOLEAN : SubmitLogin(right)
    \/ LoginAnswered
    \/ \E s \in {"logout", "logout2"} : PressLogout(s) \/ LogoutAnswered(s)
    \/ \E hash \in spent.hashes : Navigate(hash)
    \/ LoadAgain
    \/ SessionEnds

\* The client and the server go on whatever the page does.
Wire ==
    /\ \/ \E s \in Slot : Serve(s) \/ HeadersArrive(s) \/ FallBack(s)
       \/ \E c \in strays : ServeStray(c)
    /\ UNCHANGED <<auth, view, spent>>

Next ==
    \/ Wire
    \/ AppNext
    \/ Tick
    \/ OverviewNext
    \/ GeoNext
    \/ ListPagesNext
    \/ SettingsNext
    \/ ProxiesNext
    \/ RenderLine

\* What ends the await in each slot.
ReadEnds ==
    OverviewLoads \/ GeoLoads \/ LogsLoad \/ ValidationLoad \/ ProvidersLoad \/ SettingsLoad
        \/ ProxiesLoad
WriteEnds == ImportSettles \/ ImportedLoad \/ SaveSettles \/ DeleteAnswered \/ ListReloaded
TimerFires == OverviewGuardFires \/ OverviewPolls \/ GeoGuardFires \/ Tick

\* The timers run: fetchJson's ends a call that is not answered, the mock store's
\* brings its answer, and the pages' own fire.  The server need not answer.
Timers ==
    /\ WF_vars(SessionChecked \/ LoginAnswered)
    /\ WF_vars(ReadEnds) /\ WF_vars(WriteEnds) /\ WF_vars(OptionsLoad)
    /\ \A s \in Details : WF_vars(DetailArrives(s))
    /\ WF_vars(TimerFires)

Safe == Init /\ [][Next]_vars
Spec == Safe /\ Timers

-----------------------------------------------------------------------------
TypeOK ==
    /\ ApiTypeOK
    /\ auth.route \in navigationItems
    /\ {auth.loading, auth.error, auth.enabled, auth.authenticated} \subseteq BOOLEAN
    /\ view.page = Screen(auth)
    /\ spent.acts \in 0..MaxActs /\ spent.world \in 0..MaxWorld

\* App's idea of the session is the server's: who sees the pages of a protected
\* dashboard is signed in, and who was sent to the login page by an answered
\* logout is not, unless a login or a reload crossed a logout or the session was
\* ended by somebody else.
SignedInNow == cookie \in srv.tokens
SessionAgrees ==
    LET leaving == Busy("logout") \/ Busy("logout2")
    IN
    /\ InShell /\ auth.enabled /\ ~leaving /\ ~auth.crossed /\ ~auth.expired => SignedInNow
    /\ At("login") /\ ~view.pending /\ ~view.error /\ ~auth.crossed => ~SignedInNow

\* Nothing on the screen waits for ever, be the server as slow as it may.
Waiting ==
    \/ At("boot")
    \/ At("login") /\ view.pending
    \/ view.page \in {"overview", "geo", "logs", "validation", "providers", "settings", "proxies"}
        /\ view.loading
    \/ At("settings") /\ view.saving
    \/ At("proxies") /\ (view.pending \/ view.drawer.loading)
WaitsEnd == Waiting ~> ~Waiting

\* An overview that stays on the screen is refreshed again and again.
OverviewRefreshes == []<>(At("overview") => view.load = "poll")
=============================================================================
