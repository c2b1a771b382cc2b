--------------------------- MODULE DashboardView ---------------------------
(***************************************************************************)
(* What the pages of the dashboard share: the page that is mounted and its *)
(* state, the bounds on what its user and the world do, mounting a page,   *)
(* and the ticks of its timers.  Only one page is mounted at a time.       *)
(***************************************************************************)
EXTENDS DashboardApi

CONSTANTS
    MaxActs,       \* bound: acts of the user in one behaviour
    MaxWorld,      \* bound: changes others make on the server
    GuardTicks,    \* ..._INITIAL_LOAD_GUARD_MS
    RefreshTicks   \* OVERVIEW_REFRESH_MS

VARIABLES
    auth,    \* App: what it knows of the session, and the route in the hash
    view,    \* the mounted page and its state
    spent    \* how much of the bounds is used up, and the hashes within them

vars == <<calls, env, srv, mock, cache, cookie, strays, auth, view, spent>>

ASSUME ViewAssumption ==
    /\ {MaxActs, MaxWorld, GuardTicks, RefreshTicks} \subseteq Nat
    \* the defaults: 4 s to answer, 5 s for both page timers
    /\ 0 < TimeoutTicks /\ TimeoutTicks < GuardTicks /\ RefreshTicks >= GuardTicks

AppSlots == {"auth", "logout", "logout2"}
PageSlots == Slot \ AppSlots

At(page) == view.page = page

\* An act of the user.
Act ==
    /\ spent.acts < MaxActs
    /\ spent' = [spent EXCEPT !.acts = @ + 1]

NoCall == [s \in {} |-> Free]

\* Mounting a page issues the calls of its effects and unmounts the one that was
\* there: its answers go unread.
Opening(reqs) ==
    [s \in PageSlots |-> IF s \in DOMAIN reqs THEN Calling(reqs[s]) ELSE Free]

\* Another admin, a client or a job of the server changes what the page shows.
World(changed) ==
    /\ Live
    /\ spent.world < MaxWorld
    /\ spent' = [spent EXCEPT !.world = @ + 1]
    /\ srv' = changed
    /\ UNCHANGED <<calls, env, mock, cache, cookie, strays, auth>>

-----------------------------------------------------------------------------
\* Timers.  Two pages run timers of their own beside those of fetchJson; there
\* the clock ticks, and no timer is passed over.  On the other pages a call may
\* time out at any moment.

Timed == view.page \in {"overview", "geo"}
GuardDue == view.guard = GuardTicks
PollDue == At("overview") /\ view.poll = RefreshTicks

\* A mock answer is there within a fraction of a tick.
Tick ==
    /\ Timed
    /\ ~GuardDue /\ ~PollDue
    /\ \A s \in PageSlots : ~Overdue(calls[s]) /\ calls[s].phase # "delayed"
    /\ calls' = [s \in Slot |-> IF s \in PageSlots THEN Aged(calls[s]) ELSE calls[s]]
    /\ LET guarded == [view EXCEPT !.guard = IF @ < GuardTicks THEN @ + 1 ELSE @]
       IN  view' = IF At("overview") THEN [guarded EXCEPT !.poll = @ + 1] ELSE guarded
    /\ UNCHANGED <<env, srv, mock, cache, cookie, strays, auth, spent>>
=============================================================================
