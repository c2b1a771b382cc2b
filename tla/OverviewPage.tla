---------------------------- MODULE OverviewPage ----------------------------
(***************************************************************************)
(* OverviewPage.tsx: the first load and its guard, the poll every few      *)
(* seconds with its in-flight flag, and what a failed load shows.  In a    *)
(* development build StrictMode runs the effect twice: the run whose load  *)
(* holds the flag is cancelled, and the run that stays loads nothing until *)
(* its first poll.                                                         *)
(***************************************************************************)
EXTENDS DashboardView

\* load: whose load the call is: the initial one, a poll, or the cancelled run's.
\* guard: GuardTicks + 1 once it has fired or was cleared.
OverviewFirst ==
    [page |-> "overview", data |-> FALSE, error |-> FALSE, refreshError |-> FALSE,
     loading |-> TRUE, inFlight |-> TRUE, guard |-> 0, poll |-> 0,
     load |-> IF env.strict THEN "cancelled" ELSE "initial"]
OverviewCalls == [read |-> [op |-> "overview"]]

Cleared == GuardTicks + 1

\* Mutant: the initial load leaves its guard running.
MutOverviewSettled(v, r) ==
    LET shown ==
            IF v.load = "cancelled" THEN v
            ELSE IF r.status = 200
                 THEN [v EXCEPT !.data = TRUE, !.error = FALSE, !.refreshError = FALSE]
                 ELSE IF v.data THEN [v EXCEPT !.refreshError = TRUE] ELSE [v EXCEPT !.error = TRUE]
        ended ==
            IF v.load = "initial" THEN [shown EXCEPT !.loading = FALSE] ELSE shown
    IN  [ended EXCEPT !.inFlight = FALSE, !.load = "none"]

\* Mutant: a cancelled run leaves the flag behind.
MutFlagSettled(v, r) ==
    LET shown ==
            IF r.status = 200
            THEN [v EXCEPT !.data = TRUE, !.error = FALSE, !.refreshError = FALSE]
            ELSE IF v.data THEN [v EXCEPT !.refreshError = TRUE] ELSE [v EXCEPT !.error = TRUE]
        ended ==
            IF v.load = "initial" THEN [shown EXCEPT !.loading = FALSE, !.guard = Cleared] ELSE shown
    IN  IF v.load = "cancelled" THEN [v EXCEPT !.load = "none"]
        ELSE [ended EXCEPT !.inFlight = FALSE, !.load = "none"]

\* The page after its load has settled.
OverviewSettled(v, r) ==
    LET shown ==
            IF v.load = "cancelled" THEN v
            ELSE IF r.status = 200
                 THEN [v EXCEPT !.data = TRUE, !.error = FALSE, !.refreshError = FALSE]
                 ELSE IF v.data THEN [v EXCEPT !.refreshError = TRUE] ELSE [v EXCEPT !.error = TRUE]
        ended ==
            IF v.load = "initial" THEN [shown EXCEPT !.loading = FALSE, !.guard = Cleared] ELSE shown
    IN  [ended EXCEPT !.inFlight = FALSE, !.load = "none"]

OverviewLoads ==
    /\ At("overview")
    /\ \E r \in Results("read") :
        /\ Settle("read", r, Ended("read"))
        /\ view' = OverviewSettled(view, r)
    /\ UNCHANGED <<auth, spent>>

OverviewGuardFires ==
    /\ At("overview") /\ GuardDue
    /\ view' = [view EXCEPT !.guard = Cleared, !.error = TRUE, !.loading = FALSE]
    /\ UNCHANGED <<apiVars, auth, spent>>

\* The interval was set after the guard: due at once, it fires second.
OverviewPolls ==
    /\ PollDue /\ ~GuardDue
    /\ IF view.inFlight
       THEN view' = [view EXCEPT !.poll = 0] /\ UNCHANGED apiVars
       ELSE view' = [view EXCEPT !.poll = 0, !.inFlight = TRUE, !.load = "poll"]
            /\ Call("read", [op |-> "overview"])
    /\ UNCHANGED <<auth, spent>>

OverviewNext == OverviewLoads \/ OverviewGuardFires \/ OverviewPolls

\* What is rendered.
OverviewShows ==
    IF view.loading THEN "loading" ELSE IF view.error THEN "error"
    ELSE IF view.data THEN "data" ELSE "noData"

-----------------------------------------------------------------------------
\* Data that has arrived stays on the screen: neither the guard of the first
\* load nor a failed refresh puts an error or a spinner in its place.
DataStays == At("overview") /\ view.data => OverviewShows = "data"
=============================================================================
