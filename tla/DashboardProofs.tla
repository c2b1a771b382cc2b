--------------------------- MODULE DashboardProofs ---------------------------
(***************************************************************************)
(* Pages of the dashboard, and its session: for each an invariant of the   *)
(* page's state and the calls in its slots, that every step of the whole   *)
(* dashboard keeps, and the properties of the page that follow from it.    *)
(***************************************************************************)
EXTENDS DashboardFrame

\* The overview page.

OverviewView ==
    [page : {"overview"}, data : BOOLEAN, error : BOOLEAN, refreshError : BOOLEAN,
     loading : BOOLEAN, inFlight : BOOLEAN, guard : 0..Cleared, poll : 0..RefreshTicks,
     load : {"initial", "poll", "cancelled", "none"}]

\* The overview: until its guard has fired or was cleared, the timers have run
\* together from the start, so that no poll was due; no data are there that the
\* guard could hide, and no load but the first can bring some.
OverviewGood(v, c) ==
    /\ v \in OverviewView
    /\ v.guard # Cleared => v.guard = v.poll /\ ~v.data /\ v.load # "poll"
    /\ v.guard = Cleared => ~v.loading
    /\ v.data => ~v.error
    /\ v.load = "none" => c.phase = "free"

OverviewInv == At("overview") => OverviewGood(view, calls["read"])

LEMMA OverviewOpens == ASSUME NEW c PROVE OverviewGood(OverviewFirst, c)
BY LimitsAre DEF OverviewFirst, OverviewGood, OverviewView, Cleared

LEMMA OverviewSettles ==
    ASSUME NEW v, NEW c, OverviewGood(v, c), c.phase # "free", NEW r
    PROVE  OverviewGood(OverviewSettled(v, r), Free)
<1> DEFINE shown ==
            IF v.load = "cancelled" THEN v
            ELSE IF r.status = 200
                 THEN [v EXCEPT !.data = TRUE, !.error = FALSE, !.refreshError = FALSE]
                 ELSE IF v.data THEN [v EXCEPT !.refreshError = TRUE] ELSE [v EXCEPT !.error = TRUE]
           ended ==
            IF v.load = "initial" THEN [shown EXCEPT !.loading = FALSE, !.guard = Cleared] ELSE shown
<1>1. /\ shown \in OverviewView
      /\ shown.guard = v.guard /\ shown.poll = v.poll /\ shown.load = v.load
      /\ shown.loading = v.loading
      /\ v.load = "cancelled" => shown = v
      /\ shown.data => ~shown.error
  <2>1. CASE v.load = "cancelled"
    BY <2>1 DEF OverviewGood
  <2>2. CASE v.load # "cancelled" /\ r.status = 200
    <3>1. shown = [v EXCEPT !.data = TRUE, !.error = FALSE, !.refreshError = FALSE]
      BY <2>2
    <3> QED BY <2>2, <3>1 DEF OverviewGood, OverviewView
  <2>3. CASE v.load # "cancelled" /\ r.status # 200 /\ v.data
    <3>1. shown = [v EXCEPT !.refreshError = TRUE]
      BY <2>3
    <3> QED BY <2>3, <3>1 DEF OverviewGood, OverviewView
  <2>4. CASE v.load # "cancelled" /\ r.status # 200 /\ ~v.data
    <3>1. shown = [v EXCEPT !.error = TRUE]
      BY <2>4
    <3> QED BY <2>4, <3>1 DEF OverviewGood, OverviewView
  <2> QED BY <2>1, <2>2, <2>3, <2>4
<1> HIDE DEF shown
<1>2. /\ ended \in OverviewView
      /\ ended.data => ~ended.error
      /\ ended.poll = v.poll
      /\ v.load = "initial" => ended.guard = Cleared /\ ~ended.loading
      /\ v.load # "initial" => ended = shown
  <2>1. CASE v.load = "initial"
    <3>1. ended = [shown EXCEPT !.loading = FALSE, !.guard = Cleared]
      BY <2>1
    <3> QED BY <1>1, <2>1, <3>1, LimitsAre DEF OverviewView
  <2>2. CASE v.load # "initial"
    BY <1>1, <2>2
  <2> QED BY <2>1, <2>2
<1> HIDE DEF ended
<1>3. OverviewSettled(v, r) = [ended EXCEPT !.inFlight = FALSE, !.load = "none"]
  BY DEF OverviewSettled, ended, shown
<1>4. PICK w : w = OverviewSettled(v, r)
  OBVIOUS
<1>5. /\ w \in OverviewView /\ w.guard = ended.guard /\ w.poll = ended.poll
      /\ w.data = ended.data /\ w.error = ended.error /\ w.loading = ended.loading
      /\ w.load = "none"
  BY <1>2, <1>3, <1>4 DEF OverviewView
<1>6. v.load # "initial" /\ v.guard # Cleared => v.load = "cancelled"
  BY DEF OverviewGood, OverviewView
<1> QED BY <1>1, <1>2, <1>4, <1>5, <1>6 DEF OverviewGood, Free

LEMMA OverviewKept ==
    ASSUME Frame, OverviewInv, [Next]_vars
    PROVE  OverviewInv'
<1> SUFFICES ASSUME At("overview")'
             PROVE  OverviewGood(view', calls'["read"])
  BY DEF OverviewInv
<1>a. /\ \/ Unmoved \/ Mounted \/ Wired
         \/ Tick /\ At("overview")
         \/ OverviewNext /\ At("overview")
      /\ CallsWhole'
  BY PageSteps DEF At, OnLogin, Frame
<1>b. "read" \in PageSlots /\ "read" \in Slot
  BY SlotsAre DEF PageSlots, AppSlots
<1>1. CASE Unmoved
  BY <1>1, <1>b DEF Unmoved, OverviewInv, At
<1>2. CASE Mounted
  BY <1>2, OverviewOpens, PagesAre DEF Mounted, At
<1>3. CASE Wired
  BY <1>3, <1>b, WiredBusy DEF Wired, OverviewInv, At, OverviewGood
<1>4. CASE Tick /\ At("overview")
  <2>1. PICK v, c : v = view /\ c = calls["read"] /\ OverviewGood(v, c)
    BY <1>4 DEF OverviewInv
  <2>2. view' = [[v EXCEPT !.guard = IF @ < GuardTicks THEN @ + 1 ELSE @] EXCEPT !.poll = @ + 1]
    BY <1>4, <2>1 DEF Tick
  <2>3. v.guard # GuardTicks /\ v.poll # RefreshTicks
    BY <1>4, <2>1 DEF Tick, GuardDue, PollDue
  <2>4. calls'["read"].phase = c.phase
    BY <1>4, <2>1, <1>b DEF Tick, Aged
  <2>5. CASE v.guard < GuardTicks
    <3> DEFINE w == [v EXCEPT !.guard = @ + 1]
    <3>1. /\ w \in OverviewView /\ w.guard = v.guard + 1 /\ w.poll = v.poll /\ w.data = v.data
          /\ w.load = v.load /\ w.loading = v.loading /\ w.error = v.error
      BY <2>1, <2>5, LimitsAre DEF OverviewGood, OverviewView
    <3>2. view' = [w EXCEPT !.poll = @ + 1]
      BY <2>2, <2>5
    <3> HIDE DEF w
    <3>3. /\ view' \in OverviewView /\ view'.guard = w.guard /\ view'.poll = w.poll + 1
          /\ view'.data = w.data /\ view'.load = w.load /\ view'.loading = w.loading
          /\ view'.error = w.error
      BY <2>3, <3>1, <3>2, LimitsAre DEF OverviewView
    <3> QED BY <2>1, <2>4, <2>5, <3>1, <3>3, LimitsAre DEF OverviewGood, OverviewView
  <2>6. CASE ~(v.guard < GuardTicks)
    <3>1. v.guard = Cleared
      BY <2>1, <2>3, <2>6, LimitsAre DEF OverviewGood, OverviewView
    <3>2. view' = [v EXCEPT !.poll = @ + 1]
      BY <2>1, <2>2, <2>6 DEF OverviewGood, OverviewView
    <3> QED BY <2>1, <2>3, <2>4, <3>1, <3>2, LimitsAre DEF OverviewGood, OverviewView
  <2> QED BY <2>5, <2>6
<1>5. CASE OverviewLoads
  <2>1. PICK v, c : v = view /\ c = calls["read"] /\ OverviewGood(v, c)
    BY <1>5 DEF OverviewInv, OverviewLoads
  <2>2. PICK r : Settle("read", r, Ended("read")) /\ view' = OverviewSettled(v, r)
    BY <1>5, <2>1 DEF OverviewLoads
  <2>3. calls'["read"] = Free /\ c.phase # "free"
    BY <2>1, <2>2, <1>b DEF Settle, Replace, Over, Ended, Busy
  <2> QED BY <2>1, <2>2, <2>3, OverviewSettles
<1>6. CASE OverviewGuardFires
  <2>1. PICK v : v = view /\ OverviewGood(v, calls["read"]) /\ v.guard = GuardTicks
    BY <1>6 DEF OverviewInv, OverviewGuardFires, GuardDue
  <2>2. view' = [v EXCEPT !.guard = Cleared, !.error = TRUE, !.loading = FALSE]
    BY <1>6, <2>1 DEF OverviewGuardFires
  <2>3. /\ view' \in OverviewView /\ view'.guard = Cleared /\ ~view'.loading
        /\ view'.data = v.data /\ view'.load = v.load
    BY <2>1, <2>2, LimitsAre DEF OverviewGood, OverviewView
  <2>4. calls' = calls /\ ~v.data
    BY <1>6, <2>1, LimitsAre DEF OverviewGuardFires, apiVars, OverviewGood
  <2> QED BY <2>1, <2>3, <2>4 DEF OverviewGood
<1>7. CASE OverviewPolls
  <2>1. PICK v : /\ v = view /\ OverviewGood(v, calls["read"])
                 /\ v.poll = RefreshTicks /\ v.guard # GuardTicks
    BY <1>7 DEF OverviewInv, OverviewPolls, PollDue, GuardDue
  <2>2. v.guard = Cleared
    BY <2>1, LimitsAre DEF OverviewGood, OverviewView
  <2>3. CASE v.inFlight
    <3>1. view' = [v EXCEPT !.poll = 0] /\ calls' = calls
      BY <1>7, <2>1, <2>3 DEF OverviewPolls, apiVars
    <3> QED BY <2>1, <2>2, <3>1, LimitsAre DEF OverviewGood, OverviewView
  <2>4. CASE ~v.inFlight
    <3>1. view' = [v EXCEPT !.poll = 0, !.inFlight = TRUE, !.load = "poll"]
      BY <1>7, <2>1, <2>4 DEF OverviewPolls
    <3>2. /\ view' \in OverviewView /\ view'.guard = Cleared /\ view'.load = "poll"
          /\ view'.data = v.data /\ view'.error = v.error /\ view'.loading = v.loading
      BY <2>1, <2>2, <3>1, LimitsAre DEF OverviewGood, OverviewView
    <3> QED BY <2>1, <2>2, <3>2 DEF OverviewGood
  <2> QED BY <2>3, <2>4
<1> QED BY <1>a, <1>1, <1>2, <1>3, <1>4, <1>5, <1>6, <1>7 DEF OverviewNext

\* DataStays: neither the guard nor a failed refresh ever hides data that has come
\* (OverviewPage.tsx: the effect's load, its guard and its interval).
THEOREM OverviewDataStays == Spec => []DataStays
<1>1. Init => Frame /\ OverviewInv
  <2> SUFFICES ASSUME Init PROVE Frame /\ OverviewInv
    OBVIOUS
  <2>1. Frame /\ view = First(view.page)
    BY InitFrame
  <2> QED BY <2>1, OverviewOpens, PagesAre DEF OverviewInv, At
<1>2. Frame /\ OverviewInv /\ [Next]_vars => (Frame /\ OverviewInv)'
  BY PageSteps, OverviewKept
<1>3. Frame /\ OverviewInv => DataStays
  BY LimitsAre DEF OverviewInv, OverviewGood, OverviewView, DataStays, OverviewShows, Cleared
<1> QED BY <1>1, <1>2, <1>3, PTL DEF Spec, Safe

-----------------------------------------------------------------------------
\* The geo page.

GeoShape(v) ==
    v = [page |-> v.page, data |-> v.data, error |-> v.error, loading |-> v.loading,
         guard |-> v.guard, countryPage |-> v.countryPage, asnPage |-> v.asnPage,
         seen |-> v.seen, derived |-> v.derived]

\* The geo page with its call: in the first call of its load the guard is as old
\* as the call, which the timeout ends before the guard is due; when the load is
\* over the guard is cleared, and an error is shown with an answer only if the
\* answer is the second call's.
GeoGood(v, c) ==
    /\ GeoShape(v) /\ v.error \in BOOLEAN /\ v.loading \in BOOLEAN /\ v.derived \in BOOLEAN
    /\ v.guard \in 0..GeoCleared /\ c.phase \in Phase
    /\ c.phase = "free" => v.guard = GeoCleared /\ ~v.loading
    /\ c.phase # "free" => v.data = Null /\ c.req.op \in {"geo", "geoUniverse"}
    /\ c.phase # "free" /\ c.req.op = "geo" =>
            ~v.error /\ v.guard = c.age /\ c.age \in 0..TimeoutTicks
    /\ v.data # Null /\ ~v.derived => ~v.error

GeoInv == At("geo") => GeoGood(view, calls["read"])

LEMMA GeoLimits ==
    /\ GeoCleared = Cleared /\ GeoCleared \in 0..GeoCleared /\ 0 \in 0..TimeoutTicks
    /\ \A n \in 0..TimeoutTicks : n \in 0..GeoCleared /\ n < GuardTicks /\ n # GeoCleared
    /\ \A n \in 0..TimeoutTicks : n < TimeoutTicks => n + 1 \in 0..TimeoutTicks
BY LimitsAre DEF GeoCleared, Cleared

LEMMA GeoOpens == GeoGood(GeoFirst, Calling([op |-> "geo"]))
BY GeoLimits DEF GeoGood, GeoShape, GeoFirst, Calling, Fetching, Delayed, Phase

LEMMA GeoKept ==
    ASSUME Frame, GeoInv, [Next]_vars
    PROVE  GeoInv'
<1> SUFFICES ASSUME At("geo")'
             PROVE  GeoGood(view', calls'["read"])
  BY DEF GeoInv
<1>a. /\ \/ Unmoved \/ Mounted \/ Wired
         \/ Tick /\ At("geo")
         \/ GeoNext /\ At("geo")
      /\ CallsWhole'
  BY PageSteps DEF At, OnLogin, Frame
<1>b. "read" \in PageSlots /\ "read" \in Slot
  BY SlotsAre DEF PageSlots, AppSlots
<1>1. CASE Unmoved
  BY <1>1, <1>b DEF Unmoved, GeoInv, At
<1>2. CASE Mounted
  <2>1. view' = GeoFirst /\ calls'["read"] = Calling([op |-> "geo"])
    BY <1>2, <1>b, PagesAre DEF Mounted, At, Opening, GeoCalls
  <2> QED BY <2>1, GeoOpens
<1>3. CASE Wired
  <2>1. view' = view /\ GeoGood(view, calls["read"]) /\ WireStep(calls["read"], calls'["read"])
    BY <1>3, <1>b DEF Wired, GeoInv, At
  <2>2. PICK c, d : c = calls["read"] /\ d = calls'["read"] /\ GeoGood(view, c)
    BY <2>1
  <2>3. CASE c = d
    BY <2>1, <2>2, <2>3
  <2>4. CASE Served(c, d) \/ ReadOn(c, d)
    BY <2>1, <2>2, <2>4 DEF Served, ReadOn, Alike, GeoGood, Phase
  <2>5. CASE FellBack(c, d)
    <3>1. d.phase = "sent" /\ d.req.op = "geoUniverse" /\ c.phase # "free"
      BY <2>2, <2>5 DEF FellBack, GeoGood, Fetching, Fallback
    <3> QED BY <2>1, <2>2, <3>1 DEF GeoGood, Phase
  <2> QED BY <2>1, <2>2, <2>3, <2>4, <2>5 DEF WireStep
<1>4. CASE Tick /\ At("geo")
  <2>1. PICK v, c : v = view /\ c = calls["read"] /\ GeoGood(v, c)
    BY <1>4 DEF GeoInv
  <2>2. view' = [v EXCEPT !.guard = IF @ < GuardTicks THEN @ + 1 ELSE @]
    BY <1>4, <2>1 DEF Tick, At
  <2>3. v.guard # GuardTicks /\ ~Overdue(c) /\ c.phase # "delayed"
    BY <1>4, <1>b, <2>1 DEF Tick, GuardDue
  <2>4. /\ GeoShape(view') /\ view'.error = v.error /\ view'.loading = v.loading
        /\ view'.derived = v.derived /\ view'.data = v.data
        /\ view'.guard = IF v.guard < GuardTicks THEN v.guard + 1 ELSE v.guard
    BY <2>1, <2>2 DEF GeoGood, GeoShape
  <2>5. calls'["read"] = Aged(c)
    BY <1>4, <1>b, <2>1 DEF Tick
  <2>6. CASE c.phase = "free"
    <3>1. calls'["read"] = c
      BY <2>5, <2>6 DEF Aged, Armed, OnWire
    <3> QED BY <2>1, <2>4, <2>6, <3>1, LimitsAre, GeoLimits DEF GeoGood
  <2>7. CASE c.phase # "free" /\ c.req.op # "geo"
    <3>1. calls'["read"].phase = c.phase /\ calls'["read"].req = c.req
      BY <1>b, <2>1, <2>5 DEF Aged, Frame, CallsWhole, IsCall
    <3>2. view'.guard \in 0..GeoCleared
      BY <2>1, <2>4, LimitsAre, GeoLimits DEF GeoGood
    <3> QED BY <2>1, <2>4, <2>7, <3>1, <3>2 DEF GeoGood
  <2>8. CASE c.phase # "free" /\ c.req.op = "geo"
    <3>1. Armed(c) /\ c.age < TimeoutTicks /\ v.guard = c.age
      BY <2>1, <2>3, <2>8, LimitsAre DEF GeoGood, Phase, Armed, OnWire, Overdue
    <3>2. /\ calls'["read"].phase = c.phase /\ calls'["read"].req = c.req
          /\ calls'["read"].age = c.age + 1
      BY <1>b, <2>1, <2>5, <3>1 DEF Aged, Frame, CallsWhole, IsCall
    <3>3. view'.guard = c.age + 1 /\ c.age + 1 \in 0..TimeoutTicks
      BY <2>1, <2>4, <2>8, <3>1, GeoLimits DEF GeoGood
    <3> QED BY <2>1, <2>4, <2>8, <3>2, <3>3, GeoLimits DEF GeoGood
  <2> QED BY <2>6, <2>7, <2>8
<1>5. CASE GeoLoads
  <2>1. PICK v, c : v = view /\ c = calls["read"] /\ GeoGood(v, c)
    BY <1>5 DEF GeoInv, GeoLoads
  <2>2. PICK r : Settle("read", r, Ended("read")) /\ view' = GeoSettled(v, r)
    BY <1>5, <2>1 DEF GeoLoads
  <2>3. calls'["read"].phase = "free" /\ c.phase # "free"
    BY <2>1, <2>2, <1>b DEF Settle, Replace, Over, Ended, Busy, Free
  <2>4. CASE r.status = 200
    <3>1. view' = [v EXCEPT !.data = r.geo, !.seen = r.rows, !.derived = (c.req.op = "geoUniverse"),
                            !.loading = FALSE, !.guard = GeoCleared]
      BY <2>1, <2>2, <2>3, <2>4 DEF GeoSettled, Holds
    <3>2. /\ GeoShape(view') /\ view'.error = v.error /\ ~view'.loading
          /\ view'.loading \in BOOLEAN /\ view'.derived \in BOOLEAN
          /\ view'.derived = (c.req.op = "geoUniverse") /\ view'.guard = GeoCleared
      BY <2>1, <3>1 DEF GeoGood, GeoShape
    <3> QED BY <2>1, <2>3, <3>2, GeoLimits DEF GeoGood, Phase
  <2>5. CASE r.status # 200
    <3>1. view' = [v EXCEPT !.error = TRUE, !.loading = FALSE, !.guard = GeoCleared]
      BY <2>2, <2>5 DEF GeoSettled
    <3>2. /\ GeoShape(view') /\ view'.error = TRUE /\ ~view'.loading /\ view'.loading \in BOOLEAN
          /\ view'.derived = v.derived /\ view'.data = v.data /\ view'.guard = GeoCleared
      BY <2>1, <3>1 DEF GeoGood, GeoShape
    <3> QED BY <2>1, <2>3, <3>2, GeoLimits DEF GeoGood, Phase
  <2> QED BY <2>4, <2>5
<1>6. CASE GeoGuardFires
  <2>1. PICK v, c : /\ v = view /\ c = calls["read"] /\ GeoGood(v, c) /\ v.guard = GuardTicks
    BY <1>6 DEF GeoInv, GeoGuardFires, GuardDue
  <2>2. view' = [v EXCEPT !.guard = GeoCleared, !.error = TRUE, !.loading = FALSE] /\ calls' = calls
    BY <1>6, <2>1 DEF GeoGuardFires, apiVars
  <2>3. c.phase # "free" /\ c.req.op = "geoUniverse" /\ v.data = Null
    BY <2>1, LimitsAre, GeoLimits DEF GeoGood
  <2>4. /\ GeoShape(view') /\ view'.error = TRUE /\ ~view'.loading /\ view'.loading \in BOOLEAN
        /\ view'.derived = v.derived /\ view'.data = v.data /\ view'.guard = GeoCleared
    BY <2>1, <2>2 DEF GeoGood, GeoShape
  <2> QED BY <2>1, <2>2, <2>3, <2>4, GeoLimits DEF GeoGood
<1>7. ASSUME NEW page, TurnCountries(page) \/ TurnAsns(page)
      PROVE  GeoGood(view', calls'["read"])
  <2>1. PICK v, c : v = view /\ c = calls["read"] /\ GeoGood(v, c) /\ calls' = calls
    BY <1>7 DEF GeoInv, TurnCountries, TurnAsns, apiVars
  <2>2. view' = [v EXCEPT !.countryPage = page] \/ view' = [v EXCEPT !.asnPage = page]
    BY <1>7, <2>1 DEF TurnCountries, TurnAsns
  <2>3. /\ GeoShape(view') /\ view'.error = v.error /\ view'.loading = v.loading
        /\ view'.derived = v.derived /\ view'.data = v.data /\ view'.guard = v.guard
    BY <2>1, <2>2 DEF GeoGood, GeoShape
  <2> QED BY <2>1, <2>3 DEF GeoGood
<1> QED BY <1>a, <1>1, <1>2, <1>3, <1>4, <1>5, <1>6, <1>7 DEF GeoNext

LEMMA GeoAlways == Spec => [](Frame /\ GeoInv)
<1>1. Init => Frame /\ GeoInv
  <2> SUFFICES ASSUME Init, At("geo") PROVE Frame /\ GeoGood(view, calls["read"])
    BY InitFrame DEF GeoInv
  <2>0. "read" \in PageSlots
    BY SlotsAre DEF PageSlots, AppSlots
  <2>1. view = First("geo") /\ calls["read"] = Opening(Calls("geo"))["read"]
    BY <2>0, InitFrame DEF At
  <2>2. view = GeoFirst /\ calls["read"] = Calling([op |-> "geo"])
    BY <2>0, <2>1, PagesAre DEF Opening, GeoCalls
  <2> QED BY <2>2, InitFrame, GeoOpens
<1>2. Frame /\ GeoInv /\ [Next]_vars => (Frame /\ GeoInv)'
  BY PageSteps, GeoKept
<1> QED BY <1>1, <1>2, PTL DEF Spec, Safe

\* GuardOnlyInFallback: the guard of GeoPage.tsx goes off only in the second call of
\* a load; the first ends by fetchJson's timeout before the guard is due.
THEOREM GuardFiresInFallback == Spec => []GuardOnlyInFallback
<1>1. Frame /\ GeoInv => GuardOnlyInFallback
  BY DEF GeoInv, GeoGood, GuardOnlyInFallback, Busy, Holds
<1> QED BY <1>1, GeoAlways, PTL

\* AnswerIsShown: an answered summary is on the screen, unless it is the late answer
\* of a fallback, whose guard has put an error there (GeoPage.tsx).
THEOREM GeoAnswerShown == Spec => []AnswerIsShown
<1>1. Frame /\ GeoInv => AnswerIsShown
  BY DEF GeoInv, GeoGood, AnswerIsShown, GeoShows
<1> QED BY <1>1, GeoAlways, PTL

-----------------------------------------------------------------------------
\* The logs and the validation page.

\* The logs of a store, which a page slices, stay sequences.
IsSeq(list) == \E S : list \in Seq(S)
HasLogs(store) ==
    /\ {"events", "jobs", "settings", "tokens", "issued"} \subseteq DOMAIN store
    /\ IsSeq(store.events) /\ IsSeq(store.jobs)

LEMMA AfterHasLogs ==
    ASSUME NEW store, HasLogs(store), NEW req
    PROVE  HasLogs(After(req, store))
<1>1. /\ DOMAIN After(req, store) = DOMAIN store
      /\ After(req, store).events = store.events /\ After(req, store).jobs = store.jobs
  <2>1. CASE req.op = "delete"
    BY <2>1 DEF After, HasLogs
  <2>2. CASE req.op = "import"
    BY <2>2 DEF After, HasLogs
  <2>3. CASE req.op = "patch"
    BY <2>3 DEF After, HasLogs
  <2>4. CASE req.op \notin {"delete", "import", "patch"}
    BY <2>4 DEF After, HasLogs
  <2> QED BY <2>1, <2>2, <2>3, <2>4
<1> QED BY <1>1 DEF HasLogs

LogsInv == HasLogs(srv) /\ HasLogs(mock)

LEMMA LogsKept ==
    ASSUME LogsInv, [Next]_vars
    PROVE  LogsInv'
<1>0. StoresStep
  BY StoresSteps
<1>1. HasLogs(srv')
  <2>1. CASE srv' = srv
    BY <2>1 DEF LogsInv
  <2>2. ASSUME NEW s \in Slot, Serve(s) PROVE HasLogs(srv')
    <3>1. \/ srv' = srv \/ srv' = After(calls[s].req, srv)
          \/ \E token : srv' = [srv EXCEPT !.tokens = @ \cup {token}, !.issued = @ \cup {token}]
          \/ srv' = [srv EXCEPT !.tokens = @ \ {calls[s].cookie}]
      BY <2>2 DEF Serve
    <3>2. ASSUME NEW token, srv' = [srv EXCEPT !.tokens = @ \cup {token}, !.issued = @ \cup {token}]
          PROVE  HasLogs(srv')
      BY <3>2 DEF LogsInv, HasLogs
    <3>3. CASE srv' = [srv EXCEPT !.tokens = @ \ {calls[s].cookie}]
      BY <3>3 DEF LogsInv, HasLogs
    <3> QED BY <3>1, <3>2, <3>3, AfterHasLogs DEF LogsInv
  <2>3. ASSUME NEW c \in strays, ServeStray(c) PROVE HasLogs(srv')
    <3>1. CASE srv' = [srv EXCEPT !.tokens = @ \ {c.cookie}]
      BY <3>1 DEF LogsInv, HasLogs
    <3> QED BY <2>3, <3>1, AfterHasLogs DEF ServeStray, LogsInv
  <2>4. CASE LogMoves
    <3>1. PICK field, log :
            /\ field \in {"events", "jobs"} /\ log = srv[field] /\ log # <<>>
            /\ \/ srv' = [srv EXCEPT ![field] = <<log[1]>> \o log]
               \/ srv' = [srv EXCEPT ![field] = Front(log)]
               \/ srv' = [srv EXCEPT ![field] = <<>>]
      BY <2>4 DEF LogMoves, World
    <3>2. PICK S : log \in Seq(S)
      BY <3>1 DEF LogsInv, HasLogs, IsSeq
    <3>3. /\ <<log[1]>> \o log \in Seq(S) /\ Front(log) \in Seq(S) /\ <<>> \in Seq(S)
      BY <3>1, <3>2 DEF Front
    <3>4. \E new : new \in Seq(S) /\ srv' = [srv EXCEPT ![field] = new]
      BY <3>1, <3>3
    <3> QED BY <3>1, <3>4 DEF LogsInv, HasLogs, IsSeq
  <2>5. CASE PoolMoves
    BY <2>5 DEF PoolMoves, World, LogsInv, HasLogs
  <2>6. CASE SessionEnds
    BY <2>6 DEF SessionEnds, LogsInv, HasLogs
  <2> QED BY <1>0, <2>1, <2>2, <2>3, <2>4, <2>5, <2>6 DEF StoresStep
<1>2. HasLogs(mock')
  <2>1. \A s \in Slot : FallBack(s) => mock' = mock \/ mock' = After(calls[s].req, mock)
    BY DEF FallBack
  <2>2. \A req : mock' = MockAfter(req) => mock' = mock \/ mock' = After(req, mock)
    BY DEF MockAfter
  <2>3. HasLogs(MockStore)
    BY StartsAssumption DEF HasLogs, IsSeq
  <2> QED BY <1>0, <2>1, <2>2, <2>3, AfterHasLogs DEF StoresStep, LogsInv
<1> QED BY <1>1, <1>2 DEF LogsInv

LEMMA ResultsAre ==
    ASSUME NEW s, NEW r \in Results(s), calls[s].req.op # "detail"
    PROVE  \/ r = NoReply
           \/ calls[s].phase \in {"reading", "delayed"} /\ r = calls[s].reply
BY DEF Results, FromCache, Outcomes

\* An answered page of a list: its number, and blank only where there is nothing.
PageIs(r, number) ==
    r.page = number /\ r.total \in Nat /\ (number = 1 /\ r.items = <<>> => r.total = 0)

LEMMA SliceIs ==
    ASSUME NEW list, IsSeq(list), NEW page, NEW at
    PROVE  /\ Slice(list, page, at).status = 200 /\ Slice(list, page, at).at = at
           /\ PageIs(Slice(list, page, at), page)
           /\ DOMAIN Slice(list, page, at) = {"status", "items", "total", "page", "at"}
<1> DEFINE r == Slice(list, page, at)
<1>1. /\ r.status = 200 /\ r.at = at /\ r.page = page /\ r.total = Len(list)
      /\ r.items = PageOf(list, page, PageSize)
      /\ DOMAIN r = {"status", "items", "total", "page", "at"}
  BY DEF Slice, Ok, Over
<1>2. PICK S : list \in Seq(S)
  BY DEF IsSeq
<1>3. Len(list) \in Nat
  BY <1>2
<1>4. ASSUME page = 1, PageOf(list, page, PageSize) = <<>> PROVE Len(list) = 0
  <2>1. (page - 1) * PageSize + 1 = 1 /\ page * PageSize = PageSize
    BY <1>4, ApiAssumption
  <2>2. PageOf(list, page, PageSize) =
            SubSeq(list, 1, IF PageSize < Len(list) THEN PageSize ELSE Len(list))
    BY <2>1 DEF PageOf
  <2> DEFINE last == IF PageSize < Len(list) THEN PageSize ELSE Len(list)
  <2>3. last \in 0..Len(list) /\ (last = 0 => Len(list) = 0)
    BY <1>3, ApiAssumption
  <2>4. Len(SubSeq(list, 1, last)) = last
    BY <1>2, <2>3
  <2> QED BY <1>4, <2>2, <2>3, <2>4
<1> QED BY <1>1, <1>3, <1>4 DEF PageIs

LEMMA PageAnswers ==
    ASSUME LogsInv, NEW store \in {srv, mock}, NEW at,
           NEW req, req.op \in {"events", "validation"}
    PROVE  /\ Answer(req, store, at).status = 200 /\ Answer(req, store, at).at = at
           /\ PageIs(Answer(req, store, at), req.page)
<1>1. Answer(req, store, at) = PagedAnswer(req, store, at)
  BY DEF Answer
<1>2. CASE req.op = "events"
  <2>1. Answer(req, store, at) = Slice(store.events, req.page, at)
    BY <1>1, <1>2 DEF PagedAnswer
  <2> QED BY <2>1, SliceIs DEF LogsInv, HasLogs
<1>3. CASE req.op = "validation"
  <2>1. PICK jobs, events : /\ IsSeq(jobs)
                            /\ Answer(req, store, at) =
                                    Over([events |-> events], Slice(jobs, req.page, at))
    BY <1>1, <1>3 DEF PagedAnswer, LogsInv, HasLogs
  <2>2. PICK slice : slice = Slice(jobs, req.page, at)
    OBVIOUS
  <2>3. /\ slice.status = 200 /\ slice.at = at /\ PageIs(slice, req.page)
        /\ DOMAIN slice = {"status", "items", "total", "page", "at"}
    BY <2>1, <2>2, SliceIs
  <2>4. /\ Answer(req, store, at).status = slice.status /\ Answer(req, store, at).at = slice.at
        /\ Answer(req, store, at).page = slice.page /\ Answer(req, store, at).total = slice.total
        /\ Answer(req, store, at).items = slice.items
    BY <2>1, <2>2, <2>3 DEF Over
  <2> QED BY <2>3, <2>4 DEF PageIs
<1> QED BY <1>2, <1>3

ListShape(v) ==
    v = [page |-> v.page, number |-> v.number, data |-> v.data, error |-> v.error,
         loading |-> v.loading]

\* The logs or the validation page with its call: the call is for the page the
\* pager says, its answer is of that page, and what is shown is no blank page of a
\* list that is not empty.
ListGood(v, c) ==
    /\ ListShape(v) /\ v.error \in BOOLEAN /\ v.loading \in BOOLEAN /\ v.number \in Nat \ {0}
    /\ c.phase \in Phase
    /\ c.phase = "free" <=> ~v.loading
    /\ c.phase # "free" => ~v.error /\ c.req.op = ListOp[v.page] /\ c.req.page = v.number
    /\ Answered(c) /\ c.reply.status = 200 => PageIs(c.reply, v.number)
    /\ ~v.loading /\ ~v.error =>
            /\ v.data.status = 200 /\ v.data.page = v.number
            /\ v.data.items = <<>> => v.data.total = 0

\* The mock store stands in for a server without the endpoint, or for none.
NoEndpoint == ~Live \/ "events" \in env.missing
LogSource(v, c) ==
    /\ Answered(c) /\ c.reply.status = 404 => NoEndpoint
    /\ Answered(c) /\ c.reply.status = 200 /\ c.reply.at = "mock" => NoEndpoint
    /\ v.data # NoReply /\ v.data.at = "mock" => NoEndpoint

ListInv ==
    /\ LogsInv
    /\ OnListPage => ListGood(view, calls["read"])
    /\ At("logs") => LogSource(view, calls["read"])

LEMMA ListCallIs ==
    ASSUME LogsInv, NEW page \in DOMAIN ListOp, NEW number, NEW c,
           c = Calling([op |-> ListOp[page], page |-> number])
    PROVE  /\ c.phase \in {"sent", "delayed"} /\ c.req.op = ListOp[page] /\ c.req.page = number
           /\ Answered(c) => c.reply.status = 200 /\ PageIs(c.reply, number) /\ ~Live
<1>1. CASE Live
  BY <1>1 DEF Calling, Fetching, Answered
<1>2. CASE ~Live
  <2>1. PICK req : req = [op |-> ListOp[page], page |-> number]
    OBVIOUS
  <2>2. c = Delayed(req, Answer(req, mock, "mock"))
    BY <1>2, <2>1 DEF Calling
  <2>3. req.op \in {"events", "validation"} /\ req.page = number /\ req.op = ListOp[page]
    BY <2>1, ListOpIs
  <2>4. c.phase = "delayed" /\ c.req = req /\ c.reply = Answer(req, mock, "mock")
    BY <2>2 DEF Delayed
  <2> QED BY <1>2, <2>3, <2>4, PageAnswers
<1> QED BY <1>1, <1>2

\* A load that begins: its page of the list is asked for.
LEMMA ListBegins ==
    ASSUME LogsInv, NEW v, NEW c, ListShape(v), v.page \in DOMAIN ListOp,
           v.loading = TRUE, v.error = FALSE, v.number \in Nat \ {0},
           c = Calling([op |-> ListOp[v.page], page |-> v.number])
    PROVE  ListGood(v, c)
<1>1. /\ c.phase \in {"sent", "delayed"} /\ c.req.op = ListOp[v.page] /\ c.req.page = v.number
      /\ Answered(c) => PageIs(c.reply, v.number)
  BY ListCallIs
<1> QED BY <1>1 DEF ListGood, Phase

LEMMA SourceBegins ==
    ASSUME LogsInv, NEW v, NEW c, NEW number, c = Calling([op |-> "events", page |-> number]),
           v.data # NoReply /\ v.data.at = "mock" => NoEndpoint
    PROVE  LogSource(v, c)
<1>1. Answered(c) => c.reply.status = 200 /\ ~Live
  BY ListCallIs, ListOpIs
<1> QED BY <1>1 DEF LogSource, NoEndpoint

LEMMA ReloadingIs ==
    ASSUME ListShape(view), NEW number
    PROVE  /\ ListShape(Reloading(view, number)) /\ Reloading(view, number).page = view.page
           /\ Reloading(view, number).loading = TRUE /\ Reloading(view, number).error = FALSE
           /\ Reloading(view, number).number = number
           /\ Reloading(view, number).data = view.data
<1>1. PICK v, w : v = view /\ w = Reloading(view, number)
  OBVIOUS
<1>2. w = [v EXCEPT !.number = number, !.loading = TRUE, !.error = FALSE]
  BY <1>1 DEF Reloading
<1>3. v = [page |-> v.page, number |-> v.number, data |-> v.data, error |-> v.error,
           loading |-> v.loading]
  BY <1>1 DEF ListShape
<1>4. w = [page |-> v.page, number |-> number, data |-> v.data, error |-> FALSE, loading |-> TRUE]
  BY <1>2, <1>3
<1> QED BY <1>1, <1>4 DEF ListShape

LEMMA ListKept ==
    ASSUME Frame, ListInv, [Next]_vars
    PROVE  ListInv'
<1>0. LogsInv' /\ Frame' /\ env' = env
  BY LogsKept, PageSteps DEF ListInv
<1>g. NoEndpoint' = NoEndpoint
  BY <1>0 DEF NoEndpoint, Live
<1> SUFFICES ASSUME view'.page \in DOMAIN ListOp
             PROVE  /\ ListGood(view', calls'["read"])
                    /\ view'.page = "logs" => LogSource(view', calls'["read"])
  <2>1. LogSource(view', calls'["read"]) => LogSource(view, calls["read"])'
    BY <1>g DEF LogSource
  <2>2. ListGood(view', calls'["read"]) => ListGood(view, calls["read"])'
    OBVIOUS
  <2> QED BY <1>0, <2>1, <2>2, ListOpIs DEF ListInv, OnListPage, At
<1>a. /\ \/ Unmoved \/ Mounted \/ Wired
         \/ ListPagesNext /\ view'.page = view.page
  BY PageSteps, ListOpIs DEF At, OnLogin, Tick, Timed
<1>b. "read" \in PageSlots /\ "read" \in Slot
  BY SlotsAre DEF PageSlots, AppSlots
<1>c. PICK v, c : v = view /\ c = calls["read"]
  OBVIOUS
<1>d. v.page = view'.page => /\ ListGood(v, c) /\ v.page \in DOMAIN ListOp
                             /\ v.page = "logs" => LogSource(v, c)
  BY <1>c DEF ListInv, OnListPage, At
<1>1. CASE Unmoved
  BY <1>1, <1>b, <1>c, <1>d DEF Unmoved
<1>2. CASE Mounted
  <2>1. PICK page \in DOMAIN ListOp : page = view'.page
    OBVIOUS
  <2>2. view' = ListFirst(page) /\ Calls(page) = ListCalls(page)
    BY <1>2, <2>1, PagesAre, ListOpIs DEF Mounted
  <2>r. calls'["read"] = Opening(ListCalls(page))["read"]
    BY <1>2, <1>b, <2>1, <2>2 DEF Mounted
  <2>3. calls'["read"] = Calling([op |-> ListOp[page], page |-> 1])
    BY <1>b, <2>r DEF Opening, ListCalls
  <2>4. /\ ListShape(view') /\ view'.page = page /\ view'.number = 1 /\ view'.data = NoReply
        /\ view'.loading = TRUE /\ view'.error = FALSE
    BY <2>2 DEF ListFirst, ListShape
  <2>5. PICK w, d : /\ w = view' /\ d = calls'["read"] /\ w.number \in Nat \ {0}
                    /\ d = Calling([op |-> ListOp[w.page], page |-> w.number])
    BY <2>3, <2>4
  <2>g. ListGood(w, d)
    BY <2>4, <2>5, ListBegins DEF ListInv
  <2>6. page = "logs" => LogSource(view', calls'["read"])
    BY <2>3, <2>4, SourceBegins, ListOpIs DEF ListInv
  <2> QED BY <2>1, <2>5, <2>g, <2>6
<1>3. CASE Wired
  <2>1. /\ view' = v /\ ListGood(v, c) /\ v.page \in DOMAIN ListOp
        /\ v.page = "logs" => LogSource(v, c)
    BY <1>3, <1>c, <1>d DEF Wired
  <2>2. PICK d : d = calls'["read"] /\ WireStep(c, d)
    BY <1>3, <1>b, <1>c DEF Wired
  <2>3. CASE c = d
    BY <2>1, <2>2, <2>3
  <2>4. CASE Served(c, d)
    <3>1. /\ c.phase = "sent" /\ d.phase = "replied" /\ d.req = c.req /\ c.req.op = ListOp[v.page]
          /\ c.req.op \in {"events", "validation"} /\ c.req.page = v.number
      BY <2>1, <2>4, ListOpIs DEF Served, Alike, ListGood
    <3>2. \/ d.reply = [status |-> 401]
          \/ c.req.op \in env.missing /\ d.reply = [status |-> 404]
          \/ d.reply = Answer(c.req, srv, "srv")
      BY <2>4, <3>1 DEF Served, Open
    <3>3. d.reply.status = 200 => d.reply.at = "srv" /\ PageIs(d.reply, v.number)
      BY <3>1, <3>2, PageAnswers DEF ListInv
    <3>4. d.reply.status = 404 => c.req.op \in env.missing
      BY <3>1, <3>2, PageAnswers DEF ListInv
    <3>5. ListGood(v, d)
      BY <2>1, <3>1, <3>3 DEF ListGood, Phase, Answered
    <3>6. v.page = "logs" => LogSource(v, d)
      BY <2>1, <3>1, <3>3, <3>4, ListOpIs DEF LogSource, NoEndpoint
    <3> QED BY <2>1, <2>2, <3>5, <3>6
  <2>5. CASE ReadOn(c, d)
    <3>1. c.phase = "replied" /\ d.phase = "reading" /\ d.req = c.req /\ d.reply = c.reply
      BY <2>5 DEF ReadOn, Alike
    <3> QED BY <2>1, <2>2, <3>1 DEF ListGood, LogSource, Phase, Answered
  <2>6. CASE FellBack(c, d)
    <3>1. /\ c.phase = "reading" /\ c.req.op = "events" /\ v.page = "logs" /\ c.reply.status = 404
          /\ d = Delayed(c.req, Answer(c.req, mock, "mock")) /\ c.req.page = v.number
      BY <2>1, <2>6, ListOpIs DEF FellBack, Fallback, ListGood
    <3>2. d.phase = "delayed" /\ d.req = c.req /\ d.reply = Answer(c.req, mock, "mock")
      BY <3>1 DEF Delayed
    <3>3. PageIs(d.reply, v.number) /\ d.reply.status = 200
      BY <3>1, <3>2, PageAnswers DEF ListInv
    <3>4. NoEndpoint
      BY <2>1, <3>1 DEF LogSource, Answered
    <3>5. ListGood(v, d)
      BY <2>1, <3>1, <3>2, <3>3 DEF ListGood, Phase
    <3>6. LogSource(v, d)
      BY <2>1, <3>1, <3>4 DEF LogSource
    <3> QED BY <2>1, <2>2, <3>5, <3>6
  <2> QED BY <2>2, <2>3, <2>4, <2>5, <2>6 DEF WireStep
<1>4. CASE LogsLoad \/ ValidationLoad
  <2>1. PICK r \in Results("read") :
            IF r.status = 200 /\ Blank(r, view.number)
            THEN /\ Settle("read", r, [read |-> ListCall(view.number - 1)])
                 /\ view' = Reloading(view, view.number - 1)
            ELSE Settle("read", r, Ended("read")) /\ view' = ListSettled(r)
    BY <1>4 DEF LogsLoad, ValidationLoad
  <2>2. v.page = view'.page /\ c.phase # "free"
    BY <1>c, <2>1, ListViews DEF Settle, Busy, Frame
  <2>3. ListGood(v, c) /\ v.page \in DOMAIN ListOp /\ (v.page = "logs" => LogSource(v, c))
    BY <1>d, <2>2
  <2>4. c.req.op \in {"events", "validation"}
    BY <2>2, <2>3, ListOpIs DEF ListGood
  <2>5. r = NoReply \/ (Answered(c) /\ r = c.reply)
    BY <1>c, <2>1, <2>4, ResultsAre DEF Answered
  <2>6. r.status = 200 => PageIs(r, v.number) /\ r = c.reply /\ Answered(c)
    BY <2>3, <2>5 DEF NoReply, ListGood
  <2>7. CASE r.status = 200 /\ Blank(r, v.number)
    <3>1. view' = Reloading(v, v.number - 1)
      BY <1>c, <2>1, <2>7
    <3>2. /\ ListShape(view') /\ view'.loading = TRUE /\ view'.error = FALSE
          /\ view'.number = v.number - 1 /\ view'.data = v.data /\ view'.page = v.page
      BY <1>c, <2>3, <3>1, ReloadingIs, ZenonT(60) DEF ListGood
    <3>3. v.number - 1 \in Nat \ {0}
      BY <2>3, <2>7 DEF Blank, ListGood
    <3>4. calls'["read"] = ListCall(v.number - 1)
      BY <1>b, <1>c, <2>1, <2>7 DEF Settle, Replace, Over
    <3>5. calls'["read"] = Calling([op |-> ListOp[v.page], page |-> v.number - 1])
      BY <1>c, <3>4 DEF ListCall
    <3>6. ListGood(view', calls'["read"])
      BY <2>3, <3>2, <3>3, <3>5, ListBegins DEF ListInv
    <3>7. v.page = "logs" => LogSource(view', calls'["read"])
      BY <2>3, <3>2, <3>5, SourceBegins, ListOpIs DEF ListInv, LogSource
    <3> QED BY <3>2, <3>6, <3>7
  <2>8. CASE ~(r.status = 200 /\ Blank(r, v.number))
    <3>1. calls'["read"].phase = "free" /\ view' = ListSettled(r)
      BY <1>b, <1>c, <2>1, <2>8 DEF Settle, Replace, Over, Ended, Free
    <3>2. CASE r.status = 200
      <4>1. view' = [v EXCEPT !.data = r, !.loading = FALSE]
        BY <1>c, <3>1, <3>2 DEF ListSettled
      <4>2. /\ ListShape(view') /\ view'.error = v.error /\ view'.loading = FALSE
            /\ view'.number = v.number /\ view'.page = v.page /\ view'.data = r
        BY <2>3, <4>1 DEF ListGood, ListShape
      <4>3. r.items = <<>> => r.total = 0
        BY <2>3, <2>6, <2>8, <3>2 DEF Blank, PageIs, ListGood
      <4>4. ListGood(view', calls'["read"])
        BY <2>3, <2>6, <3>1, <3>2, <4>2, <4>3, ZenonT(60) DEF ListGood, Phase, Answered, PageIs
      <4>5. v.page = "logs" => LogSource(view', calls'["read"])
        BY <2>3, <2>6, <3>1, <3>2, <4>2 DEF LogSource, Answered
      <4> QED BY <4>2, <4>4, <4>5
    <3>3. CASE r.status # 200
      <4>1. view' = [v EXCEPT !.error = TRUE, !.loading = FALSE]
        BY <1>c, <3>1, <3>3 DEF ListSettled
      <4>2. /\ ListShape(view') /\ view'.error = TRUE /\ view'.loading = FALSE
            /\ view'.number = v.number /\ view'.page = v.page /\ view'.data = v.data
        BY <2>3, <4>1 DEF ListGood, ListShape
      <4>3. ListGood(view', calls'["read"])
        BY <2>3, <3>1, <4>2 DEF ListGood, Phase, Answered
      <4>4. v.page = "logs" => LogSource(view', calls'["read"])
        BY <2>3, <3>1, <4>2 DEF LogSource, Answered
      <4> QED BY <4>2, <4>3, <4>4
    <3> QED BY <3>2, <3>3
  <2> QED BY <2>7, <2>8
<1>5. ASSUME NEW number, TurnListPage(number)
      PROVE  /\ ListGood(view', calls'["read"])
             /\ view'.page = "logs" => LogSource(view', calls'["read"])
  <2>1. /\ view' = Reloading(view, number) /\ number \in {view.number - 1, view.number + 1}
        /\ number >= 1 /\ Call("read", [op |-> ListOp[view.page], page |-> number])
    BY <1>5 DEF TurnListPage, Neighbours
  <2>2. v.page = view'.page
    BY <1>c, <2>1, ListViews DEF Frame
  <2>3. ListGood(v, c) /\ v.page \in DOMAIN ListOp /\ (v.page = "logs" => LogSource(v, c))
    BY <1>d, <2>2
  <2>4. /\ ListShape(view') /\ view'.loading = TRUE /\ view'.error = FALSE
        /\ view'.number = number /\ view'.data = v.data
    BY <1>c, <2>1, <2>3, ReloadingIs, ZenonT(60) DEF ListGood
  <2>5. number \in Nat \ {0}
    BY <1>c, <2>1, <2>3 DEF ListGood
  <2>6. calls'["read"] = Calling([op |-> ListOp[v.page], page |-> number])
    BY <1>b, <1>c, <2>1 DEF Call, Frame, CallsWhole
  <2>7. ListGood(view', calls'["read"])
    BY <2>2, <2>3, <2>4, <2>5, <2>6, ListBegins DEF ListInv
  <2>8. v.page = "logs" => LogSource(view', calls'["read"])
    BY <2>3, <2>4, <2>6, SourceBegins, ListOpIs DEF ListInv, LogSource
  <2> QED BY <2>2, <2>7, <2>8
<1>6. CASE LogMoves
  BY <1>6, <1>c, <1>d DEF LogMoves, World
<1>7. ASSUME view.page = "providers", view'.page = view.page PROVE FALSE
  BY <1>7, ListOpIs
<1> QED BY <1>a, <1>1, <1>2, <1>3, <1>4, <1>5, <1>6, <1>7
        DEF ListPagesNext, ProvidersLoad, SubmitImport, ImportSettles, ImportedLoad, TurnProviders, At

LEMMA ListAlways == Spec => [](Frame /\ ListInv)
<1>1. Init => Frame /\ ListInv
  <2> SUFFICES ASSUME Init PROVE Frame /\ ListInv
    OBVIOUS
  <2>1. LogsInv
    BY StartsAssumption DEF Init, LogsInv, HasLogs, IsSeq
  <2>2. ASSUME NEW page \in DOMAIN ListOp, view.page = page
        PROVE  /\ ListGood(view, calls["read"])
               /\ page = "logs" => LogSource(view, calls["read"])
    <3>0. "read" \in PageSlots
      BY SlotsAre DEF PageSlots, AppSlots
    <3>1. view = First(page) /\ calls["read"] = Opening(Calls(page))["read"]
      BY <2>2, <3>0, InitFrame
    <3>r. view = ListFirst(page) /\ calls["read"] = Opening(ListCalls(page))["read"]
      BY <3>1, PagesAre, ListOpIs
    <3>2. view = ListFirst(page) /\ calls["read"] = Calling([op |-> ListOp[page], page |-> 1])
      BY <3>0, <3>r DEF Opening, ListCalls
    <3>3. /\ ListShape(view) /\ view.page = page /\ view.number = 1 /\ view.data = NoReply
          /\ view.loading = TRUE /\ view.error = FALSE
      BY <3>2 DEF ListFirst, ListShape
    <3>4. PICK w, d : /\ w = view /\ d = calls["read"] /\ w.number \in Nat \ {0}
                      /\ d = Calling([op |-> ListOp[w.page], page |-> w.number])
      BY <3>2, <3>3
    <3>5. ListGood(w, d)
      BY <2>1, <3>3, <3>4, ListBegins
    <3>6. page = "logs" => LogSource(w, d)
      BY <2>1, <3>3, <3>4, SourceBegins, ListOpIs
    <3> QED BY <3>4, <3>5, <3>6
  <2> QED BY <2>1, <2>2, InitFrame, ListOpIs DEF ListInv, OnListPage, At
<1>2. Frame /\ ListInv /\ [Next]_vars => (Frame /\ ListInv)'
  BY PageSteps, ListKept
<1> QED BY <1>1, <1>2, PTL DEF Spec, Safe

\* PageIsRight: a list on the screen is the page its pager says, and blank only
\* where the list is empty, however the log shrinks and grows between the calls
\* (LogsPage.tsx and ValidationPage.tsx: the effect's load, which steps back).
THEOREM ListPageRight == Spec => []PageIsRight
<1>1. Frame /\ ListInv => PageIsRight
  <2> SUFFICES ASSUME ListInv, OnListPage, ~view.loading, ~view.error
               PROVE  /\ view.data.page = view.number
                      /\ ListShows = "empty" => view.data.total = 0
    BY DEF PageIsRight
  <2>1. /\ view.data.status = 200 /\ view.data.page = view.number
        /\ view.data.items = <<>> => view.data.total = 0
    BY DEF ListInv, ListGood
  <2>2. view.data # NoReply
    BY <2>1 DEF NoReply
  <2> QED BY <2>1, <2>2 DEF ListShows, LogsShow, ValidationShows
<1> QED BY <1>1, ListAlways, PTL

\* MockOnlyWhenMissing: mock events stand in only for an endpoint there is not, not
\* for one that failed, was slow or wants a login (api-client.ts: the fallback of 404).
THEOREM MockStandsIn == Spec => []MockOnlyWhenMissing
<1>1. Frame /\ ListInv => MockOnlyWhenMissing
  BY DEF ListInv, LogSource, NoEndpoint, MockOnlyWhenMissing
<1> QED BY <1>1, ListAlways, PTL

-----------------------------------------------------------------------------
\* The proxies page.

PFields ==
    {"page", "filter", "touched", "number", "data", "options", "loading", "error", "drawer",
     "target", "pending", "closure", "dismissed", "gone"}
ProxiesShape(v) ==
    /\ PFields \subseteq DOMAIN v /\ {"open", "shown", "loading", "opened", "awaited"} \subseteq DOMAIN v.drawer
    /\ v.loading \in BOOLEAN /\ v.error \in BOOLEAN /\ v.pending \in BOOLEAN
    /\ v.dismissed \in BOOLEAN

\* What an open drawer may come to show: the proxy of the click, and those whose
\* details were awaited at it.
OfClick(drawer) == {drawer.opened} \cup drawer.awaited

\* The drawer, with the call in one of its slots: both are for one of these.
DetailGood(v, c) ==
    c.phase # "free" => c.req.op = "detail" /\ (v.drawer.open => c.req.proxy \in OfClick(v.drawer))
DrawerGood(v) == v.drawer.open => v.drawer.shown \in OfClick(v.drawer)

\* The table, with the call c of the list effect and the call w of the dialog: both
\* are for the list that the filter bar and the pager show, the dialog's as long as
\* it is open; and while it is, no list is loading.
TableGood(v, c, w) ==
    /\ v.loading <=> c.phase # "free"
    /\ v.loading => c.req.op = "list" /\ c.req.filter = v.filter /\ c.req.page = v.number
    /\ v.target # Null => ~v.loading
    /\ w.phase # "free" =>
            /\ v.pending
            /\ w.req.op \in {"delete", "list"}
            /\ w.req.op = "list" => w.req.filter = v.closure.filter /\ w.req.page = v.closure.number
            /\ ~v.dismissed =>
                    v.target # Null /\ v.closure.filter = v.filter /\ v.closure.number = v.number
    /\ ~v.loading /\ ~v.error /\ ~v.dismissed /\ v.data # NoReply =>
            v.data.filter = v.filter /\ v.data.page = v.number

ProxiesGood(v) ==
    /\ ProxiesShape(v) /\ DrawerGood(v)
    /\ \A s \in Details : DetailGood(v, calls[s])
    /\ TableGood(v, calls["read"], calls["write"])
ProxiesInv == At("proxies") => ProxiesGood(view)

LEMMA ListReqIs ==
    ASSUME NEW v
    PROVE  /\ ListReq(v).op = "list" /\ ListReq(v).filter = v.filter /\ ListReq(v).page = v.number
BY DEF ListReq

LEMMA ProxiesOpens ==
    ASSUME NEW c, NEW w, c = Calling(ListReq(ProxiesFirst)), w = Free
    PROVE  /\ ProxiesShape(ProxiesFirst) /\ DrawerGood(ProxiesFirst)
           /\ DetailGood(ProxiesFirst, Free) /\ TableGood(ProxiesFirst, c, w)
<1>1. ProxiesShape(ProxiesFirst) /\ DrawerGood(ProxiesFirst)
  BY DEF ProxiesShape, DrawerGood, PFields, ProxiesFirst, NoDrawer
<1>2. DetailGood(ProxiesFirst, Free)
  BY DEF DetailGood, Free
<1>3. PICK v : v = ProxiesFirst
  OBVIOUS
<1>4. v.loading = TRUE /\ v.target = Null /\ w.phase = "free"
  BY <1>3 DEF ProxiesFirst, Free
<1>5. c.phase # "free" /\ c.req.op = "list" /\ c.req.filter = v.filter /\ c.req.page = v.number
  BY <1>3, CallingIs, ListReqIs
<1> QED BY <1>1, <1>2, <1>3, <1>4, <1>5 DEF TableGood

\* What is kept of the overlays when the list is loaded again.
Overlays(v, w) ==
    /\ w.drawer = v.drawer
    /\ w.target = v.target /\ w.pending = v.pending
    /\ w.closure = v.closure /\ w.dismissed = v.dismissed

LEMMA RerunIs ==
    ASSUME NEW v, ProxiesShape(v), NEW number, NEW back, back = Rerun(v, number)
    PROVE  /\ ProxiesShape(back) /\ back.loading /\ ~back.error
           /\ back.number = number /\ back.filter = v.filter /\ Overlays(v, back)
BY DEF Rerun, ProxiesShape, PFields, Overlays

\* What the drawer is about.
LEMMA DrawerAlike ==
    ASSUME NEW v, NEW w, DrawerGood(v), w.drawer = v.drawer
    PROVE  DrawerGood(w) /\ \A c : DetailGood(v, c) => DetailGood(w, c)
BY DEF DrawerGood, DetailGood

\* The answer to a call for a proxy's detail is of that proxy.
LEMMA DetailResults ==
    ASSUME NEW s \in Details, Echoes(calls[s]), calls[s].req.op = "detail",
           NEW r \in Results(s), r.status = 200
    PROVE  r.proxy = calls[s].req.proxy
<1>1. PICK o \in Outcomes(calls[s]) : r = FromCache(calls[s], o)
  BY DEF Results
<1>2. Ok([proxy |-> calls[s].req.proxy]).proxy = calls[s].req.proxy
  BY DEF Ok, Over
<1>3. CASE r = o
  <2>1. calls[s].phase \in {"reading", "delayed"} /\ o = calls[s].reply
    BY <1>3 DEF Outcomes, NoReply
  <2> QED BY <1>3, <2>1 DEF Echoes, Answered
<1> QED BY <1>1, <1>2, <1>3 DEF FromCache

LEMMA ListResults ==
    ASSUME NEW s \in {"read", "write"}, Echoes(calls[s]), calls[s].req.op = "list",
           NEW r \in Results(s), r.status = 200
    PROVE  r.filter = calls[s].req.filter /\ r.page = calls[s].req.page
<1>1. r = calls[s].reply /\ calls[s].phase \in {"reading", "delayed"}
  BY ResultsAre DEF NoReply
<1> QED BY <1>1 DEF Echoes, Answered

LEMMA OptionsKeep ==
    ASSUME Frame, ProxiesGood(view), OptionsLoad
    PROVE  ProxiesGood(view)'
<1>1. PICK v : v = view /\ ProxiesGood(v)
  OBVIOUS
<1>2. PICK r : Settle("options", r, Ended("options"))
  BY DEF OptionsLoad
<1>3. \A t \in Details \cup {"read", "write"} : calls'[t] = calls[t]
  BY <1>2, SettleEnded, SlotsAre DEF Frame, Details
<1>4. \/ \E options : view' = [v EXCEPT !.options = options]
      \/ view' = [v EXCEPT !.error = TRUE]
  BY <1>1 DEF OptionsLoad
<1>5. /\ ProxiesShape(view') /\ view'.drawer = v.drawer
      /\ (view'.error = v.error \/ view'.error = TRUE)
      /\ \A f \in PFields \ {"options", "error"} : view'[f] = v[f]
  BY <1>1, <1>4 DEF ProxiesGood, ProxiesShape, PFields
<1>6. TableGood(view', calls'["read"], calls'["write"])
  <2>1. /\ view'.loading = v.loading /\ view'.filter = v.filter /\ view'.number = v.number
        /\ view'.target = v.target /\ view'.pending = v.pending /\ view'.closure = v.closure
        /\ view'.dismissed = v.dismissed /\ view'.data = v.data
    BY <1>5 DEF PFields
  <2> QED BY <1>1, <1>3, <1>5, <2>1 DEF ProxiesGood, TableGood
<1> QED BY <1>1, <1>3, <1>5, <1>6, DrawerAlike DEF ProxiesGood

LEMMA LoadKeeps ==
    ASSUME Frame, PageCalls, ProxiesGood(view), ProxiesLoad
    PROVE  ProxiesGood(view)'
<1>1. PICK v, c : v = view /\ c = calls["read"] /\ ProxiesGood(v)
  OBVIOUS
<1>2. PICK r \in Results("read") :
        \/ /\ Settle("read", r, [read |-> Calling(ListReq(Rerun(v, v.number - 1)))])
           /\ view' = Rerun(v, v.number - 1)
        \/ Settle("read", r, Ended("read")) /\ view' = Listed(r)
  BY <1>1, Zenon DEF ProxiesLoad
<1>3. c.phase # "free"
  BY <1>1, <1>2 DEF Settle, Busy
<1>4. /\ v.loading = TRUE /\ v.target = Null /\ c.req.op = "list"
      /\ c.req.filter = v.filter /\ c.req.page = v.number
  BY <1>1, <1>3 DEF ProxiesGood, TableGood, ProxiesShape
<1>w. TableGood(v, c, calls["write"]) /\ ProxiesShape(v) /\ DrawerGood(v)
  BY <1>1 DEF ProxiesGood
<1>f. calls["write"].phase = "free" \/ v.dismissed
  BY <1>4, <1>w DEF TableGood, ProxiesShape
<1>5. ASSUME Settle("read", r, [read |-> Calling(ListReq(Rerun(v, v.number - 1)))]),
             view' = Rerun(v, v.number - 1)
      PROVE  ProxiesGood(view)'
  <2>1. PICK back : back = Rerun(v, v.number - 1)
    OBVIOUS
  <2>2. PICK news : news = [read |-> Calling(ListReq(back))]
    OBVIOUS
  <2>3. DOMAIN news = {"read"} /\ news["read"] = Calling(ListReq(back))
    BY <2>2
  <2>4. Settle("read", r, news)
    BY <1>5, <2>1, <2>2
  <2>5. /\ calls'["read"] = Calling(ListReq(back))
        /\ \A t \in Details \cup {"write"} : calls'[t] = calls[t]
    BY <2>3, <2>4, SettleElse, SlotsAre DEF Frame, Details
  <2>6. /\ ProxiesShape(back) /\ back.loading /\ ~back.error
        /\ back.filter = v.filter /\ Overlays(v, back)
    BY <1>w, <2>1, RerunIs
  <2>8. calls'["read"].phase # "free" /\ calls'["read"].req = ListReq(back)
    BY <2>5, CallingIs
  <2>9. TableGood(back, calls'["read"], calls'["write"])
    BY <1>4, <1>f, <1>w, <2>5, <2>6, <2>8, ListReqIs DEF TableGood, Overlays
  <2> QED BY <1>1, <1>5, <2>1, <2>5, <2>6, <2>9, DrawerAlike DEF ProxiesGood, Overlays
<1>6. ASSUME Settle("read", r, Ended("read")), view' = Listed(r)
      PROVE  ProxiesGood(view)'
  <2>1. /\ calls'["read"] = Free
        /\ \A t \in Details \cup {"write"} : calls'[t] = calls[t]
    BY <1>6, SettleEnded, SlotsAre DEF Frame, Details
  <2>2. PICK n : n = view'
    OBVIOUS
  <2>3. /\ ProxiesShape(n) /\ n.loading = FALSE
        /\ n.error = TRUE \/ (r.status = 200 /\ n.data = r)
        /\ n.drawer = v.drawer /\ n.filter = v.filter
        /\ n.target = v.target /\ n.pending = v.pending /\ n.closure = v.closure
        /\ n.dismissed = v.dismissed /\ n.number = v.number
    <3>1. CASE r.status = 200
      <4>1. n = [v EXCEPT !.data = r, !.loading = FALSE]
        BY <1>1, <1>6, <2>2, <3>1 DEF Listed
      <4> QED BY <1>w, <3>1, <4>1 DEF ProxiesShape, PFields
    <3>2. CASE r.status # 200
      <4>1. n = [v EXCEPT !.error = TRUE, !.loading = FALSE]
        BY <1>1, <1>6, <2>2, <3>2 DEF Listed
      <4> QED BY <1>w, <3>2, <4>1 DEF ProxiesShape, PFields
    <3> QED BY <3>1, <3>2
  <2>4. r.status = 200 => r.filter = v.filter /\ r.page = v.number
    BY <1>1, <1>2, <1>4, ListResults, PageSlotsAre DEF PageCalls
  <2>5. TableGood(n, calls'["read"], calls'["write"])
    BY <1>4, <1>f, <1>w, <2>1, <2>3, <2>4 DEF TableGood, Free
  <2> QED BY <1>1, <2>1, <2>2, <2>3, <2>5, DrawerAlike DEF ProxiesGood
<1> QED BY <1>2, <1>5, <1>6

LEMMA LateKeeps ==
    ASSUME Frame, ProxiesGood(view), LateLoad
    PROVE  ProxiesGood(view)'
<1>1. view' = view /\ \E r : Settle("late", r, Ended("late"))
  BY DEF LateLoad
<1>2. \A t \in Details \cup {"read", "write"} : calls'[t] = calls[t]
  BY <1>1, SettleEnded, SlotsAre DEF Frame, Details
<1> QED BY <1>1, <1>2 DEF ProxiesGood

\* The filter bar and the pager: another list is asked for.
LEMMA ReloadsKeep ==
    ASSUME Frame, ProxiesGood(view), Uncovered, NEW v, NEW number, Reload(Rerun(v, number)),
           ProxiesShape(v), Overlays(view, v)
    PROVE  ProxiesGood(view)'
<1>1. PICK u, back : u = view /\ back = Rerun(v, number)
  OBVIOUS
<1>2. /\ view' = back /\ calls'["read"] = Calling(ListReq(back))
      /\ \A t \in Details \cup {"write"} : calls'[t] = calls[t]
  BY <1>1, ReloadElse, SlotsAre DEF Frame, Details
<1>3. /\ ProxiesShape(back) /\ back.loading /\ ~back.error /\ Overlays(v, back)
  BY <1>1, RerunIs
<1>4. Overlays(u, back)
  BY <1>1, <1>3 DEF Overlays
<1>5. u.target = Null
  BY <1>1 DEF Uncovered, DialogShows
<1>6. calls'["read"].phase # "free" /\ calls'["read"].req = ListReq(back)
  BY <1>2, CallingIs
<1>7. TableGood(u, calls["read"], calls["write"]) /\ ProxiesShape(u) /\ DrawerGood(u)
  BY <1>1 DEF ProxiesGood
<1>8. calls["write"].phase = "free" \/ u.dismissed
  BY <1>5, <1>7 DEF TableGood, ProxiesShape
<1>9. TableGood(back, calls'["read"], calls'["write"])
  BY <1>2, <1>3, <1>4, <1>5, <1>6, <1>7, <1>8, ListReqIs DEF TableGood, Overlays
<1> QED BY <1>1, <1>2, <1>3, <1>4, <1>7, <1>9, DrawerAlike DEF ProxiesGood, Overlays

LEMMA ControlsKeep ==
    ASSUME Frame, ProxiesGood(view),
           \/ \E filter : ChangeFilter(filter)
           \/ ResetFilters
           \/ \E number : TurnPage(number)
    PROVE  ProxiesGood(view)'
<1>1. PICK u : u = view /\ ProxiesShape(u)
  BY DEF ProxiesGood
<1>2. ASSUME NEW filter, ChangeFilter(filter) PROVE ProxiesGood(view)'
  <2>1. PICK v : v = [u EXCEPT !.filter = filter, !.touched = TRUE]
    OBVIOUS
  <2>2. ProxiesShape(v) /\ Overlays(u, v)
    BY <1>1, <2>1 DEF ProxiesShape, PFields, Overlays
  <2>3. Uncovered /\ Reload(Rerun(v, 1))
    BY <1>1, <1>2, <2>1, Zenon DEF ChangeFilter
  <2> QED BY <1>1, <2>2, <2>3, ReloadsKeep
<1>3. CASE ResetFilters
  <2>1. PICK v : v = [u EXCEPT !.filter = defaultFilters, !.touched = FALSE]
    OBVIOUS
  <2>2. ProxiesShape(v) /\ Overlays(u, v)
    BY <1>1, <2>1 DEF ProxiesShape, PFields, Overlays
  <2>3. Uncovered /\ Reload(Rerun(v, 1))
    BY <1>1, <1>3, <2>1, Zenon DEF ResetFilters
  <2> QED BY <1>1, <2>2, <2>3, ReloadsKeep
<1>4. ASSUME NEW number, TurnPage(number) PROVE ProxiesGood(view)'
  <2>1. Overlays(u, u) /\ Uncovered /\ Reload(Rerun(u, number))
    BY <1>1, <1>4 DEF Overlays, TurnPage
  <2> QED BY <1>1, <2>1, ReloadsKeep
<1> QED BY <1>2, <1>3, <1>4

\* What the table and its calls are made of.
TableAlike(v, w) ==
    /\ w.loading = v.loading /\ w.error = v.error /\ w.filter = v.filter /\ w.number = v.number
    /\ w.data = v.data /\ w.target = v.target /\ w.pending = v.pending
    /\ w.closure = v.closure /\ w.dismissed = v.dismissed

LEMMA TableStays ==
    ASSUME NEW v, NEW w, NEW c, NEW d, TableGood(v, c, d), TableAlike(v, w)
    PROVE  TableGood(w, c, d)
BY DEF TableGood, TableAlike

LEMMA DrawersKeep ==
    ASSUME Frame, PageCalls, ProxiesGood(view), NEW s \in Details,
           (\E p : OpenDrawer(s, p)) \/ DetailArrives(s)
    PROVE  ProxiesGood(view)'
<1>1. PICK v : v = view /\ ProxiesGood(v)
  OBVIOUS
<1>2. ProxiesShape(v) /\ DrawerGood(v) /\ TableGood(v, calls["read"], calls["write"])
  BY <1>1 DEF ProxiesGood
<1>s. /\ s \in Slot \ {"read", "write"} /\ Details \subseteq Slot /\ s \in PageSlots
      /\ {"read", "write"} \subseteq Slot
  BY SlotsAre, PageSlotsAre DEF Details
<1>3. ASSUME NEW p, OpenDrawer(s, p) PROVE ProxiesGood(view)'
  <2>1. PICK req : req = [op |-> "detail", proxy |-> p]
    OBVIOUS
  <2>2. Call(s, req) /\ calls[s].phase = "free"
    BY <1>3, <2>1 DEF OpenDrawer, Busy
  <2>3. calls'[s] = Calling(req) /\ \A t \in Slot \ {s} : calls'[t] = calls[t]
    BY <1>s, <2>2, CallElse DEF Frame
  <2>4. PICK awaited : awaited = Awaited
    OBVIOUS
  <2>5. view' = [v EXCEPT !.drawer =
            [open |-> TRUE, shown |-> p, loading |-> TRUE, opened |-> p, awaited |-> awaited]]
    BY <1>1, <1>3, <2>4 DEF OpenDrawer
  <2>6. /\ ProxiesShape(view') /\ view'.drawer.shown = p /\ p \in OfClick(view'.drawer)
        /\ awaited \subseteq OfClick(view'.drawer) /\ TableAlike(v, view')
    BY <1>2, <2>5 DEF ProxiesShape, PFields, TableAlike, OfClick
  <2>7. ASSUME NEW t \in Details PROVE DetailGood(view', calls'[t])
    <3>1. CASE t = s
      BY <2>1, <2>3, <2>6, <3>1, CallingIs DEF DetailGood
    <3>2. CASE t # s
      <4>1. calls'[t] = calls[t] /\ DetailGood(v, calls[t])
        BY <1>1, <1>s, <2>3, <3>2 DEF ProxiesGood
      <4>2. calls[t].phase # "free" => calls[t].req.proxy \in awaited
        BY <2>4 DEF Busy, Awaited
      <4> QED BY <2>6, <4>1, <4>2 DEF DetailGood
    <3> QED BY <3>1, <3>2
  <2>8. TableGood(view', calls'["read"], calls'["write"])
    <3>1. calls'["read"] = calls["read"] /\ calls'["write"] = calls["write"]
      BY <1>s, <2>3
    <3> QED BY <1>2, <2>6, <3>1, TableStays
  <2>9. DrawerGood(view')
    BY <2>6 DEF DrawerGood
  <2> QED BY <2>6, <2>7, <2>8, <2>9 DEF ProxiesGood
<1>4. CASE DetailArrives(s)
  <2>1. PICK r \in Results(s) :
            /\ Settle(s, r, Ended(s))
            /\ view' = IF r.status = 200
                   THEN [view EXCEPT !.drawer = [@ EXCEPT !.shown = r.proxy, !.loading = FALSE]]
                   ELSE [view EXCEPT !.error = TRUE, !.drawer.loading = FALSE]
    BY <1>4, Zenon DEF DetailArrives
  <2>2. /\ calls'[s] = Free /\ \A t \in Slot \ {s} : calls'[t] = calls[t]
        /\ calls[s].phase # "free"
    BY <1>s, <2>1, SettleEnded DEF Frame
  <2>3. DetailGood(v, calls[s]) /\ Echoes(calls[s])
    BY <1>1, <1>s DEF ProxiesGood, PageCalls
  <2>4. calls[s].req.op = "detail"
    BY <2>2, <2>3 DEF DetailGood
  <2>5. r.status = 200 => r.proxy = calls[s].req.proxy
    BY <2>1, <2>3, <2>4, DetailResults
  <2>6. /\ ProxiesShape(view')
        /\ view'.drawer.open = v.drawer.open /\ OfClick(view'.drawer) = OfClick(v.drawer)
        /\ view'.drawer.shown = v.drawer.shown \/ (r.status = 200 /\ view'.drawer.shown = r.proxy)
        /\ view'.loading = v.loading /\ view'.filter = v.filter /\ view'.number = v.number
        /\ view'.data = v.data /\ view'.target = v.target /\ view'.pending = v.pending
        /\ view'.closure = v.closure /\ view'.dismissed = v.dismissed
        /\ view'.error = v.error \/ view'.error
    <3>1. CASE r.status = 200
      <4>1. view' = [view EXCEPT !.drawer = [view.drawer EXCEPT !.shown = r.proxy, !.loading = FALSE]]
        BY <2>1, <3>1
      <4> QED BY <1>1, <1>2, <3>1, <4>1 DEF ProxiesShape, PFields, OfClick
    <3>2. CASE r.status # 200
      <4>1. view' = [view EXCEPT !.error = TRUE, !.drawer = [view.drawer EXCEPT !.loading = FALSE]]
        BY <2>1, <3>2
      <4> QED BY <1>1, <1>2, <3>2, <4>1 DEF ProxiesShape, PFields, OfClick
    <3> QED BY <3>1, <3>2
  <2>7. DrawerGood(view')
    BY <1>2, <2>2, <2>3, <2>5, <2>6 DEF DrawerGood, DetailGood
  <2>8. ASSUME NEW t \in Details PROVE DetailGood(view', calls'[t])
    <3>1. CASE t = s
      BY <2>2, <3>1 DEF DetailGood, Free
    <3>2. CASE t # s
      <4>1. calls'[t] = calls[t] /\ DetailGood(v, calls[t])
        BY <1>1, <1>s, <2>2, <3>2 DEF ProxiesGood
      <4> QED BY <2>6, <4>1 DEF DetailGood
    <3> QED BY <3>1, <3>2
  <2>9. TableGood(view', calls'["read"], calls'["write"])
    <3>1. calls'["read"] = calls["read"] /\ calls'["write"] = calls["write"]
      BY <1>s, <2>2
    <3> QED BY <1>2, <2>6, <3>1 DEF TableGood, ProxiesShape
  <2> QED BY <2>6, <2>7, <2>8, <2>9 DEF ProxiesGood
<1> QED BY <1>3, <1>4

\* Closing the drawer, opening the dialog or closing it.
LEMMA OverlaysKeep ==
    ASSUME Frame, ProxiesGood(view),
           CloseDrawer \/ (\E p : AskDelete(p)) \/ CancelDelete
    PROVE  ProxiesGood(view)'
<1>1. PICK v : v = view /\ ProxiesGood(v)
  OBVIOUS
<1>2. ProxiesShape(v) /\ DrawerGood(v) /\ TableGood(v, calls["read"], calls["write"])
  BY <1>1 DEF ProxiesGood
<1>3. calls' = calls
  BY DEF CloseDrawer, AskDelete, CancelDelete, apiVars
<1>4. CASE CloseDrawer
  <2>1. view' = [v EXCEPT !.drawer = NoDrawer]
    BY <1>1, <1>4 DEF CloseDrawer
  <2>2. ProxiesShape(view') /\ ~view'.drawer.open /\ TableAlike(v, view')
    BY <1>2, <2>1 DEF ProxiesShape, PFields, TableAlike, NoDrawer
  <2>3. \A s \in Details : DetailGood(view', calls[s])
    BY <1>1, <2>2 DEF ProxiesGood, DetailGood
  <2> QED BY <1>2, <1>3, <2>2, <2>3, TableStays DEF ProxiesGood, DrawerGood
<1>5. ASSUME NEW p, AskDelete(p) PROVE ProxiesGood(view)'
  <2>1. view' = [v EXCEPT !.target = p] /\ v.target = Null /\ ~v.loading
    BY <1>1, <1>2, <1>5
       DEF AskDelete, Uncovered, DialogShows, Rows, TableShown, ProxiesShow, ProxiesShape
  <2>2. /\ ProxiesShape(view') /\ view'.target = p
        /\ view'.drawer = v.drawer
        /\ view'.loading = v.loading /\ view'.error = v.error /\ view'.filter = v.filter
        /\ view'.number = v.number /\ view'.data = v.data /\ view'.pending = v.pending
        /\ view'.closure = v.closure /\ view'.dismissed = v.dismissed
    BY <1>2, <2>1 DEF ProxiesShape, PFields
  <2>3. calls["write"].phase = "free" \/ v.dismissed
    BY <1>2, <2>1 DEF TableGood, ProxiesShape
  <2>4. TableGood(view', calls["read"], calls["write"])
    BY <1>2, <2>1, <2>2, <2>3 DEF TableGood, ProxiesShape
  <2> QED BY <1>1, <1>2, <1>3, <2>2, <2>4, DrawerAlike DEF ProxiesGood
<1>6. CASE CancelDelete
  <2>1. view' = [v EXCEPT !.target = Null, !.dismissed = @ \/ v.pending]
    BY <1>1, <1>6 DEF CancelDelete
  <2>2. PICK dismissed \in BOOLEAN : dismissed = (v.dismissed \/ v.pending)
    OBVIOUS
  <2>3. view' = [v EXCEPT !.target = Null, !.dismissed = dismissed]
    BY <2>1, <2>2
  <2>4. /\ ProxiesShape(view') /\ view'.target = Null /\ view'.dismissed = dismissed
        /\ view'.drawer = v.drawer
        /\ view'.loading = v.loading /\ view'.error = v.error /\ view'.filter = v.filter
        /\ view'.number = v.number /\ view'.data = v.data /\ view'.pending = v.pending
        /\ view'.closure = v.closure
    BY <1>2, <2>3 DEF ProxiesShape, PFields
  <2>5. v.pending => dismissed
    BY <2>2
  <2>6. v.dismissed => dismissed
    BY <2>2
  <2>7. TableGood(view', calls["read"], calls["write"])
    BY <1>2, <2>4, <2>5, <2>6 DEF TableGood, ProxiesShape
  <2> QED BY <1>1, <1>2, <1>3, <2>4, <2>7, DrawerAlike DEF ProxiesGood
<1> QED BY <1>4, <1>5, <1>6

\* The answers to the dialog's two calls.
LEMMA DialogKeeps ==
    ASSUME Frame, PageCalls, ProxiesGood(view), ConfirmDelete \/ DeleteAnswered
    PROVE  ProxiesGood(view)'
<1>1. PICK v, w : v = view /\ w = calls["write"] /\ ProxiesGood(v)
  OBVIOUS
<1>2. ProxiesShape(v) /\ DrawerGood(v) /\ TableGood(v, calls["read"], w)
  BY <1>1 DEF ProxiesGood
<1>s. Details \cup {"read"} \subseteq Slot \ {"write"} /\ "write" \in PageSlots /\ "write" \in Slot
  BY SlotsAre, PageSlotsAre DEF Details
<1>3. CASE ConfirmDelete
  <2>1. PICK req, back, closure :
            /\ req = [op |-> "delete", proxy |-> v.target]
            /\ back = UNION {Brought(c.req) : c \in Imports(strays)}
            /\ closure = [filter |-> v.filter, number |-> v.number,
                          selected |-> v.drawer.shown, target |-> v.target, back |-> back]
    OBVIOUS
  <2>2. /\ view' = [v EXCEPT !.pending = TRUE, !.closure = closure]
        /\ Call("write", req) /\ v.target # Null
    BY <1>1, <1>3, <2>1 DEF ConfirmDelete, DialogShows
  <2>3. /\ calls'["write"] = Calling(req)
        /\ \A t \in Details \cup {"read"} : calls'[t] = calls[t]
    BY <1>s, <2>2, CallElse DEF Frame
  <2>4. /\ ProxiesShape(view') /\ view'.pending /\ view'.closure = closure
        /\ view'.drawer = v.drawer
        /\ view'.loading = v.loading /\ view'.error = v.error /\ view'.filter = v.filter
        /\ view'.number = v.number /\ view'.data = v.data /\ view'.target = v.target
        /\ view'.dismissed = v.dismissed
    BY <1>2, <2>2 DEF ProxiesShape, PFields
  <2>5. calls'["write"].req.op = "delete" /\ calls'["read"] = calls["read"]
    BY <2>1, <2>3, CallingIs
  <2>6. TableGood(view', calls'["read"], calls'["write"])
    BY <1>2, <2>1, <2>2, <2>4, <2>5 DEF TableGood, ProxiesShape
  <2> QED BY <1>1, <1>2, <2>3, <2>4, <2>6, DrawerAlike DEF ProxiesGood
<1>4. CASE DeleteAnswered
  <2>1. PICK r \in Results("write") :
            \/ /\ Settle("write", r, [write |-> Calling(ListReq(view.closure))])
               /\ view' = [view EXCEPT !.gone = @ \cup ({view.closure.target} \ view.closure.back),
                            !.drawer = IF view.closure.selected = view.closure.target
                                       THEN NoDrawer ELSE @]
            \/ Settle("write", r, Ended("write")) /\ view' = Failed(view)
    BY <1>4, Zenon DEF DeleteAnswered
  <2>2. w.phase # "free"
    BY <1>1, <2>1 DEF Settle, Busy
  <2>3. ASSUME Settle("write", r, [write |-> Calling(ListReq(view.closure))]),
               view' = [view EXCEPT !.gone = @ \cup ({view.closure.target} \ view.closure.back),
                            !.drawer = IF view.closure.selected = view.closure.target
                                       THEN NoDrawer ELSE @]
        PROVE  ProxiesGood(view)'
    <3>0. PICK closure, drawer :
            /\ closure = v.closure
            /\ drawer = IF closure.selected = closure.target THEN NoDrawer ELSE v.drawer
      OBVIOUS
    <3>1. PICK news : news = [write |-> Calling(ListReq(closure))]
      OBVIOUS
    <3>2. DOMAIN news = {"write"} /\ news["write"] = Calling(ListReq(closure))
      BY <3>1
    <3>3. Settle("write", r, news)
      BY <1>1, <2>3, <3>0, <3>1
    <3>4. /\ calls'["write"] = Calling(ListReq(closure))
          /\ \A t \in Details \cup {"read"} : calls'[t] = calls[t]
      BY <1>s, <3>2, <3>3, SettleElse DEF Frame
    <3>5. {"open", "shown", "loading", "opened", "awaited"} \subseteq DOMAIN drawer
      BY <1>2, <3>0 DEF ProxiesShape, NoDrawer
    <3>6. /\ ProxiesShape(view') /\ TableAlike(v, view')
          /\ view'.drawer = drawer
      BY <1>1, <1>2, <2>3, <3>0, <3>5 DEF ProxiesShape, PFields, TableAlike
    <3>7. view'.drawer = v.drawer \/ ~view'.drawer.open
      BY <3>0, <3>6 DEF NoDrawer
    <3>8. DrawerGood(view') /\ \A t \in Details : DetailGood(view', calls'[t])
      BY <1>1, <1>2, <3>4, <3>6, <3>7 DEF ProxiesGood, DrawerGood, DetailGood
    <3>9. /\ calls'["write"].req.op = "list" /\ calls'["write"].req.filter = v.closure.filter
          /\ calls'["write"].req.page = v.closure.number /\ calls'["read"] = calls["read"]
      BY <3>0, <3>4, CallingIs, ListReqIs
    <3>10. TableGood(view', calls'["read"], calls'["write"])
      BY <1>2, <2>2, <3>6, <3>9 DEF TableGood, TableAlike, ProxiesShape
    <3> QED BY <3>6, <3>8, <3>10 DEF ProxiesGood
  <2>4. ASSUME Settle("write", r, Ended("write")), view' = Failed(view)
        PROVE  ProxiesGood(view)'
    <3>1. /\ calls'["write"] = Free
          /\ \A t \in Details \cup {"read"} : calls'[t] = calls[t]
      BY <1>s, <2>4, SettleEnded DEF Frame
    <3>2. /\ ProxiesShape(view') /\ view'.error
          /\ view'.drawer = v.drawer
          /\ view'.loading = v.loading /\ view'.filter = v.filter
          /\ view'.number = v.number /\ view'.data = v.data /\ view'.target = v.target
          /\ view'.dismissed = v.dismissed
      BY <1>1, <1>2, <2>4 DEF ProxiesShape, PFields, Failed
    <3>3. TableGood(view', calls'["read"], calls'["write"])
      BY <1>2, <3>1, <3>2 DEF TableGood, ProxiesShape, Free
    <3> QED BY <1>1, <1>2, <3>1, <3>2, <3>3, DrawerAlike DEF ProxiesGood
  <2> QED BY <2>1, <2>3, <2>4
<1> QED BY <1>3, <1>4

LEMMA ReloadedKeeps ==
    ASSUME Frame, PageCalls, ProxiesGood(view), ListReloaded
    PROVE  ProxiesGood(view)'
<1>1. PICK v, c, w : v = view /\ c = calls["read"] /\ w = calls["write"] /\ ProxiesGood(v)
  OBVIOUS
<1>2. ProxiesShape(v) /\ DrawerGood(v) /\ TableGood(v, c, w)
  BY <1>1 DEF ProxiesGood
<1>s. Details \cup {"read"} \subseteq Slot \ {"write", "late"} /\ "write" \in PageSlots /\ "write" \in Slot
  BY SlotsAre, PageSlotsAre DEF Details
<1> DEFINE done == [view EXCEPT !.target = Null, !.pending = FALSE, !.closure = Null]
           back == Rerun(done, view.number - 1)
<1>5. PICK r \in Results("write") :
        \/ Settle("write", r, Ended("write")) /\ view' = Failed(view)
        \/ /\ r.status = 200
           /\ Settle("write", r, Ended("write")) /\ view' = [done EXCEPT !.data = r]
        \/ Settle("write", r, Ended("write")) /\ view' = done
        \/ Settle("write", r, Over(Ended("write"), Renewed(back))) /\ view' = back
  BY Zenon DEF ListReloaded
<1>6. w.phase # "free" /\ w.req.op = "list" /\ Echoes(w)
  BY <1>1, <1>s DEF ListReloaded, Holds, PageCalls
<1>7. /\ ProxiesShape(done) /\ done.target = Null
      /\ done.drawer = v.drawer
      /\ done.loading = v.loading /\ done.error = v.error /\ done.filter = v.filter
      /\ done.number = v.number /\ done.data = v.data
      /\ done.dismissed = v.dismissed
  BY <1>1, <1>2 DEF ProxiesShape, PFields
<1>4. back = Rerun(done, view.number - 1)
  OBVIOUS
<1> HIDE DEF done, back
<1>8. ASSUME Settle("write", r, Ended("write")) /\ view' = Failed(view)
      PROVE  ProxiesGood(view)'
  <2>1. /\ calls'["write"] = Free
        /\ \A t \in Details \cup {"read"} : calls'[t] = calls[t]
    BY <1>s, <1>8, SettleEnded DEF Frame
  <2>2. /\ ProxiesShape(view') /\ view'.error
        /\ view'.drawer = v.drawer
        /\ view'.loading = v.loading /\ view'.filter = v.filter
        /\ view'.number = v.number /\ view'.data = v.data /\ view'.target = v.target
        /\ view'.dismissed = v.dismissed
    BY <1>1, <1>2, <1>8 DEF ProxiesShape, PFields, Failed
  <2>3. TableGood(view', calls'["read"], calls'["write"])
    BY <1>1, <1>2, <2>1, <2>2 DEF TableGood, ProxiesShape, Free
  <2> QED BY <1>1, <1>2, <2>1, <2>2, <2>3, DrawerAlike DEF ProxiesGood
<1>9. ASSUME r.status = 200, Settle("write", r, Ended("write")), view' = [done EXCEPT !.data = r]
      PROVE  ProxiesGood(view)'
  <2>1. /\ calls'["write"] = Free
        /\ \A t \in Details \cup {"read"} : calls'[t] = calls[t]
    BY <1>s, <1>9, SettleEnded DEF Frame
  <2>2. /\ ProxiesShape(view') /\ view'.data = r /\ view'.target = Null
        /\ view'.drawer = v.drawer
        /\ view'.loading = v.loading /\ view'.error = v.error /\ view'.filter = v.filter
        /\ view'.number = v.number /\ view'.dismissed = v.dismissed
    BY <1>7, <1>9 DEF ProxiesShape, PFields
  <2>3. r.filter = w.req.filter /\ r.page = w.req.page
    BY <1>1, <1>6, <1>9, ListResults
  <2>4. TableGood(view', calls'["read"], calls'["write"])
    BY <1>1, <1>2, <1>6, <2>1, <2>2, <2>3 DEF TableGood, ProxiesShape, Free
  <2> QED BY <1>1, <1>2, <2>1, <2>2, <2>4, DrawerAlike DEF ProxiesGood
<1>10. ASSUME Settle("write", r, Ended("write")), view' = done
       PROVE  ProxiesGood(view)'
  <2>1. /\ calls'["write"] = Free
        /\ \A t \in Details \cup {"read"} : calls'[t] = calls[t]
    BY <1>s, <1>10, SettleEnded DEF Frame
  <2>2. TableGood(done, calls'["read"], calls'["write"])
    BY <1>1, <1>2, <1>7, <2>1 DEF TableGood, ProxiesShape, Free
  <2> QED BY <1>1, <1>2, <1>7, <1>10, <2>1, <2>2, DrawerAlike DEF ProxiesGood
<1>11. ASSUME Settle("write", r, Over(Ended("write"), Renewed(back))), view' = back
       PROVE  ProxiesGood(view)'
  <2>1. PICK ended, renewed, both :
            ended = Ended("write") /\ renewed = Renewed(back) /\ both = Over(ended, renewed)
    OBVIOUS
  <2>2. Settle("write", r, both)
    BY <1>11, <2>1
  <2>3. DOMAIN ended = {"write"} /\ ended["write"] = Free
    BY <2>1 DEF Ended
  <2>4. /\ DOMAIN renewed \subseteq {"read", "late"} /\ "read" \in DOMAIN renewed
        /\ renewed["read"] = Calling(ListReq(back))
    BY <2>1, RenewedElse DEF Frame
  <2>5. /\ DOMAIN both = DOMAIN ended \cup DOMAIN renewed
        /\ both["write"] = ended["write"] /\ both["read"] = renewed["read"]
    BY <2>1, <2>3, <2>4 DEF Over
  <2>6. /\ calls'["write"] = Free /\ calls'["read"] = Calling(ListReq(back))
        /\ \A t \in Details : calls'[t] = calls[t]
    BY <1>s, <2>2, <2>3, <2>4, <2>5, SettleElse DEF Frame, Details
  <2>7. /\ ProxiesShape(back) /\ back.loading /\ ~back.error
        /\ back.filter = done.filter /\ Overlays(done, back)
    BY <1>4, <1>7, RerunIs
  <2>8. calls'["read"].phase # "free" /\ calls'["read"].req = ListReq(back)
    BY <2>6, CallingIs
  <2>9. TableGood(back, calls'["read"], calls'["write"])
    BY <1>7, <2>6, <2>7, <2>8, ListReqIs DEF TableGood, Overlays, Free
  <2>10. back.drawer = v.drawer
    BY <1>7, <2>7 DEF Overlays
  <2> QED BY <1>1, <1>2, <1>11, <2>6, <2>7, <2>9, <2>10, DrawerAlike DEF ProxiesGood
<1> QED BY <1>5, <1>8, <1>9, <1>10, <1>11

LEMMA ProxiesKept ==
    ASSUME Frame, PageCalls, ProxiesInv, [Next]_vars
    PROVE  ProxiesInv'
<1> SUFFICES ASSUME At("proxies")'
             PROVE  ProxiesGood(view)'
  BY DEF ProxiesInv
<1>a. \/ Unmoved \/ Mounted \/ Wired
      \/ ProxiesNext /\ At("proxies")
  BY PageSteps DEF At, OnLogin, Frame, Tick, Timed
<1>s. Details \cup {"read", "write"} \subseteq PageSlots /\ PageSlots \subseteq Slot
  BY PageSlotsAre, SlotsAre DEF Details
<1>1. CASE Unmoved
  BY <1>1, <1>s DEF Unmoved, ProxiesInv, ProxiesGood, At
<1>2. CASE Mounted
  <2>1. /\ view' = ProxiesFirst
        /\ \A s \in PageSlots : calls'[s] = Opening(ProxiesCalls)[s]
    BY <1>2, PagesAre DEF Mounted, At
  <2>2. calls'["read"] = Calling(ListReq(ProxiesFirst))
    BY <1>s, <2>1 DEF Opening, ProxiesCalls
  <2>3. \A s \in Details \cup {"write"} : calls'[s] = Free
    BY <1>s, <2>1 DEF Opening, ProxiesCalls, Details
  <2> QED BY <2>1, <2>2, <2>3, ProxiesOpens DEF ProxiesGood
<1>3. CASE Wired
  <2>1. view' = view /\ ProxiesGood(view)
    BY <1>3 DEF Wired, ProxiesInv, At
  <2>2. ASSUME NEW s \in Details \cup {"read", "write"},
               calls[s].phase # "free" => calls[s].req.op \in {"list", "detail", "delete"}
        PROVE  /\ calls'[s].phase # "free" <=> calls[s].phase # "free"
               /\ calls[s].phase # "free" => calls'[s].req = calls[s].req
    <3>1. WireStep(calls[s], calls'[s])
      BY <1>3, <1>s DEF Wired
    <3> QED BY <2>2, <3>1 DEF WireStep, Served, ReadOn, FellBack, Alike, Fallback
  <2>3. ASSUME NEW s \in Details PROVE DetailGood(view, calls'[s])
    <3>1. DetailGood(view, calls[s])
      BY <2>1 DEF ProxiesGood
    <3> QED BY <2>2, <3>1 DEF DetailGood
  <2>4. TableGood(view, calls'["read"], calls'["write"])
    <3>1. PICK v, c, d : /\ v = view /\ c = calls["read"] /\ d = calls["write"]
                         /\ TableGood(v, c, d) /\ ProxiesShape(v)
      BY <2>1 DEF ProxiesGood
    <3>2. /\ c.phase # "free" => c.req.op = "list"
          /\ d.phase # "free" => d.req.op \in {"list", "delete"}
      BY <3>1 DEF TableGood
    <3>3. /\ calls'["read"].phase # "free" <=> c.phase # "free"
          /\ c.phase # "free" => calls'["read"].req = c.req
      BY <2>2, <3>1, <3>2
    <3>4. /\ calls'["write"].phase # "free" <=> d.phase # "free"
          /\ d.phase # "free" => calls'["write"].req = d.req
      BY <2>2, <3>1, <3>2
    <3> QED BY <3>1, <3>3, <3>4 DEF TableGood, ProxiesShape
  <2> QED BY <2>1, <2>3, <2>4 DEF ProxiesGood
<1>4. CASE ProxiesNext /\ At("proxies")
  <2> ProxiesGood(view)
    BY <1>4 DEF ProxiesInv
  <2>1. CASE PoolMoves
    <3>1. calls' = calls /\ (view' = view \/ \E gone : view' = [view EXCEPT !.gone = gone])
      BY <2>1 DEF PoolMoves, World
    <3>2. PICK v : v = view /\ ProxiesGood(v)
      OBVIOUS
    <3>3. /\ ProxiesShape(view') /\ TableAlike(v, view')
          /\ view'.drawer = v.drawer
      BY <3>1, <3>2 DEF ProxiesGood, ProxiesShape, PFields, TableAlike
    <3> QED BY <3>1, <3>2, <3>3, TableStays, DrawerAlike DEF ProxiesGood
  <2> QED BY <1>4, <2>1, OptionsKeep, LoadKeeps, LateKeeps, ControlsKeep, DrawersKeep, OverlaysKeep,
             DialogKeeps, ReloadedKeeps DEF ProxiesNext
<1> QED BY <1>a, <1>1, <1>2, <1>3, <1>4

LEMMA ProxiesAlways == Spec => [](Frame /\ PageCalls /\ ProxiesInv)
<1>1. Init => Frame /\ PageCalls /\ ProxiesInv
  <2> SUFFICES ASSUME Init, At("proxies") PROVE Frame /\ PageCalls /\ ProxiesGood(view)
    BY InitFrame, PageCallsOpen DEF ProxiesInv
  <2>s. Details \cup {"read", "write"} \subseteq PageSlots
    BY PageSlotsAre DEF Details
  <2>1. view = ProxiesFirst /\ \A s \in PageSlots : calls[s] = Opening(ProxiesCalls)[s]
    BY InitFrame, PagesAre DEF At
  <2>2. calls["read"] = Calling(ListReq(ProxiesFirst))
    BY <2>s, <2>1 DEF Opening, ProxiesCalls
  <2>3. \A s \in Details \cup {"write"} : calls[s] = Free
    BY <2>s, <2>1 DEF Opening, ProxiesCalls, Details
  <2> QED BY <2>1, <2>2, <2>3, InitFrame, PageCallsOpen, ProxiesOpens DEF ProxiesGood
<1>2. Frame /\ PageCalls /\ ProxiesInv /\ [Next]_vars => (Frame /\ PageCalls /\ ProxiesInv)'
  BY PageSteps, PageCallsKept, ProxiesKept
<1> QED BY <1>1, <1>2, PTL DEF Spec, Safe

\* ListMatchesControls: the table is the list that the filter bar and the pager ask
\* for, unless a dialog was dismissed over a pending delete (ProxiesPage.tsx: the
\* effect's load, its cleanup, and confirmDelete's reload).
THEOREM TableIsAsked == Spec => []ListMatchesControls
<1>1. ProxiesInv => ListMatchesControls
  <2> SUFFICES ASSUME ProxiesInv, At("proxies"), TableShown, ~view.dismissed
               PROVE  view.data.filter = view.filter /\ view.data.page = view.number
    BY DEF ListMatchesControls
  <2>1. ~view.loading /\ ~view.error /\ view.data # NoReply
    BY DEF TableShown, ProxiesShow, ProxiesInv, ProxiesGood, ProxiesShape
  <2> QED BY <2>1 DEF ProxiesInv, ProxiesGood, TableGood
<1> QED BY <1>1, ProxiesAlways, PTL

\* DrawerIsOfClick: an open drawer shows the proxy of its click, or one whose details
\* were on their way at that click: the last of them to arrive, whichever that is
\* (openProxyDetails has no cleanup).
THEOREM DrawerAsClicked == Spec => []DrawerIsOfClick
<1>1. ProxiesInv => DrawerIsOfClick
  <2> SUFFICES ASSUME ProxiesInv, At("proxies"), DrawerShows(view.drawer).body # "closed"
               PROVE  DrawerShows(view.drawer).proxy \in {view.drawer.opened} \cup view.drawer.awaited
    BY DEF DrawerIsOfClick
  <2>1. view.drawer.open
    BY DEF DrawerShows
  <2> QED BY <2>1 DEF DrawerShows, ProxiesInv, ProxiesGood, DrawerGood, OfClick
<1> QED BY <1>1, ProxiesAlways, PTL

-----------------------------------------------------------------------------
\* The settings page.

LEMMA SettingsAnswers ==
    ASSUME NEW store, "settings" \in DOMAIN store, NEW at, NEW req
    PROVE  /\ req.op = "settings" => /\ Answer(req, store, at).status = 200
                                     /\ Answer(req, store, at).value = store.settings
           /\ req.op = "patch" => /\ Answer(req, store, at).status = 200
                                  /\ Answer(req, store, at).value = req.value
           /\ req.op = "patch" => After(req, store).settings = req.value
           /\ req.op # "patch" => After(req, store).settings = store.settings
<1>1. CASE req.op = "settings"
  BY <1>1 DEF Answer, SettingsAnswer, Ok, Over, After
<1>2. CASE req.op = "patch"
  BY <1>2 DEF Answer, SettingsAnswer, Ok, Over, After
<1>3. CASE req.op \notin {"settings", "patch"}
  <2>1. CASE req.op = "delete"
    BY <2>1 DEF After
  <2>2. CASE req.op = "import"
    BY <2>2 DEF After
  <2>3. CASE req.op \notin {"delete", "import"}
    BY <1>3, <2>3 DEF After
  <2> QED BY <1>3, <2>1, <2>2, <2>3
<1> QED BY <1>1, <1>2, <1>3

\* A server has both of the settings' endpoints or neither.
EnvInv == "settings" \in env.missing <=> "patch" \in env.missing

Patchless(waiting) == \A c \in waiting : c.req.op # "patch"

SettingsShape(v) ==
    /\ {"page", "form", "error", "loading", "saving", "saved", "dirty", "crossed"} \subseteq DOMAIN v
    /\ v.error \in BOOLEAN /\ v.loading \in BOOLEAN /\ v.saving \in BOOLEAN
    /\ v.dirty \in BOOLEAN /\ v.crossed \in BOOLEAN

\* A call of the page: its endpoint is missing only if both are.
SettingsCall(c, op) ==
    c.phase # "free" =>
        /\ c.req.op = op
        /\ c.phase \in OnWire => Live
        /\ Answered(c) /\ c.reply.status = 404 => "settings" \in env.missing

\* A call that has its answer has the stored value.
Brings(c, value) == Answered(c) /\ c.reply.status = 200 => c.reply.value = value

\* Unless a load crossed a save or one of them failed: no save is on its way from
\* an earlier visit, a load and a save do not run at once, what is answered is
\* what is stored, and so is a form that was not edited.
SettingsGood(v, c, d, waiting, stored) ==
    /\ SettingsShape(v)
    /\ v.loading <=> c.phase # "free"
    /\ v.saving <=> d.phase # "free"
    /\ SettingsCall(c, "settings") /\ SettingsCall(d, "patch")
    /\ ~v.crossed => ~(v.loading /\ v.saving)
    /\ ~v.crossed /\ ~v.error =>
        /\ Patchless(waiting)
        /\ Brings(c, stored) /\ Brings(d, stored)
        /\ ~v.loading /\ ~v.saving /\ ~v.dirty /\ v.form # Null => v.form = stored

SettingsInv ==
    /\ EnvInv
    /\ At("settings") => SettingsGood(view, calls["read"], calls["write"], strays, Stored)

LEMMA StoredIs ==
    ASSUME env' = env
    PROVE  /\ UNCHANGED <<srv, mock>> => Stored' = Stored
           /\ srv'.settings = srv.settings /\ mock'.settings = mock.settings => Stored' = Stored
           /\ Live /\ "settings" \notin env.missing => Stored = srv.settings /\ Stored' = srv'.settings
           /\ ~(Live /\ "settings" \notin env.missing) =>
                    Stored = mock.settings /\ Stored' = mock'.settings
BY DEF Stored, Live

\* A step of the wire changes what is stored by the page's own save alone, which
\* then has its answer.
Silent(d, e) == d = e \/ ReadOn(d, e) \/ (Served(d, e) /\ e.reply.status # 200)
LEMMA WireStored ==
    ASSUME Frame, LogsInv, EnvInv, AppCalls, PageCalls, Wire, Patchless(strays),
           SettingsCall(calls["write"], "patch")
    PROVE  \/ Stored' = Stored /\ Silent(calls["write"], calls'["write"])
           \/ /\ calls["write"].phase # "free" /\ Answered(calls'["write"])
              /\ calls'["write"].reply.status = 200 /\ calls'["write"].reply.value = Stored'
<1> DEFINE Moved ==
        \/ Stored' = Stored /\ Silent(calls["write"], calls'["write"])
        \/ /\ calls["write"].phase # "free" /\ Answered(calls'["write"])
           /\ calls'["write"].reply.status = 200 /\ calls'["write"].reply.value = Stored'
<1>s. "write" \in Slot /\ Slot = AppSlots \cup PageSlots
  BY SlotsAre DEF PageSlots, AppSlots
<1>c. CallsWhole
  BY DEF Frame
<1>o. \A s \in Slot \ {"write"} : calls[s].req.op # "patch"
  BY <1>s DEF AppCalls, OwnOp, PageCalls, MayHold
<1>d. "settings" \in DOMAIN srv /\ "settings" \in DOMAIN mock
  BY DEF LogsInv, HasLogs
<1>1. ASSUME NEW s \in Slot, Serve(s) PROVE Moved
  <2>1. /\ env' = env /\ Served(calls[s], calls'[s])
        /\ \A t \in Slot \ {s} : calls'[t] = calls[t]
    BY <1>c, <1>1, ServeSteps
  <2>2. mock' = mock /\ calls[s].phase = "sent"
    BY <1>1 DEF Serve
  <2>3. CASE s # "write"
    <3>1. \/ srv' = srv \/ srv' = After(calls[s].req, srv)
          \/ \E token : srv' = [srv EXCEPT !.tokens = @ \cup {token}, !.issued = @ \cup {token}]
          \/ srv' = [srv EXCEPT !.tokens = @ \ {calls[s].cookie}]
      BY <1>1 DEF Serve
    <3>2. srv'.settings = srv.settings
      <4>1. CASE srv' = After(calls[s].req, srv)
        BY <1>d, <1>o, <2>3, <4>1, SettingsAnswers
      <4>2. ASSUME NEW token,
                   srv' = [srv EXCEPT !.tokens = @ \cup {token}, !.issued = @ \cup {token}]
            PROVE  srv'.settings = srv.settings
        BY <1>d, <4>2
      <4>3. CASE srv' = [srv EXCEPT !.tokens = @ \ {calls[s].cookie}]
        BY <1>d, <4>3
      <4> QED BY <3>1, <4>1, <4>2, <4>3
    <3> QED BY <1>s, <2>1, <2>2, <2>3, <3>2, StoredIs DEF Silent
  <2>4. CASE s = "write"
    <3>1. PICK c, d : c = calls["write"] /\ d = calls'["write"]
      OBVIOUS
    <3>2. Live /\ c.req.op = "patch"
      BY <2>2, <2>4, <3>1 DEF SettingsCall, OnWire
    <3>3. \/ /\ calls' = [calls EXCEPT !["write"].phase = "replied", !["write"].reply = [status |-> 401]]
             /\ srv' = srv
          \/ /\ calls' = [calls EXCEPT !["write"].phase = "replied", !["write"].reply = [status |-> 404]]
             /\ srv' = srv
          \/ /\ calls' = [calls EXCEPT !["write"].phase = "replied",
                                       !["write"].reply = Answer(c.req, srv, "srv")]
             /\ srv' = After(c.req, srv) /\ "patch" \notin env.missing
      BY <1>1, <2>4, <3>1, <3>2 DEF Serve, Open
    <3>4. DOMAIN calls = Slot /\ IsCall(c)
      BY <1>c, <1>s, <3>1 DEF CallsWhole
    <3>5. ASSUME NEW r, calls' = [calls EXCEPT !["write"].phase = "replied", !["write"].reply = r]
          PROVE  d.phase = "replied" /\ d.reply = r
      BY <1>s, <3>1, <3>4, <3>5 DEF IsCall
    <3>6. \/ /\ srv' = srv
             /\ d.reply = [status |-> 401] \/ d.reply = [status |-> 404]
          \/ /\ d.phase = "replied" /\ d.reply = Answer(c.req, srv, "srv")
             /\ srv' = After(c.req, srv) /\ "patch" \notin env.missing
      BY <3>3, <3>5
    <3>7. CASE /\ srv' = srv
               /\ d.reply = [status |-> 401] \/ d.reply = [status |-> 404]
      <4>1. d.reply.status # 200 /\ Stored' = Stored
        BY <2>1, <2>2, <3>7, StoredIs
      <4> QED BY <2>1, <2>4, <3>1, <4>1 DEF Silent
    <3>8. CASE /\ d.phase = "replied" /\ d.reply = Answer(c.req, srv, "srv")
               /\ srv' = After(c.req, srv) /\ "patch" \notin env.missing
      <4>1. d.reply.status = 200 /\ d.reply.value = c.req.value /\ srv'.settings = c.req.value
        BY <1>d, <3>2, <3>8, SettingsAnswers
      <4>2. Stored' = srv'.settings
        BY <2>1, <3>2, <3>8, StoredIs DEF EnvInv
      <4> QED BY <2>2, <2>4, <3>1, <3>8, <4>1, <4>2 DEF Answered
    <3> QED BY <3>6, <3>7, <3>8
  <2> QED BY <2>3, <2>4
<1>2. ASSUME NEW s \in Slot, HeadersArrive(s) PROVE Moved
  <2>1. /\ env' = env /\ ReadOn(calls[s], calls'[s])
        /\ \A t \in Slot \ {s} : calls'[t] = calls[t]
    BY <1>c, <1>2, HeadersSteps
  <2>2. Stored' = Stored
    BY <1>2, <2>1, StoredIs DEF HeadersArrive
  <2> QED BY <1>s, <2>1, <2>2 DEF Silent
<1>3. ASSUME NEW s \in Slot, FallBack(s) PROVE Moved
  <2>1. /\ env' = env /\ FellBack(calls[s], calls'[s])
        /\ \A t \in Slot \ {s} : calls'[t] = calls[t]
    BY <1>c, <1>3, FallBackSteps
  <2>2. srv' = srv /\ mock' = IF calls[s].req.op = "patch" THEN After(calls[s].req, mock) ELSE mock
    BY <1>3 DEF FallBack
  <2>3. CASE s # "write"
    <3>1. Stored' = Stored
      BY <1>o, <2>1, <2>2, <2>3, StoredIs
    <3> QED BY <1>s, <2>1, <2>3, <3>1 DEF Silent
  <2>4. CASE s = "write"
    <3>1. PICK c, d : c = calls["write"] /\ d = calls'["write"]
      OBVIOUS
    <3>2. /\ c.phase = "reading" /\ c.reply.status = 404 /\ c.req.op = "patch"
          /\ d = Delayed(c.req, Answer(c.req, After(c.req, mock), "mock"))
      BY <2>1, <2>4, <3>1 DEF FellBack, SettingsCall
    <3>3. "settings" \in env.missing
      BY <3>1, <3>2 DEF SettingsCall, Answered
    <3>4. d.phase = "delayed" /\ d.reply = Answer(c.req, After(c.req, mock), "mock")
      BY <3>2 DEF Delayed
    <3>5. d.reply.status = 200 /\ d.reply.value = c.req.value /\ mock'.settings = c.req.value
      <4>1. PICK m : m = After(c.req, mock) /\ HasLogs(m)
        BY AfterHasLogs DEF LogsInv
      <4>2. d.reply = Answer(c.req, m, "mock") /\ mock' = m /\ "settings" \in DOMAIN m
        BY <2>2, <2>4, <3>1, <3>2, <3>4, <4>1 DEF HasLogs
      <4>3. d.reply.status = 200 /\ d.reply.value = c.req.value
        BY <3>2, <4>2, SettingsAnswers
      <4>4. m.settings = c.req.value
        BY <1>d, <3>2, <4>1, SettingsAnswers
      <4> QED BY <4>2, <4>3, <4>4
    <3>6. Stored' = mock'.settings
      BY <2>1, <3>3, StoredIs
    <3> QED BY <3>1, <3>2, <3>4, <3>5, <3>6 DEF Answered
  <2> QED BY <2>3, <2>4
<1>4. ASSUME NEW c \in strays, ServeStray(c) PROVE Moved
  <2>1. /\ env' = env /\ calls' = calls /\ mock' = mock
        /\ \/ srv' = srv \/ srv' = After(c.req, srv)
           \/ srv' = [srv EXCEPT !.tokens = @ \ {c.cookie}]
    BY <1>4 DEF ServeStray
  <2>2. srv'.settings = srv.settings
    <3>1. c.req.op # "patch"
      BY DEF Patchless
    <3>2. After(c.req, srv).settings = srv.settings
      BY <1>d, <3>1, SettingsAnswers
    <3> QED BY <1>d, <2>1, <3>2
  <2> QED BY <2>1, <2>2, StoredIs DEF Silent
<1> QED BY <1>1, <1>2, <1>3, <1>4 DEF Wire

LEMMA SettingsBegin ==
    ASSUME LogsInv, NEW req, req.op \in {"settings", "patch"}
    PROVE  /\ SettingsCall(Calling(req), req.op) /\ Calling(req).phase # "free"
           /\ Live => ~Answered(Calling(req))
           /\ ~Live /\ req.op = "settings" => Brings(Calling(req), mock.settings)
           /\ req.op = "patch" => Brings(Calling(req), req.value)
<1>1. CASE Live
  <2>1. Calling(req) = Fetching(req, cookie)
    BY <1>1 DEF Calling
  <2>2. Calling(req).phase = "sent" /\ Calling(req).req = req
    BY <2>1, FetchingIs
  <2> QED BY <1>1, <2>2 DEF SettingsCall, Answered, Brings
<1>2. CASE ~Live
  <2>1. PICK c : c = Calling(req)
    OBVIOUS
  <2>2. c = Delayed(req, Answer(req, mock, "mock"))
    BY <1>2, <2>1 DEF Calling
  <2>3. c.phase = "delayed" /\ c.req = req /\ c.reply = Answer(req, mock, "mock")
    BY <2>2 DEF Delayed
  <2>4. "settings" \in DOMAIN mock
    BY DEF LogsInv, HasLogs
  <2>5. /\ c.reply.status = 200
        /\ req.op = "settings" => c.reply.value = mock.settings
        /\ req.op = "patch" => c.reply.value = req.value
    BY <2>3, <2>4, SettingsAnswers
  <2> QED BY <1>2, <2>1, <2>3, <2>5 DEF SettingsCall, OnWire, Answered, Brings
<1> QED BY <1>1, <1>2

\* A save that a step leaves on its way was in the slot it was made in.
LEMMA PatchesStay ==
    ASSUME NEW slots, NewStrays(slots), \A s \in slots : Unserved(calls[s]) => calls[s].req.op # "patch",
           Patchless(strays)
    PROVE  Patchless(strays')
BY DEF NewStrays, Patchless

\* The wire.
LEMMA SettingsWired ==
    ASSUME Frame, LogsInv, EnvInv, AppCalls, PageCalls, Wire,
           SettingsGood(view, calls["read"], calls["write"], strays, Stored)
    PROVE  SettingsGood(view, calls'["read"], calls'["write"], strays', Stored')
<1>1. PICK v, c, d, e, f : /\ v = view /\ c = calls["read"] /\ d = calls["write"]
                           /\ e = calls'["read"] /\ f = calls'["write"]
                           /\ SettingsGood(v, c, d, strays, Stored)
  OBVIOUS
<1>2. /\ WireStep(c, e) /\ WireStep(d, f) /\ env' = env
      /\ c.phase = "free" <=> e.phase = "free"
      /\ d.phase = "free" <=> f.phase = "free"
  <2>1. Wired
    BY WireSteps DEF Wired
  <2>2. "read" \in Slot /\ "write" \in Slot
    BY SlotsAre
  <2>3. env' = env /\ WireStep(c, e) /\ WireStep(d, f)
    BY <1>1, <2>2, WireSteps
  <2>4. /\ c.phase = "free" <=> e.phase = "free"
        /\ d.phase = "free" <=> f.phase = "free"
    BY <1>1, <2>1, <2>2, WiredBusy
  <2> QED BY <2>3, <2>4
<1>m. "settings" \in DOMAIN srv /\ "settings" \in DOMAIN mock
  BY DEF LogsInv, HasLogs
<1>3. ASSUME NEW x, NEW y, NEW op \in {"settings", "patch"}, SettingsCall(x, op), WireStep(x, y)
      PROVE  SettingsCall(y, op)
  <2>1. CASE x = y
    BY <1>3, <2>1
  <2>2. CASE Served(x, y)
    <3>1. /\ x.req.op = op /\ Live /\ y.req = x.req /\ y.phase = "replied"
          /\ \/ y.reply = [status |-> 401]
             \/ op \in env.missing /\ y.reply = [status |-> 404]
             \/ y.reply = Answer(x.req, srv, "srv")
      BY <1>3, <2>2 DEF Served, SettingsCall, OnWire, Alike, Open
    <3>2. Answer(x.req, srv, "srv").status = 200
      BY <1>m, <3>1, SettingsAnswers
    <3>3. y.reply.status = 404 => "settings" \in env.missing
      BY <3>1, <3>2 DEF EnvInv
    <3> QED BY <3>1, <3>3 DEF SettingsCall
  <2>3. CASE ReadOn(x, y)
    BY <1>3, <2>3 DEF ReadOn, Alike, SettingsCall, OnWire, Answered
  <2>4. CASE FellBack(x, y)
    <3>1. x.phase = "reading" /\ x.req.op = op /\ Live
      BY <1>3, <2>4 DEF FellBack, SettingsCall
    <3>3. /\ op = "settings" => y = Delayed(x.req, Answer(x.req, mock, "mock"))
          /\ op = "patch" => y = Delayed(x.req, Answer(x.req, After(x.req, mock), "mock"))
      BY <2>4, <3>1 DEF FellBack
    <3>4. /\ Answer(x.req, mock, "mock").status = 200
          /\ Answer(x.req, After(x.req, mock), "mock").status = 200
      <4>1. PICK n : n = After(x.req, mock) /\ HasLogs(n)
        BY AfterHasLogs DEF LogsInv
      <4>2. "settings" \in DOMAIN n
        BY <4>1 DEF HasLogs
      <4>3. Answer(x.req, n, "mock").status = 200 /\ Answer(x.req, mock, "mock").status = 200
        BY <1>m, <3>1, <4>2, SettingsAnswers
      <4> QED BY <4>1, <4>3
    <3>5. y.phase = "delayed" /\ y.req = x.req /\ y.reply.status = 200
      BY <3>3, <3>4 DEF Delayed
    <3> QED BY <3>1, <3>5 DEF SettingsCall, OnWire
  <2> QED BY <1>3, <2>1, <2>2, <2>3, <2>4 DEF WireStep
<1>4. SettingsCall(e, "settings") /\ SettingsCall(f, "patch")
  BY <1>1, <1>2, <1>3 DEF SettingsGood
<1>5. ASSUME ~v.crossed, ~v.error
      PROVE  /\ Patchless(strays') /\ Brings(e, Stored') /\ Brings(f, Stored')
             /\ ~v.loading /\ ~v.saving /\ ~v.dirty /\ v.form # Null => v.form = Stored'
  <2>1. /\ Patchless(strays) /\ Brings(c, Stored) /\ Brings(d, Stored)
        /\ ~v.loading /\ ~v.saving /\ ~v.dirty /\ v.form # Null => v.form = Stored
        /\ ~(v.loading /\ v.saving)
        /\ v.loading <=> c.phase # "free"
        /\ v.saving <=> d.phase # "free"
        /\ SettingsCall(c, "settings") /\ SettingsCall(d, "patch")
        /\ v.loading \in BOOLEAN /\ v.saving \in BOOLEAN
    BY <1>1, <1>5 DEF SettingsGood, SettingsShape
  <2>2. Patchless(strays')
    BY <2>1 DEF Wire, Serve, HeadersArrive, FallBack, ServeStray, Patchless
  <2>3. \/ Stored' = Stored /\ Silent(d, f)
        \/ /\ d.phase # "free" /\ Answered(f)
           /\ f.reply.status = 200 /\ f.reply.value = Stored'
    BY <1>1, <2>1, WireStored
  <2>4. CASE Stored' = Stored /\ Silent(d, f)
    <3>1. Brings(f, Stored')
      BY <2>1, <2>4 DEF Silent, ReadOn, Served, Brings, Answered
    <3>2. Brings(e, Stored')
      <4>1. CASE c = e
        BY <2>1, <2>4, <4>1
      <4>2. CASE ReadOn(c, e)
        BY <2>1, <2>4, <4>2 DEF ReadOn, Brings, Answered
      <4>3. CASE Served(c, e)
        <5>1. /\ c.req.op = "settings" /\ Live /\ e.phase = "replied"
              /\ \/ e.reply = [status |-> 401]
                 \/ e.reply = [status |-> 404]
                 \/ "settings" \notin env.missing /\ e.reply = Answer(c.req, srv, "srv")
          BY <2>1, <4>3 DEF Served, SettingsCall, OnWire, Open
        <5>2. CASE "settings" \notin env.missing /\ e.reply = Answer(c.req, srv, "srv")
          <6>1. e.reply.value = srv.settings
            BY <1>m, <5>1, <5>2, SettingsAnswers
          <6>2. Stored = srv.settings
            BY <5>1, <5>2 DEF Stored
          <6> QED BY <2>4, <6>1, <6>2 DEF Brings
        <5> QED BY <5>1, <5>2 DEF Brings
      <4>4. CASE FellBack(c, e)
        <5>1. /\ c.req.op = "settings" /\ c.phase = "reading" /\ c.reply.status = 404
              /\ e = Delayed(c.req, Answer(c.req, mock, "mock"))
          BY <2>1, <4>4 DEF FellBack, SettingsCall
        <5>2. "settings" \in env.missing
          BY <2>1, <5>1 DEF SettingsCall, Answered
        <5>3. e.reply = Answer(c.req, mock, "mock")
          BY <5>1 DEF Delayed
        <5>4. e.reply.value = mock.settings
          BY <1>m, <5>1, <5>3, SettingsAnswers
        <5>5. Stored = mock.settings
          BY <5>2 DEF Stored
        <5> QED BY <2>4, <5>4, <5>5 DEF Brings
      <4> QED BY <1>2, <4>1, <4>2, <4>3, <4>4 DEF WireStep
    <3> QED BY <2>1, <2>2, <2>4, <3>1, <3>2
  <2>5. CASE /\ d.phase # "free" /\ Answered(f)
             /\ f.reply.status = 200 /\ f.reply.value = Stored'
    <3>1. e.phase = "free" /\ v.saving
      BY <1>2, <2>1, <2>5
    <3>2. Brings(e, Stored') /\ Brings(f, Stored')
      BY <2>5, <3>1 DEF Brings, Answered
    <3> QED BY <2>2, <3>1, <3>2
  <2> QED BY <2>3, <2>4, <2>5
<1>6. SettingsGood(v, e, f, strays', Stored')
  BY <1>1, <1>2, <1>4, <1>5 DEF SettingsGood
<1> QED BY <1>1, <1>6

\* The page's own steps.
LEMMA SettingsActs ==
    ASSUME Frame, LogsInv, SettingsNext,
           SettingsGood(view, calls["read"], calls["write"], strays, Stored)
    PROVE  SettingsGood(view', calls'["read"], calls'["write"], strays', Stored')
<1>1. PICK v, c, d, old : /\ v = view /\ c = calls["read"] /\ d = calls["write"] /\ old = strays
                          /\ SettingsGood(v, c, d, old, Stored)
  OBVIOUS
<1> DEFINE Kept == SettingsGood(view', calls'["read"], calls'["write"], strays', Stored')
<1>2. /\ SettingsShape(v) /\ SettingsCall(c, "settings") /\ SettingsCall(d, "patch")
      /\ v.loading <=> c.phase # "free"
      /\ v.saving <=> d.phase # "free"
      /\ ~v.crossed => ~(v.loading /\ v.saving)
      /\ ~v.crossed /\ ~v.error =>
            /\ Patchless(old) /\ Brings(c, Stored) /\ Brings(d, Stored)
            /\ ~v.loading /\ ~v.saving /\ ~v.dirty /\ v.form # Null => v.form = Stored
  BY <1>1 DEF SettingsGood
<1>s. /\ "read" \in Slot /\ "write" \in Slot
      /\ CallsWhole
  BY SlotsAre DEF Frame
<1>f. SettingsCall(Free, "settings") /\ SettingsCall(Free, "patch") /\ Free.phase = "free"
      /\ \A value : Brings(Free, value)
  BY DEF SettingsCall, Free, Brings, Answered
<1>3. CASE SettingsLoad
  <2>1. PICK r \in Results("read") :
            /\ Settle("read", r, Ended("read"))
            /\ view' = IF r.status = 200
                       THEN [view EXCEPT !.form = r.value, !.dirty = FALSE, !.loading = FALSE]
                       ELSE [view EXCEPT !.error = TRUE, !.loading = FALSE]
    BY <1>3 DEF SettingsLoad
  <2>2. /\ calls'["read"] = Free /\ calls'["write"] = d /\ c.phase # "free"
        /\ UNCHANGED <<env, srv, mock>>
    BY <1>1, <1>s, <2>1, SettleEnded DEF Settle
  <2>3. Stored' = Stored
    BY <2>2, StoredIs
  <2>4. Patchless(old) => Patchless(strays')
    <3>1. Replace(Ended("read")) /\ DOMAIN Ended("read") \subseteq {"read"}
      BY <2>1 DEF Settle, Ended
    <3>2. NewStrays({"read"})
      BY <1>s, <3>1, ReplaceStrays
    <3>3. c.req.op # "patch"
      BY <1>2, <2>2 DEF SettingsCall
    <3> QED BY <1>1, <3>2, <3>3, PatchesStay
  <2>5. r.status = 200 => Brings(c, r.value) /\ Answered(c) /\ c.reply.status = 200 /\ r = c.reply
    <3>1. c.req.op = "settings"
      BY <1>2, <2>2 DEF SettingsCall
    <3> QED BY <1>1, <3>1, ResultsAre DEF NoReply, Brings, Answered
  <2>6. CASE r.status = 200
    <3>1. view' = [v EXCEPT !.form = r.value, !.dirty = FALSE, !.loading = FALSE]
      BY <1>1, <2>1, <2>6
    <3>2. /\ SettingsShape(view') /\ view'.form = r.value /\ ~view'.loading
          /\ view'.saving = v.saving /\ view'.error = v.error /\ view'.crossed = v.crossed
      BY <1>2, <3>1 DEF SettingsShape
    <3>3. ~v.crossed /\ ~v.error => r.value = Stored
      BY <1>2, <2>5, <2>6 DEF Brings
    <3> QED BY <1>2, <1>f, <2>2, <2>3, <2>4, <3>2, <3>3 DEF SettingsGood, SettingsShape
  <2>7. CASE r.status # 200
    <3>1. view' = [v EXCEPT !.error = TRUE, !.loading = FALSE]
      BY <1>1, <2>1, <2>7
    <3>2. /\ SettingsShape(view') /\ view'.error /\ ~view'.loading
          /\ view'.saving = v.saving /\ view'.crossed = v.crossed
      BY <1>2, <3>1 DEF SettingsShape
    <3> QED BY <1>2, <1>f, <2>2, <3>2 DEF SettingsGood, SettingsShape
  <2> QED BY <2>6, <2>7
<1>4. ASSUME NEW value, EditSettings(value) PROVE Kept
  <2>1. view' = [v EXCEPT !.form = value, !.dirty = TRUE] /\ UNCHANGED apiVars
    BY <1>1, <1>4 DEF EditSettings
  <2>2. /\ SettingsShape(view') /\ view'.dirty
        /\ view'.saving = v.saving /\ view'.crossed = v.crossed
        /\ view'.loading = v.loading /\ view'.error = v.error
    BY <1>2, <2>1 DEF SettingsShape
  <2>3. calls' = calls /\ strays' = strays /\ Stored' = Stored
    BY <2>1, StoredIs DEF apiVars
  <2> QED BY <1>1, <1>2, <2>2, <2>3 DEF SettingsGood, SettingsShape
<1>5. CASE SaveSettings
  <2>1. PICK req : req = [op |-> "patch", value |-> v.form]
    OBVIOUS
  <2>2. /\ Call("write", req) /\ ~v.saving /\ ~v.loading
        /\ view' = [v EXCEPT !.saving = TRUE, !.error = FALSE, !.saved = FALSE]
        /\ ~v.error
    BY <1>1, <1>2, <1>5, <2>1 DEF SaveSettings, SettingsShow, SettingsShape
  <2>3. calls'["write"] = Calling(req) /\ calls'["read"] = c
    BY <1>1, <1>s, <2>2, CallElse
  <2>4. /\ env' = env /\ srv' = srv /\ mock' = (IF Live THEN mock ELSE After(req, mock))
        /\ strays' = old
    BY <1>1, <2>2 DEF Call, MockAfter
  <2>5. /\ SettingsShape(view') /\ view'.saving /\ ~view'.error
        /\ view'.loading = v.loading /\ view'.crossed = v.crossed
    BY <1>2, <2>2 DEF SettingsShape
  <2>6. /\ SettingsCall(Calling(req), "patch") /\ Calling(req).phase # "free"
        /\ Live => ~Answered(Calling(req))
        /\ Brings(Calling(req), req.value)
    BY <2>1, SettingsBegin
  <2>7. Brings(calls'["write"], Stored')
    <3>1. CASE Live
      BY <2>3, <2>6, <3>1 DEF Brings
    <3>2. CASE ~Live
      <4>1. mock'.settings = req.value
        BY <2>1, <2>4, <3>2, SettingsAnswers DEF LogsInv, HasLogs
      <4>2. Stored' = mock'.settings
        BY <2>4, <3>2, StoredIs
      <4> QED BY <2>3, <2>6, <4>1, <4>2
    <3> QED BY <3>1, <3>2
  <2>8. c.phase = "free" /\ Brings(c, Stored')
    BY <1>2, <2>2 DEF Brings, Answered
  <2> QED BY <1>2, <2>2, <2>3, <2>4, <2>5, <2>6, <2>7, <2>8 DEF SettingsGood, SettingsShape
<1>6. CASE SaveSettles
  <2>1. PICK r \in Results("write") :
            /\ Settle("write", r, Ended("write"))
            /\ view' = IF r.status = 200
                   THEN [view EXCEPT !.form = r.value, !.dirty = FALSE, !.saved = TRUE, !.saving = FALSE]
                   ELSE [view EXCEPT !.error = TRUE, !.saving = FALSE]
    BY <1>6 DEF SaveSettles
  <2>2. /\ calls'["write"] = Free /\ calls'["read"] = c /\ d.phase # "free"
        /\ UNCHANGED <<env, srv, mock>>
    BY <1>1, <1>s, <2>1, SettleEnded DEF Settle
  <2>3. Stored' = Stored
    BY <2>2, StoredIs
  <2>4. r.status = 200 => Brings(d, r.value) /\ Answered(d) /\ d.reply.status = 200 /\ r = d.reply
                          /\ d.phase # "sent"
    <3>1. d.req.op = "patch"
      BY <1>2, <2>2 DEF SettingsCall
    <3> QED BY <1>1, <3>1, ResultsAre DEF NoReply, Brings, Answered
  <2>5. CASE r.status = 200
    <3>1. view' = [v EXCEPT !.form = r.value, !.dirty = FALSE, !.saved = TRUE, !.saving = FALSE]
      BY <1>1, <2>1, <2>5
    <3>2. /\ SettingsShape(view') /\ view'.form = r.value /\ ~view'.saving
          /\ view'.loading = v.loading /\ view'.error = v.error /\ view'.crossed = v.crossed
      BY <1>2, <3>1 DEF SettingsShape
    <3>3. ~v.crossed /\ ~v.error => r.value = Stored
      BY <1>2, <2>4, <2>5 DEF Brings
    <3>4. Patchless(old) => Patchless(strays')
      <4>1. Replace(Ended("write")) /\ DOMAIN Ended("write") \subseteq {"write"}
        BY <2>1 DEF Settle, Ended
      <4>2. NewStrays({"write"})
        BY <1>s, <4>1, ReplaceStrays
      <4>3. ~Unserved(d)
        BY <2>4, <2>5 DEF Unserved
      <4> QED BY <1>1, <4>2, <4>3, PatchesStay
    <3> QED BY <1>2, <1>f, <2>2, <2>3, <3>2, <3>3, <3>4 DEF SettingsGood, SettingsShape
  <2>6. CASE r.status # 200
    <3>1. view' = [v EXCEPT !.error = TRUE, !.saving = FALSE]
      BY <1>1, <2>1, <2>6
    <3>2. /\ SettingsShape(view') /\ view'.error /\ ~view'.saving
          /\ view'.loading = v.loading /\ view'.crossed = v.crossed
      BY <1>2, <3>1 DEF SettingsShape
    <3> QED BY <1>2, <1>f, <2>2, <3>2 DEF SettingsGood, SettingsShape
  <2> QED BY <2>5, <2>6
<1>7. CASE ChooseLanguage
  <2>1. PICK req : req = [op |-> "settings"]
    OBVIOUS
  <2>c. PICK crossed : crossed = (v.crossed \/ d.phase # "free")
    OBVIOUS
  <2>2. /\ Call("read", req) /\ ~v.error
        /\ view' = [v EXCEPT !.loading = TRUE, !.error = FALSE, !.crossed = crossed]
    BY <1>1, <1>2, <1>7, <2>1, <2>c DEF ChooseLanguage, SettingsShow, SettingsShape, Busy
  <2>3. calls'["read"] = Calling(req) /\ calls'["write"] = d
    BY <1>1, <1>s, <2>2, CallElse
  <2>4. env' = env /\ srv' = srv /\ mock' = mock /\ strays' = old
    BY <1>1, <2>1, <2>2 DEF Call, MockAfter, After
  <2>5. Stored' = Stored
    BY <2>4, StoredIs
  <2>6. /\ SettingsShape(view') /\ view'.loading /\ ~view'.error
        /\ view'.saving = v.saving /\ view'.crossed = crossed
    BY <1>2, <2>2, <2>c DEF SettingsShape
  <2>7. /\ SettingsCall(Calling(req), "settings") /\ Calling(req).phase # "free"
        /\ Live => ~Answered(Calling(req))
        /\ ~Live => Brings(Calling(req), mock.settings)
    BY <2>1, SettingsBegin
  <2>8. Brings(calls'["read"], Stored')
    BY <2>3, <2>5, <2>7 DEF Brings, Stored
  <2>9. ~crossed => ~v.crossed /\ d.phase = "free"
    BY <1>2, <2>c DEF SettingsShape
  <2> QED BY <1>2, <2>2, <2>3, <2>4, <2>5, <2>6, <2>7, <2>8, <2>9 DEF SettingsGood, SettingsShape
<1> QED BY <1>3, <1>4, <1>5, <1>6, <1>7 DEF SettingsNext

LEMMA SettingsKept ==
    ASSUME Frame, LogsInv, AppCalls, PageCalls, SettingsInv, [Next]_vars
    PROVE  SettingsInv'
<1>0. env' = env
  BY PageSteps
<1>1. EnvInv'
  BY <1>0 DEF EnvInv, SettingsInv
<1> SUFFICES ASSUME At("settings")'
             PROVE  SettingsGood(view', calls'["read"], calls'["write"], strays', Stored')
  BY <1>0, <1>1 DEF SettingsInv, SettingsGood, SettingsCall, Live
<1>a. \/ Unmoved \/ Mounted \/ Wired
      \/ SettingsNext /\ At("settings")
  BY PageSteps DEF At, OnLogin, Frame, Tick, Timed
<1>s. /\ "read" \in PageSlots /\ "write" \in PageSlots /\ PageSlots \subseteq Slot
      /\ Slot = AppSlots \cup PageSlots
  BY PageSlotsAre, SlotsAre DEF PageSlots, AppSlots
<1>m. "settings" \in DOMAIN srv /\ "settings" \in DOMAIN mock
  BY DEF LogsInv, HasLogs
<1>2. CASE Unmoved
  <2>1. /\ view' = view /\ calls'["read"] = calls["read"] /\ calls'["write"] = calls["write"]
        /\ mock' = mock /\ (srv' = srv \/ SessionEnds) /\ NewStrays(AppSlots)
    BY <1>2, <1>s DEF Unmoved
  <2>2. srv'.settings = srv.settings
    BY <1>m, <2>1 DEF SessionEnds
  <2>3. Stored' = Stored
    BY <1>0, <2>1, <2>2, StoredIs
  <2>4. Patchless(strays) => Patchless(strays')
    BY <2>1, PatchesStay DEF AppCalls, OwnOp
  <2>5. SettingsGood(view, calls["read"], calls["write"], strays, Stored)
    BY <2>1 DEF SettingsInv, At
  <2> QED BY <2>1, <2>3, <2>4, <2>5 DEF SettingsGood
<1>3. CASE Mounted
  <2>1. /\ view' = SettingsFirst /\ view.page # "settings" /\ mock' = mock /\ srv' = srv
        /\ NewStrays(Slot)
        /\ \A s \in PageSlots : calls'[s] = Opening(SettingsCalls)[s]
    BY <1>3, PagesAre DEF Mounted, At
  <2>2. PICK req : req = [op |-> "settings"]
    OBVIOUS
  <2>3. calls'["read"] = Calling(req) /\ calls'["write"] = Free
    BY <1>s, <2>1, <2>2 DEF Opening, SettingsCalls
  <2>4. /\ SettingsCall(Calling(req), "settings") /\ Calling(req).phase # "free"
        /\ Live => ~Answered(Calling(req))
        /\ ~Live => Brings(Calling(req), mock.settings)
    BY <2>2, SettingsBegin
  <2>5. Brings(calls'["read"], Stored') /\ Brings(Free, Stored')
    <3>1. Stored' = Stored
      BY <1>0, <2>1, StoredIs
    <3> QED BY <2>3, <2>4, <3>1 DEF Brings, Stored, Free, Answered
  <2>6. Patchless(strays) => Patchless(strays')
    BY <1>s, <2>1, PatchesStay DEF AppCalls, OwnOp, PageCalls, MayHold, At
  <2>7. /\ SettingsShape(SettingsFirst) /\ SettingsFirst.loading /\ ~SettingsFirst.saving
        /\ ~SettingsFirst.error
        /\ ~SettingsFirst.crossed => Patchless(strays)
    BY DEF SettingsShape, SettingsFirst, Patchless
  <2>8. SettingsCall(Free, "patch") /\ Free.phase = "free"
    BY DEF SettingsCall, Free
  <2> QED BY <2>1, <2>3, <2>4, <2>5, <2>6, <2>7, <2>8 DEF SettingsGood, SettingsShape
<1>4. CASE Wired
  <2>1. Wire /\ view' = view /\ SettingsGood(view, calls["read"], calls["write"], strays, Stored)
    BY <1>4 DEF Wired, SettingsInv, At
  <2>2. EnvInv
    BY DEF SettingsInv
  <2>3. SettingsGood(view, calls'["read"], calls'["write"], strays', Stored')
    BY <2>1, <2>2, SettingsWired
  <2> QED BY <2>1, <2>3
<1>5. CASE SettingsNext /\ At("settings")
  BY <1>5, SettingsActs DEF SettingsInv
<1> QED BY <1>a, <1>2, <1>3, <1>4, <1>5

LEMMA SettingsAlways ==
    Spec => [](Frame /\ LogsInv /\ AppCalls /\ PageCalls /\ SettingsInv)
<1>1. Init => Frame /\ LogsInv /\ AppCalls /\ PageCalls /\ SettingsInv
  <2> SUFFICES ASSUME Init
               PROVE  Frame /\ LogsInv /\ AppCalls /\ PageCalls /\ SettingsInv
    OBVIOUS
  <2>1. LogsInv /\ EnvInv /\ strays = {}
    BY StartsAssumption DEF Init, LogsInv, HasLogs, IsSeq, EnvInv
  <2>2. ASSUME At("settings")
        PROVE  SettingsGood(view, calls["read"], calls["write"], strays, Stored)
    <3>0. "read" \in PageSlots /\ "write" \in PageSlots
      BY PageSlotsAre
    <3>1. /\ view = SettingsFirst
          /\ \A s \in PageSlots : calls[s] = Opening(SettingsCalls)[s]
      BY <2>2, InitFrame, PagesAre DEF At
    <3>2. PICK req : req = [op |-> "settings"]
      OBVIOUS
    <3>3. calls["read"] = Calling(req) /\ calls["write"] = Free
      BY <3>0, <3>1, <3>2 DEF Opening, SettingsCalls
    <3>4. /\ SettingsCall(Calling(req), "settings") /\ Calling(req).phase # "free"
          /\ Live => ~Answered(Calling(req))
          /\ ~Live => Brings(Calling(req), mock.settings)
      BY <2>1, <3>2, SettingsBegin
    <3>5. Brings(calls["read"], Stored) /\ Brings(Free, Stored)
      BY <3>3, <3>4 DEF Brings, Stored, Free, Answered
    <3>6. /\ SettingsShape(SettingsFirst) /\ SettingsFirst.loading /\ ~SettingsFirst.saving
      BY DEF SettingsShape, SettingsFirst
    <3>7. SettingsCall(Free, "patch") /\ Free.phase = "free"
      BY DEF SettingsCall, Free
    <3>8. Patchless(strays)
      BY <2>1 DEF Patchless
    <3> QED BY <3>1, <3>3, <3>4, <3>5, <3>6, <3>7, <3>8 DEF SettingsGood, SettingsShape
  <2> QED BY <2>1, <2>2, InitFrame, AppCallsOpen, PageCallsOpen DEF SettingsInv
<1>2. Frame /\ LogsInv /\ AppCalls /\ PageCalls /\ SettingsInv /\ [Next]_vars
        => (Frame /\ LogsInv /\ AppCalls /\ PageCalls /\ SettingsInv)'
  BY PageSteps, LogsKept, AppCallsKept, PageCallsKept, SettingsKept
<1> QED BY <1>1, <1>2, PTL DEF Spec, Safe

\* FormIsStored: a form that is shown and was not edited is what is stored, after any
\* number of saves and loads, unless two of them crossed (SettingsPage.tsx).
THEOREM FormAsStored == Spec => []FormIsStored
<1>1. SettingsInv => FormIsStored
  <2> SUFFICES ASSUME SettingsInv, At("settings"), SettingsShow = "form",
                      ~view.saving, ~view.dirty, ~view.crossed
               PROVE  view.form = Stored
    BY DEF FormIsStored
  <2>1. ~view.loading /\ ~view.error /\ view.form # Null
    BY DEF SettingsShow
  <2> QED BY <2>1 DEF SettingsInv, SettingsGood
<1> QED BY <1>1, SettingsAlways, PTL

-----------------------------------------------------------------------------
\* The session.

\* App's own state, and the route it keeps.
AuthShape(a) ==
    /\ {"loading", "error", "enabled", "authenticated", "route", "expired", "crossed"} \subseteq DOMAIN a
    /\ a.loading \in BOOLEAN /\ a.error \in BOOLEAN /\ a.enabled \in BOOLEAN
    /\ a.authenticated \in BOOLEAN /\ a.expired \in BOOLEAN /\ a.crossed \in BOOLEAN
    /\ a.route \in navigationItems

\* The login form, where it is shown.
LoginShape(v) ==
    v.page = "login" =>
        /\ {"pending", "error"} \subseteq DOMAIN v /\ v.pending \in BOOLEAN /\ v.error \in BOOLEAN

\* A call of a slot of App's: what it asks for, and what an answer says.
AppCall(c, ops) ==
    c.phase # "free" =>
        /\ Live /\ c.phase \in OnWire /\ c.req.op \in ops
        /\ Answered(c) /\ c.reply.status = 200 /\ c.req.op # "login" =>
                c.reply.enabled \in BOOLEAN /\ c.reply.authenticated \in BOOLEAN
        /\ Answered(c) /\ c.reply.status = 200 /\ c.req.op = "logout" => ~c.reply.authenticated

\* Cookies are tokens that were issued, the one on its way to the browser, too.
Minted(store, jar, c) ==
    /\ {"tokens", "issued"} \subseteq DOMAIN store
    /\ store.tokens \subseteq store.issued /\ 0 \notin store.issued
    /\ jar \in store.issued \cup {0}
    /\ Answered(c) /\ c.req.op = "login" /\ c.reply.status = 200 => c.reply.token \in store.issued

\* One thing at a time: a session check on the boot page, a login on the login
\* page, or logouts.
OneAtATime(a, v, c, d, e, jar) ==
    /\ c.phase # "free" =>
        /\ d.phase = "free" /\ e.phase = "free"
        /\ c.req.op = "session" => a.loading /\ ~a.error /\ c.cookie = jar
        /\ c.req.op = "login" => v.page = "login" /\ v.pending
    /\ d.phase = "reading" \/ e.phase = "reading" => jar = 0

\* What the answer to a session check says holds until it is read.
Tells(a, c, jar, store) ==
    c.phase # "free" /\ c.req.op = "session" /\ Answered(c) /\ c.reply.status = 200 /\ c.reply.enabled =>
        IF c.reply.authenticated THEN a.expired \/ jar \in store.tokens ELSE jar \notin store.tokens

Quiet(waiting) == \A c \in waiting : c.req.op # "logout"

\* Who sees the pages is signed in, who was sent to the login page is not.
AppAgrees(a, v, d, e, jar, store) ==
    /\ v.page \in navigationItems /\ a.enabled /\ d.phase = "free" /\ e.phase = "free" /\ ~a.expired
            => jar \in store.tokens
    /\ v.page = "login" /\ ~v.pending /\ ~v.error => jar \notin store.tokens

\* Unless a login or a reload has crossed a logout, App does one thing at a time,
\* and what it was told of the session is still so.
SessionGood(a, v, c, d, e, jar, store, waiting) ==
    /\ AuthShape(a) /\ LoginShape(v) /\ v.page = Screen(a)
    /\ AppCall(c, {"session", "login"}) /\ AppCall(d, {"logout"}) /\ AppCall(e, {"logout"})
    /\ Minted(store, jar, c)
    /\ ~Live => ~a.loading /\ ~a.error /\ ~a.enabled
    /\ ~a.crossed =>
        /\ OneAtATime(a, v, c, d, e, jar)
        /\ Tells(a, c, jar, store)
        /\ a.error \/ Quiet(waiting)
        /\ AppAgrees(a, v, d, e, jar, store)

SessionInv ==
    /\ env.auth \in BOOLEAN
    /\ SessionGood(auth, view, calls["auth"], calls["logout"], calls["logout2"], cookie, srv, strays)

LEMMA ScreenIs ==
    ASSUME NEW a, AuthShape(a)
    PROVE  /\ Screen(a) \in navigationItems => ~a.loading /\ ~a.error /\ Screen(a) = a.route
           /\ Screen(a) = "login" <=> ~a.loading /\ ~a.error /\ a.enabled /\ ~a.authenticated
           /\ Screen(a) = "boot" <=> a.loading
           /\ Screen(a) = "failed" <=> ~a.loading /\ a.error
           /\ Screen(a) \in navigationItems /\ a.enabled => a.authenticated
BY DEF Screen, AuthShape, navigationItems

\* What is served and what others do to the store leave the sessions alone.
LEMMA SessionsStay ==
    ASSUME NEW store, {"tokens", "issued"} \subseteq DOMAIN store, NEW req
    PROVE  /\ DOMAIN After(req, store) = DOMAIN store
           /\ After(req, store).tokens = store.tokens /\ After(req, store).issued = store.issued
<1>1. CASE req.op = "delete"
  BY <1>1 DEF After
<1>2. CASE req.op = "import"
  BY <1>2 DEF After
<1>3. CASE req.op = "patch"
  BY <1>3 DEF After
<1>4. CASE req.op \notin {"delete", "import", "patch"}
  BY <1>4 DEF After
<1> QED BY <1>1, <1>2, <1>3, <1>4

\* A step that is none of App's, for App: nothing but another store.
Apart ==
    /\ auth' = auth /\ cookie' = cookie
    /\ view'.page = view.page /\ (view.page # "login" \/ view' = view)
    /\ \A s \in AppSlots : calls'[s] = calls[s]
    /\ DOMAIN srv' = DOMAIN srv /\ srv'.tokens = srv.tokens /\ srv'.issued = srv.issued
    /\ Quiet(strays) => Quiet(strays')

LEMMA AuthStays ==
    ASSUME OverviewNext \/ GeoNext \/ ListPagesNext \/ SettingsNext \/ ProxiesNext \/ RenderLine \/ Tick
    PROVE  auth' = auth
<1>1. CASE OverviewNext
  BY <1>1, Zenon DEF OverviewNext, OverviewLoads, OverviewGuardFires, OverviewPolls
<1>2. CASE GeoNext
  BY <1>2, Zenon DEF GeoNext, GeoLoads, GeoGuardFires, TurnCountries, TurnAsns
<1>3. CASE ListPagesNext
  BY <1>3, Zenon
     DEF ListPagesNext, LogMoves, World, LogsLoad, ValidationLoad, ProvidersLoad, ImportSettles,
         ImportedLoad, SubmitImport, TurnListPage, TurnProviders
<1>4. CASE SettingsNext
  BY <1>4, Zenon
     DEF SettingsNext, SettingsLoad, EditSettings, SaveSettings, SaveSettles, ChooseLanguage
<1>5. CASE ProxiesNext
  BY <1>5, Zenon
     DEF ProxiesNext, PoolMoves, World, Reload, OptionsLoad, LateLoad, ProxiesLoad, ChangeFilter,
         ResetFilters, TurnPage, AskDelete, DetailArrives, OpenDrawer, CloseDrawer, CancelDelete,
         ConfirmDelete, DeleteAnswered, ListReloaded
<1>6. CASE RenderLine
  BY <1>6, Zenon DEF RenderLine
<1>7. CASE Tick
  BY <1>7, Zenon DEF Tick
<1> QED BY <1>1, <1>2, <1>3, <1>4, <1>5, <1>6, <1>7

LEMMA PagesApart ==
    ASSUME Frame, PageCalls, {"tokens", "issued"} \subseteq DOMAIN srv,
           OverviewNext \/ GeoNext \/ ListPagesNext \/ SettingsNext \/ ProxiesNext \/ RenderLine \/ Tick
    PROVE  Apart
<1>1. auth' = auth
  BY AuthStays
<1>2. view'.page = view.page /\ view.page # "login"
  BY OverviewFrame, GeoFrame, ListFrame, SettingsFrame, ProxiesFrame, DocFrame, TickFrame
     DEF At, Tick, Timed
<1>3. CASE Tick
  <2>1. cookie' = cookie /\ srv' = srv /\ strays' = strays
        /\ \A s \in AppSlots : calls'[s] = calls[s]
    BY <1>3, SlotsAre DEF Tick, PageSlots, AppSlots
  <2> QED BY <1>1, <1>2, <2>1 DEF Apart
<1>4. CASE ~Tick
  <2>1. PageTouch
    BY <1>4, PageTouches
  <2>2. Quiet(strays) => Quiet(strays')
    BY <2>1 DEF PageTouch, Elsewhere, NewStrays, PageCalls, MayHold, Open, Quiet
  <2>3. DOMAIN srv' = DOMAIN srv /\ srv'.tokens = srv.tokens /\ srv'.issued = srv.issued
    <3>1. CASE PoolMoves
      <4>1. PICK p : \/ srv' = [srv EXCEPT !.proxies = Without(@, p)]
                     \/ srv' = [srv EXCEPT !.proxies = Append(@, p)]
        BY <3>1, Zenon DEF PoolMoves, World
      <4>2. PICK new : srv' = [srv EXCEPT !.proxies = new]
        BY <4>1, Zenon
      <4> QED BY <4>2
    <3>2. CASE LogMoves
      <4>1. PICK field, log :
              /\ field \in {"events", "jobs"} /\ log = srv[field]
              /\ \/ srv' = [srv EXCEPT ![field] = <<log[1]>> \o log]
                 \/ srv' = [srv EXCEPT ![field] = Front(log)]
                 \/ srv' = [srv EXCEPT ![field] = <<>>]
        BY <3>2 DEF LogMoves, World
      <4>2. PICK new : srv' = [srv EXCEPT ![field] = new]
        BY <4>1
      <4> QED BY <4>1, <4>2
    <3> QED BY <2>1, <3>1, <3>2 DEF PageTouch, Elsewhere
  <2> QED BY <1>1, <1>2, <2>1, <2>2, <2>3 DEF PageTouch, Elsewhere, Apart
<1> QED BY <1>3, <1>4

LEMMA ApartKeeps ==
    ASSUME Apart, SessionInv, env' = env
    PROVE  SessionInv'
<1>1. SessionGood(auth, view, calls["auth"], calls["logout"], calls["logout2"], cookie, srv, strays)
  BY DEF SessionInv
<1>2. /\ calls'["auth"] = calls["auth"] /\ calls'["logout"] = calls["logout"]
      /\ calls'["logout2"] = calls["logout2"]
  BY DEF Apart, AppSlots
<1> QED BY <1>1, <1>2
   DEF Apart, SessionInv, SessionGood, AppCall, Live, LoginShape, Minted, OneAtATime, Tells, AppAgrees

\* A call of App's that ends, and the page that is then on the screen.
LEMMA AppEnds ==
    ASSUME Frame, PageCalls, NEW s \in AppSlots, NEW r, NEW a, NEW new,
           DOMAIN new = {s}, IsCall(new[s]), view' = Rendered(a),
           Settle(s, r, Over(new, Remounted(a)))
    PROVE  /\ calls'[s] = new[s] /\ \A t \in AppSlots \ {s} : calls'[t] = calls[t]
           /\ r \in Results(s) /\ calls[s].phase # "free"
           /\ UNCHANGED <<env, srv, mock, cookie>>
           /\ (calls[s].phase # "sent" \/ calls[s].req.op # "logout") /\ Quiet(strays) => Quiet(strays')
           /\ view'.page = Screen(a)
           /\ \/ view' = view
              \/ view' = First(Screen(a))
<1>1. /\ Replace(Over(new, Remounted(a)))
      /\ r \in Results(s) /\ calls[s].phase # "free"
      /\ UNCHANGED <<env, srv, mock, cookie>>
  BY DEF Settle, Busy
<1>2. calls'[s] = new[s] /\ \A t \in AppSlots \ {s} : calls'[t] = calls[t]
  BY <1>1, RenderedIs
<1>3. view'.page = Screen(a) /\ (view' = view \/ view' = First(Screen(a)))
  BY FirstIs DEF Rendered, Stays
<1>4. ASSUME calls[s].phase # "sent" \/ calls[s].req.op # "logout", Quiet(strays)
      PROVE  Quiet(strays')
  <2>1. PICK slots, old : slots = {s} \cup PageSlots /\ old = Remounted(a)
    OBVIOUS
  <2>2. slots \subseteq Slot
    BY <2>1, SlotsAre DEF AppSlots, PageSlots
  <2>3. DOMAIN old \subseteq PageSlots
    BY <2>1, RemountedIs
  <2>4. PICK news : news = Over(new, old) /\ DOMAIN news \subseteq slots
    BY <2>1, <2>3 DEF Over
  <2>5. NewStrays(slots)
    BY <1>1, <2>1, <2>2, <2>4, ReplaceStrays DEF Frame
  <2> QED BY <1>4, <2>1, <2>5 DEF NewStrays, Unserved, PageCalls, MayHold, Open, Quiet
<1> QED BY <1>1, <1>2, <1>3, <1>4

LEMMA AppResults ==
    ASSUME NEW s, NEW r \in Results(s), NEW ops, AppCall(calls[s], ops), "detail" \notin ops,
           calls[s].phase # "free"
    PROVE  r.status # 200 \/ (calls[s].phase = "reading" /\ r = calls[s].reply)
BY ResultsAre DEF AppCall, OnWire, NoReply

LEMMA EndedAlone ==
    ASSUME NEW s
    PROVE  DOMAIN Ended(s) = {s} /\ Ended(s)[s] = Free /\ IsCall(Ended(s)[s]) /\ Free.phase = "free"
BY FreshCalls DEF Ended, Free

LEMMA LoginFirstIs ==
    First("login") = LoginFirst /\ LoginFirst.page = "login" /\ LoginFirst.pending = FALSE
        /\ LoginFirst.error = FALSE /\ LoginShape(LoginFirst)
BY PagesAre DEF LoginFirst, LoginShape

LEMMA SessionChecks ==
    ASSUME Frame, PageCalls, SessionInv, SessionChecked
    PROVE  SessionInv'
<1>1. PICK a, v, c, d, e, jar :
        /\ a = auth /\ v = view /\ c = calls["auth"] /\ d = calls["logout"] /\ e = calls["logout2"]
        /\ jar = cookie
        /\ SessionGood(a, v, c, d, e, jar, srv, strays)
  BY DEF SessionInv
<1>2. PICK r : /\ auth' = IF r.status = 200
                     THEN [auth EXCEPT !.enabled = r.enabled, !.authenticated = r.authenticated,
                                       !.loading = FALSE]
                     ELSE [auth EXCEPT !.error = TRUE, !.loading = FALSE]
               /\ view' = Rendered(auth')
               /\ Settle("auth", r, Over(Ended("auth"), Remounted(auth')))
               /\ c.req.op = "session"
  BY <1>1 DEF SessionChecked, Holds
<1>3. PICK b, news : b = auth' /\ news = Ended("auth")
  OBVIOUS
<1>4. /\ calls'["auth"] = Free /\ calls'["logout"] = d /\ calls'["logout2"] = e
      /\ r \in Results("auth") /\ c.phase # "free"
      /\ UNCHANGED <<env, srv, cookie>>
      /\ Quiet(strays) => Quiet(strays')
      /\ view'.page = Screen(b) /\ (view' = v \/ view' = First(Screen(b)))
  BY <1>1, <1>2, <1>3, EndedAlone, AppEnds, SMTT(30) DEF AppSlots
<1>5. Live /\ (r.status # 200 \/ (c.phase = "reading" /\ r = c.reply))
  <2>1. AppCall(calls["auth"], {"session", "login"}) /\ calls["auth"] = c
    BY <1>1 DEF SessionGood
  <2>2. r.status # 200 \/ (c.phase = "reading" /\ r = c.reply)
    BY <1>4, <2>1, AppResults
  <2> QED BY <1>4, <2>1, <2>2 DEF AppCall
<1>6. /\ AuthShape(b) /\ ~b.loading /\ b.expired = a.expired /\ b.crossed = a.crossed
      /\ r.status # 200 => b.error
      /\ r.status = 200 => b.error = a.error /\ b.enabled = r.enabled /\ b.authenticated = r.authenticated
  <2>1. CASE r.status = 200
    <3>1. r.enabled \in BOOLEAN /\ r.authenticated \in BOOLEAN
      BY <1>1, <1>2, <1>4, <1>5, <2>1 DEF SessionGood, AppCall, Answered
    <3>2. b = [a EXCEPT !.enabled = r.enabled, !.authenticated = r.authenticated, !.loading = FALSE]
      BY <1>1, <1>2, <1>3, <2>1
    <3> QED BY <1>1, <2>1, <3>1, <3>2 DEF SessionGood, AuthShape
  <2>2. CASE r.status # 200
    <3>1. b = [a EXCEPT !.error = TRUE, !.loading = FALSE]
      BY <1>1, <1>2, <1>3, <2>2
    <3> QED BY <1>1, <2>2, <3>1 DEF SessionGood, AuthShape
  <2> QED BY <2>1, <2>2
<1>7. PICK w : w = view'
  OBVIOUS
<1>8. /\ w.page = Screen(b) /\ (w = v \/ w = First(Screen(b)))
      /\ LoginShape(w)
      /\ ~a.crossed => w # v \/ w.page \notin navigationItems \cup {"login"}
  <2>1. w.page = Screen(b) /\ (w = v \/ w = First(Screen(b)))
    BY <1>4, <1>7
  <2>2. LoginShape(w)
    BY <1>1, <2>1, LoginFirstIs DEF SessionGood, LoginShape
  <2>3. ~a.crossed => v.page = "boot"
    BY <1>1, <1>2, <1>4, ScreenIs DEF SessionGood, OneAtATime
  <2> QED BY <2>1, <2>2, <2>3 DEF navigationItems
<1>9. AppAgrees(b, w, d, e, jar, srv) \/ a.crossed
  <2> SUFFICES ASSUME ~a.crossed, w.page \in navigationItems \/ w.page = "login"
               PROVE  AppAgrees(b, w, d, e, jar, srv)
    BY DEF AppAgrees
  <2>1. ~b.error /\ r.status = 200
    BY <1>6, <1>8, ScreenIs
  <2>2. b.enabled => IF b.authenticated THEN b.expired \/ jar \in srv.tokens ELSE jar \notin srv.tokens
    BY <1>1, <1>2, <1>4, <1>5, <1>6, <2>1, ZenonT(60) DEF SessionGood, Tells, Answered
  <2>3. w.page \in navigationItems /\ b.enabled => b.authenticated
    BY <1>6, <1>8, ScreenIs
  <2>4. w.page = "login" => b.enabled /\ ~b.authenticated
    BY <1>6, <1>8, ScreenIs
  <2> QED BY <2>2, <2>3, <2>4, <1>6 DEF AppAgrees, AuthShape
<1>10. SessionGood(b, w, Free, d, e, jar, srv, strays')
  <2>1. AppCall(Free, {"session", "login"}) /\ Minted(srv, jar, Free) /\ Tells(b, Free, jar, srv)
    BY <1>1 DEF SessionGood, AppCall, Minted, Tells, Free, Answered
  <2>2. ~a.crossed => OneAtATime(b, w, Free, d, e, jar)
    BY <1>1 DEF SessionGood, OneAtATime, Free
  <2>3. ~a.crossed => b.error \/ Quiet(strays')
    BY <1>1, <1>2, <1>4 DEF SessionGood, OneAtATime
  <2> QED BY <1>1, <1>5, <1>6, <1>8, <1>9, <2>1, <2>2, <2>3 DEF SessionGood
<1> QED BY <1>1, <1>3, <1>4, <1>7, <1>10 DEF SessionInv, SessionGood, AppCall, Live

\* App as a step finds it.
LEMMA SessionNow ==
    ASSUME SessionInv
    PROVE  \E a, v, c, d, e, jar :
              /\ a = auth /\ v = view /\ c = calls["auth"] /\ d = calls["logout"] /\ e = calls["logout2"]
              /\ jar = cookie
              /\ SessionGood(a, v, c, d, e, jar, srv, strays)
BY DEF SessionInv

\* App as a step leaves it.
LEMMA SessionThen ==
    ASSUME SessionInv, env' = env,
           SessionGood(auth', view', calls'["auth"], calls'["logout"], calls'["logout2"], cookie', srv', strays')
    PROVE  SessionInv'
BY DEF SessionInv, SessionGood, AppCall, Live

LEMMA BeginsIs ==
    ASSUME Live, NEW req
    PROVE  /\ Calling(req) = Fetching(req, cookie)
           /\ Calling(req).phase = "sent" /\ Calling(req).req = req /\ Calling(req).cookie = cookie
           /\ IsCall(Calling(req))
BY FreshCalls DEF Calling, Fetching

LEMMA LoginBegins ==
    ASSUME Frame, SessionInv, NEW right, SubmitLogin(right)
    PROVE  SessionInv'
<1>1. PICK a, v, c, d, e, jar :
        /\ a = auth /\ v = view /\ c = calls["auth"] /\ d = calls["logout"] /\ e = calls["logout2"]
        /\ jar = cookie
        /\ SessionGood(a, v, c, d, e, jar, srv, strays)
  BY SessionNow
<1>2. PICK req : req = [op |-> "login", right |-> right]
  OBVIOUS
<1>3. /\ v.page = "login" /\ ~v.pending
      /\ view' = [v EXCEPT !.pending = TRUE, !.error = FALSE]
      /\ auth' = [a EXCEPT !.crossed = @ \/ Busy("logout") \/ Busy("logout2")]
      /\ Call("auth", req)
  BY <1>1, <1>2 DEF SubmitLogin, At
<1>4. Live
  BY <1>1, <1>3, ScreenIs DEF SessionGood
<1>5. /\ calls'["auth"] = Calling(req) /\ calls'["logout"] = d /\ calls'["logout2"] = e
  BY <1>1, <1>3, CallElse, SlotsAre DEF Frame
<1>6. cookie' = cookie /\ srv' = srv /\ strays' = strays /\ env' = env
  BY <1>3 DEF Call
<1>7. PICK b, w, n : b = auth' /\ w = view' /\ n = calls'["auth"]
  OBVIOUS
<1>8. /\ AuthShape(b) /\ b.loading = a.loading /\ b.error = a.error /\ b.enabled = a.enabled
      /\ b.authenticated = a.authenticated /\ b.route = a.route /\ b.expired = a.expired
      /\ ~b.crossed => ~a.crossed /\ d.phase = "free" /\ e.phase = "free"
  <2>1. PICK crossed \in BOOLEAN : crossed = (a.crossed \/ d.phase # "free" \/ e.phase # "free")
    OBVIOUS
  <2>2. b = [a EXCEPT !.crossed = crossed]
    BY <1>1, <1>3, <1>7, <2>1 DEF Busy, SessionGood, AuthShape
  <2> QED BY <1>1, <2>1, <2>2 DEF SessionGood, AuthShape
<1>9. /\ w.page = "login" /\ w.pending /\ LoginShape(w)
  BY <1>1, <1>3, <1>7 DEF SessionGood, LoginShape
<1>10. n.phase = "sent" /\ n.req = req /\ req.op = "login"
  BY <1>2, <1>4, <1>5, <1>7, BeginsIs
<1>11. Screen(b) = "login"
  BY <1>1, <1>3, <1>8, ScreenIs, ZenonT(60) DEF SessionGood
<1>12. SessionGood(b, w, n, d, e, jar, srv, strays)
  <2>1. AppCall(n, {"session", "login"}) /\ Minted(srv, jar, n) /\ Tells(b, n, jar, srv)
    BY <1>1, <1>4, <1>10 DEF SessionGood, AppCall, Minted, Tells, Answered, OnWire
  <2>2. ~b.crossed => OneAtATime(b, w, n, d, e, jar)
    BY <1>8, <1>9, <1>10 DEF OneAtATime
  <2>3. AppAgrees(b, w, d, e, jar, srv)
    BY <1>9 DEF AppAgrees, navigationItems
  <2> QED BY <1>1, <1>4, <1>8, <1>9, <1>11, <2>1, <2>2, <2>3 DEF SessionGood
<1> QED BY <1>1, <1>5, <1>6, <1>7, <1>12, SessionThen

LEMMA LoginEnds ==
    ASSUME Frame, PageCalls, SessionInv, LoginAnswered
    PROVE  SessionInv'
<1>1. PICK a, v, c, d, e, jar :
        /\ a = auth /\ v = view /\ c = calls["auth"] /\ d = calls["logout"] /\ e = calls["logout2"]
        /\ jar = cookie
        /\ SessionGood(a, v, c, d, e, jar, srv, strays)
  BY SessionNow
<1>2. PICK r : /\ r \in Results("auth") /\ c.req.op = "login"
               /\ \/ /\ auth' = [a EXCEPT !.loading = TRUE, !.error = FALSE]
                     /\ view' = Rendered(auth')
                     /\ Settle("auth", r, Over(CheckSession, Remounted(auth')))
                  \/ /\ auth' = a
                     /\ view' = IF v.page = "login" THEN [v EXCEPT !.pending = FALSE, !.error = TRUE] ELSE v
                     /\ Settle("auth", r, Ended("auth"))
  BY <1>1 DEF LoginAnswered, Holds, At
<1>3. Live
  BY <1>1, <1>2 DEF SessionGood, AppCall, Settle, Busy
<1>4. CASE /\ auth' = [a EXCEPT !.loading = TRUE, !.error = FALSE]
           /\ view' = Rendered(auth')
           /\ Settle("auth", r, Over(CheckSession, Remounted(auth')))
  <2>1. PICK b, news, req : b = auth' /\ news = CheckSession /\ req = [op |-> "session"]
    OBVIOUS
  <2>2. DOMAIN news = {"auth"} /\ news["auth"] = Calling(req) /\ IsCall(news["auth"])
    BY <2>1, FreshCalls DEF CheckSession
  <2>3. /\ calls'["auth"] = Calling(req) /\ calls'["logout"] = d /\ calls'["logout2"] = e
        /\ c.phase # "free"
        /\ UNCHANGED <<env, srv, cookie>>
        /\ Quiet(strays) => Quiet(strays')
        /\ view'.page = Screen(b) /\ (view' = v \/ view' = First(Screen(b)))
    BY <1>1, <1>2, <1>4, <2>1, <2>2, AppEnds DEF AppSlots
  <2>4. /\ AuthShape(b) /\ b.loading /\ ~b.error /\ b.enabled = a.enabled /\ b.crossed = a.crossed
        /\ b.expired = a.expired
    BY <1>1, <1>4, <2>1 DEF SessionGood, AuthShape
  <2>5. PICK w, n : w = view' /\ n = calls'["auth"]
    OBVIOUS
  <2>6. w.page = "boot" /\ w.page = Screen(b) /\ LoginShape(w)
    BY <2>3, <2>4, <2>5, ScreenIs DEF LoginShape
  <2>7. n.phase = "sent" /\ n.req = req /\ req.op = "session" /\ n.cookie = jar
    BY <1>1, <1>3, <2>1, <2>3, <2>5, BeginsIs
  <2>8. SessionGood(b, w, n, d, e, jar, srv, strays')
    <3>1. AppCall(n, {"session", "login"}) /\ Minted(srv, jar, n) /\ Tells(b, n, jar, srv)
      BY <1>1, <1>3, <2>7 DEF SessionGood, AppCall, Minted, Tells, Answered, OnWire
    <3>2. ~b.crossed => OneAtATime(b, w, n, d, e, jar)
      BY <1>1, <2>3, <2>4, <2>7 DEF SessionGood, OneAtATime
    <3>3. AppAgrees(b, w, d, e, jar, srv)
      BY <2>6 DEF AppAgrees, navigationItems
    <3>4. ~b.crossed => Quiet(strays')
      BY <1>1, <1>2, <2>3, <2>4, ScreenIs DEF SessionGood, OneAtATime
    <3> QED BY <1>1, <1>3, <2>4, <2>6, <3>1, <3>2, <3>3, <3>4 DEF SessionGood
  <2> QED BY <1>1, <2>1, <2>3, <2>5, <2>8, SessionThen
<1>5. CASE /\ auth' = a
           /\ view' = IF v.page = "login" THEN [v EXCEPT !.pending = FALSE, !.error = TRUE] ELSE v
           /\ Settle("auth", r, Ended("auth"))
  <2>1. /\ calls'["auth"] = Free /\ calls'["logout"] = d /\ calls'["logout2"] = e /\ c.phase # "free"
    BY <1>1, <1>5, SettleEnded, SlotsAre DEF Frame
  <2>2. env' = env /\ srv' = srv /\ cookie' = cookie /\ strays' = strays
    <3>1. PICK news : news = Ended("auth") /\ DOMAIN news = {"auth"} /\ Replace(news)
      BY <1>5, EndedAlone DEF Settle
    <3>2. ~Unserved(c)
      BY <1>2 DEF Unserved, Mutations
    <3>3. strays' = strays \cup {[calls[t] EXCEPT !.age = 0] :
                                    t \in {x \in DOMAIN news : Unserved(calls[x])}}
      BY <3>1 DEF Replace
    <3>4. {x \in DOMAIN news : Unserved(calls[x])} = {}
      BY <1>1, <3>1, <3>2
    <3>5. strays' = strays
      BY <3>3, <3>4, Zenon
    <3> QED BY <1>5, <3>5 DEF Settle
  <2>3. PICK w : w = view'
    OBVIOUS
  <2>4. w.page = v.page /\ LoginShape(w) /\ (v.page = "login" => w.error) /\ (v.page # "login" => w = v)
    <3>1. CASE v.page = "login"
      <4>1. w = [v EXCEPT !.pending = FALSE, !.error = TRUE]
        BY <1>5, <2>3, <3>1
      <4> QED BY <1>1, <3>1, <4>1 DEF SessionGood, LoginShape, Frame
    <3>2. CASE v.page # "login"
      BY <1>1, <1>5, <2>3, <3>2 DEF LoginShape
    <3> QED BY <3>1, <3>2
  <2>5. SessionGood(a, w, Free, d, e, jar, srv, strays)
    <3>1. AppCall(Free, {"session", "login"}) /\ Minted(srv, jar, Free) /\ Tells(a, Free, jar, srv)
      BY <1>1 DEF SessionGood, AppCall, Minted, Tells, Free, Answered
    <3>2. ~a.crossed => OneAtATime(a, w, Free, d, e, jar)
      BY <1>1 DEF SessionGood, OneAtATime, Free
    <3>3. ~a.crossed => AppAgrees(a, w, d, e, jar, srv)
      BY <1>1, <2>4 DEF SessionGood, AppAgrees
    <3> QED BY <1>1, <2>4, <3>1, <3>2, <3>3 DEF SessionGood
  <2> QED BY <1>1, <1>5, <2>1, <2>2, <2>3, <2>5, SessionThen
<1> QED BY <1>2, <1>4, <1>5

LEMMA LogoutBegins ==
    ASSUME Frame, SessionInv, NEW s \in {"logout", "logout2"}, PressLogout(s)
    PROVE  SessionInv'
<1>1. PICK a, v, c, d, e, jar :
        /\ a = auth /\ v = view /\ c = calls["auth"] /\ d = calls["logout"] /\ e = calls["logout2"]
        /\ jar = cookie
        /\ SessionGood(a, v, c, d, e, jar, srv, strays)
  BY SessionNow
<1>2. PICK req : req = [op |-> "logout"]
  OBVIOUS
<1>3. /\ v.page \in navigationItems /\ a.enabled /\ Call(s, req)
      /\ auth' = a /\ view' = v
  BY <1>1, <1>2 DEF PressLogout, InShell, ShellShows
<1>4. Live
  BY <1>1, <1>3 DEF SessionGood
<1>5. calls'[s] = Calling(req) /\ \A t \in AppSlots \ {s} : calls'[t] = calls[t]
  BY <1>3, CallElse, SlotsAre DEF Frame, AppSlots
<1>6. cookie' = cookie /\ srv' = srv /\ strays' = strays /\ env' = env
  BY <1>3 DEF Call
<1>7. PICK n, d2, e2 : n = Calling(req) /\ d2 = calls'["logout"] /\ e2 = calls'["logout2"]
  OBVIOUS
<1>8. /\ calls'["auth"] = c
      /\ \/ d2 = n /\ e2 = e
         \/ d2 = d /\ e2 = n
  BY <1>1, <1>5, <1>7 DEF AppSlots
<1>9. n.phase = "sent" /\ n.req = req /\ req.op = "logout"
  BY <1>2, <1>4, <1>7, BeginsIs
<1>10. SessionGood(a, v, c, d2, e2, jar, srv, strays)
  <2>1. AppCall(d2, {"logout"}) /\ AppCall(e2, {"logout"})
    BY <1>1, <1>4, <1>8, <1>9 DEF SessionGood, AppCall, Answered, OnWire
  <2>2. ~a.crossed => c.phase = "free"
    BY <1>1, <1>3, ScreenIs DEF SessionGood, AppCall, OneAtATime, navigationItems
  <2>3. ~a.crossed => OneAtATime(a, v, c, d2, e2, jar)
    BY <1>1, <1>8, <1>9, <2>2 DEF SessionGood, OneAtATime
  <2>4. ~a.crossed => AppAgrees(a, v, d2, e2, jar, srv)
    BY <1>1, <1>8, <1>9 DEF SessionGood, AppAgrees
  <2> QED BY <1>1, <2>1, <2>3, <2>4 DEF SessionGood
<1> QED BY <1>1, <1>3, <1>6, <1>7, <1>8, <1>10, SessionThen

LEMMA LogoutEnds ==
    ASSUME Frame, PageCalls, SessionInv, NEW s \in {"logout", "logout2"}, LogoutAnswered(s)
    PROVE  SessionInv'
<1>1. PICK a, v, c, d, e, jar :
        /\ a = auth /\ v = view /\ c = calls["auth"] /\ d = calls["logout"] /\ e = calls["logout2"]
        /\ jar = cookie
        /\ SessionGood(a, v, c, d, e, jar, srv, strays)
  BY SessionNow
<1>2. PICK r : /\ auth' = IF r.status = 200
                     THEN [auth EXCEPT !.enabled = r.enabled, !.authenticated = r.authenticated]
                     ELSE [auth EXCEPT !.error = TRUE]
               /\ view' = Rendered(auth')
               /\ Settle(s, r, Over(Ended(s), Remounted(auth')))
  BY DEF LogoutAnswered
<1>3. PICK b, l, news : b = auth' /\ l = calls[s] /\ news = Ended(s)
  OBVIOUS
<1>4. /\ calls'[s] = Free /\ \A t \in AppSlots \ {s} : calls'[t] = calls[t]
      /\ r \in Results(s) /\ l.phase # "free"
      /\ UNCHANGED <<env, srv, cookie>>
      /\ l.phase # "sent" /\ Quiet(strays) => Quiet(strays')
      /\ view'.page = Screen(b) /\ (view' = v \/ view' = First(Screen(b)))
  <2>1. s \in AppSlots /\ DOMAIN news = {s} /\ news[s] = Free /\ IsCall(news[s])
    BY <1>3, EndedAlone DEF AppSlots
  <2>2. view' = Rendered(b) /\ Settle(s, r, Over(news, Remounted(b)))
    BY <1>2, <1>3
  <2> QED BY <1>1, <1>3, <2>1, <2>2, AppEnds
<1>5. /\ Live /\ l.req.op = "logout"
      /\ r.status # 200 \/ (l.phase = "reading" /\ r = l.reply)
  <2>1. AppCall(calls[s], {"logout"})
    BY <1>1 DEF SessionGood
  <2>2. r.status # 200 \/ (calls[s].phase = "reading" /\ r = calls[s].reply)
    BY <1>3, <1>4, <2>1, AppResults
  <2> QED BY <1>3, <1>4, <2>1, <2>2 DEF AppCall
<1>6. /\ AuthShape(b) /\ b.loading = a.loading /\ b.expired = a.expired /\ b.crossed = a.crossed
      /\ r.status # 200 => b.error
      /\ r.status = 200 => b.error = a.error /\ b.enabled = r.enabled /\ ~b.authenticated
  <2>1. CASE r.status = 200
    <3>1. r.enabled \in BOOLEAN /\ r.authenticated \in BOOLEAN /\ ~r.authenticated
      BY <1>1, <1>3, <1>4, <1>5, <2>1 DEF SessionGood, AppCall, Answered
    <3>2. b = [a EXCEPT !.enabled = r.enabled, !.authenticated = r.authenticated]
      BY <1>1, <1>2, <1>3, <2>1
    <3> QED BY <1>1, <2>1, <3>1, <3>2 DEF SessionGood, AuthShape
  <2>2. CASE r.status # 200
    <3>1. b = [a EXCEPT !.error = TRUE]
      BY <1>1, <1>2, <1>3, <2>2
    <3> QED BY <1>1, <2>2, <3>1 DEF SessionGood, AuthShape
  <2> QED BY <2>1, <2>2
<1>7. PICK w, d2, e2 : w = view' /\ d2 = calls'["logout"] /\ e2 = calls'["logout2"]
  OBVIOUS
<1>8. /\ calls'["auth"] = c
      /\ \/ l = d /\ d2 = Free /\ e2 = e
         \/ l = e /\ d2 = d /\ e2 = Free
  BY <1>1, <1>3, <1>4, <1>7 DEF AppSlots
<1>9. w.page = Screen(b) /\ LoginShape(w)
  <2>1. w.page = Screen(b) /\ (w = v \/ w = First(Screen(b)))
    BY <1>4, <1>7
  <2> QED BY <1>1, <2>1, LoginFirstIs DEF SessionGood, LoginShape
<1>10. SessionGood(b, w, c, d2, e2, jar, srv, strays')
  <2>1. AppCall(d2, {"logout"}) /\ AppCall(e2, {"logout"})
    BY <1>1, <1>8 DEF SessionGood, AppCall, Free
  <2>2. ~a.crossed => c.phase = "free"
    BY <1>1, <1>4, <1>8 DEF SessionGood, OneAtATime
  <2>3. ~a.crossed => OneAtATime(b, w, c, d2, e2, jar) /\ Tells(b, c, jar, srv)
    BY <1>1, <1>8, <2>2 DEF SessionGood, OneAtATime, Tells, Free
  <2>4. ~a.crossed => b.error \/ Quiet(strays')
    BY <1>1, <1>4, <1>5, <1>6 DEF SessionGood
  <2>5. ~a.crossed => AppAgrees(b, w, d2, e2, jar, srv)
    <3> SUFFICES ASSUME ~a.crossed, (w.page \in navigationItems /\ b.enabled) \/ w.page = "login"
                 PROVE  AppAgrees(b, w, d2, e2, jar, srv)
      BY DEF AppAgrees
    <3>1. ~b.error /\ r.status = 200
      BY <1>6, <1>9, ScreenIs
    <3>2. w.page = "login"
      BY <1>6, <1>9, <3>1, ScreenIs
    <3>3. jar = 0 /\ jar \notin srv.tokens
      BY <1>1, <1>5, <1>8, <3>1 DEF SessionGood, OneAtATime, Minted
    <3> QED BY <3>2, <3>3 DEF AppAgrees, navigationItems
  <2> QED BY <1>1, <1>5, <1>6, <1>9, <2>1, <2>3, <2>4, <2>5 DEF SessionGood
<1> QED BY <1>1, <1>3, <1>4, <1>7, <1>8, <1>10, SessionThen

LEMMA RouteTurns ==
    ASSUME Frame, PageCalls, SessionInv, NEW hash, Navigate(hash)
    PROVE  SessionInv'
<1>1. PICK a, v, c, d, e, jar :
        /\ a = auth /\ v = view /\ c = calls["auth"] /\ d = calls["logout"] /\ e = calls["logout2"]
        /\ jar = cookie
        /\ SessionGood(a, v, c, d, e, jar, srv, strays)
  BY SessionNow
<1>2. PICK b, w, route, news : b = auth' /\ w = view' /\ route = toRoute(hash) /\ news = Remounted(b)
  OBVIOUS
<1>3. /\ b = [a EXCEPT !.route = route] /\ w = Rendered(b) /\ Replace(news)
      /\ UNCHANGED <<env, srv, cookie>>
  BY <1>1, <1>2 DEF Navigate
<1>4. route \in navigationItems
  BY <1>2 DEF toRoute, navigationItems
<1>5. /\ AuthShape(b) /\ b.loading = a.loading /\ b.error = a.error /\ b.enabled = a.enabled
      /\ b.authenticated = a.authenticated /\ b.expired = a.expired /\ b.crossed = a.crossed
  BY <1>1, <1>3, <1>4 DEF SessionGood, AuthShape
<1>6. w.page = Screen(b) /\ (w = v \/ w = First(Screen(b)))
  BY <1>1, <1>3, FirstIs DEF Rendered, Stays
<1>7. DOMAIN news \subseteq PageSlots
  BY <1>2, RemountedIs
<1>8. calls'["auth"] = c /\ calls'["logout"] = d /\ calls'["logout2"] = e
  BY <1>1, <1>3, <1>7, SlotsAre DEF Replace, Over, PageSlots, AppSlots, Frame, CallsWhole
<1>9. Quiet(strays) => Quiet(strays')
  <2>1. NewStrays(PageSlots)
    <3>1. PageSlots \subseteq Slot
      BY DEF PageSlots
    <3> QED BY <1>3, <1>7, <3>1, ReplaceStrays DEF Frame
  <2> QED BY <2>1 DEF NewStrays, PageCalls, MayHold, Open, Quiet
<1>10. /\ LoginShape(w) /\ (w.page = "login" => w = v)
       /\ w.page \in navigationItems => v.page \in navigationItems
       /\ v.page = "login" => w = v
  <2>1. v.page = Screen(a) /\ AuthShape(a)
    BY <1>1 DEF SessionGood
  <2>2. /\ Screen(a) = "login" <=> Screen(b) = "login"
        /\ Screen(b) \in navigationItems => Screen(a) \in navigationItems
    BY <1>5, <2>1 DEF Screen, AuthShape, navigationItems
  <2>3. Screen(b) = "login" => w = v
    BY <1>1, <1>3, <2>1, <2>2 DEF Rendered, Stays
  <2> QED BY <1>1, <1>6, <2>1, <2>2, <2>3 DEF SessionGood, LoginShape
<1>11. SessionGood(b, w, c, d, e, jar, srv, strays')
  <2>1. ~a.crossed => OneAtATime(b, w, c, d, e, jar)
    BY <1>1, <1>5, <1>10 DEF SessionGood, OneAtATime
  <2>2. ~a.crossed => Tells(b, c, jar, srv)
    BY <1>1, <1>5 DEF SessionGood, Tells
  <2>3. ~a.crossed => AppAgrees(b, w, d, e, jar, srv)
    BY <1>1, <1>5, <1>10 DEF SessionGood, AppAgrees, navigationItems
  <2> QED BY <1>1, <1>5, <1>6, <1>9, <1>10, <2>1, <2>2, <2>3 DEF SessionGood
<1> QED BY <1>1, <1>2, <1>3, <1>8, <1>11, SessionThen

LEMMA LoadsAgain ==
    ASSUME Frame, PageCalls, SessionInv, LoadAgain
    PROVE  SessionInv'
<1>1. PICK a, v, c, d, e, jar :
        /\ a = auth /\ v = view /\ c = calls["auth"] /\ d = calls["logout"] /\ e = calls["logout2"]
        /\ jar = cookie
        /\ SessionGood(a, v, c, d, e, jar, srv, strays)
  BY SessionNow
<1>2. PICK req, all :
        /\ req = [op |-> "session"]
        /\ all = [s \in Slot |-> IF s = "auth" THEN Fetching(req, cookie) ELSE Free]
        /\ calls' = Over(all, calls)
  BY DEF LoadAgain, Replace
<1>3. calls'["auth"] = Fetching(req, jar) /\ calls'["logout"] = Free /\ calls'["logout2"] = Free
  BY <1>1, <1>2, SlotsAre DEF Over
<1>4. v.page = "failed" /\ view' = First("boot") /\ UNCHANGED <<env, srv, cookie>>
  BY <1>1 DEF LoadAgain, At
<1>5. Live /\ env.mode = "live"
  BY <1>1, <1>4, ScreenIs DEF SessionGood, Live
<1>6. PICK b, w, n : b = auth' /\ w = view' /\ n = calls'["auth"]
  OBVIOUS
<1>7. /\ AuthShape(b) /\ b.loading /\ ~b.error /\ ~b.enabled
      /\ ~b.crossed => Quiet(strays')
  <2>1. PICK crossed : crossed = \E waiting \in strays' : waiting.req.op = "logout"
    OBVIOUS
  <2>2. crossed \in BOOLEAN /\ (~crossed => Quiet(strays'))
    BY <2>1 DEF Quiet
  <2>3. b = [InitAuth(env, a.route) EXCEPT !.expired = a.expired, !.crossed = crossed]
    BY <1>1, <1>6, <2>1, Zenon DEF LoadAgain
  <2>4. toRoute(a.route) \in navigationItems
    BY DEF toRoute, navigationItems
  <2> QED BY <1>1, <1>5, <2>2, <2>3, <2>4 DEF InitAuth, AuthShape, SessionGood
<1>8. w.page = "boot" /\ w.page = Screen(b) /\ LoginShape(w)
  BY <1>4, <1>6, <1>7, FirstIs, ScreenIs DEF LoginShape
<1>9. n.phase = "sent" /\ n.req.op = "session" /\ n.cookie = jar
  BY <1>2, <1>3, <1>6, FetchingIs
<1>10. SessionGood(b, w, n, Free, Free, jar, srv, strays')
  <2>1. /\ AppCall(n, {"session", "login"}) /\ AppCall(Free, {"logout"})
        /\ Minted(srv, jar, n) /\ Tells(b, n, jar, srv)
    BY <1>1, <1>5, <1>9 DEF SessionGood, AppCall, Minted, Tells, Answered, OnWire, Free
  <2>2. OneAtATime(b, w, n, Free, Free, jar)
    BY <1>7, <1>9 DEF OneAtATime, Free
  <2>3. AppAgrees(b, w, Free, Free, jar, srv)
    BY <1>8 DEF AppAgrees, navigationItems
  <2> QED BY <1>5, <1>7, <1>8, <2>1, <2>2, <2>3 DEF SessionGood
<1> QED BY <1>1, <1>3, <1>4, <1>6, <1>10, SessionThen

LEMMA SessionLost ==
    ASSUME SessionInv, SessionEnds
    PROVE  SessionInv'
<1>1. PICK a, v, c, d, e, jar :
        /\ a = auth /\ v = view /\ c = calls["auth"] /\ d = calls["logout"] /\ e = calls["logout2"]
        /\ jar = cookie
        /\ SessionGood(a, v, c, d, e, jar, srv, strays)
  BY SessionNow
<1>2. PICK b, store : b = auth' /\ store = srv'
  OBVIOUS
<1>3. /\ b = [a EXCEPT !.expired = TRUE] /\ store = [srv EXCEPT !.tokens = {}]
      /\ UNCHANGED <<calls, env, cookie, strays, view>>
  BY <1>1, <1>2 DEF SessionEnds
<1>4. /\ AuthShape(b) /\ b.loading = a.loading /\ b.error = a.error /\ b.enabled = a.enabled
      /\ b.authenticated = a.authenticated /\ b.expired /\ b.crossed = a.crossed /\ b.route = a.route
  BY <1>1, <1>3 DEF SessionGood, AuthShape
<1>5. Minted(store, jar, c) /\ store.tokens = {}
  BY <1>1, <1>3 DEF SessionGood, Minted
<1>6. SessionGood(b, v, c, d, e, jar, store, strays)
  <2>1. Screen(b) = Screen(a)
    BY <1>4 DEF Screen
  <2>2. ~a.crossed => OneAtATime(b, v, c, d, e, jar)
    BY <1>1, <1>4 DEF SessionGood, OneAtATime
  <2>3. ~a.crossed => Tells(b, c, jar, store) /\ AppAgrees(b, v, d, e, jar, store)
    BY <1>4, <1>5 DEF Tells, AppAgrees
  <2> QED BY <1>1, <1>4, <1>5, <2>1, <2>2, <2>3 DEF SessionGood
<1> QED BY <1>1, <1>2, <1>3, <1>6, SessionThen

\* What a request that is served does to the sessions.
SessionServed(c, d) ==
    \/ /\ c.req.op = "session" /\ srv' = srv
       /\ d.reply.enabled = env.auth
       /\ d.reply.authenticated = (env.auth /\ c.cookie \in srv.tokens)
    \/ /\ c.req.op = "login" /\ srv' = srv /\ d.reply.status # 200
    \/ \E token \in Token \ srv.issued :
        /\ c.req.op = "login" /\ d.reply.token = token
        /\ srv' = [srv EXCEPT !.tokens = @ \cup {token}, !.issued = @ \cup {token}]
    \/ /\ c.req.op = "logout" /\ srv' = [srv EXCEPT !.tokens = @ \ {c.cookie}]
       /\ d.reply.enabled = env.auth /\ d.reply.authenticated = FALSE
    \/ /\ c.req.op \notin Open
       /\ srv' = srv \/ srv' = After(c.req, srv)

LEMMA ServesSession ==
    ASSUME Frame, NEW s \in Slot, Serve(s)
    PROVE  SessionServed(calls[s], calls'[s])
<1>1. PICK c, d : c = calls[s] /\ d = calls'[s]
  OBVIOUS
<1> SUFFICES SessionServed(c, d)
  BY <1>1
<1>3. ASSUME NEW r, calls' = [calls EXCEPT ![s].phase = "replied", ![s].reply = r]
      PROVE  d.reply = r
  BY <1>1, <1>3 DEF Frame, CallsWhole, IsCall
<1>4. CASE c.req.op = "session"
  <2>1. PICK r : r = Session(c)
    OBVIOUS
  <2>2. calls' = [calls EXCEPT ![s].phase = "replied", ![s].reply = r] /\ srv' = srv
    BY <1>1, <1>4, <2>1 DEF Serve, Open
  <2>3. r.enabled = env.auth /\ r.authenticated = (env.auth /\ c.cookie \in srv.tokens)
    BY <2>1 DEF Session, SignedIn
  <2> QED BY <1>3, <1>4, <2>2, <2>3 DEF SessionServed
<1>5. CASE c.req.op = "login"
  <2>1. \/ /\ calls' = [calls EXCEPT ![s].phase = "replied", ![s].reply = [status |-> 401]]
           /\ srv' = srv
        \/ \E token \in Token \ srv.issued :
              /\ calls' = [calls EXCEPT ![s].phase = "replied", ![s].reply =
                              Ok([enabled |-> TRUE, authenticated |-> TRUE, token |-> token])]
              /\ srv' = [srv EXCEPT !.tokens = @ \cup {token}, !.issued = @ \cup {token}]
    BY <1>1, <1>5 DEF Serve, Open
  <2>2. CASE /\ calls' = [calls EXCEPT ![s].phase = "replied", ![s].reply = [status |-> 401]]
             /\ srv' = srv
    <3>1. d.reply = [status |-> 401]
      BY <1>3, <2>2
    <3> QED BY <1>5, <2>2, <3>1 DEF SessionServed
  <2>3. ASSUME NEW token \in Token \ srv.issued,
               calls' = [calls EXCEPT ![s].phase = "replied", ![s].reply =
                              Ok([enabled |-> TRUE, authenticated |-> TRUE, token |-> token])],
               srv' = [srv EXCEPT !.tokens = @ \cup {token}, !.issued = @ \cup {token}]
        PROVE  d.reply.token = token
    <3>1. PICK r : r = Ok([enabled |-> TRUE, authenticated |-> TRUE, token |-> token])
      OBVIOUS
    <3>2. r.token = token
      BY <3>1 DEF Ok, Over
    <3>3. d.reply = r
      BY <1>3, <2>3, <3>1
    <3> QED BY <3>2, <3>3
  <2> QED BY <1>5, <2>1, <2>2, <2>3 DEF SessionServed
<1>6. CASE c.req.op = "logout"
  <2>1. PICK r : r = Ok([enabled |-> env.auth, authenticated |-> FALSE])
    OBVIOUS
  <2>2. /\ calls' = [calls EXCEPT ![s].phase = "replied", ![s].reply = r]
        /\ srv' = [srv EXCEPT !.tokens = @ \ {c.cookie}]
    BY <1>1, <1>6, <2>1 DEF Serve, Open
  <2>3. r.enabled = env.auth /\ r.authenticated = FALSE
    BY <2>1 DEF Ok, Over
  <2> QED BY <1>3, <1>6, <2>2, <2>3 DEF SessionServed
<1>7. CASE c.req.op \notin Open
  <2>1. srv' = srv \/ srv' = After(c.req, srv)
    BY <1>1, <1>7 DEF Serve, Open
  <2> QED BY <1>7, <2>1 DEF SessionServed
<1> QED BY <1>4, <1>5, <1>6, <1>7 DEF Open

LEMMA StrayServed ==
    ASSUME SessionInv, NEW gone \in strays, ServeStray(gone), UNCHANGED <<auth, view>>
    PROVE  SessionInv'
<1>1. PICK a, v, c, d, e, jar :
        /\ a = auth /\ v = view /\ c = calls["auth"] /\ d = calls["logout"] /\ e = calls["logout2"]
        /\ jar = cookie
        /\ SessionGood(a, v, c, d, e, jar, srv, strays)
  BY SessionNow
<1>2. PICK store : store = srv'
  OBVIOUS
<1>3. /\ env' = env /\ cookie' = cookie /\ calls' = calls /\ strays' \subseteq strays
      /\ \/ store = [srv EXCEPT !.tokens = @ \ {gone.cookie}] /\ gone.req.op = "logout"
         \/ store = srv \/ store = After(gone.req, srv)
  BY <1>2 DEF ServeStray
<1>4. {"tokens", "issued"} \subseteq DOMAIN srv
  BY <1>1 DEF SessionGood, Minted
<1>5. /\ DOMAIN store = DOMAIN srv /\ store.issued = srv.issued /\ store.tokens \subseteq srv.tokens
      /\ gone.req.op # "logout" => store.tokens = srv.tokens
  BY <1>3, <1>4, SessionsStay
<1>6. SessionGood(a, v, c, d, e, jar, store, strays')
  <2>1. Minted(store, jar, c)
    BY <1>1, <1>5 DEF SessionGood, Minted
  <2>2. Quiet(strays) => Quiet(strays') /\ store.tokens = srv.tokens
    BY <1>3, <1>5 DEF Quiet
  <2>3. ~a.crossed => Tells(a, c, jar, store)
    BY <1>1, <1>5, <2>2 DEF SessionGood, Tells, OneAtATime
  <2>4. ~a.crossed => AppAgrees(a, v, d, e, jar, store)
    <3>1. v.page \in navigationItems => ~a.error
      BY <1>1, ScreenIs DEF SessionGood
    <3> QED BY <1>1, <1>5, <2>2, <3>1 DEF SessionGood, AppAgrees
  <2> QED BY <1>1, <2>1, <2>2, <2>3, <2>4 DEF SessionGood
<1> QED BY <1>1, <1>2, <1>3, <1>6, SessionThen

LEMMA AuthServed ==
    ASSUME Frame, SessionInv, Serve("auth"), UNCHANGED <<auth, view>>
    PROVE  SessionInv'
<1>1. PICK a, v, c, d, e, jar :
        /\ a = auth /\ v = view /\ c = calls["auth"] /\ d = calls["logout"] /\ e = calls["logout2"]
        /\ jar = cookie
        /\ SessionGood(a, v, c, d, e, jar, srv, strays)
  BY SessionNow
<1>2. PICK n, store : n = calls'["auth"] /\ store = srv'
  OBVIOUS
<1>3. /\ env' = env /\ cookie' = cookie /\ strays' = strays
      /\ calls'["logout"] = d /\ calls'["logout2"] = e
      /\ c.phase = "sent" /\ n.phase = "replied" /\ n.req = c.req /\ n.cookie = c.cookie
  <2>1. env' = env /\ cookie' = cookie /\ strays' = strays
    BY Zenon DEF Serve
  <2>2. /\ Served(calls["auth"], calls'["auth"])
        /\ \A t \in Slot \ {"auth"} : calls'[t] = calls[t]
    BY ServeSteps, SlotsAre, Zenon DEF Frame
  <2>3. Served(c, n)
    BY <1>1, <1>2, <2>2, Zenon
  <2>4. calls'["logout"] = d /\ calls'["logout2"] = e
    BY <1>1, <2>2, SlotsAre
  <2> QED BY <2>1, <2>3, <2>4, Zenon DEF Served, Alike
<1>4. SessionServed(c, n)
  BY <1>1, <1>2, ServesSession, SlotsAre
<1>5. env.auth \in BOOLEAN /\ Live /\ c.req.op \in {"session", "login"}
  BY <1>1, <1>3 DEF SessionInv, SessionGood, AppCall
<1>6. SessionGood(a, v, n, d, e, jar, store, strays)
  <2>1. CASE c.req.op = "session"
    <3>1. store = srv /\ n.reply.enabled = env.auth
          /\ n.reply.authenticated = (env.auth /\ c.cookie \in srv.tokens)
      BY <1>2, <1>4, <2>1 DEF SessionServed, Open
    <3>2. /\ n.reply.enabled \in BOOLEAN /\ n.reply.authenticated \in BOOLEAN
          /\ n.reply.enabled => (n.reply.authenticated <=> c.cookie \in srv.tokens)
      BY <1>5, <3>1
    <3>3. AppCall(n, {"session", "login"}) /\ Minted(srv, jar, n)
      BY <1>1, <1>3, <1>5, <2>1, <3>2 DEF SessionGood, AppCall, Minted, OnWire
    <3>4. ~a.crossed => OneAtATime(a, v, n, d, e, jar) /\ c.cookie = jar
      BY <1>1, <1>3, <2>1 DEF SessionGood, OneAtATime
    <3>5. ~a.crossed => Tells(a, n, jar, srv)
      BY <3>2, <3>4 DEF Tells
    <3> QED BY <1>1, <3>1, <3>3, <3>4, <3>5 DEF SessionGood
  <2>2. CASE c.req.op = "login"
    <3>1. \/ store = srv /\ n.reply.status # 200
          \/ \E token \in Token \ srv.issued :
                /\ n.reply.token = token
                /\ store = [srv EXCEPT !.tokens = @ \cup {token}, !.issued = @ \cup {token}]
      BY <1>2, <1>4, <2>2 DEF SessionServed, Open
    <3>2. AppCall(n, {"session", "login"}) /\ Tells(a, n, jar, store)
      BY <1>3, <1>5, <2>2 DEF AppCall, Tells, OnWire
    <3>3. ~a.crossed => OneAtATime(a, v, n, d, e, jar) /\ v.page = "login" /\ v.pending
      BY <1>1, <1>3, <2>2 DEF SessionGood, OneAtATime
    <3>4. Minted(store, jar, n)
      <4>1. CASE store = srv /\ n.reply.status # 200
        BY <1>1, <4>1 DEF SessionGood, Minted
      <4>2. ASSUME NEW token \in Token \ srv.issued, n.reply.token = token,
                   store = [srv EXCEPT !.tokens = @ \cup {token}, !.issued = @ \cup {token}]
            PROVE  Minted(store, jar, n)
        BY <1>1, <4>2, ApiAssumption DEF SessionGood, Minted
      <4> QED BY <3>1, <4>1, <4>2
    <3>5. ~a.crossed => AppAgrees(a, v, d, e, jar, store)
      BY <3>3 DEF AppAgrees, navigationItems
    <3> QED BY <1>1, <3>2, <3>3, <3>4, <3>5 DEF SessionGood
  <2> QED BY <1>5, <2>1, <2>2
<1> QED BY <1>1, <1>2, <1>3, <1>6, SessionThen

LEMMA LogoutServed ==
    ASSUME Frame, SessionInv, NEW s \in {"logout", "logout2"}, Serve(s), UNCHANGED <<auth, view>>
    PROVE  SessionInv'
<1>1. PICK a, v, c, d, e, jar :
        /\ a = auth /\ v = view /\ c = calls["auth"] /\ d = calls["logout"] /\ e = calls["logout2"]
        /\ jar = cookie
        /\ SessionGood(a, v, c, d, e, jar, srv, strays)
  BY SessionNow
<1>2. PICK l, n, d2, e2, store : /\ l = calls[s] /\ n = calls'[s] /\ store = srv'
                                /\ d2 = calls'["logout"] /\ e2 = calls'["logout2"]
  OBVIOUS
<1>3. /\ env' = env /\ cookie' = cookie /\ strays' = strays
      /\ calls'["auth"] = c
      /\ \/ l = d /\ d2 = n /\ e2 = e
         \/ l = e /\ d2 = d /\ e2 = n
      /\ l.phase = "sent" /\ n.phase = "replied" /\ n.req = l.req /\ n.cookie = l.cookie
  <2>1. env' = env /\ cookie' = cookie /\ strays' = strays
    BY Zenon DEF Serve
  <2>2. Served(calls[s], calls'[s]) /\ \A t \in Slot \ {s} : calls'[t] = calls[t]
    BY ServeSteps, SlotsAre DEF Frame
  <2>3. Served(l, n)
    BY <1>2, <2>2, Zenon
  <2>4. /\ calls'["auth"] = c
        /\ \/ l = d /\ d2 = n /\ e2 = e
           \/ l = e /\ d2 = d /\ e2 = n
    BY <1>1, <1>2, <2>2, SlotsAre
  <2> QED BY <2>1, <2>3, <2>4, Zenon DEF Served, Alike
<1>4. SessionServed(l, n)
  BY <1>2, ServesSession, SlotsAre
<1>5. env.auth \in BOOLEAN /\ Live /\ l.req.op = "logout"
  BY <1>1, <1>3 DEF SessionInv, SessionGood, AppCall
<1>6. /\ store = [srv EXCEPT !.tokens = @ \ {l.cookie}]
      /\ n.reply.enabled \in BOOLEAN /\ n.reply.authenticated = FALSE
  BY <1>2, <1>4, <1>5 DEF SessionServed, Open
<1>7. SessionGood(a, v, c, d2, e2, jar, store, strays)
  <2>1. AppCall(n, {"logout"}) /\ AppCall(d2, {"logout"}) /\ AppCall(e2, {"logout"})
    <3>1. AppCall(n, {"logout"})
      BY <1>3, <1>5, <1>6 DEF AppCall, OnWire
    <3> QED BY <1>1, <1>3, <3>1 DEF SessionGood
  <2>2. Minted(store, jar, c) /\ store.tokens \subseteq srv.tokens
    BY <1>1, <1>6 DEF SessionGood, Minted
  <2>3. ~a.crossed => OneAtATime(a, v, c, d2, e2, jar) /\ c.phase = "free"
    BY <1>1, <1>3 DEF SessionGood, OneAtATime
  <2>4. ~a.crossed => Tells(a, c, jar, store)
    BY <2>3 DEF Tells
  <2>5. ~a.crossed => AppAgrees(a, v, d2, e2, jar, store)
    BY <1>1, <1>3, <2>2 DEF SessionGood, AppAgrees
  <2> QED BY <1>1, <2>1, <2>2, <2>3, <2>4, <2>5 DEF SessionGood
<1> QED BY <1>1, <1>2, <1>3, <1>7, SessionThen

\* The headers bring the browser its cookie, or take it away.
LEMMA AuthHeaders ==
    ASSUME Frame, SessionInv, HeadersArrive("auth"), UNCHANGED <<auth, view>>
    PROVE  SessionInv'
<1>1. PICK a, v, c, d, e, jar :
        /\ a = auth /\ v = view /\ c = calls["auth"] /\ d = calls["logout"] /\ e = calls["logout2"]
        /\ jar = cookie
        /\ SessionGood(a, v, c, d, e, jar, srv, strays)
  BY SessionNow
<1>2. PICK n, new : n = calls'["auth"] /\ new = cookie'
  OBVIOUS
<1>3. /\ env' = env /\ srv' = srv /\ strays' = strays
      /\ calls'["logout"] = d /\ calls'["logout2"] = e
      /\ c.phase = "replied" /\ n.phase = "reading" /\ n.req = c.req /\ n.cookie = c.cookie
      /\ n.reply = c.reply
      /\ new = IF c.req.op = "logout" THEN 0
               ELSE IF c.req.op = "login" /\ c.reply.status = 200 THEN c.reply.token ELSE jar
  BY <1>1, <1>2, HeadersSteps, SlotsAre, SMTT(30) DEF Frame, HeadersArrive, ReadOn, Alike
<1>4. Live /\ c.req.op \in {"session", "login"} /\ AppCall(n, {"session", "login"})
  BY <1>1, <1>3 DEF SessionGood, AppCall, Answered, OnWire
<1>5. SessionGood(a, v, n, d, e, new, srv, strays)
  <2>1. Minted(srv, new, n)
    BY <1>1, <1>3, <1>4 DEF SessionGood, Minted, Answered
  <2>2. ~a.crossed => OneAtATime(a, v, n, d, e, new)
    BY <1>1, <1>3, <1>4 DEF SessionGood, OneAtATime
  <2>3. ~a.crossed => Tells(a, n, new, srv)
    BY <1>1, <1>3, <1>4 DEF SessionGood, Tells, Answered
  <2>4. ~a.crossed => AppAgrees(a, v, d, e, new, srv)
    <3>1. CASE c.req.op = "session"
      BY <1>1, <1>3, <3>1 DEF SessionGood
    <3>2. CASE c.req.op = "login"
      BY <1>1, <1>3, <3>2 DEF SessionGood, OneAtATime, AppAgrees, navigationItems
    <3> QED BY <1>4, <3>1, <3>2
  <2> QED BY <1>1, <1>4, <2>1, <2>2, <2>3, <2>4 DEF SessionGood
<1> QED BY <1>1, <1>2, <1>3, <1>5, SessionThen

LEMMA LogoutHeaders ==
    ASSUME Frame, SessionInv, NEW s \in {"logout", "logout2"}, HeadersArrive(s), UNCHANGED <<auth, view>>
    PROVE  SessionInv'
<1>1. PICK a, v, c, d, e, jar :
        /\ a = auth /\ v = view /\ c = calls["auth"] /\ d = calls["logout"] /\ e = calls["logout2"]
        /\ jar = cookie
        /\ SessionGood(a, v, c, d, e, jar, srv, strays)
  BY SessionNow
<1>2. PICK l, n, d2, e2 : /\ l = calls[s] /\ n = calls'[s]
                         /\ d2 = calls'["logout"] /\ e2 = calls'["logout2"]
  OBVIOUS
<1>3. /\ env' = env /\ srv' = srv /\ strays' = strays
      /\ calls'["auth"] = c
      /\ \/ l = d /\ d2 = n /\ e2 = e
         \/ l = e /\ d2 = d /\ e2 = n
      /\ l.phase = "replied" /\ n.phase = "reading" /\ n.req = l.req /\ n.reply = l.reply
      /\ l.req.op = "logout" => cookie' = 0
  <2>1. /\ env' = env /\ srv' = srv /\ strays' = strays
        /\ l.req.op = "logout" => cookie' = 0
    BY <1>2, Zenon DEF HeadersArrive
  <2>2. ReadOn(calls[s], calls'[s]) /\ \A t \in Slot \ {s} : calls'[t] = calls[t]
    BY HeadersSteps, SlotsAre DEF Frame
  <2>3. ReadOn(l, n)
    BY <1>2, <2>2, Zenon
  <2>4. /\ calls'["auth"] = c
        /\ \/ l = d /\ d2 = n /\ e2 = e
           \/ l = e /\ d2 = d /\ e2 = n
    BY <1>1, <1>2, <2>2, SlotsAre
  <2> QED BY <2>1, <2>3, <2>4, Zenon DEF ReadOn, Alike
<1>4. Live /\ l.req.op = "logout" /\ AppCall(n, {"logout"})
  BY <1>1, <1>3 DEF SessionGood, AppCall, Answered, OnWire
<1>5. SessionGood(a, v, c, d2, e2, 0, srv, strays)
  <2>1. AppCall(d2, {"logout"}) /\ AppCall(e2, {"logout"})
    BY <1>1, <1>3, <1>4 DEF SessionGood
  <2>2. Minted(srv, 0, c) /\ 0 \notin srv.tokens
    BY <1>1 DEF SessionGood, Minted
  <2>3. ~a.crossed => OneAtATime(a, v, c, d2, e2, 0) /\ c.phase = "free"
    BY <1>1, <1>3 DEF SessionGood, OneAtATime
  <2>4. ~a.crossed => Tells(a, c, 0, srv)
    BY <2>3 DEF Tells
  <2>5. ~a.crossed => AppAgrees(a, v, d2, e2, 0, srv)
    BY <1>3, <2>2 DEF AppAgrees
  <2> QED BY <1>1, <2>1, <2>2, <2>3, <2>4, <2>5 DEF SessionGood
<1> QED BY <1>1, <1>2, <1>3, <1>4, <1>5, SessionThen

LEMMA WireKeepsSession ==
    ASSUME Frame, PageCalls, SessionInv, Wire
    PROVE  SessionInv'
<1>1. UNCHANGED <<auth, view>> /\ env' = env
  BY WireSteps
<1>2. {"tokens", "issued"} \subseteq DOMAIN srv
  BY DEF SessionInv, SessionGood, Minted
<1>3. Slot = AppSlots \cup PageSlots /\ AppSlots = {"auth", "logout", "logout2"}
      /\ AppSlots \cap PageSlots = {}
  BY SlotsAre DEF PageSlots, AppSlots
<1>4. ASSUME NEW s \in PageSlots, Serve(s) \/ HeadersArrive(s) \/ FallBack(s) PROVE SessionInv'
  <2>1. calls[s].req.op \notin Open
    BY DEF PageCalls, MayHold
  <2>2. /\ \A t \in AppSlots : calls'[t] = calls[t]
        /\ cookie' = cookie /\ strays' = strays
        /\ srv' = srv \/ srv' = After(calls[s].req, srv)
    <3>1. \A t \in Slot \ {s} : calls'[t] = calls[t]
      BY <1>3, <1>4, ServeSteps, HeadersSteps, FallBackSteps DEF Frame
    <3>2. CASE Serve(s)
      <4>1. SessionServed(calls[s], calls'[s])
        BY <1>3, <3>2, ServesSession
      <4> QED BY <1>3, <2>1, <3>1, <3>2, <4>1 DEF SessionServed, Serve, Open
    <3>3. CASE HeadersArrive(s)
      BY <1>3, <2>1, <3>1, <3>3 DEF HeadersArrive, Open
    <3>4. CASE FallBack(s)
      BY <1>3, <3>1, <3>4 DEF FallBack
    <3> QED BY <1>4, <3>2, <3>3, <3>4
  <2>3. Apart
    BY <1>1, <1>2, <2>2, SessionsStay DEF Apart
  <2> QED BY <1>1, <2>3, ApartKeeps
<1>5. ASSUME NEW s \in AppSlots, FallBack(s) PROVE FALSE
  BY <1>3, <1>5 DEF FallBack, FallsBack, Fallback, SessionInv, SessionGood, AppCall
<1> QED BY <1>1, <1>3, <1>4, <1>5, StrayServed, AuthServed, LogoutServed, AuthHeaders, LogoutHeaders
       DEF Wire

LEMMA SessionKept ==
    ASSUME Frame, PageCalls, SessionInv, [Next]_vars
    PROVE  SessionInv'
<1>1. CASE UNCHANGED vars
  BY <1>1 DEF vars, SessionInv, SessionGood, AppCall, Live
<1>2. CASE Wire
  BY <1>2, WireKeepsSession
<1>3. CASE AppNext
  BY <1>3, SessionChecks, LoginBegins, LoginEnds, LogoutBegins, LogoutEnds, RouteTurns, LoadsAgain,
     SessionLost DEF AppNext
<1>4. CASE OverviewNext \/ GeoNext \/ ListPagesNext \/ SettingsNext \/ ProxiesNext \/ RenderLine \/ Tick
  <2>1. Apart
    BY <1>4, PagesApart DEF SessionInv, SessionGood, Minted
  <2>2. env' = env
    BY PageSteps
  <2> QED BY <2>1, <2>2, ApartKeeps
<1> QED BY <1>1, <1>2, <1>3, <1>4 DEF Next

LEMMA SessionOpens == Init => SessionInv
<1> SUFFICES ASSUME Init PROVE SessionInv
  OBVIOUS
<1>1. PICK start \in Starts :
        /\ env = start.env /\ srv = start.store /\ strays = {} /\ cookie = 0
        /\ auth = InitAuth(start.env, start.route) /\ view = First(Screen(auth))
  BY DEF Init
<1>2. /\ AuthShape(auth) /\ auth.loading = (env.mode = "live") /\ ~auth.error /\ ~auth.enabled
      /\ auth.crossed = FALSE
  <2>1. toRoute(start.route) \in navigationItems
    BY DEF toRoute, navigationItems
  <2> QED BY <1>1, <2>1 DEF InitAuth, AuthShape
<1>3. /\ view.page = Screen(auth) /\ LoginShape(view) /\ view.page # "login"
      /\ Live => view.page = "boot"
  BY <1>1, <1>2, FirstIs, ScreenIs DEF LoginShape, Live
<1>4. /\ env.auth \in BOOLEAN
      /\ {"tokens", "issued"} \subseteq DOMAIN srv
      /\ srv.tokens \subseteq srv.issued /\ 0 \notin srv.issued
  BY <1>1, StartsAssumption, ApiAssumption
<1>5. PICK req : req = [op |-> "session"]
  OBVIOUS
<1>6. /\ calls["auth"] = IF Live THEN Fetching(req, 0) ELSE Free
      /\ calls["logout"] = Free /\ calls["logout2"] = Free
  <2> DEFINE page == [t \in PageSlots |->
                        IF t \in DOMAIN Calls(Screen(auth))
                        THEN Calling(Calls(Screen(auth))[t]) ELSE Free]
             boot == [t \in AppSlots |->
                        IF t = "auth" /\ Live THEN Fetching([op |-> "session"], 0) ELSE Free]
  <2>1. calls = Over(page, boot)
    BY DEF Init
  <2>2. ASSUME NEW t \in AppSlots PROVE calls[t] = boot[t]
    BY <2>1 DEF Over, PageSlots
  <2>3. boot["auth"] = (IF Live THEN Fetching(req, 0) ELSE Free)
        /\ boot["logout"] = Free /\ boot["logout2"] = Free
    BY <1>5 DEF AppSlots
  <2>4. "auth" \in AppSlots /\ "logout" \in AppSlots /\ "logout2" \in AppSlots
    BY DEF AppSlots
  <2> HIDE DEF page, boot
  <2> QED BY <2>2, <2>3, <2>4
<1>7. PICK c : c = calls["auth"]
  OBVIOUS
<1>8. /\ c.phase # "free" => Live /\ c.phase = "sent" /\ c.req.op = "session" /\ c.cookie = 0
      /\ ~Answered(c)
  BY <1>5, <1>6, <1>7, FetchingIs DEF Free, Answered
<1>9. SessionGood(auth, view, c, Free, Free, 0, srv, {})
  <2>1. AppCall(c, {"session", "login"}) /\ AppCall(Free, {"logout"}) /\ Minted(srv, 0, c)
    BY <1>4, <1>8 DEF AppCall, Minted, Free, OnWire
  <2>2. OneAtATime(auth, view, c, Free, Free, 0) /\ Tells(auth, c, 0, srv) /\ Quiet({})
    BY <1>2, <1>8 DEF OneAtATime, Tells, Free, Quiet, Live
  <2>3. AppAgrees(auth, view, Free, Free, 0, srv)
    <3>1. ~auth.enabled /\ view.page # "login"
      BY <1>2, <1>3, Zenon
    <3> QED BY <3>1, Zenon DEF AppAgrees
  <2>4. ~Live => ~auth.loading /\ ~auth.error /\ ~auth.enabled
    BY <1>2 DEF Live
  <2> QED BY <1>2, <1>3, <2>1, <2>2, <2>3, <2>4, Zenon DEF SessionGood
<1> QED BY <1>1, <1>4, <1>6, <1>7, <1>9 DEF SessionInv

LEMMA SessionAlways == Spec => [](Frame /\ PageCalls /\ SessionInv)
<1>1. Init => Frame /\ PageCalls /\ SessionInv
  BY InitFrame, PageCallsOpen, SessionOpens
<1>2. Frame /\ PageCalls /\ SessionInv /\ [Next]_vars => (Frame /\ PageCalls /\ SessionInv)'
  BY PageSteps, PageCallsKept, SessionKept
<1> QED BY <1>1, <1>2, PTL DEF Spec, Safe

\* SessionAgrees: who sees the pages of a protected dashboard is signed in, and who
\* was sent to the login page is not, unless a login or a reload crossed a logout or
\* the session was ended by somebody else (App.tsx: loadAuthStatus, handleLogout;
\* LoginPage.tsx: handleSubmit).
THEOREM SessionTrue == Spec => []SessionAgrees
<1>1. SessionInv => SessionAgrees
  BY DEF SessionInv, SessionGood, AppAgrees, SessionAgrees, InShell, SignedInNow, Busy, At
<1> QED BY <1>1, SessionAlways, PTL

-----------------------------------------------------------------------------
\* The documentation.

\* Numbers that are bounded have a largest one.
LEMMA MaxIs ==
    ASSUME NEW S \in SUBSET Nat, S # {}, NEW top \in Nat, \A x \in S : x <= top
    PROVE  Max(S) \in S /\ \A x \in S : x <= Max(S)
<1> DEFINE Above == {n \in Nat : \A x \in S : x <= n}
<1>1. PICK least \in Above : \A n \in Above : ~(n < least)
  <2>1. Above \subseteq Nat /\ top \in Above
    OBVIOUS
  <2> HIDE DEF Above
  <2>2. \E x \in Above : \A y \in Above : ~(<<y, x>> \in OpToRel(<, Nat))
    BY <2>1, NatLessThanWellFounded, WFMin, Zenon
  <2> QED BY <2>1, <2>2 DEF OpToRel
<1>2. least \in Nat /\ \A x \in S : x <= least
  OBVIOUS
<1>3. least \in S
  <2> SUFFICES ASSUME least \notin S PROVE FALSE
    OBVIOUS
  <2>1. \A x \in S : x \in Nat /\ x <= least /\ x # least
    BY <1>2
  <2>2. PICK x \in S : x \in Nat
    BY <2>1
  <2>3. least - 1 \in Nat /\ \A y \in S : y <= least - 1
    BY <1>2, <2>1, <2>2
  <2>4. least - 1 \in Above
    BY <2>3
  <2> QED BY <1>1, <1>2, <2>4
<1>4. \E m \in S : \A x \in S : m >= x
  BY <1>2, <1>3
<1> QED BY <1>4 DEF Max

\* A run of lines of some kinds, its end, and what comes after it.
LEMMA RunEnds ==
    ASSUME NEW kinds, NEW first \in Nat \ {0}, view.lines \in Seq(LineKind), first <= Len(view.lines) + 1
    PROVE  /\ RunEnd(first, kinds) \in (first - 1)..Len(view.lines)
           /\ \A j \in first..RunEnd(first, kinds) : view.lines[j] \in kinds
           /\ RunEnd(first, kinds) < Len(view.lines) => view.lines[RunEnd(first, kinds) + 1] \notin kinds
<1> DEFINE S == {first - 1} \cup {j \in first..Len(view.lines) : \A k \in first..j : view.lines[k] \in kinds}
<1>1. PICK len \in Nat : len = Len(view.lines)
  OBVIOUS
<1>2. S \in SUBSET Nat /\ S # {} /\ \A x \in S : x <= len
  BY <1>1
<1>3. Max(S) \in S /\ \A x \in S : x <= Max(S)
  <2> HIDE DEF S
  <2> QED BY <1>1, <1>2, MaxIs
<1>4. PICK last : last = RunEnd(first, kinds)
  OBVIOUS
<1>5. last \in S /\ \A x \in S : x <= last
  BY <1>3, <1>4 DEF RunEnd
<1>6. last \in (first - 1)..len /\ \A j \in first..last : view.lines[j] \in kinds
  BY <1>1, <1>5
<1>7. ASSUME last < len, view.lines[last + 1] \in kinds PROVE FALSE
  <2>1. last + 1 \in first..len
    BY <1>1, <1>6, <1>7
  <2>2. \A k \in first..(last + 1) : view.lines[k] \in kinds
    BY <1>1, <1>6, <1>7, <2>1
  <2>3. last + 1 \in S
    BY <1>1, <2>1, <2>2
  <2> QED BY <1>1, <1>5, <1>6, <2>3
<1> QED BY <1>1, <1>4, <1>6, <1>7

\* A line after an odd number of fences is in code.
Fences(marks, j) == Cardinality(marks \cap 1..(j - 1))
InCode(marks, j) == Fences(marks, j) % 2 = 1

LEMMA FencesAre ==
    ASSUME NEW marks \in SUBSET Nat, NEW i \in Nat \ {0}
    PROVE  /\ Fences(marks, i) \in Nat
           /\ i \in marks => Fences(marks, i + 1) = Fences(marks, i) + 1
           /\ \A j \in Nat : i <= j /\ (\A k \in i..(j - 1) : k \notin marks) =>
                    Fences(marks, j) = Fences(marks, i)
<1> DEFINE F(j) == marks \cap 1..(j - 1)
<1>1. IsFiniteSet(F(i)) /\ Cardinality(F(i)) \in Nat
  <2>1. IsFiniteSet(1..(i - 1)) /\ F(i) \subseteq 1..(i - 1)
    BY FS_Interval
  <2> QED BY <2>1, FS_Subset, FS_CardinalityType
<1>2. ASSUME i \in marks PROVE Cardinality(F(i + 1)) = Cardinality(F(i)) + 1
  <2>1. F(i + 1) = F(i) \cup {i} /\ i \notin F(i)
    BY <1>2
  <2> HIDE DEF F
  <2> QED BY <1>1, <2>1, FS_AddElement
<1>3. ASSUME NEW j \in Nat, i <= j, \A k \in i..(j - 1) : k \notin marks PROVE F(j) = F(i)
  BY <1>3
<1> QED BY <1>1, <1>2, <1>3 DEF Fences

\* Code changes with a fence and stays what it is until the next.
LEMMA CodeIs ==
    ASSUME NEW marks \in SUBSET Nat, NEW i \in Nat \ {0}
    PROVE  /\ ~InCode(marks, 1)
           /\ i \in marks => (InCode(marks, i + 1) <=> ~InCode(marks, i))
           /\ \A j \in Nat : i <= j /\ (\A k \in i..(j - 1) : k \notin marks) =>
                    (InCode(marks, j) <=> InCode(marks, i))
<1>1. Fences(marks, 1) = 0
  <2>1. marks \cap 1..(1 - 1) = {}
    OBVIOUS
  <2> QED BY <2>1, FS_EmptySet DEF Fences
<1>2. \A n \in Nat : (n + 1) % 2 = 1 <=> ~(n % 2 = 1)
  OBVIOUS
<1>3. Fences(marks, i) \in Nat /\ (i \in marks => Fences(marks, i + 1) = Fences(marks, i) + 1)
  BY FencesAre
<1>4. ~InCode(marks, 1)
  BY <1>1 DEF InCode
<1>5. i \in marks => (InCode(marks, i + 1) <=> ~InCode(marks, i))
  BY <1>2, <1>3 DEF InCode
<1>6. ASSUME NEW j \in Nat, i <= j, \A k \in i..(j - 1) : k \notin marks
      PROVE  InCode(marks, j) <=> InCode(marks, i)
  <2>1. Fences(marks, j) = Fences(marks, i)
    BY <1>6, FencesAre
  <2> QED BY <2>1 DEF InCode
<1> QED BY <1>4, <1>5, <1>6

\* What a later block takes does not change what came before it.
LEMMA CodeStays ==
    ASSUME NEW marks \in SUBSET Nat, NEW taken \in SUBSET Nat, NEW j \in Nat,
           \A k \in taken : j <= k
    PROVE  InCode(marks \ taken, j) <=> InCode(marks, j)
<1>1. (marks \ taken) \cap 1..(j - 1) = marks \cap 1..(j - 1)
  OBVIOUS
<1> QED BY <1>1 DEF InCode, Fences

\* The page: every line before i is where it belongs, and i is outside of code.
Tag == {"pre", "hr", "table", "h", "blockquote", "ul", "p"}
Block == [tag : Tag, lines : SUBSET Nat, cut : SUBSET Nat]
DocView == [page : {"doc"}, lines : Seq(LineKind), i : Nat \ {0}, out : Seq(Block)]

\* The fences of a page that no table has taken.
MarksOf(v) ==
    {k \in 1..Len(v.lines) :
        v.lines[k] \in FenceLine /\ \A b \in DOMAIN v.out : k \notin v.out[b].cut}

Whole(block, kind, j) == j \in block.lines \/ (kind \in Barred /\ block.tag = "table")
Belongs(v, j) ==
    \E b \in DOMAIN v.out :
        /\ j \in LinesOf(v.out[b])
        /\ Whole(v.out[b], v.lines[j], j)
        /\ v.out[b].tag = "pre" <=> InCode(MarksOf(v), j)

DocGood(v) ==
    /\ v \in DocView
    /\ \A b \in DOMAIN v.out : \A x \in LinesOf(v.out[b]) : x < v.i
    /\ \A a, b \in DOMAIN v.out : a < b => \A x \in LinesOf(v.out[a]), y \in LinesOf(v.out[b]) : x < y
    /\ \A j \in 1..Len(v.lines) : j < v.i /\ v.lines[j] \in Shown => Belongs(v, j)
    /\ v.i <= Len(v.lines) => ~InCode(MarksOf(v), v.i)

DocInv == env.doc \in Seq(LineKind) /\ (At("doc") => DocGood(view))

LEMMA BlockIs ==
    ASSUME NEW tag \in Tag, NEW where \in SUBSET Nat, NEW cut \in SUBSET Nat,
           NEW block, block = [tag |-> tag, lines |-> where, cut |-> cut]
    PROVE  /\ block \in Block /\ block.tag = tag /\ block.lines = where /\ block.cut = cut
           /\ LinesOf(block) = where \cup cut
BY DEF Block, LinesOf

LEMMA BlocksAre ==
    ASSUME NEW out \in Seq(Block)
    PROVE  /\ Len(out) \in Nat /\ DOMAIN out = 1..Len(out)
           /\ \A b \in DOMAIN out : out[b] \in Block /\ LinesOf(out[b]) \subseteq Nat
<1>1. /\ Len(out) \in Nat /\ DOMAIN out = 1..Len(out)
      /\ \A b \in DOMAIN out : out[b] \in Block
  OBVIOUS
<1> QED BY <1>1 DEF Block, LinesOf

\* From i on nothing is taken yet.
LEMMA MarksAre ==
    ASSUME NEW v, DocGood(v)
    PROVE  /\ MarksOf(v) \in SUBSET Nat
           /\ \A k \in v.i..Len(v.lines) : k \in MarksOf(v) <=> v.lines[k] \in FenceLine
<1>1. v.i \in Nat \ {0} /\ v.lines \in Seq(LineKind) /\ v.out \in Seq(Block)
  BY DEF DocGood, DocView
<1>2. PICK i, lines, len : i = v.i /\ lines = v.lines /\ len = Len(lines)
  OBVIOUS
<1>3. len \in Nat /\ i \in Nat \ {0}
  BY <1>1, <1>2
<1>4. ASSUME NEW k \in i..len, NEW b \in DOMAIN v.out, k \in v.out[b].cut PROVE FALSE
  <2>1. k \in LinesOf(v.out[b])
    BY <1>4 DEF LinesOf
  <2>2. k < i
    BY <1>2, <2>1 DEF DocGood
  <2> QED BY <1>3, <1>4, <2>2
<1>5. MarksOf(v) = {k \in 1..len : lines[k] \in FenceLine /\ \A b \in DOMAIN v.out : k \notin v.out[b].cut}
  BY <1>2 DEF MarksOf
<1>6. \A k \in i..len : k \in 1..len
  BY <1>3
<1>7. \A k \in i..len : k \in MarksOf(v) <=> lines[k] \in FenceLine
  BY <1>4, <1>5, <1>6, Zenon
<1>8. MarksOf(v) \in SUBSET Nat
  BY <1>3, <1>5
<1> QED BY <1>2, <1>7, <1>8

\* A block of all the lines up to the next one that have something to show.
LEMMA Emits ==
    ASSUME NEW v, DocGood(v), NEW i, i = v.i, NEW lines, lines = v.lines,
           NEW block \in Block, NEW next \in Nat, i <= next,
           NEW marks, marks = MarksOf(v) \ block.cut,
           \A x \in LinesOf(block) : i <= x /\ x < next,
           \A j \in 1..Len(lines) : i <= j /\ j < next /\ lines[j] \in Shown =>
                /\ j \in LinesOf(block) /\ Whole(block, lines[j], j)
                /\ block.tag = "pre" <=> InCode(marks, j),
           next <= Len(lines) => ~InCode(marks, next),
           NEW w, w = [v EXCEPT !.out = Append(@, block), !.i = next]
    PROVE  DocGood(w)
<1>1. PICK out : out = v.out
  OBVIOUS
<1>2. v \in DocView /\ out \in Seq(Block) /\ i \in Nat \ {0} /\ lines \in Seq(LineKind)
  BY <1>1 DEF DocGood, DocView
<1>3. PICK more : more = Append(out, block)
  OBVIOUS
<1>4. /\ more \in Seq(Block) /\ Len(out) \in Nat
      /\ DOMAIN more = 1..(Len(out) + 1) /\ DOMAIN out = 1..Len(out)
      /\ more[Len(out) + 1] = block /\ \A b \in DOMAIN out : more[b] = out[b]
  BY <1>2, <1>3
<1>5. /\ w \in DocView /\ w.out = more /\ w.i = next /\ w.lines = lines
  <2>1. w = [v EXCEPT !.out = more, !.i = next] /\ next \in Nat \ {0}
    BY <1>1, <1>2, <1>3
  <2> QED BY <1>2, <1>4, <2>1 DEF DocView
<1>6. \A b \in DOMAIN out : \A x \in LinesOf(out[b]) : x \in Nat /\ x < i
  BY <1>1, <1>2, BlocksAre DEF DocGood
<1>7. \A x \in LinesOf(block) : x \in Nat /\ i <= x /\ x < next
  BY DEF Block, LinesOf
<1>8. \A b \in DOMAIN more : \A x \in LinesOf(more[b]) : x < next
  <2> SUFFICES ASSUME NEW b \in DOMAIN more, NEW x \in LinesOf(more[b]) PROVE x < next
    OBVIOUS
  <2>1. CASE b \in DOMAIN out
    BY <1>2, <1>4, <1>6, <2>1
  <2>2. CASE b = Len(out) + 1
    BY <1>4, <1>7, <2>2
  <2> QED BY <1>4, <2>1, <2>2
<1>9. ASSUME NEW a \in DOMAIN more, NEW b \in DOMAIN more, a < b,
             NEW x \in LinesOf(more[a]), NEW y \in LinesOf(more[b])
      PROVE  x < y
  <2>1. a \in DOMAIN out
    BY <1>4, <1>9
  <2>2. CASE b \in DOMAIN out
    BY <1>1, <1>4, <1>9, <2>1, <2>2 DEF DocGood
  <2>3. CASE b = Len(out) + 1
    BY <1>2, <1>4, <1>6, <1>7, <2>1, <2>3
  <2> QED BY <1>4, <2>2, <2>3
<1>10. MarksOf(w) = marks
  <2>1. ASSUME NEW k
        PROVE  (\A b \in DOMAIN more : k \notin more[b].cut) <=>
                    (\A b \in DOMAIN out : k \notin out[b].cut) /\ k \notin block.cut
    <3>1. \A b \in DOMAIN out : b \in DOMAIN more /\ more[b] = out[b]
      BY <1>4
    <3>2. Len(out) + 1 \in DOMAIN more /\ more[Len(out) + 1] = block
      BY <1>4
    <3>3. \A b \in DOMAIN more : b \in DOMAIN out \/ b = Len(out) + 1
      BY <1>4
    <3> QED BY <3>1, <3>2, <3>3, Zenon
  <2>2. MarksOf(w) = {k \in 1..Len(lines) : lines[k] \in FenceLine /\ \A b \in DOMAIN more : k \notin more[b].cut}
    BY <1>5 DEF MarksOf
  <2>3. MarksOf(v) = {k \in 1..Len(lines) : lines[k] \in FenceLine /\ \A b \in DOMAIN out : k \notin out[b].cut}
    BY <1>1 DEF MarksOf
  <2> QED BY <2>1, <2>2, <2>3, Zenon
<1>11. ASSUME NEW j \in Nat, j < i PROVE InCode(marks, j) <=> InCode(MarksOf(v), j)
  <2>1. MarksOf(v) \in SUBSET Nat
    BY MarksAre
  <2>2. block.cut \in SUBSET Nat /\ \A k \in block.cut : j <= k
    BY <1>2, <1>7, <1>11 DEF Block, LinesOf
  <2> QED BY <2>1, <2>2, CodeStays
<1>12. ASSUME NEW j \in 1..Len(lines), j < next, lines[j] \in Shown PROVE Belongs(w, j)
  <2>0. j \in Nat /\ i \in Nat
    BY <1>2
  <2>1. CASE j < i
    <3>1. PICK b \in DOMAIN out :
              /\ j \in LinesOf(out[b]) /\ Whole(out[b], lines[j], j)
              /\ out[b].tag = "pre" <=> InCode(MarksOf(v), j)
      BY <1>1, <1>12, <2>1 DEF DocGood, Belongs
    <3>2. b \in DOMAIN more /\ more[b] = out[b]
      BY <1>4
    <3>3. InCode(MarksOf(w), j) <=> InCode(MarksOf(v), j)
      BY <1>10, <1>11, <2>0, <2>1
    <3> QED BY <1>5, <3>1, <3>2, <3>3, Zenon DEF Belongs
  <2>2. CASE i <= j
    <3>1. /\ j \in LinesOf(block) /\ Whole(block, lines[j], j)
          /\ block.tag = "pre" <=> InCode(marks, j)
      BY <1>12, <2>2
    <3>2. Len(out) + 1 \in DOMAIN more
      BY <1>4
    <3> QED BY <1>4, <1>5, <1>10, <3>1, <3>2, Zenon DEF Belongs
  <2> QED BY <2>0, <2>1, <2>2
<1> QED BY <1>5, <1>8, <1>9, <1>10, <1>12 DEF DocGood

\* No block, of lines that have nothing to show.
LEMMA Skips ==
    ASSUME NEW v, DocGood(v), NEW i, i = v.i, NEW lines, lines = v.lines,
           NEW next \in Nat, i <= next,
           \A j \in 1..Len(lines) : i <= j /\ j < next => lines[j] \notin Shown,
           next <= Len(lines) => ~InCode(MarksOf(v), next),
           NEW w, w = [v EXCEPT !.i = next]
    PROVE  DocGood(w)
<1>1. PICK out : out = v.out
  OBVIOUS
<1>2. v \in DocView /\ out \in Seq(Block) /\ i \in Nat \ {0} /\ lines \in Seq(LineKind)
  BY <1>1 DEF DocGood, DocView
<1>3. w \in DocView /\ w.out = out /\ w.i = next /\ w.lines = lines
  <2>1. next \in Nat \ {0}
    BY <1>2
  <2> QED BY <1>1, <1>2, <2>1 DEF DocView
<1>4. \A b \in DOMAIN out : \A x \in LinesOf(out[b]) : x < next
  <2>1. \A b \in DOMAIN out : \A x \in LinesOf(out[b]) : x \in Nat /\ x < i
    BY <1>1, <1>2, BlocksAre DEF DocGood
  <2> QED BY <1>2, <2>1
<1>5. MarksOf(w) = MarksOf(v)
  BY <1>1, <1>3 DEF MarksOf
<1>6. ASSUME NEW j \in 1..Len(lines), j < next, lines[j] \in Shown PROVE Belongs(w, j)
  <2>1. j < i
    BY <1>2, <1>6
  <2>2. Belongs(v, j)
    BY <1>6, <2>1 DEF DocGood
  <2> QED BY <1>1, <1>3, <1>5, <2>2 DEF Belongs
<1> QED BY <1>1, <1>3, <1>4, <1>5, <1>6 DEF DocGood

LEMMA DocOpens ==
    ASSUME env.doc \in Seq(LineKind)
    PROVE  DocGood(DocFirst)
<1>1. PICK v, doc : v = DocFirst /\ doc = env.doc
  OBVIOUS
<1>2. v \in DocView /\ v.out = <<>> /\ v.i = 1 /\ v.lines = doc
  BY <1>1 DEF DocFirst, DocView
<1>3. MarksOf(v) \in SUBSET Nat
  BY <1>1, <1>2 DEF MarksOf
<1>4. ~InCode(MarksOf(v), 1)
  BY <1>3, CodeIs
<1> QED BY <1>1, <1>2, <1>4 DEF DocGood

LEMMA DocKeeps ==
    ASSUME DocGood(view), RenderLine
    PROVE  DocGood(view')
<1>1. PICK v, w : v = view /\ w = view'
  OBVIOUS
<1>2. PICK i, lines, len, marks : i = v.i /\ lines = v.lines /\ len = Len(lines) /\ marks = MarksOf(v)
  OBVIOUS
<1>3. /\ DocGood(v) /\ i \in Nat \ {0} /\ lines \in Seq(LineKind) /\ len \in Nat /\ i <= len
      /\ ~InCode(marks, i) /\ lines[i] \in LineKind
  BY <1>1, <1>2 DEF DocGood, DocView, RenderLine
<1>m. marks \in SUBSET Nat /\ \A k \in i..len : k \in marks <=> lines[k] \in FenceLine
  BY <1>2, <1>3, MarksAre
\* What is no fence comes after as many fences as i.
<1>4. ASSUME NEW kept \in SUBSET marks, ~InCode(kept, i),
             NEW next \in Nat, i <= next, \A k \in i..(next - 1) : k \notin kept
      PROVE  \A j \in i..next : ~InCode(kept, j)
  <2> SUFFICES ASSUME NEW j \in i..next PROVE ~InCode(kept, j)
    OBVIOUS
  <2>1. j \in Nat /\ i <= j /\ \A k \in i..(j - 1) : k \notin kept
    BY <1>3, <1>4
  <2>2. kept \in SUBSET Nat
    BY <1>m
  <2> QED BY <1>3, <1>4, <2>1, <2>2, CodeIs
<1>5. CASE CodeBlock
  <2>1. PICK last : last = RunEnd(i + 1, LineKind \ FenceLine)
    OBVIOUS
  <2>2. /\ last \in i..len
        /\ \A j \in (i + 1)..last : lines[j] \notin FenceLine
        /\ last < len => lines[last + 1] \in FenceLine
    <3>1. /\ last \in ((i + 1) - 1)..Len(view.lines)
          /\ \A j \in (i + 1)..last : view.lines[j] \in LineKind \ FenceLine
          /\ last < Len(view.lines) => view.lines[last + 1] \notin LineKind \ FenceLine
      BY <1>1, <1>2, <1>3, <2>1, RunEnds, SMTT(30)
    <3>2. last < len => last + 1 \in 1..len
      BY <1>1, <1>2, <1>3, <3>1
    <3>3. last < len => lines[last + 1] \in LineKind
      BY <1>2, <1>3, <3>2
    <3> QED BY <1>1, <1>2, <1>3, <3>1, <3>3
  <2>3. PICK block : block = [tag |-> "pre", lines |-> (i + 1)..last, cut |-> {}]
    OBVIOUS
  <2>4. lines[i] \in FenceLine /\ w = [v EXCEPT !.out = Append(@, block), !.i = last + 2]
    <3>1. /\ view.lines[view.i] \in FenceLine
          /\ view' = [view EXCEPT !.out = Append(@, [tag |-> "pre",
                            lines |-> (view.i + 1)..RunEnd(view.i + 1, LineKind \ FenceLine), cut |-> {}]),
                                  !.i = RunEnd(view.i + 1, LineKind \ FenceLine) + 2]
      BY <1>5, Zenon DEF CodeBlock, Line, Emit, EmitCut
    <3> QED BY <1>1, <1>2, <2>1, <2>3, <3>1
  <2>f. i \in marks /\ (last < len => last + 1 \in marks) /\ \A k \in (i + 1)..last : k \notin marks
    BY <1>3, <1>m, <2>2, <2>4
  <2>5. ASSUME NEW j \in (i + 1)..(last + 1) PROVE InCode(marks, j)
    <3>1. InCode(marks, i + 1)
      BY <1>3, <1>m, <2>f, CodeIs
    <3>2. j \in Nat /\ i + 1 \in Nat \ {0} /\ i + 1 <= j /\ \A k \in (i + 1)..(j - 1) : k \notin marks
      BY <1>3, <2>2, <2>f
    <3> QED BY <1>m, <3>1, <3>2, CodeIs
  <2>6. last + 2 <= len => ~InCode(marks, last + 2)
    <3> SUFFICES ASSUME last + 2 <= len PROVE ~InCode(marks, last + 2)
      OBVIOUS
    <3>1. /\ last + 1 \in marks /\ last + 1 \in Nat \ {0} /\ last + 1 \in (i + 1)..(last + 1)
          /\ (last + 1) + 1 = last + 2
      BY <1>3, <2>2, <2>f
    <3>2. InCode(marks, last + 1)
      BY <2>5, <3>1
    <3> QED BY <1>m, <3>1, <3>2, CodeIs
  <2>7. /\ block \in Block /\ block.tag = "pre" /\ block.lines = (i + 1)..last
        /\ LinesOf(block) = (i + 1)..last /\ marks = MarksOf(v) \ block.cut
    <3>1. (i + 1)..last \in SUBSET Nat
      BY <1>3, <2>2
    <3>2. PICK where, cut : where = (i + 1)..last /\ cut = {}
      OBVIOUS
    <3>3. /\ "pre" \in Tag /\ where \in SUBSET Nat /\ cut \in SUBSET Nat
          /\ block = [tag |-> "pre", lines |-> where, cut |-> cut]
      BY <2>3, <3>1, <3>2 DEF Tag
    <3>4. /\ block \in Block /\ block.tag = "pre" /\ block.lines = where /\ block.cut = cut
          /\ LinesOf(block) = where \cup cut
      BY <3>3, BlockIs
    <3> QED BY <1>2, <3>2, <3>4
  <2>8. \A x \in LinesOf(block) : i <= x /\ x < last + 2
    BY <1>3, <2>2, <2>7
  <2>9. ASSUME NEW j \in 1..len, i <= j, j < last + 2, lines[j] \in Shown
        PROVE  j \in block.lines /\ InCode(marks, j)
    <3>1. lines[j] \notin FenceLine
      BY <2>9 DEF Shown
    <3>2. j # i /\ j # last + 1
      BY <1>3, <2>2, <2>4, <2>9, <3>1
    <3>3. j \in (i + 1)..last
      BY <1>3, <2>2, <2>9, <3>2
    <3>4. j \in (i + 1)..(last + 1)
      BY <1>3, <2>2, <3>3
    <3>5. InCode(marks, j)
      BY <2>5, <3>4, Zenon
    <3> QED BY <2>7, <3>3, <3>5, Zenon
  <2>10. last + 2 \in Nat /\ i <= last + 2
    BY <1>3, <2>2
  <2>11. /\ \A j \in 1..Len(lines) : i <= j /\ j < last + 2 /\ lines[j] \in Shown =>
                /\ j \in LinesOf(block) /\ Whole(block, lines[j], j)
                /\ block.tag = "pre" <=> InCode(marks, j)
         /\ last + 2 <= Len(lines) => ~InCode(marks, last + 2)
    BY <1>2, <2>6, <2>7, <2>9, Zenon DEF Whole
  <2>12. DocGood(w)
    BY <1>2, <1>3, <2>4, <2>7, <2>8, <2>10, <2>11, Emits, Zenon
  <2> QED BY <1>1, <2>12
<1>6. CASE Table
  <2>1. PICK last : last = RunEnd(i, HasBar)
    OBVIOUS
  <2>2. last \in (i - 1)..len /\ \A j \in i..last : lines[j] \in HasBar
    BY <1>1, <1>2, <1>3, <2>1, RunEnds
  <2>3. PICK rows, cut : /\ rows = {j \in i..last : lines[j] = "row"}
                         /\ cut = {j \in i..last : lines[j] \in Barred}
    OBVIOUS
  <2>c. cut \in SUBSET Nat /\ rows \in SUBSET Nat /\ \A x \in rows \cup cut : i <= x /\ x < last + 1
    BY <1>3, <2>2, <2>3
  <2>k. PICK kept : kept = marks \ cut
    OBVIOUS
  <2>4. last + 1 \in Nat /\ i <= last + 1 /\ \A j \in i..(last + 1) : ~InCode(kept, j)
    <3>1. last + 1 \in Nat /\ i <= last + 1
      BY <1>3, <2>2
    <3>2. ASSUME NEW k \in i..last, k \in kept PROVE FALSE
      <4>1. lines[k] \in FenceLine /\ lines[k] \in HasBar /\ k \notin cut
        BY <1>3, <1>m, <2>2, <2>k, <3>2
      <4>2. lines[k] = "fence|"
        BY <4>1 DEF FenceLine, HasBar, Barred
      <4> QED BY <2>3, <3>2, <4>1, <4>2 DEF Barred
    <3>3. ~InCode(kept, i)
      BY <1>3, <1>m, <2>c, <2>k, CodeStays
    <3>4. kept \in SUBSET marks /\ \A k \in i..((last + 1) - 1) : k \notin kept
      BY <1>3, <2>2, <2>k, <3>2
    <3> QED BY <1>4, <3>1, <3>3, <3>4
  <2>5. PICK block : block = [tag |-> "table", lines |-> rows, cut |-> cut]
    OBVIOUS
  <2>6. \/ w = [v EXCEPT !.out = Append(@, block), !.i = last + 1]
        \/ rows \cup cut = {} /\ w = [v EXCEPT !.i = last + 1]
    <3> DEFINE end == RunEnd(view.i, HasBar)
               found == {j \in view.i..end : view.lines[j] = "row"}
               lost == {j \in view.i..end : view.lines[j] \in Barred}
    <3>1. \/ view' = [view EXCEPT !.out = Append(@, [tag |-> "table", lines |-> found, cut |-> lost]),
                                  !.i = end + 1]
          \/ found \cup lost = {} /\ view' = [view EXCEPT !.i = end + 1]
      BY <1>6, Zenon DEF Table, EmitCut, Skip
    <3>2. end = last /\ found = rows /\ lost = cut
      BY <1>1, <1>2, <2>1, <2>3
    <3> HIDE DEF end, found, lost
    <3> QED BY <1>1, <2>5, <3>1, <3>2
  <2>7. /\ block \in Block /\ block.tag = "table" /\ block.lines = rows /\ block.cut = cut
        /\ LinesOf(block) = rows \cup cut
    BY <2>5, <2>c, BlockIs DEF Tag
  <2>8. ASSUME NEW j \in 1..len, i <= j, j < last + 1, lines[j] \in Shown
        PROVE  /\ j \in LinesOf(block) /\ Whole(block, lines[j], j)
               /\ ~InCode(kept, j) /\ j \in rows \cup cut
    <3>1. j \in i..last /\ j \in i..(last + 1)
      BY <1>3, <2>2, <2>8
    <3>2. lines[j] = "row" \/ lines[j] \in Barred
      BY <2>2, <2>8, <3>1 DEF HasBar, Shown
    <3>3. (lines[j] = "row" /\ j \in rows) \/ (lines[j] \in Barred /\ j \in cut)
      BY <2>3, <3>1, <3>2
    <3> QED BY <2>4, <2>7, <3>1, <3>3 DEF Whole
  <2>9. ~InCode(kept, last + 1)
    BY <1>3, <2>2, <2>4
  <2>10. CASE w = [v EXCEPT !.out = Append(@, block), !.i = last + 1]
    <3>1. /\ \A j \in 1..Len(lines) : i <= j /\ j < last + 1 /\ lines[j] \in Shown =>
                /\ j \in LinesOf(block) /\ Whole(block, lines[j], j)
                /\ block.tag = "pre" <=> InCode(kept, j)
          /\ \A x \in LinesOf(block) : i <= x /\ x < last + 1
          /\ kept = MarksOf(v) \ block.cut
      BY <1>2, <2>c, <2>k, <2>7, <2>8
    <3>2. DocGood(w)
      BY <1>2, <1>3, <2>4, <2>7, <2>9, <2>10, <3>1, Emits, Zenon
    <3> QED BY <1>1, <3>2
  <2>11. CASE rows \cup cut = {} /\ w = [v EXCEPT !.i = last + 1]
    <3>1. \A j \in 1..Len(lines) : i <= j /\ j < last + 1 => lines[j] \notin Shown
      BY <1>2, <2>8, <2>11
    <3>2. kept = MarksOf(v)
      BY <1>2, <2>k, <2>11
    <3>3. DocGood(w)
      BY <1>2, <1>3, <2>4, <2>9, <2>11, <3>1, <3>2, Skips, Zenon
    <3> QED BY <1>1, <3>3
  <2> QED BY <2>6, <2>10, <2>11
\* The lines up to last are a block that is no code.
<1>7. ASSUME NEW tag \in Tag, tag # "pre", NEW last \in i..len,
             \A j \in i..last : lines[j] \notin FenceLine,
             Emit(tag, i..last, last + 1)
      PROVE  DocGood(w)
  <2>1. PICK block : block = [tag |-> tag, lines |-> i..last, cut |-> {}]
    OBVIOUS
  <2>2. w = [v EXCEPT !.out = Append(@, block), !.i = last + 1]
    BY <1>1, <1>7, <2>1 DEF Emit, EmitCut
  <2>3. last + 1 \in Nat /\ i <= last + 1 /\ \A j \in i..(last + 1) : ~InCode(marks, j)
    <3>1. last + 1 \in Nat /\ i <= last + 1 /\ \A k \in i..((last + 1) - 1) : k \notin marks
      BY <1>3, <1>m, <1>7
    <3> QED BY <1>3, <1>4, <3>1
  <2>4. /\ block \in Block /\ block.tag # "pre" /\ block.lines = i..last /\ LinesOf(block) = i..last
        /\ marks = MarksOf(v) \ block.cut
    <3>1. i..last \in SUBSET Nat
      BY <1>3
    <3>2. PICK where, cut : where = i..last /\ cut = {}
      OBVIOUS
    <3>3. /\ where \in SUBSET Nat /\ cut \in SUBSET Nat
          /\ block = [tag |-> tag, lines |-> where, cut |-> cut]
      BY <2>1, <3>1, <3>2
    <3>4. /\ block \in Block /\ block.tag = tag /\ block.lines = where /\ block.cut = cut
          /\ LinesOf(block) = where \cup cut
      BY <1>7, <3>3, BlockIs
    <3> QED BY <1>2, <1>7, <3>2, <3>4
  <2>5. \A x \in LinesOf(block) : i <= x /\ x < last + 1
    BY <1>3, <2>4
  <2>6. ASSUME NEW j \in 1..len, i <= j, j < last + 1 PROVE j \in block.lines /\ ~InCode(marks, j)
    <3>1. j \in i..last /\ j \in i..(last + 1)
      BY <1>3, <1>7, <2>6
    <3> QED BY <2>3, <2>4, <3>1, Zenon
  <2>7. /\ \A j \in 1..Len(lines) : i <= j /\ j < last + 1 /\ lines[j] \in Shown =>
                /\ j \in LinesOf(block) /\ Whole(block, lines[j], j)
                /\ block.tag = "pre" <=> InCode(marks, j)
        /\ last + 1 <= Len(lines) => ~InCode(marks, last + 1)
    <3>1. ~InCode(marks, last + 1)
      BY <1>3, <2>3
    <3> QED BY <1>2, <2>4, <2>6, <3>1, Zenon DEF Whole
  <2> QED BY <1>2, <1>3, <2>2, <2>3, <2>4, <2>5, <2>7, Emits, Zenon
<1>8. ASSUME NEW tag \in Tag, tag # "pre", lines[i] \notin FenceLine, OneLine(tag) PROVE DocGood(w)
  <2>1. {i} = i..i /\ i \in i..len /\ \A j \in i..i : lines[j] \notin FenceLine
    BY <1>3, <1>8
  <2>2. Emit(tag, i..i, i + 1)
    BY <1>1, <1>2, <1>8, <2>1 DEF OneLine, Emit, EmitCut
  <2> QED BY <1>7, <1>8, <2>1, <2>2
<1>9. ASSUME NEW tag \in Tag, tag # "pre", NEW kinds, kinds \cap FenceLine = {}, lines[i] \in kinds,
             Several(tag, kinds)
      PROVE  DocGood(w)
  <2>1. PICK last : last = RunEnd(i, kinds)
    OBVIOUS
  <2>2. /\ last \in (i - 1)..len /\ \A j \in i..last : lines[j] \in kinds
        /\ last < len => lines[last + 1] \notin kinds
    BY <1>1, <1>2, <1>3, <2>1, RunEnds
  <2>3. last \in i..len /\ \A j \in i..last : lines[j] \notin FenceLine
    BY <1>3, <1>9, <2>2
  <2>4. Emit(tag, i..last, last + 1)
    BY <1>1, <1>2, <1>9, <2>1 DEF Several, Emit, EmitCut
  <2> QED BY <1>7, <1>9, <2>3, <2>4
<1>10. ASSUME lines[i] \in {"space", "empty"}, Skip(i + 1) PROVE DocGood(w)
  <2>1. w = [v EXCEPT !.i = i + 1]
    BY <1>1, <1>10 DEF Skip
  <2>2. \A j \in 1..len : i <= j /\ j < i + 1 => lines[j] \notin Shown
    BY <1>3, <1>10 DEF Shown
  <2>3. i + 1 \in Nat /\ i <= i + 1 /\ ~InCode(marks, i + 1)
    <3>1. i + 1 \in Nat /\ i <= i + 1 /\ \A k \in i..((i + 1) - 1) : k \notin marks
      BY <1>3, <1>m, <1>10 DEF FenceLine
    <3>2. \A j \in i..(i + 1) : ~InCode(marks, j)
      BY <1>3, <1>4, <3>1
    <3> QED BY <1>3, <3>1, <3>2
  <2> QED BY <1>2, <1>3, <2>1, <2>2, <2>3, Skips, Zenon
<1>11. \/ CodeBlock \/ Table
       \/ lines[i] \notin FenceLine /\ \E tag \in {"hr", "h", "p"} : OneLine(tag)
       \/ lines[i] \in QuoteLine /\ Several("blockquote", QuoteLine)
       \/ lines[i] \in ItemLine /\ Several("ul", ItemLine)
       \/ lines[i] \in {"space", "empty"} /\ Skip(i + 1)
  <2>1. /\ Line = lines[i]
        /\ Skip(view.i + 1) => Skip(i + 1)
    BY <1>1, <1>2 DEF Line, Skip
  <2>2. \/ CodeBlock \/ Table
        \/ Line = "rule" /\ OneLine("hr")
        \/ Line \in HeadLine /\ OneLine("h")
        \/ Line \in QuoteLine /\ Several("blockquote", QuoteLine)
        \/ Line \in ItemLine /\ Several("ul", ItemLine)
        \/ Line \in {"text", "text|", "marks", "row", "bars"} /\ OneLine("p")
        \/ Line \in {"space", "empty"} /\ Skip(view.i + 1)
    BY Zenon DEF RenderLine
  <2>4. /\ Line = "rule" => lines[i] \notin FenceLine
        /\ Line \in HeadLine => lines[i] \notin FenceLine
        /\ Line \in {"text", "text|", "marks", "row", "bars"} => lines[i] \notin FenceLine
    BY <2>1 DEF FenceLine, HeadLine
  <2>5. "hr" \in {"hr", "h", "p"} /\ "h" \in {"hr", "h", "p"} /\ "p" \in {"hr", "h", "p"}
    OBVIOUS
  <2> QED BY <2>1, <2>2, <2>4, <2>5, Zenon
<1>12. /\ {"hr", "h", "p", "blockquote", "ul"} \subseteq Tag \ {"pre"}
       /\ QuoteLine \cap FenceLine = {} /\ ItemLine \cap FenceLine = {}
  BY DEF Tag, QuoteLine, ItemLine, FenceLine
<1> QED BY <1>1, <1>5, <1>6, <1>8, <1>9, <1>10, <1>11, <1>12

LEMMA DocKept ==
    ASSUME Frame, DocInv, [Next]_vars
    PROVE  DocInv'
<1>1. env' = env
  BY PageSteps
<1> SUFFICES ASSUME At("doc")' PROVE DocGood(view')
  BY <1>1 DEF DocInv
<1>2. \/ Unmoved \/ Mounted \/ Wired
      \/ RenderLine /\ At("doc")
  BY PageSteps DEF At, OnLogin, Frame, Tick, Timed
<1>3. CASE Unmoved \/ Wired
  BY <1>3 DEF Unmoved, Wired, DocInv, At
<1>4. CASE Mounted
  <2>1. view' = DocFirst
    BY <1>4, PagesAre DEF Mounted, At
  <2> QED BY <2>1, DocOpens DEF DocInv
<1>5. CASE RenderLine /\ At("doc")
  BY <1>5, DocKeeps DEF DocInv
<1> QED BY <1>2, <1>3, <1>4, <1>5

LEMMA DocAlways == Spec => []DocInv
<1>1. Init => Frame /\ DocInv
  <2> SUFFICES ASSUME Init PROVE Frame /\ DocInv
    OBVIOUS
  <2>1. env.doc \in Seq(LineKind)
    BY StartsAssumption DEF Init
  <2>2. Frame /\ view = First(view.page)
    BY InitFrame
  <2>3. At("doc") => view = DocFirst
    BY <2>2, PagesAre DEF At
  <2> QED BY <2>1, <2>2, <2>3, DocOpens DEF DocInv
<1>2. Frame /\ DocInv /\ [Next]_vars => (Frame /\ DocInv)'
  BY PageSteps, DocKept
<1> QED BY <1>1, <1>2, PTL DEF Spec, Safe

\* LinesOnce: of every document, however long, every line that has something to show
\* is in one block only, in the order of the document, whole unless a table has cut it,
\* and in code if and only if the fences before it that no table has taken are odd
\* (renderMarkdown's nested loops and their counter).
THEOREM LinesShownOnce == Spec => []LinesOnce
<1>1. DocInv => LinesOnce
  <2> SUFFICES ASSUME At("doc"), DocGood(view) PROVE LinesOnce
    BY DEF DocInv, LinesOnce
  <2>1. DOMAIN view.out \subseteq Nat
    BY BlocksAre DEF DocGood, DocView
  <2>2. \A a, b \in DOMAIN view.out : a < b =>
            \A x \in LinesOf(view.out[a]), y \in LinesOf(view.out[b]) : x < y
    BY DEF DocGood
  <2>3. ASSUME NEW j \in 1..Len(view.lines), j < view.i, view.lines[j] \in Shown
        PROVE  \E b \in DOMAIN view.out :
                    /\ j \in LinesOf(view.out[b])
                    /\ \A c \in DOMAIN view.out : j \in LinesOf(view.out[c]) => c = b
                    /\ j \in view.out[b].lines \/ (view.lines[j] \in Barred /\ view.out[b].tag = "table")
                    /\ view.out[b].tag = "pre" <=> FencesBefore(j) % 2 = 1
    <3>1. PICK b \in DOMAIN view.out :
              /\ j \in LinesOf(view.out[b]) /\ Whole(view.out[b], view.lines[j], j)
              /\ view.out[b].tag = "pre" <=> InCode(MarksOf(view), j)
      BY <2>3 DEF DocGood, Belongs
    <3>2. ASSUME NEW c \in DOMAIN view.out, j \in LinesOf(view.out[c]), c # b PROVE FALSE
      <4>1. b \in Nat /\ c \in Nat /\ (b < c \/ c < b)
        BY <2>1, <3>1, <3>2
      <4>2. j < j
        BY <2>2, <3>1, <3>2, <4>1
      <4> QED BY <4>2
    <3>3. InCode(MarksOf(view), j) <=> FencesBefore(j) % 2 = 1
      BY DEF InCode, Fences, MarksOf, FencesBefore, FenceMarks
    <3> QED BY <3>1, <3>2, <3>3, Zenon DEF Whole
  <2> QED BY <2>2, <2>3 DEF LinesOnce
<1> QED BY <1>1, DocAlways, PTL

-----------------------------------------------------------------------------
\* The stores: their proxies are a list without repetitions.
StoreFields == {"events", "jobs", "settings", "tokens", "issued", "proxies", "submitted"}
StoreGood(store) ==
    /\ StoreFields \subseteq DOMAIN store
    /\ store.proxies \in Seq(Proxy) /\ IsInjective(store.proxies)
    /\ store.submitted \in BOOLEAN

LEMMA AfterIs ==
    ASSUME NEW store, StoreGood(store), NEW req
    PROVE  /\ StoreGood(After(req, store))
           /\ req.op = "delete" =>
                /\ ToSet(After(req, store).proxies) = ToSet(store.proxies) \ {req.proxy}
                /\ After(req, store).submitted = store.submitted
           /\ req.op = "import" =>
                /\ ToSet(After(req, store).proxies) = Brought(req) \cup ToSet(store.proxies)
                /\ After(req, store).submitted
           /\ req.op \notin {"delete", "import"} =>
                /\ After(req, store).proxies = store.proxies
                /\ After(req, store).submitted = store.submitted
<1> DEFINE new == After(req, store)
<1>1. CASE req.op = "delete"
  <2>1. PICK list : list = Without(store.proxies, req.proxy)
    OBVIOUS
  <2>2. new = [store EXCEPT !.proxies = list]
    BY <1>1, <2>1 DEF After
  <2>3. /\ list \in Seq(Proxy) /\ ToSet(list) = ToSet(store.proxies) \ {req.proxy} /\ IsInjective(list)
    BY <2>1, WithoutIs DEF StoreGood
  <2>4. DOMAIN new = DOMAIN store /\ new.proxies = list /\ new.submitted = store.submitted
    BY <2>2 DEF StoreGood, StoreFields
  <2> QED BY <1>1, <2>3, <2>4 DEF StoreGood
<1>2. CASE req.op = "import"
  <2>1. PICK list : list = WithImported(req, store.proxies)
    OBVIOUS
  <2>2. new = [store EXCEPT !.proxies = list, !.submitted = TRUE]
    BY <1>2, <2>1 DEF After
  <2>3. /\ list \in Seq(Proxy) /\ ToSet(list) = Brought(req) \cup ToSet(store.proxies) /\ IsInjective(list)
    BY <2>1, WithImportedIs DEF StoreGood
  <2>4. DOMAIN new = DOMAIN store /\ new.proxies = list /\ new.submitted = TRUE
    BY <2>2 DEF StoreGood, StoreFields
  <2> QED BY <1>2, <2>3, <2>4 DEF StoreGood
<1>3. CASE req.op \notin {"delete", "import"}
  <2>1. new = store \/ new = [store EXCEPT !.settings = req.value]
    BY <1>3 DEF After
  <2> QED BY <1>3, <2>1 DEF StoreGood, StoreFields
<1> QED BY <1>1, <1>2, <1>3

StoresInv == StoreGood(srv) /\ StoreGood(mock)

\* A call that is not of the session is refused or answered from the server's store.
LEMMA ServeDoes ==
    ASSUME Frame, NEW s \in Slot, Serve(s), calls[s].req.op \notin Open
    PROVE  /\ calls[s].phase = "sent" /\ mock' = mock /\ strays' = strays
           /\ \/ srv' = srv /\ calls'[s].reply.status # 200
              \/ /\ srv' = After(calls[s].req, srv) /\ calls'[s].reply = Answer(calls[s].req, srv, "srv")
                 /\ calls[s].req.op \notin env.missing /\ Admitted(calls[s])
<1>1. /\ calls[s].phase = "sent" /\ mock' = mock /\ strays' = strays
      /\ \E r : /\ calls' = [calls EXCEPT ![s].phase = "replied", ![s].reply = r]
                /\ \/ srv' = srv /\ (r = [status |-> 401] \/ r = [status |-> 404])
                   \/ /\ srv' = After(calls[s].req, srv) /\ r = Answer(calls[s].req, srv, "srv")
                      /\ calls[s].req.op \notin env.missing /\ Admitted(calls[s])
  BY ZenonT(60) DEF Serve, Open
<1>2. PICK r : /\ calls' = [calls EXCEPT ![s].phase = "replied", ![s].reply = r]
               /\ \/ srv' = srv /\ (r = [status |-> 401] \/ r = [status |-> 404])
                  \/ /\ srv' = After(calls[s].req, srv) /\ r = Answer(calls[s].req, srv, "srv")
                     /\ calls[s].req.op \notin env.missing /\ Admitted(calls[s])
  BY <1>1
<1>3. calls'[s].reply = r
  <2> DEFINE mid == [calls EXCEPT ![s].phase = "replied"]
  <2>1. DOMAIN mid = Slot /\ IsCall(mid[s])
    BY DEF Frame, CallsWhole, IsCall
  <2>2. calls' = [mid EXCEPT ![s].reply = r]
    BY <1>2
  <2> HIDE DEF mid
  <2> QED BY <2>1, <2>2 DEF IsCall
<1> QED BY <1>1, <1>2, <1>3

\* How the server's store changes: by what a call asks for, by a proxy that comes or
\* goes, or not in its proxies.
SameProxies(old, new) == new.proxies = old.proxies /\ new.submitted = old.submitted
SrvStep ==
    \/ SameProxies(srv, srv') /\ StoreGood(srv')
    \/ \E s \in Slot : Serve(s) /\ calls[s].req.op \notin Open /\ srv' = After(calls[s].req, srv)
    \/ \E c \in strays : ServeStray(c) /\ srv' = After(c.req, srv)
    \/ PoolMoves

LEMMA SrvSteps == ASSUME StoresInv, [Next]_vars PROVE SrvStep
<1> DEFINE Same == SameProxies(srv, srv') /\ StoreGood(srv')
<1>0. StoresStep
  BY StoresSteps
<1>1. CASE srv' = srv
  BY <1>1 DEF StoresInv, SameProxies, SrvStep
<1>2. ASSUME NEW tokens, NEW issued,
             \/ srv' = [srv EXCEPT !.tokens = tokens, !.issued = issued]
             \/ srv' = [srv EXCEPT !.tokens = tokens]
      PROVE  Same
  BY <1>2 DEF StoresInv, StoreGood, StoreFields, SameProxies
<1>3. ASSUME NEW s \in Slot, Serve(s) PROVE SrvStep
  <2>1. \/ srv' = srv
        \/ \E token : srv' = [srv EXCEPT !.tokens = @ \cup {token}, !.issued = @ \cup {token}]
        \/ srv' = [srv EXCEPT !.tokens = @ \ {calls[s].cookie}]
        \/ calls[s].req.op \notin Open /\ srv' = After(calls[s].req, srv)
    BY <1>3, ZenonT(60) DEF Serve
  <2>2. ASSUME NEW token, srv' = [srv EXCEPT !.tokens = @ \cup {token}, !.issued = @ \cup {token}]
        PROVE  \E tokens, issued : srv' = [srv EXCEPT !.tokens = tokens, !.issued = issued]
    BY <2>2
  <2> QED BY <1>1, <1>2, <1>3, <2>1, <2>2 DEF SrvStep
<1>4. ASSUME NEW c \in strays, ServeStray(c) PROVE SrvStep
  <2>1. \/ srv' = srv \/ srv' = [srv EXCEPT !.tokens = @ \ {c.cookie}]
        \/ srv' = After(c.req, srv)
    BY <1>4 DEF ServeStray
  <2> QED BY <1>1, <1>2, <1>4, <2>1 DEF SrvStep
<1>5. CASE LogMoves
  <2>0. PICK field, log :
          /\ field \in {"events", "jobs"} /\ log = srv[field] /\ log # <<>>
          /\ \/ srv' = [srv EXCEPT ![field] = <<log[1]>> \o log]
             \/ srv' = [srv EXCEPT ![field] = Front(log)]
             \/ srv' = [srv EXCEPT ![field] = <<>>]
    BY <1>5 DEF LogMoves, World
  <2>1. PICK new : srv' = [srv EXCEPT ![field] = new]
    <3>1. \A x : srv' = [srv EXCEPT ![field] = x] => \E new : srv' = [srv EXCEPT ![field] = new]
      OBVIOUS
    <3> QED BY <2>0, <3>1
  <2>2. /\ DOMAIN srv' = DOMAIN srv /\ srv'.proxies = srv.proxies
        /\ srv'.submitted = srv.submitted
    BY <2>0, <2>1 DEF StoresInv, StoreGood, StoreFields
  <2> QED BY <2>2 DEF StoresInv, StoreGood, SameProxies, SrvStep
<1>6. CASE SessionEnds
  <2>1. srv' = [srv EXCEPT !.tokens = {}]
    BY <1>6 DEF SessionEnds
  <2> QED BY <1>2, <2>1 DEF SrvStep
<1> QED BY <1>0, <1>1, <1>3, <1>4, <1>5, <1>6 DEF StoresStep, SrvStep

\* How the mock store changes: by what is asked of it, or it starts again.
LEMMA MockSteps ==
    ASSUME [Next]_vars
    PROVE  \/ mock' = mock \/ mock' = MockStore \/ \E req : mock' = After(req, mock)
<1>1. \A s \in Slot : FallBack(s) => mock' = mock \/ mock' = After(calls[s].req, mock)
  BY DEF FallBack
<1>2. \A req : mock' = MockAfter(req) => mock' = mock \/ mock' = After(req, mock)
  BY DEF MockAfter
<1> QED BY <1>1, <1>2, StoresSteps DEF StoresStep

LEMMA PoolMovesIs ==
    ASSUME StoresInv, PoolMoves
    PROVE  /\ StoreGood(srv') /\ mock' = mock /\ calls' = calls /\ strays' = strays /\ Live
           /\ srv'.submitted = srv.submitted
           /\ \E p \in Proxy :
                \/ ToSet(srv'.proxies) = ToSet(srv.proxies) \ {p} /\ view' = view
                \/ /\ ToSet(srv'.proxies) = ToSet(srv.proxies) \cup {p}
                   /\ p \notin ToSet(srv.proxies) /\ p \in view.gone /\ view' = [view EXCEPT !.gone = @ \ {p}]
<1>1. PICK p, list :
        /\ p \in Proxy
        /\ World([srv EXCEPT !.proxies = list])
        /\ \/ list = Without(srv.proxies, p) /\ view' = view
           \/ /\ list = Append(srv.proxies, p) /\ p \notin ToSet(srv.proxies) /\ p \in view.gone
              /\ view' = [view EXCEPT !.gone = @ \ {p}]
  BY DEF PoolMoves
<1>2. /\ srv' = [srv EXCEPT !.proxies = list]
      /\ mock' = mock /\ calls' = calls /\ strays' = strays /\ Live
  BY <1>1 DEF World
<1>3. PICK old : old = srv.proxies /\ old \in Seq(Proxy) /\ IsInjective(old)
  BY DEF StoresInv, StoreGood
<1>4. CASE list = Without(old, p) /\ view' = view
  <2>1. list \in Seq(Proxy) /\ ToSet(list) = ToSet(old) \ {p} /\ IsInjective(list)
    BY <1>3, <1>4, WithoutIs
  <2> QED BY <1>1, <1>2, <1>3, <1>4, <2>1 DEF StoresInv, StoreGood, StoreFields
<1>5. CASE list = Append(old, p) /\ p \notin ToSet(old) /\ p \in view.gone /\ view' = [view EXCEPT !.gone = @ \ {p}]
  <2>1. /\ list \in Seq(Proxy) /\ DOMAIN list = 1..(Len(old) + 1) /\ Len(old) \in Nat
        /\ list[Len(old) + 1] = p /\ DOMAIN old = 1..Len(old)
        /\ \A i \in 1..Len(old) : list[i] = old[i]
    BY <1>1, <1>3, <1>5
  <2>2. ToSet(list) = ToSet(old) \cup {p}
    <3>1. \A i \in 1..(Len(old) + 1) : i \in 1..Len(old) \/ i = Len(old) + 1
      BY <2>1
    <3>2. 1..Len(old) \subseteq 1..(Len(old) + 1) /\ Len(old) + 1 \in 1..(Len(old) + 1)
      BY <2>1
    <3> QED BY <2>1, <3>1, <3>2 DEF ToSet
  <2>3. IsInjective(list)
    <3>1. \A i \in 1..(Len(old) + 1) : i \in 1..Len(old) \/ i = Len(old) + 1
      BY <2>1
    <3>2. \A i \in 1..Len(old) : list[i] # p
      BY <1>5, <2>1 DEF ToSet
    <3> QED BY <1>3, <2>1, <3>1, <3>2 DEF IsInjective
  <2> QED BY <1>1, <1>2, <1>3, <1>5, <2>1, <2>2, <2>3 DEF StoresInv, StoreGood, StoreFields
<1> QED BY <1>1, <1>3, <1>4, <1>5

LEMMA StoresKept ==
    ASSUME StoresInv, [Next]_vars
    PROVE  StoresInv'
<1>1. StoreGood(srv')
  BY SrvSteps, AfterIs, PoolMovesIs DEF SrvStep, StoresInv
<1>2. StoreGood(MockStore)
  BY StartsAssumption DEF StoreGood, StoreFields
<1>3. StoreGood(mock')
  BY <1>2, MockSteps, AfterIs DEF StoresInv
<1> QED BY <1>1, <1>3 DEF StoresInv

LEMMA StoresOpen == Init => StoresInv
BY StartsAssumption DEF Init, StoresInv, StoreGood, StoreFields

-----------------------------------------------------------------------------
\* What the page's client has to answer from, and what an import that was given up on
\* may still bring.
Held == ToSet(IF Live THEN srv.proxies ELSE mock.proxies)
Coming == UNION {Brought(c.req) : c \in Imports(strays)}

\* A list on its way has none of the gone proxies.
ListClear(c, gone, live) ==
    c.phase # "free" /\ c.req.op = "list" =>
        /\ c.req.page \in Nat \ {0} /\ (c.phase = "sent" => live)
        /\ Answered(c) /\ c.reply.status = 200 => ToSet(c.reply.items) \cap gone = {}

\* A gone proxy is neither in the store nor on its way there.
GoneBase(v, held, coming) ==
    /\ Null \notin v.gone /\ v.number \in Nat \ {0}
    /\ v.gone \cap (held \cup coming) = {}

\* The delete of the dialog: its proxy is not in the store once it is answered, unless
\* an import may have brought it back.
Deleting(v, w, held, coming, live) ==
    w.phase # "free" /\ w.req.op = "delete" =>
        /\ v.closure.target # Null /\ w.req.proxy = v.closure.target
        /\ w.phase = "sent" => live
        /\ v.closure.target \in coming => v.closure.target \in v.closure.back
        /\ Answered(w) /\ w.reply.status = 200 /\ w.reply.deleted =>
              v.closure.target \in v.closure.back \/ v.closure.target \notin held \cup v.gone

\* The table and the lists under way, and the drawer.
TablesClear(v, c, w, live) ==
    /\ ~v.loading /\ ~v.error /\ v.data # NoReply /\ ~(w.phase # "free" /\ w.req.op = "list") =>
            ToSet(v.data.items) \cap v.gone = {}
    /\ ListClear(c, v.gone, live) /\ ListClear(w, v.gone, live)
Drawn(v) ==
    /\ v.target # Null => ~v.drawer.open
    /\ v.drawer.open => v.drawer.opened \notin v.gone

GoneGood(v, c, w, held, coming, live) ==
    ~v.dismissed =>
        /\ GoneBase(v, held, coming) /\ Deleting(v, w, held, coming, live)
        /\ TablesClear(v, c, w, live) /\ Drawn(v)
GoneNow == GoneGood(view, calls["read"], calls["write"], Held, Coming, Live)
GoneInv == At("proxies") => GoneNow

\* Less in the store and less on its way there.
LEMMA GoneLess ==
    ASSUME NEW v, NEW c, NEW w, NEW held, NEW coming, NEW live,
           GoneGood(v, c, w, held, coming, live),
           NEW held2 \in SUBSET held, NEW coming2 \in SUBSET coming
    PROVE  GoneGood(v, c, w, held2, coming2, live)
BY DEF GoneGood, GoneBase, Deleting, TablesClear, Drawn

\* Another view with the same in what matters.
GoneAlike(v, n) ==
    /\ n.gone = v.gone /\ n.number = v.number /\ n.closure = v.closure
    /\ n.loading = v.loading /\ n.data = v.data /\ n.target = v.target
    /\ n.dismissed = v.dismissed
    /\ n.drawer.open = v.drawer.open /\ n.drawer.opened = v.drawer.opened
    /\ (n.error = v.error \/ n.error)

LEMMA GoneStays ==
    ASSUME NEW v, NEW n, GoneAlike(v, n), NEW c, NEW w, NEW held, NEW coming, NEW live,
           GoneGood(v, c, w, held, coming, live)
    PROVE  GoneGood(n, c, w, held, coming, live)
BY DEF GoneAlike, GoneGood, GoneBase, Deleting, TablesClear, Drawn

LEMMA FreeClear ==
    /\ \A gone, live : ListClear(Free, gone, live)
    /\ \A v, held, coming, live : Deleting(v, Free, held, coming, live)
BY DEF ListClear, Deleting, Free

\* A list that is asked for now.
LEMMA CallingClear ==
    ASSUME StoresInv, NEW v, v.number \in Nat \ {0}, NEW gone, gone \cap Held = {}
    PROVE  ListClear(Calling(ListReq(v)), gone, Live)
<1>1. PICK req, c : req = ListReq(v) /\ c = Calling(req)
  OBVIOUS
<1>2. req.op = "list" /\ req.page \in Nat \ {0}
  BY <1>1, ListReqIs
<1>3. CASE Live
  <2>1. c.phase = "sent" /\ c.req = req
    BY <1>1, <1>3, FetchingIs DEF Calling
  <2> QED BY <1>1, <1>2, <1>3, <2>1 DEF ListClear, Answered
<1>4. CASE ~Live
  <2>1. PICK a : a = Answer(req, mock, "mock")
    OBVIOUS
  <2>2. c.phase = "delayed" /\ c.req = req /\ c.reply = a
    BY <1>1, <1>4, <2>1 DEF Calling, Delayed
  <2>3. ToSet(a.items) \subseteq ToSet(mock.proxies)
    BY <1>2, <2>1, ListAnswers DEF StoresInv, StoreGood
  <2>4. ToSet(a.items) \cap gone = {}
    BY <1>4, <2>3 DEF Held
  <2> QED BY <1>1, <1>2, <2>2, <2>4 DEF ListClear
<1> QED BY <1>3, <1>4

LEMMA GoneOpens ==
    ASSUME StoresInv, NEW coming
    PROVE  GoneGood(ProxiesFirst, Calling(ListReq(ProxiesFirst)), Free, Held, coming, Live)
<1>1. PICK v : v = ProxiesFirst
  OBVIOUS
<1>2. /\ v.gone = {} /\ v.number = 1 /\ v.loading = TRUE /\ v.target = Null /\ ~v.drawer.open
      /\ v.dismissed = FALSE
  BY <1>1 DEF ProxiesFirst, NoDrawer
<1>3. ListClear(Calling(ListReq(v)), v.gone, Live)
  BY <1>2, CallingClear
<1> QED BY <1>1, <1>2, <1>3, FreeClear DEF GoneGood, GoneBase, TablesClear, Drawn

\* What is on its way shrinks unless an import is given up on.
LEMMA ComingLess ==
    ASSUME NEW slots, NewStrays(slots), \A s \in slots : calls[s].req.op # "import"
    PROVE  Coming' \subseteq Coming
<1> SUFFICES ASSUME NEW p \in Coming' PROVE p \in Coming
  OBVIOUS
<1>1. PICK c \in strays' : c.req.op = "import" /\ p \in Brought(c.req)
  BY DEF Coming, Imports
<1>2. c \in strays
  BY <1>1 DEF NewStrays
<1> QED BY <1>1, <1>2 DEF Coming, Imports

\* What a step leaves of it.
GoneStep == GoneGood(view', calls'["read"], calls'["write"], Held, Coming, Live)

\* The options, a cancelled load and a detail leave the lists alone.
LEMMA AsideGone ==
    ASSUME Frame, ProxiesGood(view), GoneNow,
           OptionsLoad \/ LateLoad \/ \E s \in Details : DetailArrives(s)
    PROVE  GoneStep
<1>1. PICK v : v = view /\ ProxiesShape(v)
  BY DEF ProxiesGood
<1>2. PICK s, r : s \in Details \cup {"options", "late"} /\ Settle(s, r, Ended(s))
  BY DEF OptionsLoad, LateLoad, DetailArrives
<1>3. calls'["read"] = calls["read"] /\ calls'["write"] = calls["write"]
  <2>1. s \in Slot /\ {"read", "write"} \subseteq Slot \ {s}
    BY <1>2, SlotsAre DEF Details
  <2> QED BY <1>2, <2>1, SettleEnded DEF Frame
<1>4. GoneAlike(v, view')
  <2>1. CASE OptionsLoad
    <3>1. \/ \E options : view' = [v EXCEPT !.options = options]
          \/ view' = [v EXCEPT !.error = TRUE]
      BY <1>1, <2>1 DEF OptionsLoad
    <3> QED BY <1>1, <3>1 DEF GoneAlike, ProxiesShape, PFields
  <2>2. CASE LateLoad
    BY <1>1, <2>2 DEF LateLoad, GoneAlike
  <2>3. ASSUME NEW t \in Details, DetailArrives(t) PROVE GoneAlike(v, view')
    <3>1. PICK o : view' = IF o.status = 200
                    THEN [v EXCEPT !.drawer = [v.drawer EXCEPT !.shown = o.proxy, !.loading = FALSE]]
                    ELSE [v EXCEPT !.error = TRUE, !.drawer = [v.drawer EXCEPT !.loading = FALSE]]
      BY <1>1, <2>3, Zenon DEF DetailArrives
    <3>2. \E drawer : /\ drawer.open = v.drawer.open /\ drawer.opened = v.drawer.opened
                      /\ \/ view' = [v EXCEPT !.drawer = drawer]
                         \/ view' = [v EXCEPT !.error = TRUE, !.drawer = drawer]
      BY <1>1, <3>1 DEF ProxiesShape
    <3> QED BY <1>1, <3>2 DEF GoneAlike, ProxiesShape, PFields
  <2> QED BY <2>1, <2>2, <2>3
<1> QED BY <1>1, <1>3, <1>4, GoneStays DEF GoneNow, GoneStep

\* A list that is shown was answered without the gone proxies.
LEMMA AnswerClear ==
    ASSUME NEW s \in {"read", "write"}, calls[s].req.op = "list", NEW r \in Results(s),
           r.status = 200, NEW gone, ListClear(calls[s], gone, Live)
    PROVE  ToSet(r.items) \cap gone = {}
<1>1. r = calls[s].reply /\ calls[s].phase \in {"reading", "delayed"}
  BY ResultsAre DEF NoReply
<1> QED BY <1>1 DEF ListClear, Answered

LEMMA LoadGone ==
    ASSUME Frame, ProxiesGood(view), StoresInv, GoneNow, ProxiesLoad
    PROVE  GoneStep
<1>1. PICK v, c, w : /\ v = view /\ c = calls["read"] /\ w = calls["write"]
                     /\ ProxiesShape(v) /\ TableGood(v, c, w)
  BY DEF ProxiesGood
<1>2. PICK r \in Results("read") :
        \/ /\ r.status = 200 /\ BlankPage(r, v.number)
           /\ Settle("read", r, [read |-> Calling(ListReq(Rerun(v, v.number - 1)))])
           /\ view' = Rerun(v, v.number - 1)
        \/ Settle("read", r, Ended("read")) /\ view' = Listed(r)
  BY <1>1, Zenon DEF ProxiesLoad
<1>3. c.phase # "free"
  BY <1>1, <1>2 DEF Settle, Busy
<1>4. v.loading = TRUE /\ v.target = Null /\ c.req.op = "list"
  BY <1>1, <1>3 DEF TableGood, ProxiesShape
<1>s. {"read", "write"} \subseteq Slot
  BY SlotsAre
<1> SUFFICES ASSUME ~view'.dismissed PROVE GoneStep
  BY DEF GoneStep, GoneGood
<1>5. ASSUME r.status = 200, BlankPage(r, v.number),
             Settle("read", r, [read |-> Calling(ListReq(Rerun(v, v.number - 1)))]),
             view' = Rerun(v, v.number - 1)
      PROVE  GoneStep
  <2>1. PICK back, news : back = Rerun(v, v.number - 1) /\ news = [read |-> Calling(ListReq(back))]
    OBVIOUS
  <2>2. DOMAIN news = {"read"} /\ news["read"] = Calling(ListReq(back)) /\ Settle("read", r, news)
    BY <1>5, <2>1
  <2>3. calls'["read"] = Calling(ListReq(back)) /\ calls'["write"] = w
    BY <1>1, <1>s, <2>2, SettleElse DEF Frame
  <2>4. /\ back.loading = TRUE /\ back.number = v.number - 1 /\ Overlays(v, back) /\ back.gone = v.gone
    BY <1>1, <2>1 DEF Rerun, ProxiesShape, PFields, Overlays
  <2>5. /\ GoneBase(v, Held, Coming) /\ Deleting(v, w, Held, Coming, Live)
        /\ TablesClear(v, c, w, Live) /\ Drawn(v)
    BY <1>1, <1>5, <2>1, <2>4 DEF GoneNow, GoneGood, Overlays
  <2>6. back.number \in Nat \ {0}
    BY <1>5, <2>4, <2>5 DEF BlankPage, GoneBase
  <2>7. ListClear(calls'["read"], back.gone, Live)
    BY <2>3, <2>4, <2>5, <2>6, CallingClear DEF GoneBase
  <2>8. GoneBase(back, Held, Coming) /\ Deleting(back, w, Held, Coming, Live) /\ Drawn(back)
    BY <2>4, <2>5, <2>6 DEF GoneBase, Deleting, Drawn, Overlays
  <2>9. TablesClear(back, calls'["read"], w, Live)
    BY <2>4, <2>5, <2>7 DEF TablesClear
  <2> QED BY <1>5, <2>1, <2>3, <2>8, <2>9 DEF GoneStep, GoneGood
<1>6. ASSUME Settle("read", r, Ended("read")), view' = Listed(r)
      PROVE  GoneStep
  <2>1. calls'["read"] = Free /\ calls'["write"] = w
    BY <1>1, <1>6, <1>s, SettleEnded DEF Frame
  <2>2. PICK n : n = view'
    OBVIOUS
  <2>3. /\ Overlays(v, n) /\ n.gone = v.gone /\ n.number = v.number
        /\ n.error = TRUE \/ (r.status = 200 /\ n.data = r)
    <3>1. \/ r.status = 200 /\ n = [v EXCEPT !.data = r, !.loading = FALSE]
          \/ n = [v EXCEPT !.error = TRUE, !.loading = FALSE]
      BY <1>1, <1>6, <2>2 DEF Listed
    <3> QED BY <1>1, <3>1 DEF ProxiesShape, PFields, Overlays
  <2>4. /\ GoneBase(v, Held, Coming) /\ Deleting(v, w, Held, Coming, Live)
        /\ TablesClear(v, c, w, Live) /\ Drawn(v)
    BY <1>1, <2>2, <2>3 DEF GoneNow, GoneGood, Overlays
  <2>5. r.status = 200 => ToSet(r.items) \cap v.gone = {}
    BY <1>1, <1>2, <1>4, <2>4, AnswerClear DEF TablesClear
  <2>6. TablesClear(n, Free, w, Live)
    BY <2>3, <2>4, <2>5, FreeClear DEF TablesClear
  <2>7. GoneBase(n, Held, Coming) /\ Deleting(n, w, Held, Coming, Live) /\ Drawn(n)
    BY <2>3, <2>4 DEF GoneBase, Deleting, Drawn, Overlays
  <2> QED BY <2>1, <2>2, <2>6, <2>7 DEF GoneStep, GoneGood
<1> QED BY <1>2, <1>5, <1>6

\* Another list is asked for.
LEMMA ReloadGone ==
    ASSUME Frame, ProxiesGood(view), StoresInv, GoneNow,
           NEW v, NEW number, Reload(Rerun(v, number)), ProxiesShape(v), Overlays(view, v),
           v.gone = view.gone, ~view.dismissed => number \in Nat \ {0}
    PROVE  GoneStep
<1>1. PICK u, w, back : u = view /\ w = calls["write"] /\ back = Rerun(v, number)
  OBVIOUS
<1>2. view' = back /\ calls'["read"] = Calling(ListReq(back)) /\ calls'["write"] = w
  BY <1>1, ReloadElse, SlotsAre DEF Frame
<1>3. /\ back.loading = TRUE /\ back.number = number /\ Overlays(u, back) /\ back.gone = u.gone
  BY <1>1 DEF Rerun, ProxiesShape, PFields, Overlays
<1> SUFFICES ASSUME ~u.dismissed PROVE GoneStep
  BY <1>1, <1>2, <1>3 DEF GoneStep, GoneGood, Overlays
<1>5. /\ GoneBase(u, Held, Coming) /\ Deleting(u, w, Held, Coming, Live)
      /\ TablesClear(u, calls["read"], w, Live) /\ Drawn(u)
  BY <1>1 DEF GoneNow, GoneGood
<1>6. back.number \in Nat \ {0}
  BY <1>1, <1>3
<1>7. ListClear(calls'["read"], back.gone, Live)
  BY <1>2, <1>3, <1>5, <1>6, CallingClear DEF GoneBase
<1>8. GoneBase(back, Held, Coming) /\ Deleting(back, w, Held, Coming, Live) /\ Drawn(back)
  BY <1>3, <1>5, <1>6 DEF GoneBase, Deleting, Drawn, Overlays
<1>9. TablesClear(back, calls'["read"], w, Live)
  BY <1>3, <1>5, <1>7 DEF TablesClear
<1> QED BY <1>2, <1>8, <1>9 DEF GoneStep, GoneGood

LEMMA ControlsGone ==
    ASSUME Frame, ProxiesGood(view), StoresInv, GoneNow,
           \/ \E filter : ChangeFilter(filter)
           \/ ResetFilters
           \/ \E number : TurnPage(number)
    PROVE  GoneStep
<1>1. PICK u : u = view /\ ProxiesShape(u)
  BY DEF ProxiesGood
<1>2. ASSUME NEW filter, ChangeFilter(filter) PROVE GoneStep
  <2>1. PICK v : v = [u EXCEPT !.filter = filter, !.touched = TRUE]
    OBVIOUS
  <2>2. ProxiesShape(v) /\ Overlays(u, v) /\ v.gone = u.gone
    BY <1>1, <2>1 DEF ProxiesShape, PFields, Overlays
  <2>3. Reload(Rerun(v, 1))
    BY <1>1, <1>2, <2>1, Zenon DEF ChangeFilter
  <2> QED BY <1>1, <2>2, <2>3, ReloadGone
<1>3. CASE ResetFilters
  <2>1. PICK v : v = [u EXCEPT !.filter = defaultFilters, !.touched = FALSE]
    OBVIOUS
  <2>2. ProxiesShape(v) /\ Overlays(u, v) /\ v.gone = u.gone
    BY <1>1, <2>1 DEF ProxiesShape, PFields, Overlays
  <2>3. Reload(Rerun(v, 1))
    BY <1>1, <1>3, <2>1, Zenon DEF ResetFilters
  <2> QED BY <1>1, <2>2, <2>3, ReloadGone
<1>4. ASSUME NEW number, TurnPage(number) PROVE GoneStep
  <2>1. Overlays(u, u) /\ Reload(Rerun(u, number))
    BY <1>1, <1>4 DEF Overlays, TurnPage
  <2>2. number \in {u.number - 1, u.number + 1} /\ number >= 1
    BY <1>1, <1>4 DEF TurnPage, Neighbours
  <2>3. ~u.dismissed => number \in Nat \ {0}
    BY <1>1, <2>2 DEF GoneNow, GoneGood, GoneBase
  <2> QED BY <1>1, <2>1, <2>3, ReloadGone
<1> QED BY <1>2, <1>3, <1>4

\* What a click on a row can be about.
LEMMA RowsClear ==
    ASSUME ProxiesGood(view), GoneNow, Uncovered, ~view.dismissed, NEW p \in Rows
    PROVE  p \notin view.gone /\ calls["write"].phase = "free" /\ ~view.drawer.open
<1>1. PICK v, w : v = view /\ w = calls["write"] /\ TableGood(v, calls["read"], w) /\ ProxiesShape(v)
  BY DEF ProxiesGood
<1>2. v.target = Null /\ ~v.drawer.open
  BY <1>1 DEF Uncovered, DialogShows, DrawerShows
<1>3. w.phase = "free"
  BY <1>1, <1>2 DEF TableGood
<1>4. ~v.loading /\ ~v.error /\ v.data # NoReply /\ p \in ToSet(v.data.items)
  BY <1>1 DEF Rows, TableShown, ProxiesShow
<1>5. TablesClear(v, calls["read"], w, Live)
  BY <1>1 DEF GoneNow, GoneGood
<1> QED BY <1>1, <1>2, <1>3, <1>4, <1>5 DEF TablesClear

LEMMA OverlaysGone ==
    ASSUME Frame, ProxiesGood(view), GoneNow,
           CloseDrawer \/ (\E p : AskDelete(p)) \/ CancelDelete
           \/ \E s \in Details : \E p : OpenDrawer(s, p)
    PROVE  GoneStep
<1>1. PICK v, c, w : /\ v = view /\ c = calls["read"] /\ w = calls["write"]
                     /\ ProxiesShape(v) /\ TableGood(v, c, w)
  BY DEF ProxiesGood
<1>2. calls'["read"] = c /\ calls'["write"] = w
  <2>1. CASE calls' = calls
    BY <1>1, <2>1
  <2>2. ASSUME NEW s \in Details, NEW p, OpenDrawer(s, p)
        PROVE  calls'["read"] = c /\ calls'["write"] = w
    <3>1. s \in Slot /\ {"read", "write"} \subseteq Slot \ {s}
      BY SlotsAre DEF Details
    <3>2. \E req : Call(s, req)
      BY <2>2 DEF OpenDrawer
    <3> QED BY <1>1, <3>1, <3>2, CallElse DEF Frame
  <2> QED BY <2>1, <2>2 DEF CloseDrawer, AskDelete, CancelDelete, apiVars
<1>3. ASSUME NEW n, n = view', ~v.dismissed, n.dismissed = v.dismissed, n.gone = v.gone,
             n.number = v.number, n.closure = v.closure \/ w.phase = "free",
             n.loading = v.loading, n.error = v.error, n.data = v.data, Drawn(n)
      PROVE  GoneStep
  <2>1. /\ GoneBase(v, Held, Coming) /\ Deleting(v, w, Held, Coming, Live)
        /\ TablesClear(v, c, w, Live)
    BY <1>1, <1>3 DEF GoneNow, GoneGood
  <2>2. GoneBase(n, Held, Coming) /\ Deleting(n, w, Held, Coming, Live) /\ TablesClear(n, c, w, Live)
    BY <1>3, <2>1 DEF GoneBase, Deleting, TablesClear
  <2> QED BY <1>2, <1>3, <2>2 DEF GoneStep, GoneGood
<1>d. ~v.dismissed => Drawn(v)
  BY <1>1 DEF GoneNow, GoneGood
<1> SUFFICES ASSUME ~view'.dismissed PROVE GoneStep
  BY DEF GoneStep, GoneGood
<1>4. CASE CloseDrawer
  <2>1. PICK n : n = view' /\ n = [v EXCEPT !.drawer = NoDrawer]
    BY <1>1, <1>4 DEF CloseDrawer
  <2>2. /\ n.dismissed = v.dismissed /\ n.gone = v.gone /\ n.number = v.number
        /\ n.closure = v.closure /\ n.loading = v.loading /\ n.error = v.error
        /\ n.data = v.data /\ Drawn(n)
    BY <1>1, <2>1 DEF ProxiesShape, PFields, NoDrawer, Drawn
  <2> QED BY <1>3, <2>1, <2>2
<1>5. ASSUME NEW p, AskDelete(p) PROVE GoneStep
  <2>1. PICK n : n = view' /\ n = [v EXCEPT !.target = p]
    BY <1>1, <1>5 DEF AskDelete
  <2>2. ~v.drawer.open
    BY <1>1, <1>5 DEF AskDelete, Uncovered, DrawerShows
  <2>3. /\ n.dismissed = v.dismissed /\ n.gone = v.gone /\ n.number = v.number
        /\ n.closure = v.closure /\ n.loading = v.loading /\ n.error = v.error
        /\ n.data = v.data /\ Drawn(n)
    BY <1>1, <2>1, <2>2 DEF ProxiesShape, PFields, Drawn
  <2> QED BY <1>3, <2>1, <2>3
<1>6. CASE CancelDelete
  <2>1. PICK n : n = view' /\ n = [v EXCEPT !.target = Null, !.dismissed = v.dismissed \/ v.pending]
    BY <1>1, <1>6 DEF CancelDelete
  <2>2. ~v.dismissed
    BY <1>1, <2>1 DEF ProxiesShape, PFields
  <2>3. n.dismissed = (v.dismissed \/ v.pending)
    BY <1>1, <2>1 DEF ProxiesShape, PFields
  <2>4. n.dismissed = FALSE /\ v.dismissed = FALSE
    BY <1>1, <2>1, <2>2, <2>3 DEF ProxiesShape
  <2>5. /\ n.gone = v.gone /\ n.number = v.number
        /\ n.closure = v.closure /\ n.loading = v.loading /\ n.error = v.error
        /\ n.data = v.data /\ n.target = Null /\ n.drawer = v.drawer
    BY <1>1, <2>1 DEF ProxiesShape, PFields
  <2>6. Drawn(n)
    BY <1>d, <2>2, <2>5 DEF Drawn
  <2> QED BY <1>3, <2>1, <2>2, <2>4, <2>5, <2>6
<1>7. ASSUME NEW s \in Details, NEW p, OpenDrawer(s, p) PROVE GoneStep
  <2>1. PICK n, awaited : /\ n = view'
                          /\ n = [v EXCEPT !.drawer = [open |-> TRUE, shown |-> p, loading |-> TRUE,
                                                        opened |-> p, awaited |-> awaited]]
    BY <1>1, <1>7 DEF OpenDrawer
  <2>2. /\ n.dismissed = v.dismissed /\ n.gone = v.gone /\ n.number = v.number
        /\ n.closure = v.closure /\ n.loading = v.loading /\ n.error = v.error
        /\ n.data = v.data /\ n.target = v.target /\ n.drawer.opened = p
    BY <1>1, <2>1 DEF ProxiesShape, PFields
  <2>3. p \notin v.gone /\ v.target = Null
    BY <1>1, <1>7, <2>1, <2>2, RowsClear DEF OpenDrawer, Uncovered, DialogShows
  <2>4. Drawn(n)
    BY <2>2, <2>3 DEF Drawn
  <2> QED BY <1>3, <2>1, <2>2, <2>4
<1> QED BY <1>4, <1>5, <1>6, <1>7

\* The delete is sent, or in mock mode done.
LEMMA ConfirmGone ==
    ASSUME Frame, ProxiesGood(view), StoresInv, GoneNow, ConfirmDelete
    PROVE  GoneGood(view', calls'["read"], calls'["write"], Held', Coming, Live)
<1>1. PICK v, c, w : /\ v = view /\ c = calls["read"] /\ w = calls["write"]
                     /\ ProxiesShape(v) /\ TableGood(v, c, w)
  BY DEF ProxiesGood
<1>2. PICK req, closure :
          /\ req = [op |-> "delete", proxy |-> v.target]
          /\ closure = [filter |-> v.filter, number |-> v.number,
                        selected |-> v.drawer.shown, target |-> v.target, back |-> Coming]
  OBVIOUS
<1>3. /\ view' = [v EXCEPT !.pending = TRUE, !.closure = closure]
      /\ Call("write", req) /\ v.target # Null /\ ~v.pending
  BY <1>1, <1>2 DEF ConfirmDelete, DialogShows, Coming
<1>4. calls'["write"] = Calling(req) /\ calls'["read"] = c
  BY <1>1, <1>3, CallElse, SlotsAre DEF Frame
<1>5. w.phase = "free"
  BY <1>1, <1>3 DEF TableGood, ProxiesShape
<1>n. PICK n : n = view'
  OBVIOUS
<1>6. /\ n = view' /\ n.closure = closure
      /\ n.dismissed = v.dismissed /\ n.gone = v.gone /\ n.number = v.number
      /\ n.loading = v.loading /\ n.error = v.error /\ n.data = v.data
      /\ n.target = v.target /\ n.drawer = v.drawer
  BY <1>1, <1>3, <1>n DEF ProxiesShape, PFields
<1>7. req.op = "delete" /\ req.proxy = v.target /\ closure.target = v.target /\ closure.back = Coming
  BY <1>2
<1>9. PICK d, held : d = calls'["write"] /\ d = Calling(req) /\ held = Held'
  BY <1>4
<1> SUFFICES ASSUME ~v.dismissed PROVE GoneGood(n, c, d, held, Coming, Live)
  <2>1. v.dismissed => GoneGood(n, c, d, held, Coming, Live)
    BY <1>6 DEF GoneGood
  <2> QED BY <1>4, <1>6, <1>9, <2>1
<1>8. GoneBase(v, Held, Coming) /\ TablesClear(v, c, w, Live) /\ Drawn(v)
  BY <1>1 DEF GoneNow, GoneGood
<1>10. d.req = req
  BY <1>9, CallingIs
<1>11. TablesClear(n, c, d, Live)
  BY <1>5, <1>6, <1>7, <1>8, <1>10 DEF TablesClear, ListClear
<1>12. Drawn(n)
  BY <1>6, <1>8 DEF Drawn
<1>14. /\ held \subseteq Held
       /\ d.phase = "sent" => Live
       /\ Answered(d) /\ d.reply.status = 200 /\ d.reply.deleted => v.target \notin held \cup v.gone
  <2>1. CASE Live
    <3>1. held = Held
      BY <1>3, <1>9, <2>1 DEF Call, Held, Live
    <3>2. d.phase = "sent"
      BY <1>9, <2>1, FetchingIs DEF Calling
    <3> QED BY <2>1, <3>1, <3>2 DEF Answered
  <2>2. CASE ~Live
    <3>1. env' = env /\ mock' = After(req, mock)
      BY <1>3, <2>2 DEF Call, MockAfter
    <3>2. ToSet(After(req, mock).proxies) = ToSet(mock.proxies) \ {v.target}
      BY <1>7, AfterIs DEF StoresInv
    <3>3. Held = ToSet(mock.proxies) /\ held = Held \ {v.target}
      BY <1>9, <2>2, <3>1, <3>2 DEF Held, Live
    <3>4. PICK a : a = Answer(req, mock, "mock")
      OBVIOUS
    <3>5. d.phase = "delayed" /\ d.reply = a
      BY <1>9, <2>2, <3>4 DEF Calling, Delayed
    <3>6. a = IF req.proxy \in ToSet(mock.proxies) THEN Ok([deleted |-> TRUE]) ELSE Ok([deleted |-> FALSE])
      BY <1>7, <3>4 DEF Answer, ProxyAnswer
    <3>7. Ok([deleted |-> FALSE]).deleted = FALSE
      BY DEF Ok, Over
    <3>8. a.deleted => v.target \in Held
      BY <1>7, <3>3, <3>6, <3>7
    <3> QED BY <1>8, <3>3, <3>5, <3>8 DEF GoneBase
  <2> QED BY <2>1, <2>2
<1>15. Deleting(n, d, held, Coming, Live)
  BY <1>3, <1>6, <1>7, <1>10, <1>14 DEF Deleting
<1>16. GoneBase(n, held, Coming)
  BY <1>6, <1>8, <1>14 DEF GoneBase
<1> QED BY <1>11, <1>12, <1>15, <1>16 DEF GoneGood

\* The delete is answered: its proxy is gone, and the list is loaded again.
LEMMA AnsweredGone ==
    ASSUME Frame, ProxiesGood(view), StoresInv, GoneNow, DeleteAnswered
    PROVE  GoneStep
<1>1. PICK v, c, w : /\ v = view /\ c = calls["read"] /\ w = calls["write"]
                     /\ ProxiesShape(v) /\ TableGood(v, c, w)
  BY DEF ProxiesGood
<1>2. PICK closure, gone, drawer :
          /\ closure = v.closure /\ gone = v.gone \cup ({closure.target} \ closure.back)
          /\ drawer = IF closure.selected = closure.target THEN NoDrawer ELSE v.drawer
  OBVIOUS
<1>3. PICK r \in Results("write") :
        \/ /\ r.status = 200 /\ r.deleted
           /\ Settle("write", r, [write |-> Calling(ListReq(closure))])
           /\ view' = [v EXCEPT !.gone = gone, !.drawer = drawer]
        \/ Settle("write", r, Ended("write")) /\ view' = Failed(v)
  BY <1>1, <1>2, Zenon DEF DeleteAnswered
<1>4. w.phase # "free" /\ w.req.op = "delete"
  BY <1>1 DEF DeleteAnswered, Holds
<1>s. {"read", "write"} \subseteq Slot
  BY SlotsAre
<1> SUFFICES ASSUME ~view'.dismissed PROVE GoneStep
  BY DEF GoneStep, GoneGood
<1>n. PICK n : n = view'
  OBVIOUS
<1>5. ASSUME r.status = 200, r.deleted, Settle("write", r, [write |-> Calling(ListReq(closure))]),
             n = [v EXCEPT !.gone = gone, !.drawer = drawer]
      PROVE  GoneStep
  <2>1. PICK news : news = [write |-> Calling(ListReq(closure))]
    OBVIOUS
  <2>2. DOMAIN news = {"write"} /\ news["write"] = Calling(ListReq(closure)) /\ Settle("write", r, news)
    BY <1>5, <2>1
  <2>3. calls'["write"] = Calling(ListReq(closure)) /\ calls'["read"] = c
    BY <1>1, <1>s, <2>2, SettleElse DEF Frame
  <2>4. /\ n.gone = gone /\ n.drawer = drawer /\ n.number = v.number /\ n.closure = closure
        /\ n.loading = v.loading /\ n.dismissed = v.dismissed /\ n.target = v.target
    BY <1>1, <1>2, <1>5 DEF ProxiesShape, PFields
  <2>5. ~v.dismissed
    BY <1>n, <2>4
  <2>6. /\ GoneBase(v, Held, Coming) /\ Deleting(v, w, Held, Coming, Live)
        /\ TablesClear(v, c, w, Live) /\ Drawn(v)
    BY <1>1, <2>5 DEF GoneNow, GoneGood
  <2>7. c.phase = "free" /\ v.target # Null /\ closure.number = v.number
    BY <1>1, <1>2, <1>4, <2>5 DEF TableGood, ProxiesShape
  <2>8. Answered(w) /\ w.reply = r
    BY <1>1, <1>3, <1>4, <1>5, ResultsAre DEF Answered, NoReply
  <2>9. gone \cap (Held \cup Coming) = {} /\ Null \notin gone
    BY <1>2, <1>4, <1>5, <2>6, <2>8 DEF GoneBase, Deleting
  <2>10. GoneBase(n, Held, Coming)
    BY <2>4, <2>6, <2>9 DEF GoneBase
  <2>11. PICK d : d = calls'["write"]
    OBVIOUS
  <2>12. ListClear(d, gone, Live)
    BY <2>3, <2>6, <2>7, <2>9, <2>11, CallingClear DEF GoneBase
  <2>13. d.phase # "free" /\ d.req.op = "list"
    BY <2>3, <2>11, CallingIs, ListReqIs
  <2>14. TablesClear(n, c, d, Live)
    BY <2>4, <2>7, <2>12, <2>13 DEF TablesClear, ListClear
  <2>15. Deleting(n, d, Held, Coming, Live)
    BY <2>13 DEF Deleting
  <2>16. Drawn(n)
    <3>1. ~drawer.open
      BY <1>2, <2>6, <2>7 DEF Drawn, NoDrawer
    <3> QED BY <2>4, <3>1 DEF Drawn
  <2> QED BY <1>n, <2>3, <2>10, <2>11, <2>14, <2>15, <2>16 DEF GoneStep, GoneGood
<1>6. ASSUME Settle("write", r, Ended("write")), n = Failed(v)
      PROVE  GoneStep
  <2>1. calls'["write"] = Free /\ calls'["read"] = c
    BY <1>1, <1>6, <1>s, SettleEnded DEF Frame
  <2>2. /\ n.error = TRUE /\ n.gone = v.gone /\ n.number = v.number
        /\ n.dismissed = v.dismissed /\ n.target = v.target
        /\ n.drawer = v.drawer
    BY <1>1, <1>6 DEF Failed, ProxiesShape, PFields
  <2>3. GoneBase(v, Held, Coming) /\ TablesClear(v, c, w, Live) /\ Drawn(v)
    BY <1>1, <1>n, <2>2 DEF GoneNow, GoneGood
  <2>4. GoneBase(n, Held, Coming) /\ Drawn(n)
    BY <2>2, <2>3 DEF GoneBase, Drawn
  <2>5. TablesClear(n, c, Free, Live)
    BY <2>2, <2>3, FreeClear DEF TablesClear
  <2> QED BY <1>n, <2>1, <2>4, <2>5, FreeClear DEF GoneStep, GoneGood
<1> QED BY <1>3, <1>5, <1>6, <1>n

LEMMA ReloadedGone ==
    ASSUME Frame, ProxiesGood(view), StoresInv, GoneNow, ListReloaded
    PROVE  GoneStep
<1>1. PICK v, c, w : /\ v = view /\ c = calls["read"] /\ w = calls["write"]
                     /\ ProxiesShape(v) /\ TableGood(v, c, w)
  BY DEF ProxiesGood
<1>s. {"read", "write"} \subseteq Slot
  BY SlotsAre
<1> DEFINE done == [v EXCEPT !.target = Null, !.pending = FALSE, !.closure = Null]
           back == Rerun(done, v.number - 1)
<1>2. PICK r \in Results("write") :
        \/ Settle("write", r, Ended("write")) /\ view' = Failed(v)
        \/ /\ r.status = 200
           /\ Settle("write", r, Ended("write")) /\ view' = [done EXCEPT !.data = r]
        \/ /\ BlankPage(r, v.closure.number) /\ v.number = 1
           /\ Settle("write", r, Ended("write")) /\ view' = done
        \/ /\ BlankPage(r, v.closure.number) /\ v.number # 1
           /\ Settle("write", r, Over(Ended("write"), Renewed(back))) /\ view' = back
  BY <1>1, ZenonT(60) DEF ListReloaded
<1>3. w.phase # "free" /\ w.req.op = "list"
  BY <1>1 DEF ListReloaded, Holds
<1>4. /\ ProxiesShape(done) /\ done.target = Null
      /\ done.drawer = v.drawer
      /\ done.number = v.number /\ done.gone = v.gone /\ done.dismissed = v.dismissed
  BY <1>1 DEF ProxiesShape, PFields
<1>5. back = Rerun(done, v.number - 1)
  OBVIOUS
<1>n. PICK n : n = view'
  OBVIOUS
<1> HIDE DEF done, back
<1>6. ASSUME ~v.dismissed
      PROVE  /\ GoneBase(v, Held, Coming) /\ TablesClear(v, c, w, Live) /\ Drawn(v)
             /\ v.closure.number = v.number /\ v.number \in Nat \ {0}
  BY <1>1, <1>3, <1>6 DEF GoneNow, GoneGood, TableGood, ProxiesShape, GoneBase
<1> SUFFICES ASSUME ~n.dismissed PROVE GoneStep
  BY <1>n DEF GoneStep, GoneGood
<1>7. ASSUME Settle("write", r, Ended("write")), n = Failed(v)
      PROVE  GoneStep
  <2>1. calls'["write"] = Free /\ calls'["read"] = c
    BY <1>1, <1>7, <1>s, SettleEnded DEF Frame
  <2>2. /\ n.error = TRUE /\ n.gone = v.gone /\ n.number = v.number
        /\ n.dismissed = v.dismissed /\ n.target = v.target
        /\ n.drawer = v.drawer
    BY <1>1, <1>7 DEF Failed, ProxiesShape, PFields
  <2>4. GoneBase(n, Held, Coming) /\ Drawn(n)
    BY <1>6, <2>2 DEF GoneBase, Drawn
  <2>5. TablesClear(n, c, Free, Live)
    BY <1>6, <2>2, FreeClear DEF TablesClear
  <2> QED BY <1>n, <2>1, <2>4, <2>5, FreeClear DEF GoneStep, GoneGood
<1>8. ASSUME r.status = 200, Settle("write", r, Ended("write")), n = [done EXCEPT !.data = r]
      PROVE  GoneStep
  <2>1. calls'["write"] = Free /\ calls'["read"] = c
    BY <1>1, <1>8, <1>s, SettleEnded DEF Frame
  <2>2. /\ n.data = r /\ n.gone = v.gone /\ n.number = v.number
        /\ n.dismissed = v.dismissed /\ n.target = Null
        /\ n.drawer = v.drawer
    BY <1>4, <1>8 DEF ProxiesShape, PFields
  <2>3. ToSet(r.items) \cap v.gone = {}
    BY <1>1, <1>2, <1>3, <1>6, <1>8, <2>2, AnswerClear DEF TablesClear
  <2>4. GoneBase(n, Held, Coming) /\ Drawn(n)
    BY <1>6, <2>2 DEF GoneBase, Drawn
  <2>5. TablesClear(n, c, Free, Live)
    BY <1>6, <2>2, <2>3, FreeClear DEF TablesClear
  <2> QED BY <1>n, <2>1, <2>4, <2>5, FreeClear DEF GoneStep, GoneGood
<1>9. ASSUME BlankPage(r, v.closure.number), v.number = 1, n = done
      PROVE  GoneStep
  BY <1>4, <1>6, <1>9 DEF BlankPage
<1>10. ASSUME BlankPage(r, v.closure.number), v.number # 1,
              Settle("write", r, Over(Ended("write"), Renewed(back))), n = back
       PROVE  GoneStep
  <2>1. PICK ended, renewed, both :
            ended = Ended("write") /\ renewed = Renewed(back) /\ both = Over(ended, renewed)
    OBVIOUS
  <2>2. Settle("write", r, both)
    BY <1>10, <2>1
  <2>3. DOMAIN ended = {"write"} /\ ended["write"] = Free
    BY <2>1 DEF Ended
  <2>4. /\ "read" \in DOMAIN renewed
        /\ renewed["read"] = Calling(ListReq(back))
    BY <2>1, RenewedElse DEF Frame
  <2>5. /\ {"read", "write"} \subseteq DOMAIN both
        /\ both["write"] = ended["write"] /\ both["read"] = renewed["read"]
    BY <2>1, <2>3, <2>4 DEF Over
  <2>6. calls'["write"] = Free /\ calls'["read"] = Calling(ListReq(back))
    BY <1>s, <2>2, <2>3, <2>4, <2>5, SettleElse DEF Frame
  <2>7. /\ back.loading = TRUE /\ back.number = v.number - 1 /\ back.gone = v.gone
        /\ Overlays(done, back)
    BY <1>4, <1>5 DEF Rerun, ProxiesShape, PFields, Overlays
  <2>8. ~v.dismissed /\ back.target = Null /\ back.drawer = v.drawer
    BY <1>4, <1>10, <2>7 DEF Overlays
  <2>9. back.number \in Nat \ {0}
    BY <1>6, <1>10, <2>7, <2>8
  <2>10. ListClear(calls'["read"], back.gone, Live)
    BY <1>6, <2>6, <2>7, <2>8, <2>9, CallingClear DEF GoneBase
  <2>11. GoneBase(back, Held, Coming) /\ Drawn(back)
    BY <1>6, <2>7, <2>8, <2>9 DEF GoneBase, Drawn
  <2>12. TablesClear(back, calls'["read"], Free, Live)
    BY <2>7, <2>10, FreeClear DEF TablesClear
  <2> QED BY <1>n, <1>10, <2>6, <2>11, <2>12, FreeClear DEF GoneStep, GoneGood
<1> QED BY <1>2, <1>7, <1>8, <1>9, <1>10, <1>n

\* Others delete a gone proxy's like, or find it again.
LEMMA MovesGone ==
    ASSUME Frame, ProxiesGood(view), StoresInv, GoneNow, env' = env, PoolMoves
    PROVE  GoneNow'
<1>1. PICK v, c, w : v = view /\ c = calls["read"] /\ w = calls["write"] /\ ProxiesShape(v)
  BY DEF ProxiesGood
<1>2. PICK held, n : held = Held' /\ n = view'
  OBVIOUS
<1>3. /\ Live /\ calls' = calls /\ strays' = strays
      /\ \E p : \/ held = Held \ {p} /\ n = v
                \/ /\ held = Held \cup {p} /\ p \in v.gone /\ n = [v EXCEPT !.gone = v.gone \ {p}]
  BY <1>1, <1>2, PoolMovesIs DEF Held, Live
<1>4. Live' = Live /\ Coming' = Coming
  BY <1>3 DEF Live, Coming, Imports
<1>5. GoneGood(v, c, w, Held, Coming, Live)
  BY <1>1 DEF GoneNow
<1>6. GoneGood(n, c, w, held, Coming, Live)
  <2>1. PICK p : \/ held = Held \ {p} /\ n = v
                 \/ held = Held \cup {p} /\ p \in v.gone /\ n = [v EXCEPT !.gone = v.gone \ {p}]
    BY <1>3
  <2>2. CASE held = Held \ {p} /\ n = v
    <3>1. held \in SUBSET Held
      BY <2>2
    <3> QED BY <1>5, <2>2, <3>1, GoneLess
  <2>3. CASE held = Held \cup {p} /\ p \in v.gone /\ n = [v EXCEPT !.gone = v.gone \ {p}]
    <3>1. /\ n.gone = v.gone \ {p} /\ n.number = v.number /\ n.closure = v.closure
          /\ n.loading = v.loading /\ n.error = v.error /\ n.data = v.data /\ n.target = v.target
          /\ n.dismissed = v.dismissed /\ n.drawer = v.drawer
      BY <1>1, <2>3 DEF ProxiesShape, PFields
    <3> SUFFICES ASSUME ~v.dismissed
                 PROVE  /\ GoneBase(n, held, Coming) /\ Deleting(n, w, held, Coming, Live)
                        /\ TablesClear(n, c, w, Live) /\ Drawn(n)
      BY <3>1 DEF GoneGood
    <3>2. /\ GoneBase(v, Held, Coming) /\ Deleting(v, w, Held, Coming, Live)
          /\ TablesClear(v, c, w, Live) /\ Drawn(v)
      BY <1>5 DEF GoneGood
    <3>3. GoneBase(n, held, Coming) /\ Drawn(n)
      BY <2>3, <3>1, <3>2 DEF GoneBase, Drawn
    <3>4. Deleting(n, w, held, Coming, Live)
      BY <2>3, <3>1, <3>2 DEF Deleting
    <3>5. TablesClear(n, c, w, Live)
      BY <3>1, <3>2 DEF TablesClear, ListClear
    <3> QED BY <3>3, <3>4, <3>5
  <2> QED BY <2>1, <2>2, <2>3
<1> QED BY <1>1, <1>2, <1>3, <1>4, <1>6 DEF GoneNow

\* What the wire brings into the store was on its way there.
LEMMA WireHeld ==
    ASSUME Frame, PageCalls, AppCalls, StoresInv, At("proxies"), Wire, [Next]_vars,
           "gone" \in DOMAIN view
    PROVE  Held' \subseteq Held \cup Coming /\ Coming' \subseteq Coming /\ Live' = Live
<1>1. env' = env /\ view' = view
  BY WireSteps
<1>2. strays' \subseteq strays
  BY DEF Wire, Serve, HeadersArrive, FallBack, ServeStray
<1>3. Coming' \subseteq Coming
  BY <1>2 DEF Coming, Imports
<1>4. Live' = Live
  BY <1>1 DEF Live
<1>5. ~Live => mock' = mock
  BY DEF Wire, Serve, HeadersArrive, FallBack, FallsBack, ServeStray
<1>6. ToSet(srv'.proxies) \subseteq ToSet(srv.proxies) \cup Coming
  <2>1. CASE SameProxies(srv, srv')
    BY <2>1 DEF SameProxies
  <2>2. ASSUME NEW s \in Slot, srv' = After(calls[s].req, srv)
        PROVE  ToSet(srv'.proxies) \subseteq ToSet(srv.proxies)
    <3>1. calls[s].req.op # "import"
      <4>1. CASE s \in AppSlots
        BY <4>1 DEF AppCalls, OwnOp
      <4>2. CASE s \in PageSlots
        BY <4>2 DEF PageCalls, MayHold, At
      <4> QED BY <4>1, <4>2 DEF PageSlots
    <3>2. PICK req : req = calls[s].req
      OBVIOUS
    <3> QED BY <2>2, <3>1, <3>2, AfterIs DEF StoresInv
  <2>3. ASSUME NEW x \in strays, srv' = After(x.req, srv)
        PROVE  ToSet(srv'.proxies) \subseteq ToSet(srv.proxies) \cup Coming
    <3>1. x.req.op = "import" => Brought(x.req) \subseteq Coming
      BY DEF Coming, Imports
    <3>2. PICK req : req = x.req
      OBVIOUS
    <3> QED BY <2>3, <3>1, <3>2, AfterIs DEF StoresInv
  <2>4. CASE PoolMoves
    <3>1. PICK p : \/ ToSet(srv'.proxies) = ToSet(srv.proxies) \ {p}
                   \/ p \in view.gone /\ view' = [view EXCEPT !.gone = view.gone \ {p}]
      BY <2>4, PoolMovesIs
    <3>2. CASE p \in view.gone /\ view' = [view EXCEPT !.gone = view.gone \ {p}]
      <4>1. view'.gone = view.gone \ {p}
        BY <3>2
      <4> QED BY <1>1, <3>2, <4>1
    <3> QED BY <3>1, <3>2
  <2> QED BY <2>1, <2>2, <2>3, <2>4, SrvSteps DEF SrvStep
<1>7. Held' \subseteq Held \cup Coming
  BY <1>4, <1>5, <1>6 DEF Held
<1> QED BY <1>3, <1>4, <1>7

\* The server answers the dialog's delete.
LEMMA DeleteServed ==
    ASSUME Frame, StoresInv, Live, Wire,
           NEW c, NEW d, c = calls["write"], d = calls'["write"], d # c,
           c.req.op = "delete", c.phase = "sent"
    PROVE  /\ d.phase = "replied" /\ d.req = c.req
           /\ d.reply.status = 200 /\ d.reply.deleted => c.req.proxy \in Held /\ c.req.proxy \notin Held'
<1>1. Serve("write")
  <2>1. "write" \in Slot
    BY SlotsAre
  <2> QED BY <2>1, ServeSteps, HeadersSteps, FallBackSteps
          DEF Wire, ServeStray, ReadOn, FellBack, Frame
<1>2. "write" \in Slot /\ c.req.op \notin Open
  BY SlotsAre DEF Open
<1>3. Served(c, d)
  BY <1>1, <1>2, ServeSteps DEF Frame
<1>4. \/ d.reply.status # 200
      \/ srv' = After(c.req, srv) /\ d.reply = Answer(c.req, srv, "srv")
  BY <1>1, <1>2, ServeDoes
<1>5. env' = env
  BY <1>1, <1>2, ServeSteps DEF Frame
<1>6. ASSUME d.reply.status = 200, d.reply.deleted
      PROVE  c.req.proxy \in Held /\ c.req.proxy \notin Held'
  <2>1. PICK req, a : req = c.req /\ a = Answer(req, srv, "srv") /\ a = d.reply /\ srv' = After(req, srv)
    BY <1>4, <1>6
  <2>2. a = IF req.proxy \in ToSet(srv.proxies) THEN Ok([deleted |-> TRUE]) ELSE [status |-> 404]
    BY <2>1 DEF Answer, ProxyAnswer
  <2>3. req.proxy \in ToSet(srv.proxies)
    BY <1>6, <2>1, <2>2
  <2>4. ToSet(After(req, srv).proxies) = ToSet(srv.proxies) \ {req.proxy}
    <3>1. StoreGood(srv) /\ req.op = "delete"
      BY <2>1 DEF StoresInv
    <3> QED BY <3>1, AfterIs
  <2>5. ToSet(srv'.proxies) = ToSet(srv.proxies) \ {req.proxy}
    BY <2>1, <2>4
  <2> QED BY <1>5, <2>1, <2>3, <2>5 DEF Held, Live
<1> QED BY <1>3, <1>6 DEF Served, Alike

\* A list stays clear on the wire.
LEMMA WireClear ==
    ASSUME StoresInv, NEW gone, gone \cap Held = {}, NEW c, NEW d, WireStep(c, d),
           c.req.op \notin Open, ListClear(c, gone, Live)
    PROVE  ListClear(d, gone, Live)
<1>1. CASE Served(c, d) /\ c.req.op = "list"
  <2>1. /\ d.phase = "replied" /\ d.req = c.req /\ c.phase = "sent"
        /\ d.reply.status # 200 \/ d.reply = Answer(c.req, srv, "srv")
    BY <1>1 DEF Served, Alike, Open
  <2>2. Live /\ c.req.page \in Nat \ {0}
    BY <1>1, <2>1 DEF ListClear
  <2>3. PICK req, a : req = c.req /\ a = Answer(req, srv, "srv")
    OBVIOUS
  <2>4. ToSet(a.items) \subseteq ToSet(srv.proxies)
    BY <1>1, <2>2, <2>3, ListAnswers DEF StoresInv, StoreGood
  <2>5. ToSet(a.items) \cap gone = {}
    BY <2>2, <2>4 DEF Held
  <2> QED BY <2>1, <2>2, <2>3, <2>5 DEF ListClear
<1>2. CASE Served(c, d) /\ c.req.op # "list"
  BY <1>2 DEF Served, Alike, ListClear
<1>3. CASE ReadOn(c, d)
  BY <1>3 DEF ReadOn, Alike, ListClear, Answered
<1>4. CASE FellBack(c, d)
  BY <1>4 DEF FellBack, Fallback, Fetching, Delayed, ListClear
<1> QED BY <1>1, <1>2, <1>3, <1>4 DEF WireStep

LEMMA WiredGone ==
    ASSUME Frame, PageCalls, AppCalls, StoresInv, At("proxies"), ProxiesGood(view), GoneNow,
           Wired, [Next]_vars
    PROVE  GoneNow'
<1>1. PICK v, c, w, d, x : /\ v = view /\ c = calls["read"] /\ w = calls["write"]
                           /\ d = calls'["read"] /\ x = calls'["write"] /\ ProxiesShape(v)
  BY DEF ProxiesGood
<1>2. PICK held, coming : held = Held' /\ coming = Coming'
  OBVIOUS
<1>3. held \subseteq Held \cup Coming /\ coming \subseteq Coming /\ Live' = Live /\ view' = v
  BY <1>1, <1>2, WireHeld DEF Wired, ProxiesShape, PFields
<1> SUFFICES ASSUME ~v.dismissed
             PROVE  /\ GoneBase(v, held, coming) /\ Deleting(v, x, held, coming, Live)
                    /\ TablesClear(v, d, x, Live) /\ Drawn(v)
  BY <1>1, <1>2, <1>3 DEF GoneNow, GoneGood
<1>4. /\ GoneBase(v, Held, Coming) /\ Deleting(v, w, Held, Coming, Live)
      /\ TablesClear(v, c, w, Live) /\ Drawn(v)
  BY <1>1 DEF GoneNow, GoneGood
<1>s. {"read", "write"} \subseteq PageSlots /\ PageSlots \subseteq Slot
  BY PageSlotsAre, SlotsAre
<1>5. WireStep(c, d) /\ WireStep(w, x) /\ c.req.op \notin Open /\ w.req.op \notin Open
  BY <1>1, <1>s DEF Wired, PageCalls, MayHold
<1>6. ListClear(d, v.gone, Live) /\ ListClear(x, v.gone, Live)
  BY <1>4, <1>5, WireClear DEF TablesClear, GoneBase
<1>7. x.phase # "free" /\ x.req.op = "list" <=> w.phase # "free" /\ w.req.op = "list"
  BY <1>5 DEF WireStep, Served, ReadOn, FellBack, Alike, Fallback, Fetching, Delayed
<1>8. TablesClear(v, d, x, Live)
  BY <1>4, <1>6, <1>7 DEF TablesClear
<1>9. GoneBase(v, held, coming)
  BY <1>3, <1>4 DEF GoneBase
<1>10. Deleting(v, x, held, coming, Live)
  <2> SUFFICES ASSUME x.phase # "free", x.req.op = "delete"
               PROVE  Deleting(v, x, held, coming, Live)
    BY DEF Deleting
  <2>1. w.phase # "free" /\ w.req.op = "delete" /\ x.req = w.req /\ ~FellBack(w, x)
    BY <1>5 DEF WireStep, Served, ReadOn, FellBack, Alike, Fallback, Fetching, Delayed
  <2>2. /\ v.closure.target # Null /\ w.req.proxy = v.closure.target /\ (w.phase = "sent" => Live)
        /\ v.closure.target \in Coming => v.closure.target \in v.closure.back
    BY <1>4, <2>1 DEF Deleting
  <2>3. x.phase = "sent" => w.phase = "sent"
    BY <1>5, <2>1 DEF WireStep, Served, ReadOn
  <2>4. ASSUME Answered(x), x.reply.status = 200, x.reply.deleted, v.closure.target \notin v.closure.back
        PROVE  v.closure.target \notin held \cup v.gone
    <3>1. CASE x = w \/ ReadOn(w, x)
      <4>1. Answered(w) /\ w.reply = x.reply
        BY <2>4, <3>1 DEF ReadOn, Answered
      <4> QED BY <1>3, <1>4, <2>1, <2>2, <2>4, <4>1 DEF Deleting
    <3>2. CASE x # w /\ Served(w, x)
      <4>1. w.phase = "sent" /\ Live /\ Wire
        BY <2>2, <3>2 DEF Served, Wired
      <4>2. v.closure.target \in Held /\ v.closure.target \notin held
        BY <1>1, <1>2, <2>1, <2>2, <2>4, <3>2, <4>1, DeleteServed
      <4> QED BY <1>4, <4>2 DEF GoneBase
    <3> QED BY <1>5, <2>1, <3>1, <3>2 DEF WireStep
  <2> QED BY <1>3, <2>1, <2>2, <2>3, <2>4 DEF Deleting
<1> QED BY <1>4, <1>8, <1>9, <1>10

\* The page's own steps leave the store alone, but for the two that are about it.
LEMMA PageHeld ==
    ASSUME env' = env, ProxiesNext, ~PoolMoves, ~ConfirmDelete
    PROVE  Held' = Held
<1>1. ASSUME srv' = srv, mock' = mock PROVE Held' = Held
  BY <1>1 DEF Held, Live
<1>2. ASSUME NEW s, NEW r, NEW news, Settle(s, r, news) PROVE Held' = Held
  BY <1>1, <1>2 DEF Settle
<1>3. ASSUME NEW v, Reload(v) PROVE Held' = Held
  BY <1>1, <1>3 DEF Reload
<1>4. ASSUME UNCHANGED apiVars PROVE Held' = Held
  BY <1>1, <1>4 DEF apiVars
<1>5. CASE OptionsLoad \/ ProxiesLoad \/ LateLoad
  BY <1>2, <1>5 DEF OptionsLoad, ProxiesLoad, LateLoad
<1>6. ASSUME NEW filter, ChangeFilter(filter) PROVE Held' = Held
  BY <1>3, <1>6 DEF ChangeFilter
<1>7. CASE ResetFilters
  BY <1>3, <1>7 DEF ResetFilters
<1>8. ASSUME NEW number, TurnPage(number) PROVE Held' = Held
  BY <1>3, <1>8 DEF TurnPage
<1>9. ASSUME NEW p, AskDelete(p) PROVE Held' = Held
  BY <1>4, <1>9 DEF AskDelete
<1>10. ASSUME NEW s, DetailArrives(s) PROVE Held' = Held
  BY <1>2, <1>10 DEF DetailArrives
<1>11. ASSUME NEW s, NEW p, OpenDrawer(s, p) PROVE Held' = Held
  <2>1. srv' = srv /\ mock' = MockAfter([op |-> "detail", proxy |-> p])
    BY <1>11 DEF OpenDrawer, Call
  <2>2. mock' = mock
    BY <2>1 DEF MockAfter, After
  <2> QED BY <1>1, <2>1, <2>2
<1>12. CASE CloseDrawer \/ CancelDelete
  BY <1>4, <1>12 DEF CloseDrawer, CancelDelete
<1>13. CASE DeleteAnswered
  <2>1. \E r, news : Settle("write", r, news)
    BY <1>13 DEF DeleteAnswered
  <2> QED BY <1>2, <2>1
<1>14. CASE ListReloaded
  <2>1. \E r : \/ Settle("write", r, Ended("write"))
               \/ \E news : Settle("write", r, news)
    BY <1>14 DEF ListReloaded
  <2> QED BY <1>2, <2>1
<1> QED BY <1>5, <1>6, <1>7, <1>8, <1>9, <1>10, <1>11, <1>12, <1>13, <1>14 DEF ProxiesNext

LEMMA GoneKept ==
    ASSUME Frame, PageCalls, AppCalls, StoresInv, ProxiesInv, GoneInv, [Next]_vars
    PROVE  GoneInv'
<1> SUFFICES ASSUME At("proxies")' PROVE GoneNow'
  BY DEF GoneInv
<1>a. /\ env' = env
      /\ \/ Unmoved \/ Mounted \/ Wired
         \/ ProxiesNext /\ At("proxies")
  BY PageSteps DEF At, OnLogin, Frame, Tick, Timed
<1>s. {"read", "write"} \subseteq PageSlots /\ PageSlots \subseteq Slot
  BY PageSlotsAre, SlotsAre
<1>l. Live' = Live
  BY <1>a DEF Live
<1>1. CASE Unmoved
  <2>1. At("proxies") /\ view' = view /\ calls'["read"] = calls["read"] /\ calls'["write"] = calls["write"]
    BY <1>1, <1>s DEF Unmoved, At
  <2>2. Coming' \subseteq Coming
    <3>1. \A s \in AppSlots : calls[s].req.op # "import"
      BY DEF AppCalls, OwnOp
    <3> QED BY <1>1, <3>1, ComingLess DEF Unmoved
  <2>3. Held' = Held
    <3>1. CASE SessionEnds
      <4>1. srv'.proxies = srv.proxies
        BY <3>1 DEF SessionEnds, StoresInv, StoreGood, StoreFields
      <4> QED BY <1>1, <1>l, <4>1 DEF Unmoved, Held
    <3> QED BY <1>1, <1>l, <3>1 DEF Unmoved, Held
  <2>4. PICK v, c, w, held, coming : /\ v = view /\ c = calls["read"] /\ w = calls["write"]
                                     /\ held = Held /\ coming = Coming'
    OBVIOUS
  <2>5. GoneGood(v, c, w, held, coming, Live)
    BY <2>1, <2>2, <2>4, GoneLess DEF GoneInv, GoneNow
  <2> QED BY <1>l, <2>1, <2>3, <2>4, <2>5 DEF GoneNow
<1>2. CASE Mounted
  <2>1. /\ view' = ProxiesFirst
        /\ calls'["read"] = Calling(ListReq(ProxiesFirst)) /\ calls'["write"] = Free
    BY <1>2, <1>s, PagesAre DEF Mounted, At, Opening, ProxiesCalls
  <2>2. Held' = Held
    BY <1>2, <1>l DEF Mounted, At, Held
  <2>3. PICK coming : coming = Coming'
    OBVIOUS
  <2>4. GoneGood(ProxiesFirst, Calling(ListReq(ProxiesFirst)), Free, Held, coming, Live)
    BY GoneOpens
  <2> QED BY <1>l, <2>1, <2>2, <2>3, <2>4 DEF GoneNow
<1>3. CASE Wired
  <2>1. At("proxies")
    BY <1>3 DEF Wired, At
  <2> QED BY <1>3, <2>1, WiredGone DEF ProxiesInv, GoneInv
<1>4. CASE ProxiesNext /\ At("proxies")
  <2> USE <1>4
  <2> ProxiesGood(view) /\ GoneNow
    BY DEF ProxiesInv, GoneInv
  <2>1. Coming' \subseteq Coming
    <3>1. \A s \in PageSlots : calls[s].req.op # "import"
      BY DEF PageCalls, MayHold, At
    <3> QED BY <3>1, ComingLess, PageTouches DEF PageTouch, Elsewhere
  <2>2. CASE PoolMoves
    BY <1>a, <2>2, MovesGone
  <2>3. PICK v, c, w, held, coming : /\ v = view' /\ c = calls'["read"] /\ w = calls'["write"]
                                     /\ held = Held' /\ coming = Coming'
    OBVIOUS
  <2>4. CASE ConfirmDelete
    <3>1. GoneGood(v, c, w, held, Coming, Live)
      BY <2>3, <2>4, ConfirmGone
    <3>2. GoneGood(v, c, w, held, coming, Live)
      BY <2>1, <2>3, <3>1, GoneLess
    <3> QED BY <1>l, <2>3, <3>2 DEF GoneNow
  <2>5. CASE ~PoolMoves /\ ~ConfirmDelete
    <3>1. GoneStep
      BY <2>5, AsideGone, LoadGone, ControlsGone, OverlaysGone, AnsweredGone, ReloadedGone DEF ProxiesNext
    <3>2. Held' = Held
      BY <1>a, <2>5, PageHeld
    <3>3. GoneGood(v, c, w, held, coming, Live)
      BY <2>1, <2>3, <3>1, <3>2, GoneLess DEF GoneStep
    <3> QED BY <1>l, <2>3, <3>3 DEF GoneNow
  <2> QED BY <2>2, <2>4, <2>5
<1> QED BY <1>a, <1>1, <1>2, <1>3, <1>4

LEMMA GoneAlways == Spec => [](StoresInv /\ ProxiesInv /\ GoneInv)
<1> DEFINE Inv == Frame /\ PageCalls /\ AppCalls /\ StoresInv /\ GoneInv
<1>1. Init => Inv
  <2> SUFFICES ASSUME Init, At("proxies") PROVE GoneNow
    BY InitFrame, PageCallsOpen, AppCallsOpen, StoresOpen DEF GoneInv
  <2>s. {"read", "write"} \subseteq PageSlots
    BY PageSlotsAre
  <2>1. view = ProxiesFirst /\ \A s \in PageSlots : calls[s] = Opening(ProxiesCalls)[s]
    BY InitFrame, PagesAre DEF At
  <2>2. calls["read"] = Calling(ListReq(ProxiesFirst)) /\ calls["write"] = Free
    BY <2>s, <2>1 DEF Opening, ProxiesCalls
  <2> QED BY <2>1, <2>2, StoresOpen, GoneOpens DEF GoneNow
<1>2. ProxiesInv /\ Inv /\ [Next]_vars => Inv'
  BY PageSteps, PageCallsKept, AppCallsKept, StoresKept, GoneKept
<1>3. Inv => StoresInv /\ GoneInv
  OBVIOUS
<1> HIDE DEF Inv
<1> QED BY <1>1, <1>2, <1>3, ProxiesAlways, PTL DEF Spec, Safe

\* DeletedIsGone: a proxy whose delete was answered is in the table no more, unless
\* the server found it again, an import was still to bring it or its dialog was
\* dismissed; and an open drawer shows it only if its details were asked for before,
\* and were on their way when the drawer was opened (confirmDelete of
\* ProxiesPage.tsx and the list it loads again).
THEOREM DeletedStaysGone == Spec => []DeletedIsGone
<1>1. ProxiesInv /\ GoneInv => DeletedIsGone
  <2> SUFFICES ASSUME ProxiesInv, GoneInv, At("proxies"), ~view.dismissed
               PROVE  /\ view.target = Null => Rows \cap view.gone = {}
                      /\ DrawerShows(view.drawer).proxy \in view.gone =>
                            DrawerShows(view.drawer).proxy \in view.drawer.awaited
    BY DEF DeletedIsGone
  <2>1. PICK v, c, w : /\ v = view /\ c = calls["read"] /\ w = calls["write"]
                       /\ ProxiesShape(v) /\ TableGood(v, c, w) /\ DrawerGood(v)
    BY DEF ProxiesInv, ProxiesGood
  <2>2. GoneBase(v, Held, Coming) /\ TablesClear(v, c, w, Live) /\ Drawn(v)
    BY <2>1 DEF GoneInv, GoneNow, GoneGood
  <2>3. ASSUME v.target = Null PROVE Rows \cap v.gone = {}
    <3>1. w.phase = "free"
      BY <2>1, <2>3 DEF TableGood
    <3>2. CASE TableShown
      <4>1. ~v.loading /\ ~v.error /\ v.data # NoReply
        BY <2>1, <3>2 DEF TableShown, ProxiesShow
      <4>2. ToSet(v.data.items) \cap v.gone = {}
        BY <2>2, <3>1, <4>1 DEF TablesClear
      <4> QED BY <2>1, <4>2 DEF Rows
    <3> QED BY <3>2 DEF Rows
  <2>4. ASSUME DrawerShows(v.drawer).proxy \in v.gone
        PROVE  DrawerShows(v.drawer).proxy \in v.drawer.awaited
    <3>1. v.drawer.open /\ DrawerShows(v.drawer).proxy = v.drawer.shown
      BY <2>2, <2>4 DEF DrawerShows, GoneBase
    <3> QED BY <2>1, <2>2, <2>4, <3>1 DEF DrawerGood, OfClick, Drawn
  <2> QED BY <2>1, <2>3, <2>4
<1> QED BY <1>1, GoneAlways, PTL

-----------------------------------------------------------------------------
\* ProvidersPage: the list of providers and the import of a URL.
ProviderOps == {"providers", "providersUniverse"}
\* The server lists its providers itself.
ListedApart == Live /\ "providers" \notin env.missing

\* When an import promises its source in the list.
Promised(v) ==
    \/ v.imported = "proxies" /\ ~v.crossed
    \/ v.imported # "nothing" /\ ListedApart

\* A list of providers that is the summary of its rows, and has the source of imports.
OfRows(r) ==
    /\ r.status = 200 /\ r.rows \in Seq(Proxy) /\ IsInjective(r.rows)
    /\ r.list = deriveProviderSummaries(r.rows)
HasSubmitted(r) == "submitted" \in {Source(p) : p \in ToSet(r.rows)} \cup r.more
ListGiven(v, r) == OfRows(r) /\ (Promised(v) => HasSubmitted(r) \/ Crowded(r.rows))

\* A list on its way: its universe stands in only for a missing endpoint.
ListComing(v, c) ==
    c.phase # "free" /\ c.req.op \in ProviderOps =>
        /\ c.phase = "sent" => Live
        /\ c.req.op = "providersUniverse" => "providers" \in env.missing
        /\ Answered(c) /\ c.reply.status = 404 /\ c.req.op = "providers" => "providers" \in env.missing
        /\ Answered(c) /\ c.reply.status = 200 => ListGiven(v, c.reply)

\* An import on its way: what it brought is in the store once it is answered.
ImportComing(v, w, held, sub) ==
    w.phase # "free" /\ w.req.op = "import" =>
        /\ w.phase = "sent" => Live
        /\ Answered(w) /\ w.reply.status = 200 =>
              /\ w.req.direct /\ ~v.crossed => Imported \subseteq held
              /\ Live => sub

\* What an answered import brought stays in the store: no delete is on its way to it.
Kept(v, held, sub) ==
    /\ v.imported = "proxies" /\ ~v.crossed => Imported \subseteq held
    /\ v.imported # "nothing" /\ Live => sub
Undisturbed(v, w, waiting) ==
    \/ v.crossed
    \/ v.imported = "nothing" /\ ~(w.phase # "free" /\ w.req.op = "import")
    \/ \A x \in waiting : x.req.op # "delete"

\* The page's two awaits take turns, and a list that is shown was given.
Turns(v, c, w) ==
    /\ c.phase # "free" => v.loading /\ w.phase = "free" /\ c.req.op \in ProviderOps
    /\ w.phase # "free" => w.req.op \in ProviderOps \cup {"import"}
    /\ ~v.loading /\ ~v.error => ListGiven(v, v.items)
    /\ v.items # NoReply => OfRows(v.items)

ProviderFields == {"page", "items", "number", "error", "loading", "form", "imported", "crossed"}
ProvidersShape(v) == ProviderFields \subseteq DOMAIN v /\ v.crossed \in BOOLEAN

ProvidersGood(v, c, w, held, sub, waiting) ==
    /\ ProvidersShape(v) /\ Turns(v, c, w)
    /\ ListComing(v, c) /\ ListComing(v, w) /\ ImportComing(v, w, held, sub)
    /\ Kept(v, held, sub) /\ Undisturbed(v, w, waiting)
ProvidersNow == ProvidersGood(view, calls["read"], calls["write"], Held, srv.submitted, strays)
ProvidersInv == At("providers") => ProvidersNow

\* More in the store, and no more deletes on their way to it.
LEMMA ProvidersGrow ==
    ASSUME NEW v, NEW c, NEW w, NEW held, NEW sub, NEW waiting,
           ProvidersGood(v, c, w, held, sub, waiting),
           NEW held2, held \subseteq held2, NEW sub2, sub => sub2,
           NEW waiting2, \A x \in waiting2 : x.req.op = "delete" => x \in waiting
    PROVE  ProvidersGood(v, c, w, held2, sub2, waiting2)
<1>1. ImportComing(v, w, held2, sub2) /\ Kept(v, held2, sub2) /\ Undisturbed(v, w, waiting2)
  BY DEF ProvidersGood, ImportComing, Kept, Undisturbed
<1> QED BY <1>1 DEF ProvidersGood

\* What a store answers of its providers.
LEMMA ProviderAnswers ==
    ASSUME NEW req, req.op \in ProviderOps, NEW store, StoreGood(store), NEW at
    PROVE  /\ OfRows(Answer(req, store, at)) /\ Answer(req, store, at).status = 200
           /\ req.op = "providers" =>
                /\ Answer(req, store, at).rows = store.proxies
                /\ Answer(req, store, at).more = Submitted(store, at)
           /\ req.op = "providersUniverse" => Answer(req, store, at).rows = Universe(store, at)
<1>1. PICK a, rows, l, more :
        /\ a = Answer(req, store, at)
        /\ rows = IF req.op = "providers" THEN store.proxies ELSE Universe(store, at)
        /\ l = deriveProviderSummaries(rows)
        /\ more = IF req.op = "providers" THEN Submitted(store, at) ELSE {}
  OBVIOUS
<1>2. a = [status |-> 200, rows |-> rows, list |-> l, more |-> more]
  <2>1. CASE req.op = "providers"
    BY <1>1, <2>1 DEF Answer, SummaryAnswer
  <2>2. CASE req.op = "providersUniverse"
    BY <1>1, <2>2 DEF Answer, SummaryAnswer
  <2> QED BY <2>1, <2>2 DEF ProviderOps
<1>3. a.status = 200 /\ a.rows = rows /\ a.list = l /\ a.more = more
  BY <1>2
<1>4. rows \in Seq(Proxy) /\ IsInjective(rows)
  BY <1>1, UniverseIs DEF StoreGood, Pictures
<1>5. OfRows(a)
  BY <1>1, <1>3, <1>4 DEF OfRows
<1> QED BY <1>1, <1>3, <1>5

\* It has the source of what was imported, or better rows have filled it.
LEMMA AnswerGiven ==
    ASSUME NEW req, req.op \in ProviderOps, NEW store, StoreGood(store), NEW at,
           NEW v, Kept(v, ToSet(store.proxies), store.submitted),
           Live <=> at = "srv",
           req.op = "providersUniverse" => "providers" \in env.missing
    PROVE  ListGiven(v, Answer(req, store, at))
<1>1. PICK a : a = Answer(req, store, at)
  OBVIOUS
<1>2. /\ OfRows(a)
      /\ req.op = "providers" => a.rows = store.proxies /\ a.more = Submitted(store, at)
      /\ req.op = "providersUniverse" => a.rows = Universe(store, at)
  BY <1>1, ProviderAnswers
<1>3. ASSUME v.imported = "proxies", ~v.crossed PROVE HasSubmitted(a) \/ Crowded(a.rows)
  <2>1. Imported \subseteq ToSet(store.proxies)
    BY <1>3 DEF Kept
  <2>2. ASSUME NEW p \in Imported, p \in ToSet(a.rows) PROVE HasSubmitted(a)
    BY <2>2, ApiAssumption DEF HasSubmitted
  <2>3. ASSUME Imported \cap ToSet(a.rows) = {} PROVE Crowded(a.rows)
    <3>1. PICK q : q \in Imported
      BY ApiAssumption
    <3>2. req.op = "providersUniverse" /\ a.rows = Universe(store, at)
      BY <1>2, <2>1, <2>3, <3>1 DEF ProviderOps
    <3>3. Pictures(a.rows, store.proxies, at)
      BY <3>2, UniverseIs DEF StoreGood
    <3>4. /\ at = "srv" /\ Len(a.rows) = SnapshotLimit
          /\ \A p \in ToSet(a.rows), x \in Imported : RowOf[p].score >= RowOf[x].score
      BY <2>1, <2>3, <3>1, <3>3 DEF Pictures
    <3> QED BY <3>2, <3>4 DEF Crowded
  <2> QED BY <2>2, <2>3
<1>4. ASSUME v.imported # "nothing", ListedApart PROVE HasSubmitted(a)
  <2>1. store.submitted /\ at = "srv" /\ req.op = "providers"
    BY <1>4 DEF Kept, ListedApart, ProviderOps
  <2>2. a.more = {"submitted"}
    BY <1>2, <2>1 DEF Submitted
  <2> QED BY <2>2 DEF HasSubmitted
<1> QED BY <1>1, <1>2, <1>3, <1>4 DEF ListGiven, Promised

\* A list that is asked for now.
LEMMA ProvidersAsked ==
    ASSUME StoresInv, NEW v, Kept(v, Held, srv.submitted)
    PROVE  ListComing(v, Calling([op |-> "providers"]))
<1>1. PICK req, c : req = [op |-> "providers"] /\ c = Calling(req)
  OBVIOUS
<1>2. req.op = "providers"
  BY <1>1
<1>3. CASE Live
  <2>1. c.phase = "sent" /\ c.req = req
    BY <1>1, <1>3, FetchingIs DEF Calling
  <2> QED BY <1>1, <1>2, <1>3, <2>1 DEF ListComing, Answered
<1>4. CASE ~Live
  <2>1. PICK a : a = Answer(req, mock, "mock")
    OBVIOUS
  <2>2. c.phase = "delayed" /\ c.req = req /\ c.reply = a
    BY <1>1, <1>4, <2>1 DEF Calling, Delayed
  <2>3. Kept(v, ToSet(mock.proxies), mock.submitted)
    BY <1>4 DEF Kept, Held
  <2>4. ListGiven(v, a) /\ a.status = 200
    BY <1>2, <1>4, <2>1, <2>3, AnswerGiven DEF StoresInv, ProviderOps, ListGiven, OfRows
  <2> QED BY <1>1, <1>2, <2>2, <2>4 DEF ListComing
<1> QED BY <1>3, <1>4

LEMMA FreeComing ==
    \A v, held, sub : ListComing(v, Free) /\ ImportComing(v, Free, held, sub)
BY DEF ListComing, ImportComing, Free

LEMMA ProvidersOpens ==
    ASSUME StoresInv, NEW waiting
    PROVE  ProvidersGood(ProvidersFirst, Calling([op |-> "providers"]), Free, Held, srv.submitted, waiting)
<1>1. PICK v, c, req : v = ProvidersFirst /\ c = Calling(req) /\ req = [op |-> "providers"]
  OBVIOUS
<1>2. /\ v.items = NoReply /\ v.loading = TRUE /\ v.imported = "nothing" /\ v.crossed = FALSE
      /\ ProvidersShape(v)
  BY <1>1 DEF ProvidersFirst, ProvidersShape, ProviderFields
<1>3. Kept(v, Held, srv.submitted)
  BY <1>2 DEF Kept
<1>4. ListComing(v, c)
  BY <1>1, <1>3, ProvidersAsked
<1>5. c.req.op = "providers"
  BY <1>1, CallingIs
<1>6. Turns(v, c, Free)
  BY <1>2, <1>5 DEF Turns, Free, ProviderOps
<1>7. Undisturbed(v, Free, waiting)
  BY <1>2 DEF Undisturbed, Free
<1> QED BY <1>1, <1>2, <1>3, <1>4, <1>6, <1>7, FreeComing DEF ProvidersGood

\* The wire takes from the store only what a delete that was given up on still takes.
LEMMA WireGrows ==
    ASSUME Frame, PageCalls, AppCalls, StoresInv, At("providers"), Wire, [Next]_vars
    PROVE  /\ Live' = Live /\ env' = env /\ strays' \subseteq strays
           /\ (\A x \in strays : x.req.op # "delete") => Held \subseteq Held'
           /\ srv.submitted => srv'.submitted
<1>1. env' = env /\ view' = view
  BY WireSteps
<1>2. strays' \subseteq strays
  BY DEF Wire, Serve, HeadersArrive, FallBack, ServeStray
<1>3. Live' = Live
  BY <1>1 DEF Live
<1>4. ~Live => mock' = mock
  BY DEF Wire, Serve, HeadersArrive, FallBack, FallsBack, ServeStray
<1>5. ASSUME NEW req, srv' = After(req, srv)
      PROVE  /\ srv.submitted => srv'.submitted
             /\ req.op # "delete" => ToSet(srv.proxies) \subseteq ToSet(srv'.proxies)
  BY <1>5, AfterIs DEF StoresInv
<1>6. ASSUME NEW s \in Slot PROVE calls[s].req.op # "delete"
  <2>1. CASE s \in AppSlots
    BY <2>1 DEF AppCalls, OwnOp
  <2>2. CASE s \in PageSlots
    BY <2>2 DEF PageCalls, MayHold, At
  <2> QED BY <2>1, <2>2 DEF PageSlots
<1>7. ~PoolMoves
  BY DEF PoolMoves, At
<1>8. /\ srv.submitted => srv'.submitted
      /\ (\A x \in strays : x.req.op # "delete") => ToSet(srv.proxies) \subseteq ToSet(srv'.proxies)
  <2>1. CASE SameProxies(srv, srv')
    BY <2>1 DEF SameProxies
  <2>2. ASSUME NEW s \in Slot, srv' = After(calls[s].req, srv)
        PROVE  /\ srv.submitted => srv'.submitted
               /\ ToSet(srv.proxies) \subseteq ToSet(srv'.proxies)
    BY <1>5, <1>6, <2>2
  <2>3. ASSUME NEW x \in strays, srv' = After(x.req, srv)
        PROVE  /\ srv.submitted => srv'.submitted
               /\ x.req.op # "delete" => ToSet(srv.proxies) \subseteq ToSet(srv'.proxies)
    BY <1>5, <2>3
  <2> QED BY <1>7, <2>1, <2>2, <2>3, SrvSteps DEF SrvStep
<1> QED BY <1>1, <1>2, <1>3, <1>4, <1>8 DEF Held

\* A list stays good on the wire.
LEMMA ListWired ==
    ASSUME StoresInv, NEW v, Kept(v, Held, srv.submitted), NEW c, NEW d, WireStep(c, d),
           c.req.op \notin Open, ListComing(v, c)
    PROVE  ListComing(v, d)
<1>1. CASE Served(c, d) /\ c.req.op \in ProviderOps
  <2>1. /\ d.phase = "replied" /\ d.req = c.req /\ c.phase = "sent"
        /\ \/ d.reply = [status |-> 401]
           \/ c.req.op \in env.missing /\ d.reply = [status |-> 404]
           \/ d.reply = Answer(c.req, srv, "srv")
    BY <1>1 DEF Served, Alike
  <2>2. Live /\ (c.req.op = "providersUniverse" => "providers" \in env.missing)
    BY <1>1, <2>1 DEF ListComing
  <2>3. PICK req, a : req = c.req /\ a = Answer(req, srv, "srv")
    OBVIOUS
  <2>4. Kept(v, ToSet(srv.proxies), srv.submitted)
    BY <2>2 DEF Held
  <2>5. ListGiven(v, a) /\ a.status = 200
    BY <1>1, <2>2, <2>3, <2>4, AnswerGiven DEF StoresInv, ListGiven, OfRows
  <2>6. d.reply.status = 200 => ListGiven(v, d.reply)
    BY <2>1, <2>3, <2>5
  <2>7. d.reply.status = 404 => c.req.op \in env.missing
    BY <2>1, <2>3, <2>5
  <2> QED BY <2>1, <2>2, <2>6, <2>7 DEF ListComing
<1>2. CASE Served(c, d) /\ c.req.op \notin ProviderOps
  BY <1>2 DEF Served, Alike, ListComing
<1>3. CASE ReadOn(c, d)
  BY <1>3 DEF ReadOn, Alike, ListComing, Answered
<1>4. CASE FellBack(c, d)
  BY <1>4 DEF FellBack, Fallback, Fetching, Delayed, ListComing, Answered, ProviderOps
<1> QED BY <1>1, <1>2, <1>3, <1>4 DEF WireStep

\* The server answers the import: what it brings is in the store then.
LEMMA ImportServed ==
    ASSUME Frame, StoresInv, Live, Wire,
           NEW c, NEW d, c = calls["write"], d = calls'["write"], d # c,
           c.req.op = "import", c.phase = "sent"
    PROVE  /\ d.phase = "replied" /\ d.req = c.req
           /\ d.reply.status = 200 =>
                /\ c.req.direct => Imported \subseteq Held'
                /\ srv'.submitted
<1>1. Serve("write")
  <2>1. "write" \in Slot
    BY SlotsAre
  <2> QED BY <2>1, ServeSteps, HeadersSteps, FallBackSteps
          DEF Wire, ServeStray, ReadOn, FellBack, Frame
<1>2. "write" \in Slot /\ c.req.op \notin Open
  BY SlotsAre DEF Open
<1>3. Served(c, d) /\ env' = env
  BY <1>1, <1>2, ServeSteps DEF Frame
<1>4. d.reply.status # 200 \/ srv' = After(c.req, srv)
  BY <1>1, <1>2, ServeDoes
<1>5. ASSUME d.reply.status = 200
      PROVE  (c.req.direct => Imported \subseteq Held') /\ srv'.submitted
  <2>1. PICK req : req = c.req /\ srv' = After(req, srv)
    BY <1>4, <1>5
  <2>2. srv'.submitted /\ ToSet(srv'.proxies) = Brought(req) \cup ToSet(srv.proxies)
    BY <2>1, AfterIs DEF StoresInv
  <2> QED BY <1>3, <2>1, <2>2 DEF Held, Live, Brought
<1> QED BY <1>3, <1>5 DEF Served, Alike

\* The same of the next state: the environment stays.
LEMMA ProvidersThen ==
    ASSUME env' = env,
           ProvidersGood(view', calls'["read"], calls'["write"], Held', srv'.submitted, strays')
    PROVE  ProvidersNow'
<1>1. Live' = Live /\ ListedApart' = ListedApart
  BY DEF Live, ListedApart
<1>2. \A v, r : ListGiven(v, r) => ListGiven(v, r)'
  BY <1>1 DEF ListGiven, Promised, Crowded
<1> QED BY <1>1, <1>2
        DEF ProvidersNow, ProvidersGood, Turns, ListComing, ImportComing, Kept

LEMMA ProvidersWired ==
    ASSUME Frame, PageCalls, AppCalls, StoresInv, At("providers"), ProvidersNow,
           Wired, [Next]_vars
    PROVE  ProvidersNow'
<1>1. PICK v, c, w, d, x : /\ v = view /\ c = calls["read"] /\ w = calls["write"]
                           /\ d = calls'["read"] /\ x = calls'["write"]
  OBVIOUS
<1>2. PICK held, sub : held = Held' /\ sub = srv'.submitted
  OBVIOUS
<1>3. /\ env' = env /\ strays' \subseteq strays /\ (srv.submitted => sub)
      /\ (\A y \in strays : y.req.op # "delete") => Held \subseteq held
      /\ view' = v /\ Live' = Live
  BY <1>1, <1>2, WireGrows DEF Wired
<1>4. /\ ProvidersShape(v) /\ Turns(v, c, w)
      /\ ListComing(v, c) /\ ListComing(v, w) /\ ImportComing(v, w, Held, srv.submitted)
      /\ Kept(v, Held, srv.submitted) /\ Undisturbed(v, w, strays)
  BY <1>1 DEF ProvidersNow, ProvidersGood
<1>s. {"read", "write"} \subseteq PageSlots /\ PageSlots \subseteq Slot
  BY PageSlotsAre, SlotsAre
<1>5. /\ WireStep(c, d) /\ WireStep(w, x) /\ c.req.op \notin Open /\ w.req.op \notin Open
      /\ c.phase = "free" <=> d.phase = "free"
      /\ w.phase = "free" <=> x.phase = "free"
  BY <1>1, <1>s, WiredBusy DEF Wired, PageCalls, MayHold
<1>6. ListComing(v, d) /\ ListComing(v, x)
  BY <1>4, <1>5, ListWired
<1>7. /\ c.req.op \in ProviderOps => d.req.op \in ProviderOps
      /\ w.req.op \in ProviderOps => x.req.op \in ProviderOps
      /\ w.phase # "free" => (x.req.op = "import" <=> w.req.op = "import")
      /\ w.phase # "free" /\ w.req.op = "import" => x.req = w.req /\ ~FellBack(w, x)
  BY <1>5 DEF WireStep, Served, ReadOn, FellBack, Alike, Fallback, Fetching, Delayed, ProviderOps
<1>8. Turns(v, d, x)
  BY <1>4, <1>5, <1>7 DEF Turns
<1>9. Undisturbed(v, x, strays')
  BY <1>3, <1>4, <1>5, <1>7 DEF Undisturbed
<1>10. Kept(v, held, sub)
  BY <1>3, <1>4 DEF Kept, Undisturbed
<1>11. ImportComing(v, x, held, sub)
  <2> SUFFICES ASSUME x.phase # "free", x.req.op = "import"
               PROVE  ImportComing(v, x, held, sub)
    BY DEF ImportComing
  <2>1. w.phase # "free" /\ w.req.op = "import" /\ x.req = w.req /\ (w.phase = "sent" => Live)
    BY <1>4, <1>5, <1>7 DEF ImportComing
  <2>2. CASE x = w \/ ReadOn(w, x)
    <3>1. /\ x.phase = "sent" => w.phase = "sent"
          /\ Answered(x) => Answered(w) /\ x.reply = w.reply
      BY <2>2 DEF ReadOn, Answered
    <3>2. ~v.crossed => Held \subseteq held
      BY <1>3, <1>4, <2>1 DEF Undisturbed
    <3> QED BY <1>3, <1>4, <2>1, <3>1, <3>2 DEF ImportComing
  <2>3. CASE x # w /\ Served(w, x)
    <3>1. w.phase = "sent" /\ Live /\ Wire
      BY <2>1, <2>3 DEF Served, Wired
    <3>2. x.phase = "replied" /\ (x.reply.status = 200 => (w.req.direct => Imported \subseteq held) /\ sub)
      BY <1>1, <1>2, <2>1, <2>3, <3>1, ImportServed
    <3> QED BY <2>1, <3>2 DEF ImportComing
  <2> QED BY <1>5, <1>7, <2>1, <2>2, <2>3 DEF WireStep
<1>12. ProvidersGood(v, d, x, held, sub, strays')
  BY <1>4, <1>6, <1>8, <1>9, <1>10, <1>11 DEF ProvidersGood
<1> QED BY <1>1, <1>2, <1>3, <1>12, ProvidersThen

\* What a step of the page leaves of it, before what it leaves of the stores.
ProvidersStep == ProvidersGood(view', calls'["read"], calls'["write"], Held, srv.submitted, strays)

\* What the operation in a slot can settle with.
LEMMA ProviderResults ==
    ASSUME NEW s, NEW r \in Results(s), NEW c, c = calls[s], c.req.op # "detail"
    PROVE  r.status = 200 => Answered(c) /\ r = c.reply
BY ResultsAre DEF NoReply, Answered

LEMMA ProvidersLoads ==
    ASSUME Frame, ProvidersNow, ProvidersLoad \/ ImportedLoad
    PROVE  ProvidersStep
<1>1. PICK v, c, w : v = view /\ c = calls["read"] /\ w = calls["write"]
  OBVIOUS
<1>2. /\ ProvidersShape(v) /\ Turns(v, c, w)
      /\ ListComing(v, c) /\ ListComing(v, w) /\ ImportComing(v, w, Held, srv.submitted)
      /\ Kept(v, Held, srv.submitted) /\ Undisturbed(v, w, strays)
  BY <1>1 DEF ProvidersNow, ProvidersGood
<1>s. {"read", "write"} \subseteq Slot
  BY SlotsAre
<1>3. ASSUME NEW d, NEW r, d.phase # "free", d.req.op \in ProviderOps, ListComing(v, d),
             r.status = 200 => Answered(d) /\ r = d.reply,
             \/ /\ r.status = 200
                /\ \/ view' = [v EXCEPT !.items = r, !.error = FALSE, !.loading = FALSE]
                   \/ view' = [v EXCEPT !.items = r, !.number = 1, !.loading = FALSE]
             \/ view' = [v EXCEPT !.error = TRUE, !.loading = FALSE],
             \/ calls'["read"] = Free /\ calls'["write"] = w /\ w.phase = "free"
             \/ calls'["read"] = c /\ calls'["write"] = Free /\ c.phase = "free"
      PROVE  ProvidersStep
  <2>1. PICK n, c2, w2 : n = view' /\ c2 = calls'["read"] /\ w2 = calls'["write"]
    OBVIOUS
  <2>2. /\ n.imported = v.imported /\ n.crossed = v.crossed /\ ProvidersShape(n)
        /\ \/ n.items = v.items /\ n.error = TRUE
           \/ n.items = r /\ r.status = 200
    <3> DEFINE Loaded == /\ n.imported = v.imported /\ n.crossed = v.crossed /\ ProvidersShape(n)
                         /\ \/ n.items = v.items /\ n.error = TRUE
                            \/ n.items = r /\ r.status = 200
    <3>1. ASSUME r.status = 200, n = [v EXCEPT !.items = r, !.error = FALSE, !.loading = FALSE]
          PROVE  Loaded
      BY <1>2, <3>1 DEF ProvidersShape, ProviderFields
    <3>2. ASSUME r.status = 200, n = [v EXCEPT !.items = r, !.number = 1, !.loading = FALSE]
          PROVE  Loaded
      BY <1>2, <3>2 DEF ProvidersShape, ProviderFields
    <3>3. ASSUME n = [v EXCEPT !.error = TRUE, !.loading = FALSE] PROVE Loaded
      BY <1>2, <3>3 DEF ProvidersShape, ProviderFields
    <3> HIDE DEF Loaded
    <3>4. Loaded
      BY <1>3, <2>1, <3>1, <3>2, <3>3
    <3> QED BY <3>4 DEF Loaded
  <2>3. c2.phase = "free" /\ w2.phase = "free"
    BY <1>3, <2>1 DEF Free
  <2>4. n.items = r /\ r.status = 200 => ListGiven(n, r)
    <3>1. r.status = 200 => ListGiven(v, r)
      BY <1>3 DEF ListComing
    <3> QED BY <2>2, <3>1 DEF ListGiven, Promised
  <2>5. Turns(n, c2, w2)
    BY <1>2, <2>2, <2>3, <2>4 DEF Turns, ListGiven
  <2>6. Kept(n, Held, srv.submitted) /\ Undisturbed(n, w2, strays)
    BY <1>2, <2>2, <2>3 DEF Kept, Undisturbed
  <2>7. ListComing(n, c2) /\ ListComing(n, w2) /\ ImportComing(n, w2, Held, srv.submitted)
    BY <2>3 DEF ListComing, ImportComing
  <2> QED BY <2>1, <2>2, <2>5, <2>6, <2>7 DEF ProvidersStep, ProvidersGood
<1>4. CASE ProvidersLoad
  <2>1. PICK r \in Results("read") :
            /\ Settle("read", r, Ended("read"))
            /\ view' = IF r.status = 200 THEN [view EXCEPT !.items = r, !.error = FALSE, !.loading = FALSE]
                       ELSE [view EXCEPT !.error = TRUE, !.loading = FALSE]
    BY <1>4, Zenon DEF ProvidersLoad
  <2>2. calls'["read"] = Free /\ calls'["write"] = w /\ c.phase # "free"
    BY <1>1, <1>s, <2>1, SettleEnded DEF Frame
  <2>3. c.req.op \in ProviderOps /\ w.phase = "free"
    BY <1>2, <2>2 DEF Turns
  <2>4. r.status = 200 => Answered(c) /\ r = c.reply
    BY <1>1, <2>3, ProviderResults DEF ProviderOps
  <2>5. \/ /\ r.status = 200
           /\ \/ view' = [v EXCEPT !.items = r, !.error = FALSE, !.loading = FALSE]
              \/ view' = [v EXCEPT !.items = r, !.number = 1, !.loading = FALSE]
        \/ view' = [v EXCEPT !.error = TRUE, !.loading = FALSE]
    BY <1>1, <2>1
  <2>6. c.phase # "free" /\ c.req.op \in ProviderOps /\ ListComing(v, c)
    BY <1>2, <2>2, <2>3
  <2>7. \/ calls'["read"] = Free /\ calls'["write"] = w /\ w.phase = "free"
        \/ calls'["read"] = c /\ calls'["write"] = Free /\ c.phase = "free"
    BY <2>2, <2>3
  <2> QED BY <1>3, <2>4, <2>5, <2>6, <2>7, ZenonT(60)
<1>5. CASE ImportedLoad
  <2>1. PICK r \in Results("write") :
            /\ Settle("write", r, Ended("write"))
            /\ view' = IF r.status = 200
                       THEN [view EXCEPT !.items = r, !.number = 1, !.loading = FALSE]
                       ELSE [view EXCEPT !.error = TRUE, !.loading = FALSE]
    BY <1>5, Zenon DEF ImportedLoad
  <2>2. calls'["write"] = Free /\ calls'["read"] = c /\ w.phase # "free"
    BY <1>1, <1>s, <2>1, SettleEnded DEF Frame
  <2>3. w.req.op \in ProviderOps /\ c.phase = "free"
    BY <1>1, <1>2, <1>5, <2>2 DEF Turns, ImportedLoad, Holds, ProviderOps
  <2>4. r.status = 200 => Answered(w) /\ r = w.reply
    BY <1>1, <2>3, ProviderResults DEF ProviderOps
  <2>5. \/ /\ r.status = 200
           /\ \/ view' = [v EXCEPT !.items = r, !.error = FALSE, !.loading = FALSE]
              \/ view' = [v EXCEPT !.items = r, !.number = 1, !.loading = FALSE]
        \/ view' = [v EXCEPT !.error = TRUE, !.loading = FALSE]
    BY <1>1, <2>1
  <2>6. w.phase # "free" /\ w.req.op \in ProviderOps /\ ListComing(v, w)
    BY <1>2, <2>2, <2>3
  <2>7. \/ calls'["read"] = Free /\ calls'["write"] = w /\ w.phase = "free"
        \/ calls'["read"] = c /\ calls'["write"] = Free /\ c.phase = "free"
    BY <2>2, <2>3
  <2> QED BY <1>3, <2>4, <2>5, <2>6, <2>7, ZenonT(60)
<1> QED BY <1>4, <1>5

LEMMA ImportSettled ==
    ASSUME Frame, StoresInv, ProvidersNow, ImportSettles
    PROVE  ProvidersStep
<1>1. PICK v, c, w : v = view /\ c = calls["read"] /\ w = calls["write"]
  OBVIOUS
<1>2. /\ ProvidersShape(v) /\ Turns(v, c, w)
      /\ ListComing(v, c) /\ ListComing(v, w) /\ ImportComing(v, w, Held, srv.submitted)
      /\ Kept(v, Held, srv.submitted) /\ Undisturbed(v, w, strays)
  BY <1>1 DEF ProvidersNow, ProvidersGood
<1>s. {"read", "write"} \subseteq Slot
  BY SlotsAre
<1>3. PICK n, c2, w2 : n = view' /\ c2 = calls'["read"] /\ w2 = calls'["write"]
  OBVIOUS
<1>4. PICK r \in Results("write") :
        IF r.status = 200
        THEN /\ Settle("write", r, [write |-> Calling([op |-> "providers"])])
             /\ view' = [view EXCEPT !.form = EmptyForm, !.loading = TRUE, !.error = FALSE,
                                     !.imported = ImportedNow]
        ELSE /\ Settle("write", r, Ended("write"))
             /\ view' = [view EXCEPT !.form = [@ EXCEPT !.submitting = FALSE, !.error = TRUE]]
  BY ZenonT(60) DEF ImportSettles
<1>5. w.phase # "free" /\ w.req.op = "import"
  BY <1>1 DEF ImportSettles, Holds
<1>6. c.phase = "free"
  BY <1>2, <1>5 DEF Turns
<1>7. r.status = 200 => Answered(w) /\ r = w.reply
  BY <1>1, <1>5, ProviderResults
<1>8. v.crossed \/ \A x \in strays : x.req.op # "delete"
  BY <1>2, <1>5 DEF Undisturbed
<1>9. CASE r.status = 200
  <2>1. c2 = c /\ w2 = Calling([op |-> "providers"])
    BY <1>1, <1>3, <1>4, <1>9, <1>s, SettleElse DEF Frame
  <2>2. /\ n.loading = TRUE /\ n.items = v.items /\ n.crossed = v.crossed /\ n.imported = ImportedNow
        /\ ProvidersShape(n)
    <3>1. PICK form, imported : form = EmptyForm /\ imported = ImportedNow
      OBVIOUS
    <3>2. n = [v EXCEPT !.form = form, !.loading = TRUE, !.error = FALSE, !.imported = imported]
      BY <1>1, <1>3, <1>4, <1>9, <3>1
    <3> QED BY <1>2, <3>1, <3>2 DEF ProvidersShape, ProviderFields
  <2>3. ImportedNow = "proxies" => w.req.direct
    BY <1>1 DEF ImportedNow
  <2>4. Kept(n, Held, srv.submitted)
    BY <1>2, <1>5, <1>7, <1>9, <2>2, <2>3 DEF Kept, ImportComing
  <2>5. ListComing(n, w2)
    BY <2>1, <2>4, ProvidersAsked
  <2>6. w2.req.op = "providers"
    BY <2>1, CallingIs
  <2>7. Turns(n, c2, w2)
    BY <1>2, <1>6, <2>1, <2>2, <2>6 DEF Turns, ProviderOps
  <2>8. ListComing(n, c2) /\ ImportComing(n, w2, Held, srv.submitted)
    BY <1>6, <2>1, <2>6 DEF ListComing, ImportComing
  <2>9. Undisturbed(n, w2, strays)
    BY <1>8, <2>2 DEF Undisturbed
  <2> QED BY <1>3, <2>2, <2>4, <2>5, <2>7, <2>8, <2>9 DEF ProvidersStep, ProvidersGood
<1>10. CASE r.status # 200
  <2>1. c2 = c /\ w2 = Free
    BY <1>1, <1>3, <1>4, <1>10, <1>s, SettleEnded DEF Frame
  <2>2. /\ n.loading = v.loading /\ n.error = v.error /\ n.items = v.items
        /\ n.crossed = v.crossed /\ n.imported = v.imported /\ ProvidersShape(n)
    <3>1. PICK form : n = [v EXCEPT !.form = form]
      BY <1>1, <1>3, <1>4, <1>10
    <3> QED BY <1>2, <3>1 DEF ProvidersShape, ProviderFields
  <2>3. Kept(n, Held, srv.submitted) /\ Undisturbed(n, w2, strays)
    BY <1>2, <1>8, <2>2 DEF Kept, Undisturbed
  <2>4. Turns(n, c2, w2)
    BY <1>2, <1>6, <2>1, <2>2 DEF Turns, Free, ListGiven, Promised
  <2>5. ListComing(n, c2)
    BY <1>6, <2>1 DEF ListComing
  <2> QED BY <1>3, <2>1, <2>2, <2>3, <2>4, <2>5, FreeComing DEF ProvidersStep, ProvidersGood
<1> QED BY <1>9, <1>10

LEMMA ProvidersTurned ==
    ASSUME Frame, ProvidersNow, NEW number, TurnProviders(number)
    PROVE  ProvidersStep
<1>1. PICK v, c, w, n : v = view /\ c = calls["read"] /\ w = calls["write"] /\ n = view'
  OBVIOUS
<1>2. /\ ProvidersShape(v) /\ Turns(v, c, w)
      /\ ListComing(v, c) /\ ListComing(v, w) /\ ImportComing(v, w, Held, srv.submitted)
      /\ Kept(v, Held, srv.submitted) /\ Undisturbed(v, w, strays)
  BY <1>1 DEF ProvidersNow, ProvidersGood
<1>3. calls'["read"] = c /\ calls'["write"] = w /\ n = [v EXCEPT !.number = number]
  BY <1>1 DEF TurnProviders, apiVars
<1>4. /\ n.loading = v.loading /\ n.error = v.error /\ n.items = v.items
      /\ n.crossed = v.crossed /\ n.imported = v.imported /\ ProvidersShape(n)
  BY <1>2, <1>3 DEF ProvidersShape, ProviderFields
<1>5. \A r : ListGiven(v, r) => ListGiven(n, r)
  BY <1>4 DEF ListGiven, Promised
<1>6. ListComing(n, c) /\ ListComing(n, w) /\ Turns(n, c, w)
  BY <1>2, <1>4, <1>5 DEF ListComing, Turns
<1>7. Kept(n, Held, srv.submitted) /\ Undisturbed(n, w, strays) /\ ImportComing(n, w, Held, srv.submitted)
  BY <1>2, <1>4 DEF Kept, Undisturbed, ImportComing
<1> QED BY <1>1, <1>3, <1>4, <1>6, <1>7 DEF ProvidersStep, ProvidersGood

LEMMA ImportSubmitted ==
    ASSUME Frame, StoresInv, ProvidersNow, NEW direct, SubmitImport(direct), env' = env
    PROVE  ProvidersNow'
<1>1. PICK v, c, w, n : v = view /\ c = calls["read"] /\ w = calls["write"] /\ n = view'
  OBVIOUS
<1>2. /\ ProvidersShape(v) /\ Turns(v, c, w)
      /\ ListComing(v, c) /\ ListComing(v, w) /\ ImportComing(v, w, Held, srv.submitted)
      /\ Kept(v, Held, srv.submitted) /\ Undisturbed(v, w, strays)
  BY <1>1 DEF ProvidersNow, ProvidersGood
<1>3. PICK req, w2 : req = [op |-> "import", direct |-> direct] /\ w2 = Calling(req)
  OBVIOUS
<1>4. req.op = "import" /\ req.direct = direct /\ w2.req = req /\ w2.phase # "free"
  BY <1>3, CallingIs
<1>5. Call("write", req) /\ ~v.loading /\ ~v.error
  BY <1>1, <1>3 DEF SubmitImport, ProvidersShow
<1>6. c.phase = "free" /\ calls'["read"] = c /\ calls'["write"] = w2
  <2>1. "write" \in Slot /\ "read" \in Slot \ {"write"}
    BY SlotsAre
  <2> QED BY <1>1, <1>2, <1>3, <1>5, <2>1, CallElse DEF Turns, Frame
<1>7. PICK waits, form :
        /\ waits = (\E x \in strays : x.req.op = "delete")
        /\ n = [v EXCEPT !.form = form, !.crossed = v.crossed \/ waits]
  <2>1. n = [view EXCEPT !.form.submitting = TRUE, !.form.error = FALSE,
                         !.crossed = @ \/ \E x \in strays : x.req.op = "delete"]
    BY <1>1, Zenon DEF SubmitImport
  <2>2. PICK waits : waits = (\E x \in strays : x.req.op = "delete")
    OBVIOUS
  <2>3. n = [v EXCEPT !.form = [[v.form EXCEPT !.submitting = TRUE] EXCEPT !.error = FALSE],
                      !.crossed = v.crossed \/ waits]
    BY <1>1, <1>2, <2>1, <2>2 DEF ProvidersShape, ProviderFields
  <2> QED BY <2>2, <2>3
<1>8. /\ n.loading = v.loading /\ n.error = v.error /\ n.items = v.items /\ n.imported = v.imported
      /\ ProvidersShape(n) /\ (n.crossed <=> v.crossed \/ \E x \in strays : x.req.op = "delete")
  BY <1>2, <1>7 DEF ProvidersShape, ProviderFields
<1>9. PICK held, sub : held = Held' /\ sub = srv'.submitted
  OBVIOUS
<1>10. srv' = srv /\ strays' = strays /\ (Live => mock' = mock) /\ (~Live => mock' = After(req, mock))
  BY <1>5 DEF Call, MockAfter
<1>11. ~Live => ToSet(mock'.proxies) = Brought(req) \cup ToSet(mock.proxies)
  BY <1>4, <1>10, AfterIs DEF StoresInv
<1>12. Held \subseteq held /\ sub = srv.submitted /\ (~Live => Brought(req) \subseteq held)
  BY <1>9, <1>10, <1>11 DEF Held, Live
<1>13. Kept(n, held, sub)
  BY <1>2, <1>8, <1>12 DEF Kept
<1>14. ImportComing(n, w2, held, sub)
  <2>1. CASE Live
    <3>1. w2.phase = "sent"
      BY <1>3, <2>1, FetchingIs DEF Calling
    <3> QED BY <2>1, <3>1 DEF ImportComing, Answered
  <2>2. CASE ~Live
    <3>1. w2.phase = "delayed"
      BY <1>3, <2>2 DEF Calling, Delayed
    <3>2. w2.req.direct => Imported \subseteq held
      BY <1>4, <1>12, <2>2 DEF Brought
    <3> QED BY <2>2, <3>1, <3>2 DEF ImportComing
  <2> QED BY <2>1, <2>2
<1>15. \A r : ListGiven(v, r) => ListGiven(n, r)
  BY <1>8 DEF ListGiven, Promised
<1>16. Turns(n, c, w2) /\ ListComing(n, c) /\ ListComing(n, w2)
  BY <1>2, <1>4, <1>6, <1>8, <1>15 DEF Turns, ListComing, ProviderOps
<1>17. Undisturbed(n, w2, strays)
  BY <1>8 DEF Undisturbed
<1>18. ProvidersGood(n, c, w2, held, sub, strays)
  BY <1>8, <1>13, <1>14, <1>16, <1>17 DEF ProvidersGood
<1> QED BY <1>1, <1>6, <1>9, <1>10, <1>18, ProvidersThen

\* On this page no delete is given up on.
LEMMA NoDeletes ==
    ASSUME PageCalls, AppCalls, At("providers"), NEW slots \in {PageSlots, AppSlots},
           NewStrays(slots)
    PROVE  \A x \in strays' : x.req.op = "delete" => x \in strays
<1>1. \A s \in slots : calls[s].req.op # "delete"
  BY DEF PageCalls, MayHold, At, AppCalls, OwnOp
<1> QED BY <1>1 DEF NewStrays

\* The page's other steps leave the stores alone.
LEMMA ProvidersHeld ==
    ASSUME ProvidersLoad \/ ImportedLoad \/ ImportSettles \/ \E number : TurnProviders(number)
    PROVE  srv' = srv /\ mock' = mock
<1>1. ASSUME NEW s, NEW r, NEW news, Settle(s, r, news) PROVE srv' = srv /\ mock' = mock
  BY <1>1 DEF Settle
<1>2. CASE ProvidersLoad \/ ImportedLoad
  BY <1>1, <1>2 DEF ProvidersLoad, ImportedLoad
<1>3. CASE ImportSettles
  <2>1. \E r : Settle("write", r, Ended("write")) \/ \E news : Settle("write", r, news)
    BY <1>3 DEF ImportSettles
  <2> QED BY <1>1, <2>1
<1>4. CASE \E number : TurnProviders(number)
  BY <1>4 DEF TurnProviders, apiVars
<1> QED BY <1>2, <1>3, <1>4

LEMMA ProvidersKept ==
    ASSUME Frame, PageCalls, AppCalls, StoresInv, ProvidersInv, [Next]_vars
    PROVE  ProvidersInv'
<1> SUFFICES ASSUME At("providers")' PROVE ProvidersNow'
  BY DEF ProvidersInv
<1>a. /\ env' = env
      /\ \/ Unmoved \/ Mounted \/ Wired
         \/ ListPagesNext /\ At("providers")
  BY PageSteps DEF At, OnLogin, Frame, Tick, Timed
<1>s. {"read", "write"} \subseteq PageSlots /\ PageSlots \subseteq Slot
  BY PageSlotsAre, SlotsAre
<1>l. Live' = Live
  BY <1>a DEF Live
<1>1. CASE Unmoved
  <2>1. At("providers") /\ view' = view /\ calls'["read"] = calls["read"] /\ calls'["write"] = calls["write"]
    BY <1>1, <1>s DEF Unmoved, At
  <2>2. \A x \in strays' : x.req.op = "delete" => x \in strays
    BY <1>1, <2>1, NoDeletes DEF Unmoved
  <2>3. Held' = Held /\ srv'.submitted = srv.submitted
    <3>1. CASE SessionEnds
      <4>1. srv'.proxies = srv.proxies /\ srv'.submitted = srv.submitted
        BY <3>1 DEF SessionEnds, StoresInv, StoreGood, StoreFields
      <4> QED BY <1>1, <1>l, <4>1 DEF Unmoved, Held
    <3> QED BY <1>1, <1>l, <3>1 DEF Unmoved, Held
  <2>4. PICK v, c, w, waiting : v = view /\ c = calls["read"] /\ w = calls["write"] /\ waiting = strays'
    OBVIOUS
  <2>5. ProvidersGood(v, c, w, Held, srv.submitted, waiting)
    BY <2>1, <2>2, <2>4, ProvidersGrow DEF ProvidersInv, ProvidersNow
  <2> QED BY <1>a, <2>1, <2>3, <2>4, <2>5, ProvidersThen
<1>2. CASE Mounted
  <2>1. /\ view' = ProvidersFirst
        /\ calls'["read"] = Calling([op |-> "providers"]) /\ calls'["write"] = Free
    BY <1>2, <1>s, PagesAre DEF Mounted, At, Opening, ProvidersCalls
  <2>2. Held' = Held /\ srv' = srv
    BY <1>2, <1>l DEF Mounted, At, Held
  <2>3. PICK waiting : waiting = strays'
    OBVIOUS
  <2>4. ProvidersGood(ProvidersFirst, Calling([op |-> "providers"]), Free, Held, srv.submitted, waiting)
    BY ProvidersOpens
  <2> QED BY <1>a, <2>1, <2>2, <2>3, <2>4, ProvidersThen
<1>3. CASE Wired
  <2>1. At("providers")
    BY <1>3 DEF Wired, At
  <2> QED BY <1>3, <2>1, ProvidersWired DEF ProvidersInv
<1>4. CASE ListPagesNext /\ At("providers")
  <2>1. ProvidersNow
    BY <1>4 DEF ProvidersInv
  <2>2. \A x \in strays' : x.req.op = "delete" => x \in strays
    BY <1>4, NoDeletes, PageTouches DEF PageTouch, Elsewhere
  <2>3. ASSUME NEW direct, SubmitImport(direct) PROVE ProvidersNow'
    BY <1>a, <2>1, <2>3, ImportSubmitted
  <2>4. CASE ProvidersLoad \/ ImportedLoad \/ ImportSettles \/ \E number : TurnProviders(number)
    <3>1. ProvidersStep
      BY <2>1, <2>4, ProvidersLoads, ImportSettled, ProvidersTurned
    <3>2. Held' = Held /\ srv' = srv
      BY <1>l, <2>4, ProvidersHeld DEF Held
    <3>3. PICK v, c, w, waiting : /\ v = view' /\ c = calls'["read"] /\ w = calls'["write"]
                                  /\ waiting = strays'
      OBVIOUS
    <3>4. ProvidersGood(v, c, w, Held, srv.submitted, strays)
      BY <3>1, <3>3 DEF ProvidersStep
    <3>5. ProvidersGood(v, c, w, Held, srv.submitted, waiting)
      BY <2>2, <3>3, <3>4, ProvidersGrow
    <3> QED BY <1>a, <3>2, <3>3, <3>5, ProvidersThen
  <2>5. ~LogsLoad /\ ~ValidationLoad /\ ~LogMoves /\ \A number : ~TurnListPage(number)
    BY <1>4, ListOpIs DEF LogsLoad, ValidationLoad, LogMoves, TurnListPage, OnListPage, At
  <2> QED BY <1>4, <2>3, <2>4, <2>5 DEF ListPagesNext
<1> QED BY <1>a, <1>1, <1>2, <1>3, <1>4

LEMMA ProvidersAlways == Spec => []ProvidersInv
<1> DEFINE Inv == Frame /\ PageCalls /\ AppCalls /\ StoresInv /\ ProvidersInv
<1>1. Init => Inv
  <2> SUFFICES ASSUME Init, At("providers") PROVE ProvidersNow
    BY InitFrame, PageCallsOpen, AppCallsOpen, StoresOpen DEF ProvidersInv
  <2>s. {"read", "write"} \subseteq PageSlots
    BY PageSlotsAre
  <2>1. view = ProvidersFirst /\ \A s \in PageSlots : calls[s] = Opening(ProvidersCalls)[s]
    BY InitFrame, PagesAre DEF At
  <2>2. calls["read"] = Calling([op |-> "providers"]) /\ calls["write"] = Free
    BY <2>s, <2>1 DEF Opening, ProvidersCalls
  <2> QED BY <2>1, <2>2, StoresOpen, ProvidersOpens DEF ProvidersNow
<1>2. Inv /\ [Next]_vars => Inv'
  BY PageSteps, PageCallsKept, AppCallsKept, StoresKept, ProvidersKept
<1>3. Inv => ProvidersInv
  OBVIOUS
<1> HIDE DEF Inv
<1> QED BY <1>1, <1>2, <1>3, PTL DEF Spec, Safe

\* ImportIsListed: once an import was answered and the list is shown again, its source is
\* in it, for every order of loads, imports, deletes and timeouts and every number of
\* rows, unless the list is derived of a universe at its limit, none of whose rows an
\* imported proxy goes before (importProviderUrl and loadProviders of the page, and
\* loadLiveProxyUniverse of api-client.ts).
THEOREM ImportListed == Spec => []ImportIsListed
<1>1. ProvidersInv => ImportIsListed
  <2> SUFFICES ASSUME ProvidersNow, At("providers"), ProvidersShow = "list",
                      \/ view.imported = "proxies" /\ ~view.crossed
                      \/ view.imported # "nothing" /\ Live /\ "providers" \notin env.missing,
                      ~Crowded(view.items.rows)
               PROVE  "submitted" \in Names(view.items.list) \cup view.items.more
    BY DEF ProvidersInv, ImportIsListed
  <2>1. PICK v, r : v = view /\ r = v.items
    OBVIOUS
  <2>2. ListGiven(v, r)
    BY <2>1 DEF ProvidersNow, ProvidersGood, Turns, ProvidersShow
  <2>3. OfRows(r) /\ HasSubmitted(r)
    BY <2>1, <2>2 DEF ListGiven, Promised, ListedApart
  <2>4. ProvidersFit(r.list, r.rows)
    BY <2>3, ProvidersAre DEF OfRows
  <2>5. Names(r.list) = {Source(p) : p \in ToSet(r.rows)}
    BY <2>4 DEF ProvidersFit, Names
  <2> QED BY <2>1, <2>3, <2>5 DEF HasSubmitted
<1> QED BY <1>1, ProvidersAlways, PTL

-----------------------------------------------------------------------------
\* The sample of events beside the jobs.
EventsInv == EventsAre(srv.events) /\ EventsAre(mock.events)

LEMMA AfterEvents ==
    ASSUME NEW store, HasLogs(store), NEW req
    PROVE  After(req, store).events = store.events
<1>1. CASE req.op = "delete"
  BY <1>1 DEF After, HasLogs
<1>2. CASE req.op = "import"
  BY <1>2 DEF After, HasLogs
<1>3. CASE req.op = "patch"
  BY <1>3 DEF After, HasLogs
<1>4. CASE req.op \notin {"delete", "import", "patch"}
  BY <1>4 DEF After, HasLogs
<1> QED BY <1>1, <1>2, <1>3, <1>4

\* A log that grows at its head and is pruned at its tail stays one of events.
LEMMA EventsMove ==
    ASSUME NEW log, EventsAre(log), log # <<>>
    PROVE  EventsAre(<<log[1]>> \o log) /\ EventsAre(Front(log)) /\ EventsAre(<<>>)
<1>1. PICK S : log \in Seq(S)
  BY DEF EventsAre
<1>2. Len(log) \in Nat /\ Len(log) >= 1 /\ DOMAIN log = 1..Len(log) /\ log[1] \in S
  BY <1>1
<1>3. PICK longer : longer = <<log[1]>> \o log
  OBVIOUS
<1>4. longer \in Seq(S) /\ \A i \in DOMAIN longer : \E j \in DOMAIN log : longer[i] = log[j]
  BY <1>1, <1>2, <1>3
<1>5. PICK shorter : shorter = Front(log)
  OBVIOUS
<1>6. shorter \in Seq(S) /\ \A i \in DOMAIN shorter : \E j \in DOMAIN log : shorter[i] = log[j]
  <2>1. shorter = SubSeq(log, 1, Len(log) - 1)
    BY <1>5 DEF Front
  <2> QED BY <1>1, <1>2, <2>1
<1>7. EventsAre(longer) /\ EventsAre(shorter)
  BY <1>4, <1>6 DEF EventsAre
<1>8. EventsAre(<<>>)
  <2>1. <<>> \in Seq(S) /\ DOMAIN <<>> = {}
    OBVIOUS
  <2> QED BY <2>1 DEF EventsAre
<1> QED BY <1>3, <1>5, <1>7, <1>8

LEMMA EventsKept ==
    ASSUME LogsInv, EventsInv, [Next]_vars
    PROVE  EventsInv'
<1>0. StoresStep
  BY StoresSteps
<1>1. EventsAre(srv'.events)
  <2>1. CASE srv' = srv
    BY <2>1 DEF EventsInv
  <2>2. ASSUME NEW s \in Slot, Serve(s) PROVE EventsAre(srv'.events)
    <3>1. \/ srv' = srv \/ srv' = After(calls[s].req, srv)
          \/ \E token : srv' = [srv EXCEPT !.tokens = @ \cup {token}, !.issued = @ \cup {token}]
          \/ srv' = [srv EXCEPT !.tokens = @ \ {calls[s].cookie}]
      BY <2>2 DEF Serve
    <3>2. srv'.events = srv.events
      BY <3>1, AfterEvents DEF LogsInv, HasLogs
    <3> QED BY <3>2 DEF EventsInv
  <2>3. ASSUME NEW c \in strays, ServeStray(c) PROVE EventsAre(srv'.events)
    <3>1. srv'.events = srv.events
      BY <2>3, AfterEvents DEF ServeStray, LogsInv, HasLogs
    <3> QED BY <3>1 DEF EventsInv
  <2>4. CASE LogMoves
    <3>1. PICK field, log :
            /\ field \in {"events", "jobs"} /\ log = srv[field] /\ log # <<>>
            /\ \/ srv' = [srv EXCEPT ![field] = <<log[1]>> \o log]
               \/ srv' = [srv EXCEPT ![field] = Front(log)]
               \/ srv' = [srv EXCEPT ![field] = <<>>]
      BY <2>4 DEF LogMoves, World
    <3>2. CASE field = "jobs"
      <4>1. srv'.events = srv.events
        BY <3>1, <3>2 DEF LogsInv, HasLogs
      <4> QED BY <4>1 DEF EventsInv
    <3>3. CASE field = "events"
      <4>1. EventsAre(log)
        BY <3>1, <3>3 DEF EventsInv
      <4>2. EventsAre(<<log[1]>> \o log) /\ EventsAre(Front(log)) /\ EventsAre(<<>>)
        BY <3>1, <4>1, EventsMove
      <4>3. \E new : EventsAre(new) /\ srv' = [srv EXCEPT ![field] = new]
        BY <3>1, <4>2
      <4> QED BY <3>3, <4>3 DEF LogsInv, HasLogs
    <3> QED BY <3>1, <3>2, <3>3
  <2>5. CASE PoolMoves
    <3>1. srv'.events = srv.events
      BY <2>5 DEF PoolMoves, World, LogsInv, HasLogs
    <3> QED BY <3>1 DEF EventsInv
  <2>6. CASE SessionEnds
    <3>1. srv'.events = srv.events
      BY <2>6 DEF SessionEnds, LogsInv, HasLogs
    <3> QED BY <3>1 DEF EventsInv
  <2> QED BY <1>0, <2>1, <2>2, <2>3, <2>4, <2>5, <2>6 DEF StoresStep
<1>2. EventsAre(mock'.events)
  <2>1. \A s \in Slot : FallBack(s) => mock' = mock \/ mock' = After(calls[s].req, mock)
    BY DEF FallBack
  <2>2. \A req : mock' = MockAfter(req) => mock' = mock \/ mock' = After(req, mock)
    BY DEF MockAfter
  <2>3. EventsAre(MockStore.events)
    BY StartsAssumption DEF EventsAre, ToSet
  <2>4. mock'.events = mock.events \/ mock' = MockStore
    BY <1>0, <2>1, <2>2, AfterEvents DEF StoresStep, LogsInv
  <2> QED BY <2>3, <2>4 DEF EventsInv
<1> QED BY <1>1, <1>2 DEF EventsInv

LEMMA SampleAnswers ==
    ASSUME LogsInv, EventsInv, NEW store \in {srv, mock}, NEW at, NEW req, req.op = "validation"
    PROVE  EventsAre(Answer(req, store, at).events)
<1>1. Answer(req, store, at) = PagedAnswer(req, store, at)
  BY DEF Answer
<1>2. PICK jobs, events : /\ IsSeq(jobs) /\ EventsAre(events)
                          /\ Answer(req, store, at) =
                                    Over([events |-> events], Slice(jobs, req.page, at))
  BY <1>1 DEF PagedAnswer, LogsInv, HasLogs, EventsInv
<1>3. PICK slice : slice = Slice(jobs, req.page, at)
  OBVIOUS
<1>4. Answer(req, store, at).events = events
  BY <1>2, <1>3 DEF Over
<1> QED BY <1>2, <1>4

\* The validation page with its call: a sample that was answered, or is shown, is one
\* of events.
SampleGood(v, c) ==
    /\ Answered(c) /\ c.reply.status = 200 => EventsAre(c.reply.events)
    /\ v.data.status = 200 => EventsAre(v.data.events)
SampleInv == At("validation") => SampleGood(view, calls["read"])

LEMMA SampleAsked ==
    ASSUME LogsInv, EventsInv, NEW number, NEW c, c = Calling([op |-> "validation", page |-> number])
    PROVE  Answered(c) /\ c.reply.status = 200 => EventsAre(c.reply.events)
<1>1. PICK req : req = [op |-> "validation", page |-> number]
  OBVIOUS
<1>2. CASE Live
  BY <1>2 DEF Calling, Fetching, Answered
<1>3. CASE ~Live
  <2>1. c.reply = Answer(req, mock, "mock") /\ req.op = "validation"
    BY <1>1, <1>3 DEF Calling, Delayed
  <2> QED BY <2>1, SampleAnswers
<1> QED BY <1>2, <1>3

LEMMA SampleKept ==
    ASSUME Frame, ListInv, EventsInv, SampleInv, [Next]_vars
    PROVE  SampleInv'
<1>0. LogsInv' /\ Frame' /\ env' = env /\ LogsInv
  BY LogsKept, PageSteps DEF ListInv
<1> SUFFICES ASSUME view'.page = "validation" PROVE SampleGood(view', calls'["read"])
  <2>1. SampleGood(view', calls'["read"]) => SampleGood(view, calls["read"])'
    OBVIOUS
  <2> QED BY <2>1 DEF SampleInv, At
<1>a. /\ \/ Unmoved \/ Mounted \/ Wired
         \/ ListPagesNext /\ view'.page = view.page
  BY PageSteps, ListOpIs DEF At, OnLogin, Tick, Timed
<1>b. "read" \in PageSlots /\ "read" \in Slot
  BY SlotsAre DEF PageSlots, AppSlots
<1>c. PICK v, c : v = view /\ c = calls["read"]
  OBVIOUS
<1>d. v.page = view'.page => SampleGood(v, c) /\ ListGood(v, c) /\ OnListPage
  BY <1>c, ListOpIs DEF SampleInv, At, ListInv, OnListPage
<1>o. ListOp["validation"] = "validation" /\ "validation" \in DOMAIN ListOp
  BY ListOpIs
<1>1. CASE Unmoved
  BY <1>1, <1>b, <1>c, <1>d DEF Unmoved
<1>2. CASE Mounted
  <2>2. view' = ListFirst("validation") /\ Calls("validation") = ListCalls("validation")
    BY <1>2, PagesAre, ListOpIs DEF Mounted
  <2>r. calls'["read"] = Opening(ListCalls("validation"))["read"]
    BY <1>2, <1>b, <2>2 DEF Mounted
  <2>3. calls'["read"] = Calling([op |-> "validation", page |-> 1])
    BY <1>b, <1>o, <2>r DEF Opening, ListCalls
  <2>4. view'.data = NoReply
    BY <2>2 DEF ListFirst
  <2>5. NoReply.status # 200
    BY DEF NoReply
  <2>6. PICK d : d = calls'["read"] /\ (Answered(d) /\ d.reply.status = 200 => EventsAre(d.reply.events))
    BY <1>0, <2>3, SampleAsked
  <2> QED BY <2>4, <2>5, <2>6 DEF SampleGood
<1>3. CASE Wired
  <2>1. view' = v /\ SampleGood(v, c) /\ ListGood(v, c) /\ v.page = "validation"
    BY <1>3, <1>c, <1>d DEF Wired
  <2>2. PICK d : d = calls'["read"] /\ WireStep(c, d)
    BY <1>3, <1>b, <1>c DEF Wired
  <2>3. CASE c = d
    BY <2>1, <2>2, <2>3
  <2>4. CASE Served(c, d)
    <3>1. c.phase = "sent" /\ d.req = c.req /\ c.req.op = "validation"
      BY <1>o, <2>1, <2>4 DEF Served, Alike, ListGood
    <3>2. \/ d.reply = [status |-> 401]
          \/ c.req.op \in env.missing /\ d.reply = [status |-> 404]
          \/ d.reply = Answer(c.req, srv, "srv")
      BY <2>4, <3>1 DEF Served, Open
    <3>3. EventsAre(Answer(c.req, srv, "srv").events)
      BY <1>0, <3>1, SampleAnswers
    <3>4. d.reply.status = 200 => EventsAre(d.reply.events)
      BY <3>2, <3>3
    <3> QED BY <2>1, <2>2, <3>4 DEF SampleGood
  <2>5. CASE ReadOn(c, d)
    <3>1. c.phase = "replied" /\ d.reply = c.reply
      BY <2>5 DEF ReadOn, Alike
    <3> QED BY <2>1, <2>2, <3>1 DEF SampleGood, Answered
  <2>6. CASE FellBack(c, d)
    BY <1>o, <2>1, <2>6 DEF FellBack, Fallback, ListGood
  <2> QED BY <2>2, <2>3, <2>4, <2>5, <2>6 DEF WireStep
<1>4. CASE LogsLoad \/ ValidationLoad
  <2>1. PICK r \in Results("read") :
            IF r.status = 200 /\ Blank(r, view.number)
            THEN /\ Settle("read", r, [read |-> ListCall(view.number - 1)])
                 /\ view' = Reloading(view, view.number - 1)
            ELSE Settle("read", r, Ended("read")) /\ view' = ListSettled(r)
    BY <1>4 DEF LogsLoad, ValidationLoad
  <2>2. v.page = view'.page /\ c.phase # "free"
    BY <1>c, <2>1, ListViews DEF Settle, Busy, Frame
  <2>3. SampleGood(v, c) /\ ListGood(v, c) /\ v.page = "validation"
    BY <1>d, <2>2
  <2>4. c.req.op = "validation"
    BY <1>o, <2>2, <2>3 DEF ListGood
  <2>5. r = NoReply \/ (Answered(c) /\ r = c.reply)
    BY <1>c, <2>1, <2>4, ResultsAre DEF Answered
  <2>6. r.status = 200 => EventsAre(r.events)
    BY <2>3, <2>5 DEF NoReply, SampleGood
  <2>7. CASE r.status = 200 /\ Blank(r, v.number)
    <3>1. ListShape(v) /\ view' = Reloading(v, v.number - 1)
      BY <1>c, <2>1, <2>3, <2>7 DEF ListGood
    <3>2. view'.data = v.data
      BY <1>c, <3>1, ReloadingIs
    <3>4. calls'["read"] = ListCall(v.number - 1)
      BY <1>b, <1>c, <2>1, <2>7 DEF Settle, Replace, Over
    <3>5. calls'["read"] = Calling([op |-> "validation", page |-> v.number - 1])
      BY <1>c, <1>o, <2>3, <3>4 DEF ListCall
    <3>6. PICK d : d = calls'["read"] /\ (Answered(d) /\ d.reply.status = 200 => EventsAre(d.reply.events))
      BY <1>0, <3>5, SampleAsked
    <3> QED BY <2>3, <3>2, <3>6 DEF SampleGood
  <2>8. CASE ~(r.status = 200 /\ Blank(r, v.number))
    <3>1. calls'["read"].phase = "free" /\ view' = ListSettled(r)
      BY <1>b, <1>c, <2>1, <2>8 DEF Settle, Replace, Over, Ended, Free
    <3>2. PICK d, w : d = calls'["read"] /\ w = view' /\ d.phase = "free"
      BY <3>1
    <3>s. v = [page |-> v.page, number |-> v.number, data |-> v.data, error |-> v.error, loading |-> v.loading]
      BY <2>3 DEF ListGood, ListShape
    <3>3. w.data.status = 200 => EventsAre(w.data.events)
      <4>1. CASE r.status = 200
        <5>1. w = [v EXCEPT !.data = r, !.loading = FALSE]
          BY <1>c, <3>1, <3>2, <4>1 DEF ListSettled
        <5>2. w.data = r
          BY <3>s, <5>1
        <5> QED BY <2>6, <5>2
      <4>2. CASE r.status # 200
        <5>1. w = [v EXCEPT !.error = TRUE, !.loading = FALSE]
          BY <1>c, <3>1, <3>2, <4>2 DEF ListSettled
        <5>2. w.data = v.data
          BY <3>s, <5>1
        <5> QED BY <2>3, <5>2 DEF SampleGood
      <4> QED BY <4>1, <4>2
    <3> QED BY <3>2, <3>3 DEF SampleGood, Answered
  <2> QED BY <2>7, <2>8
<1>5. ASSUME NEW number, TurnListPage(number) PROVE SampleGood(view', calls'["read"])
  <2>1. view' = Reloading(view, number) /\ Call("read", [op |-> ListOp[view.page], page |-> number])
    BY <1>5 DEF TurnListPage
  <2>2. v.page = view'.page
    BY <1>c, <2>1, ListViews DEF Frame
  <2>3. SampleGood(v, c) /\ ListGood(v, c) /\ v.page = "validation"
    BY <1>d, <2>2
  <2>s. ListShape(view) /\ view' = Reloading(view, number)
    BY <1>c, <2>1, <2>3 DEF ListGood
  <2>4. view'.data = v.data
    BY <1>c, <2>s, ReloadingIs
  <2>6. calls'["read"] = Calling([op |-> "validation", page |-> number])
    BY <1>b, <1>c, <1>o, <2>1, <2>3 DEF Call, Frame, CallsWhole
  <2>7. PICK d : d = calls'["read"] /\ (Answered(d) /\ d.reply.status = 200 => EventsAre(d.reply.events))
    BY <1>0, <2>6, SampleAsked
  <2> QED BY <2>3, <2>4, <2>7 DEF SampleGood
<1>6. CASE LogMoves
  BY <1>6, <1>c, <1>d DEF LogMoves, World
<1>7. ASSUME view.page = "providers", view'.page = view.page PROVE FALSE
  BY <1>7
<1> QED BY <1>a, <1>1, <1>2, <1>3, <1>4, <1>5, <1>6, <1>7
        DEF ListPagesNext, ProvidersLoad, SubmitImport, ImportSettles, ImportedLoad, TurnProviders, At

LEMMA SampleAlways == Spec => [](ListInv /\ SampleInv)
<1> DEFINE Inv == Frame /\ ListInv /\ EventsInv /\ SampleInv
<1>1. Init => EventsInv /\ SampleInv
  <2> SUFFICES ASSUME Init PROVE EventsInv /\ SampleInv
    OBVIOUS
  <2>1. LogsInv
    BY StartsAssumption DEF Init, LogsInv, HasLogs, IsSeq
  <2>2. EventsInv
    <3>1. PICK start \in Starts : srv = start.store /\ mock = MockStore
      BY DEF Init
    <3>2. \A store \in {MockStore, start.store} : EventsAre(store.events)
      BY StartsAssumption DEF EventsAre, ToSet
    <3> QED BY <3>1, <3>2 DEF EventsInv
  <2>3. ASSUME view.page = "validation" PROVE SampleGood(view, calls["read"])
    <3>0. "read" \in PageSlots /\ ListOp["validation"] = "validation" /\ "validation" \in DOMAIN ListOp
      BY SlotsAre, ListOpIs DEF PageSlots, AppSlots
    <3>1. view = First("validation") /\ calls["read"] = Opening(Calls("validation"))["read"]
      BY <2>3, <3>0, InitFrame
    <3>r. view = ListFirst("validation") /\ calls["read"] = Opening(ListCalls("validation"))["read"]
      BY <3>0, <3>1, PagesAre
    <3>2. calls["read"] = Calling([op |-> "validation", page |-> 1])
      BY <3>0, <3>r DEF Opening, ListCalls
    <3>3. view.data = NoReply /\ NoReply.status # 200
      BY <3>r DEF ListFirst, NoReply
    <3>4. PICK d : d = calls["read"] /\ (Answered(d) /\ d.reply.status = 200 => EventsAre(d.reply.events))
      BY <2>1, <2>2, <3>2, SampleAsked
    <3> QED BY <3>3, <3>4 DEF SampleGood
  <2> QED BY <2>2, <2>3 DEF SampleInv, At
<1>2. Frame /\ ListInv /\ EventsInv /\ SampleInv /\ [Next]_vars => (EventsInv /\ SampleInv)'
  <2> SUFFICES ASSUME Frame, ListInv, EventsInv, SampleInv, [Next]_vars PROVE (EventsInv /\ SampleInv)'
    OBVIOUS
  <2>1. LogsInv
    BY DEF ListInv
  <2> QED BY <2>1, EventsKept, SampleKept
<1> QED BY <1>1, <1>2, ListAlways, PTL DEF Spec, Safe

\* DerivedAddsUp: the list of providers on the screen has every source of its rows once,
\* with all its rows and none of another's, and the error types beside the jobs are those
\* of the warnings and errors of the sample, each once (deriveProviderSummaries and
\* countErrorTypes of the page).
THEOREM DerivedListsAddUp == Spec => []DerivedAddsUp
<1>1. ProvidersInv => ProvidersAddUp
  <2> SUFFICES ASSUME ProvidersNow, At("providers"), view.items # NoReply
               PROVE  ProvidersAddUp
    BY DEF ProvidersInv, ProvidersAddUp
  <2>1. PICK v, r : v = view /\ r = v.items
    OBVIOUS
  <2>2. OfRows(r)
    BY <2>1 DEF ProvidersNow, ProvidersGood, Turns
  <2>3. ProvidersFit(r.list, r.rows)
    BY <2>2, ProvidersAre DEF OfRows
  <2>4. Total(r.list, LAMBDA s : s.fetched) = Len(r.rows)
    BY <2>2, <2>3, ProvidersTotal DEF OfRows
  <2>5. /\ {r.list[i].name : i \in DOMAIN r.list} = {Source(p) : p \in ToSet(r.rows)}
        /\ \A i \in DOMAIN r.list :
            /\ ProviderFits(r.list[i], r.rows)
            /\ i > 1 => r.list[i].valid <= r.list[i - 1].valid
    BY <2>3 DEF ProvidersFit
  <2>6. ASSUME NEW i \in DOMAIN r.list
        PROVE  LET own == {p \in ToSet(r.rows) : Source(p) = r.list[i].name}
               IN  /\ r.list[i].fetched = Cardinality(own)
                   /\ r.list[i].error # Null => \E p \in own : RowOf[p].error = r.list[i].error
                   /\ r.list[i].fetchedAt # Null => \E p \in own : FetchedAt(p) = r.list[i].fetchedAt
                   /\ \A p \in own : FetchedAt(p) # Null => r.list[i].fetchedAt >= FetchedAt(p)
                   /\ i > 1 => r.list[i].valid <= r.list[i - 1].valid
    BY <2>5 DEF ProviderFits, OwnRows
  <2>7. r = view.items
    BY <2>1
  <2> QED BY <2>4, <2>5, <2>6, <2>7, ZenonT(60) DEF ProvidersAddUp
<1>2. ListInv /\ SampleInv => ErrorsAddUp
  <2> SUFFICES ASSUME ListInv, SampleInv, At("validation"), ~view.loading, ~view.error
               PROVE  ErrorsAreCounted(view.data.events)
    BY DEF ErrorsAddUp
  <2>1. OnListPage
    BY ListOpIs DEF OnListPage, At
  <2>2. view.data.status = 200
    BY <2>1 DEF ListInv, ListGood
  <2>3. EventsAre(view.data.events)
    BY <2>2 DEF SampleInv, SampleGood
  <2> QED BY <2>3, ErrorsCount
<1> QED BY <1>1, <1>2, ProvidersAlways, SampleAlways, PTL DEF DerivedAddsUp

-----------------------------------------------------------------------------
\* The summary on the geo page, answered or derived, is one of the rows behind it.
GeoTrue(geo, rows) == rows \in Seq(Proxy) /\ IsInjective(rows) /\ GeoFits(geo, rows)
GeoAnswered(c) == Answered(c) /\ c.reply.status = 200 => GeoTrue(c.reply.geo, c.reply.rows)
GeoSums(v, c) == GeoAnswered(c) /\ (v.data # Null => GeoTrue(v.data, v.seen))
GeoSumsInv == At("geo") => GeoSums(view, calls["read"])

LEMMA GeoAnswers ==
    ASSUME NEW req, req.op \in {"geo", "geoUniverse"}, NEW store, StoreGood(store), NEW at
    PROVE  GeoTrue(Answer(req, store, at).geo, Answer(req, store, at).rows)
<1>1. PICK a, rows : /\ a = Answer(req, store, at)
                     /\ rows = IF req.op = "geo" THEN store.proxies ELSE Universe(store, at)
  OBVIOUS
<1>2. rows \in Seq(Proxy) /\ IsInjective(rows)
  BY <1>1, UniverseIs DEF StoreGood, Pictures
<1>3. \A covered : GeoFits(normalizeGeoSummary(deriveGeoSummary(rows), covered), rows)
  BY <1>2, GeoIs
<1>4. deriveGeoSummary(rows) = normalizeGeoSummary(deriveGeoSummary(rows), TRUE)
  BY DEF normalizeGeoSummary
<1>5. PICK geo : a = [status |-> 200, rows |-> rows, geo |-> geo] /\ GeoFits(geo, rows)
  <2>1. CASE req.op = "geo"
    <3>1. a = [status |-> 200, rows |-> rows,
               geo |-> normalizeGeoSummary(deriveGeoSummary(rows), at = "mock" \/ env.covered)]
      BY <1>1, <2>1 DEF Answer, SummaryAnswer
    <3> QED BY <1>3, <3>1
  <2>2. CASE req.op = "geoUniverse"
    <3>1. a = [status |-> 200, rows |-> rows, geo |-> deriveGeoSummary(rows)]
      BY <1>1, <2>2 DEF Answer, SummaryAnswer
    <3>2. GeoFits(deriveGeoSummary(rows), rows)
      BY <1>3, <1>4
    <3> QED BY <3>1, <3>2
  <2> QED BY <2>1, <2>2
<1>6. a.geo = geo /\ a.rows = rows
  BY <1>5
<1> QED BY <1>1, <1>2, <1>5, <1>6 DEF GeoTrue

LEMMA GeoAsked == ASSUME StoresInv PROVE GeoAnswered(Calling([op |-> "geo"]))
<1>1. PICK req, c : req = [op |-> "geo"] /\ c = Calling(req)
  OBVIOUS
<1>2. CASE Live
  BY <1>1, <1>2 DEF Calling, Fetching, GeoAnswered, Answered
<1>3. CASE ~Live
  <2>1. c.reply = Answer(req, mock, "mock") /\ req.op = "geo"
    BY <1>1, <1>3 DEF Calling, Delayed
  <2>2. GeoTrue(Answer(req, mock, "mock").geo, Answer(req, mock, "mock").rows)
    BY <1>3, <2>1, GeoAnswers DEF StoresInv
  <2> QED BY <1>1, <2>1, <2>2 DEF GeoAnswered
<1> QED BY <1>2, <1>3

LEMMA GeoSumsKept ==
    ASSUME Frame, GeoInv, StoresInv, GeoSumsInv, [Next]_vars
    PROVE  GeoSumsInv'
<1> SUFFICES ASSUME At("geo")' PROVE GeoSums(view', calls'["read"])
  <2>1. GeoSums(view', calls'["read"]) => GeoSums(view, calls["read"])'
    OBVIOUS
  <2> QED BY <2>1 DEF GeoSumsInv
<1>a. /\ \/ Unmoved \/ Mounted \/ Wired
         \/ Tick /\ At("geo")
         \/ GeoNext /\ At("geo")
      /\ CallsWhole'
  BY PageSteps DEF At, OnLogin, Frame
<1>b. "read" \in PageSlots /\ "read" \in Slot
  BY SlotsAre DEF PageSlots, AppSlots
<1>c. PICK v, c : v = view /\ c = calls["read"]
  OBVIOUS
<1>d. v.page = view'.page => GeoGood(v, c) /\ GeoSums(v, c)
  BY <1>c DEF GeoSumsInv, GeoInv, At
<1>1. CASE Unmoved
  BY <1>1, <1>b, <1>c, <1>d DEF Unmoved
<1>2. CASE Mounted
  <2>1. view' = GeoFirst /\ calls'["read"] = Calling([op |-> "geo"])
    BY <1>2, <1>b, PagesAre DEF Mounted, At, Opening, GeoCalls
  <2>2. view'.data = Null
    BY <2>1 DEF GeoFirst
  <2> QED BY <2>1, <2>2, GeoAsked DEF GeoSums
<1>3. CASE Wired
  <2>1. view' = v /\ GeoSums(v, c) /\ GeoGood(v, c)
    BY <1>3, <1>c, <1>d DEF Wired
  <2>2. PICK d : d = calls'["read"] /\ WireStep(c, d)
    BY <1>3, <1>b, <1>c DEF Wired
  <2>3. CASE c = d
    BY <2>1, <2>2, <2>3
  <2>4. CASE Served(c, d)
    <3>1. c.phase = "sent" /\ d.req = c.req /\ c.req.op \in {"geo", "geoUniverse"}
      BY <2>1, <2>4 DEF Served, Alike, GeoGood
    <3>2. \/ d.reply = [status |-> 401]
          \/ c.req.op \in env.missing /\ d.reply = [status |-> 404]
          \/ d.reply = Answer(c.req, srv, "srv")
      BY <2>4, <3>1 DEF Served, Open
    <3>3. GeoTrue(Answer(c.req, srv, "srv").geo, Answer(c.req, srv, "srv").rows)
      BY <3>1, GeoAnswers DEF StoresInv
    <3>4. GeoAnswered(d)
      BY <3>2, <3>3 DEF GeoAnswered
    <3> QED BY <2>1, <2>2, <3>4 DEF GeoSums
  <2>5. CASE ReadOn(c, d)
    <3>1. c.phase = "replied" /\ d.reply = c.reply
      BY <2>5 DEF ReadOn, Alike
    <3> QED BY <2>1, <2>2, <3>1 DEF GeoSums, GeoAnswered, Answered
  <2>6. CASE FellBack(c, d)
    <3>1. c.req.op = "geo"
      BY <2>1, <2>6 DEF FellBack, Fallback, GeoGood
    <3>2. d.phase = "sent"
      BY <2>6, <3>1 DEF FellBack, Fetching
    <3> QED BY <2>1, <2>2, <3>2 DEF GeoSums, GeoAnswered, Answered
  <2> QED BY <2>2, <2>3, <2>4, <2>5, <2>6 DEF WireStep
<1>4. CASE Tick /\ At("geo")
  <2>1. GeoSums(v, c) /\ GeoShape(v)
    BY <1>4, <1>c DEF GeoSumsInv, GeoInv, GeoGood
  <2>2. view' = [v EXCEPT !.guard = IF @ < GuardTicks THEN @ + 1 ELSE @]
    BY <1>4, <1>c DEF Tick, At
  <2>3. view'.data = v.data /\ view'.seen = v.seen
    BY <2>1, <2>2 DEF GeoShape
  <2>4. calls'["read"] = Aged(c)
    BY <1>4, <1>b, <1>c DEF Tick
  <2>5. PICK d : d = calls'["read"] /\ d.phase = c.phase /\ d.reply = c.reply
    BY <1>b, <1>c, <2>4 DEF Aged, Frame, CallsWhole, IsCall
  <2> QED BY <2>1, <2>3, <2>5 DEF GeoSums, GeoAnswered, Answered
<1>5. CASE GeoLoads
  <2>1. GeoSums(v, c) /\ GeoGood(v, c)
    BY <1>5, <1>c DEF GeoSumsInv, GeoInv, GeoLoads
  <2>2. PICK r \in Results("read") : Settle("read", r, Ended("read")) /\ view' = GeoSettled(v, r)
    BY <1>5, <1>c DEF GeoLoads
  <2>3. calls'["read"].phase = "free" /\ c.phase # "free"
    BY <1>b, <1>c, <2>2 DEF Settle, Replace, Over, Ended, Busy, Free
  <2>4. GeoAnswered(calls'["read"])
    BY <2>3 DEF GeoAnswered, Answered
  <2>5. CASE r.status = 200
    <3>1. c.req.op # "detail"
      BY <2>1, <2>3 DEF GeoGood
    <3>2. r = c.reply /\ Answered(c)
      BY <1>c, <2>2, <2>5, <3>1, ResultsAre DEF Answered, NoReply
    <3>3. \E derived : view' = [v EXCEPT !.data = r.geo, !.seen = r.rows, !.derived = derived,
                                         !.loading = FALSE, !.guard = GeoCleared]
      BY <2>2, <2>5 DEF GeoSettled
    <3>4. view'.data = r.geo /\ view'.seen = r.rows
      BY <2>1, <3>3 DEF GeoGood, GeoShape
    <3> QED BY <2>1, <2>4, <2>5, <3>2, <3>4 DEF GeoSums, GeoAnswered
  <2>6. CASE r.status # 200
    <3>1. view' = [v EXCEPT !.error = TRUE, !.loading = FALSE, !.guard = GeoCleared]
      BY <2>2, <2>6 DEF GeoSettled
    <3>2. view'.data = v.data /\ view'.seen = v.seen
      BY <2>1, <3>1 DEF GeoGood, GeoShape
    <3> QED BY <2>1, <2>4, <3>2 DEF GeoSums
  <2> QED BY <2>5, <2>6
<1>6. CASE GeoGuardFires
  <2>1. GeoSums(v, c) /\ GeoShape(v)
    BY <1>6, <1>c DEF GeoSumsInv, GeoInv, GeoGood, GeoGuardFires
  <2>2. view' = [v EXCEPT !.guard = GeoCleared, !.error = TRUE, !.loading = FALSE] /\ calls' = calls
    BY <1>6, <1>c DEF GeoGuardFires, apiVars
  <2>3. view'.data = v.data /\ view'.seen = v.seen
    BY <2>1, <2>2 DEF GeoShape
  <2> QED BY <1>c, <2>1, <2>2, <2>3 DEF GeoSums
<1>7. ASSUME NEW page, TurnCountries(page) \/ TurnAsns(page)
      PROVE  GeoSums(view', calls'["read"])
  <2>1. GeoSums(v, c) /\ GeoShape(v) /\ calls' = calls
    BY <1>7, <1>c DEF GeoSumsInv, GeoInv, GeoGood, TurnCountries, TurnAsns, apiVars
  <2>2. view' = [v EXCEPT !.countryPage = page] \/ view' = [v EXCEPT !.asnPage = page]
    BY <1>7, <1>c DEF TurnCountries, TurnAsns
  <2>3. view'.data = v.data /\ view'.seen = v.seen
    BY <2>1, <2>2 DEF GeoShape
  <2> QED BY <1>c, <2>1, <2>3 DEF GeoSums
<1> QED BY <1>a, <1>1, <1>2, <1>3, <1>4, <1>5, <1>6, <1>7 DEF GeoNext

LEMMA GeoSumsAlways == Spec => []GeoSumsInv
<1> DEFINE Inv == Frame /\ GeoInv /\ StoresInv /\ GeoSumsInv
<1>1. Init => StoresInv /\ GeoSumsInv
  <2> SUFFICES ASSUME Init, At("geo") PROVE GeoSums(view, calls["read"])
    BY StoresOpen DEF GeoSumsInv
  <2>0. "read" \in PageSlots
    BY SlotsAre DEF PageSlots, AppSlots
  <2>1. view = First("geo") /\ calls["read"] = Opening(Calls("geo"))["read"]
    BY <2>0, InitFrame DEF At
  <2>2. view = GeoFirst /\ calls["read"] = Calling([op |-> "geo"])
    BY <2>0, <2>1, PagesAre DEF Opening, GeoCalls
  <2>3. view.data = Null
    BY <2>2 DEF GeoFirst
  <2> QED BY <2>2, <2>3, StoresOpen, GeoAsked DEF GeoSums
<1>2. Frame /\ GeoInv /\ StoresInv /\ GeoSumsInv /\ [Next]_vars => (StoresInv /\ GeoSumsInv)'
  BY StoresKept, GeoSumsKept
<1> QED BY <1>1, <1>2, GeoAlways, PTL DEF Spec, Safe

\* What AgreesBy says of the countries and the ASNs of a summary, from what it says of
\* one entry and the rows that are its own.
EntryOf(list, i, own) ==
    LET latencies == {Latency(p) : p \in own} \ {Null}
    IN  /\ list[i].total = Cardinality(own) /\ own # {}
        /\ list[i].elite = Cardinality({p \in own : Status(p) = "elite"})
        /\ list[i].latency = Null <=> latencies = {}
        /\ latencies # {} => /\ list[i].latency <= Max(latencies)
                             /\ list[i].latency >= Min(latencies)
        /\ i > 1 => list[i].total <= list[i - 1].total

LEMMA KeysAgree ==
    ASSUME NEW rows \in Seq(Proxy), NEW list
    PROVE  /\ AgreesBy(list, rows, CountryOf) => Agrees(list, rows, Country)
           /\ AgreesBy(list, rows, AsnOf) => Agrees(list, rows, Asn)
<1>1. \A p \in ToSet(rows) : CountryOf[p] = Country(p) /\ AsnOf[p] = Asn(p)
  BY DEF ToSet, CountryOf, AsnOf
<1>2. \A name : /\ {p \in ToSet(rows) : CountryOf[p] = name} = {p \in ToSet(rows) : Country(p) = name}
                /\ {p \in ToSet(rows) : AsnOf[p] = name} = {p \in ToSet(rows) : Asn(p) = name}
  BY <1>1
<1>3. AgreesBy(list, rows, CountryOf) => Agrees(list, rows, Country)
  <2> SUFFICES ASSUME AgreesBy(list, rows, CountryOf) PROVE Agrees(list, rows, Country)
    OBVIOUS
  <2>1. ASSUME NEW p \in ToSet(rows), Country(p) # Null
        PROVE  Cardinality({i \in DOMAIN list : list[i].name = Country(p)}) = 1
    <3>1. PICK k : k = Country(p) /\ k = CountryOf[p]
      BY <1>1
    <3>2. Cardinality({i \in DOMAIN list : list[i].name = CountryOf[p]}) = 1
      BY <2>1, <3>1, Zenon DEF AgreesBy
    <3>3. Cardinality({i \in DOMAIN list : list[i].name = k}) = 1
      BY <3>1, <3>2
    <3> QED BY <3>1, <3>3
  <2>2. \A i \in DOMAIN list : EntryOf(list, i, {p \in ToSet(rows) : CountryOf[p] = list[i].name})
    BY Zenon DEF AgreesBy, EntryOf
  <2>3. \A i \in DOMAIN list : EntryOf(list, i, {p \in ToSet(rows) : Country(p) = list[i].name})
    BY <1>2, <2>2
  <2> QED BY <2>1, <2>3, Zenon DEF Agrees, EntryOf
<1>4. AgreesBy(list, rows, AsnOf) => Agrees(list, rows, Asn)
  <2> SUFFICES ASSUME AgreesBy(list, rows, AsnOf) PROVE Agrees(list, rows, Asn)
    OBVIOUS
  <2>1. ASSUME NEW p \in ToSet(rows), Asn(p) # Null
        PROVE  Cardinality({i \in DOMAIN list : list[i].name = Asn(p)}) = 1
    <3>1. PICK k : k = Asn(p) /\ k = AsnOf[p]
      BY <1>1
    <3>2. Cardinality({i \in DOMAIN list : list[i].name = AsnOf[p]}) = 1
      BY <2>1, <3>1, Zenon DEF AgreesBy
    <3>3. Cardinality({i \in DOMAIN list : list[i].name = k}) = 1
      BY <3>1, <3>2
    <3> QED BY <3>1, <3>3
  <2>2. \A i \in DOMAIN list : EntryOf(list, i, {p \in ToSet(rows) : AsnOf[p] = list[i].name})
    BY Zenon DEF AgreesBy, EntryOf
  <2>3. \A i \in DOMAIN list : EntryOf(list, i, {p \in ToSet(rows) : Asn(p) = list[i].name})
    BY <1>2, <2>2
  <2> QED BY <2>1, <2>3, Zenon DEF Agrees, EntryOf
<1> QED BY <1>3, <1>4

\* GeoAddsUp: what the geo page shows adds up and agrees with the rows it was made from,
\* whichever of the two calls brought it (deriveGeoSummary, normalizeGeoSummary and
\* buildLatencyGroups): each country and ASN once with all its rows, the largest first,
\* a mean between its latencies, no more in the countries than are tagged, and the
\* fastest and the slowest groups at the heads of their tables.
THEOREM GeoSummaryAddsUp == Spec => []GeoAddsUp
<1>1. GeoSumsInv => GeoAddsUp
  <2> SUFFICES ASSUME GeoSumsInv, At("geo"), view.data # Null PROVE GeoAddsUp
    BY DEF GeoAddsUp
  <2>1. PICK data, seen : data = view.data /\ seen = view.seen
    OBVIOUS
  <2>2. seen \in Seq(Proxy) /\ GeoFits(data, seen)
    BY <2>1 DEF GeoSumsInv, GeoSums, GeoTrue
  <2>3. AgreesBy(data.countries, seen, CountryOf) /\ AgreesBy(data.asns, seen, AsnOf)
    BY <2>2, SummariesAgree DEF GeoFits
  <2>4. Agrees(data.countries, seen, Country)
    BY <2>2, <2>3, KeysAgree
  <2>5. Agrees(data.asns, seen, Asn)
    BY <2>2, <2>3, KeysAgree
  <2>6. /\ data.coverage.total = data.coverage.tagged + data.coverage.unresolved
        /\ Total(data.countries, LAMBDA c : c.total) <= data.coverage.tagged
    BY <2>2, Zenon DEF GeoFits, Totals
  <2>7. PanelFits(Fastest(data), Slowest(data))
    BY <2>2, PanelIs
  <2>8. data = view.data /\ seen = view.seen
    BY <2>1
  <2> QED BY <2>4, <2>5, <2>6, <2>7, <2>8, ZenonT(60) DEF GeoAddsUp, PanelFits
<1> QED BY <1>1, GeoSumsAlways, PTL

-----------------------------------------------------------------------------
\* What a page may ask for next has to be there when it does: the numbers of the
\* list and of the dialog's, and the settings of the form.
Numbered(v, w) ==
    /\ v.number \in Nat \ {0}
    /\ w.phase # "free" => v.closure.number \in Nat \ {0}
NumbersInv == At("proxies") => Numbered(view, calls["write"])
FormInv == At("settings") => view.form = Null \/ view.form \in Setting

\* How the call in a slot goes on, and what becomes of the mock store.
Begins(c) ==
    c \in {Free, calls["read"]}
        \/ \E req : Asked(req) /\ c \in {Calling(req), Fetching(req, cookie)}
Goes(c, d) == c = d \/ Begins(d) \/ WireStep(c, d) \/ (d = Aged(c) /\ ~Overdue(c))
MockMoves == mock' = mock \/ mock' = MockStore \/ \E req : Asked(req) /\ mock' = After(req, mock)
Going == MockMoves /\ \A s \in Slot : Goes(calls[s], calls'[s])

LEMMA GoingNone == ASSUME UNCHANGED <<calls, mock>> PROVE Going
BY DEF Going, Goes, MockMoves

LEMMA GoingCall ==
    ASSUME CallsWhole, NEW s \in Slot, NEW req, Asked(req), Call(s, req)
    PROVE  Going
<1>1. calls'[s] = Calling(req) /\ \A t \in Slot \ {s} : calls'[t] = calls[t]
  BY CallElse
<1>2. MockMoves
  BY DEF Call, MockAfter, MockMoves
<1> QED BY <1>1, <1>2 DEF Going, Goes, Begins

LEMMA GoingReplace ==
    ASSUME CallsWhole, NEW news, \A t \in DOMAIN news : Begins(news[t]),
           calls' = Over(news, calls), mock' = mock \/ mock' = MockStore
    PROVE  Going
<1>1. \A t \in Slot : calls'[t] = IF t \in DOMAIN news THEN news[t] ELSE calls[t]
  BY DEF CallsWhole, Over
<1> QED BY <1>1 DEF Going, Goes, MockMoves

LEMMA GoingSettle ==
    ASSUME CallsWhole, NEW s, NEW r, NEW news, Settle(s, r, news),
           \A t \in DOMAIN news : Begins(news[t])
    PROVE  Going
BY GoingReplace DEF Settle, Replace

LEMMA GoingEnded ==
    ASSUME CallsWhole, NEW s, NEW r, Settle(s, r, Ended(s))
    PROVE  Going
<1>1. \A t \in DOMAIN Ended(s) : Begins(Ended(s)[t])
  BY DEF Ended, Begins
<1> QED BY <1>1, GoingSettle

LEMMA GoingRenewed ==
    ASSUME NEW v, v.number \in Nat \ {0}
    PROVE  \A t \in DOMAIN Renewed(v) : Begins(Renewed(v)[t])
<1>1. Asked(ListReq(v))
  BY ListReqIs DEF Asked
<1>2. \A t \in DOMAIN Renewed(v) : Renewed(v)[t] \in {Calling(ListReq(v)), calls["read"]}
  BY DEF Renewed, Over, NoCall
<1> QED BY <1>1, <1>2 DEF Begins

LEMMA GoingReload ==
    ASSUME CallsWhole, NEW v, v.number \in Nat \ {0}, Reload(v)
    PROVE  Going
<1>1. PICK news : news = Renewed(v)
  OBVIOUS
<1>2. calls' = Over(news, calls) /\ mock' = mock
  BY <1>1 DEF Reload, Replace
<1>3. \A t \in DOMAIN news : Begins(news[t])
  BY <1>1, GoingRenewed
<1> QED BY <1>2, <1>3, GoingReplace

\* A request that is neither for a list nor a save.
LEMMA AskedElse == ASSUME NEW req, req.op \notin {"list", "patch"} PROVE Asked(req)
BY DEF Asked

\* The calls of a page's first effects.
LEMMA AskedOpening ==
    ASSUME NEW page, NEW s \in PageSlots
    PROVE  \/ Opening(Calls(page))[s] = Free
           \/ \E req : Asked(req) /\ Opening(Calls(page))[s] = Calling(req)
<1>1. ASSUME NEW t \in DOMAIN Calls(page) PROVE Asked(Calls(page)[t])
  <2>1. CASE page = "overview"
    BY <1>1, <2>1, PagesAre DEF OverviewCalls, Asked
  <2>2. CASE page = "geo"
    BY <1>1, <2>2, PagesAre DEF GeoCalls, Asked
  <2>3. CASE page \in DOMAIN ListOp
    <3>1. Calls(page) = ListCalls(page)
      BY <2>3, PagesAre, ListOpIs
    <3>2. DOMAIN ListCalls(page) = {"read"} /\ ListCalls(page)["read"].op = ListOp[page]
      BY DEF ListCalls
    <3> QED BY <1>1, <2>3, <3>1, <3>2, ListOpIs DEF Asked
  <2>4. CASE page = "providers"
    BY <1>1, <2>4, PagesAre DEF ProvidersCalls, Asked
  <2>5. CASE page = "settings"
    BY <1>1, <2>5, PagesAre DEF SettingsCalls, Asked
  <2>6. CASE page = "proxies"
    <3>1. /\ Calls(page) = ProxiesCalls /\ DOMAIN ProxiesCalls = {"options", "read"}
          /\ ProxiesCalls["options"] = [op |-> "options"]
          /\ ProxiesCalls["read"] = ListReq(ProxiesFirst)
      BY <2>6, PagesAre DEF ProxiesCalls
    <3>2. ProxiesFirst.number = 1
      BY DEF ProxiesFirst
    <3>3. Asked(ListReq(ProxiesFirst))
      BY <3>2, ListReqIs DEF Asked
    <3>4. Asked([op |-> "options"])
      BY DEF Asked
    <3> QED BY <1>1, <3>1, <3>3, <3>4
  <2>7. CASE page \notin {"overview", "geo", "providers", "settings", "proxies"} \cup DOMAIN ListOp
    BY <1>1, <2>7 DEF Calls, NoCall
  <2> QED BY <2>1, <2>2, <2>3, <2>4, <2>5, <2>6, <2>7
<1>2. Opening(Calls(page))[s] = IF s \in DOMAIN Calls(page) THEN Calling(Calls(page)[s]) ELSE Free
  BY DEF Opening
<1> QED BY <1>1, <1>2

LEMMA GoingOpening ==
    ASSUME NEW page, NEW s \in PageSlots
    PROVE  Begins(Opening(Calls(page))[s])
BY AskedOpening DEF Begins

LEMMA GoingLists ==
    ASSUME Frame, OverviewNext \/ GeoNext \/ ListPagesNext
    PROVE  Going
<1>c. CallsWhole /\ {"read", "write"} \subseteq Slot
  BY SlotsAre DEF Frame
<1>n. UNCHANGED apiVars => Going
  BY GoingNone DEF apiVars
<1>e. \A s, r : Settle(s, r, Ended(s)) => Going
  BY <1>c, GoingEnded
<1>k. ASSUME NEW s \in {"read", "write"}, NEW req, req.op \notin {"list", "patch"}, Call(s, req)
      PROVE  Going
  BY <1>c, <1>k, AskedElse, GoingCall
<1>s. ASSUME NEW r, NEW s, NEW t, NEW req, NEW news, Settle(s, r, news), DOMAIN news = {t},
             news[t] = Calling(req), req.op \notin {"list", "patch"}
      PROVE  Going
  <2>1. \A x \in DOMAIN news : Begins(news[x])
    BY <1>s, AskedElse DEF Begins
  <2> QED BY <1>c, <1>s, <2>1, GoingSettle
<1>1. CASE OverviewNext
  <2>1. CASE OverviewLoads
    BY <2>1, <1>e DEF OverviewLoads
  <2>2. CASE OverviewGuardFires
    BY <2>2, <1>n DEF OverviewGuardFires
  <2>3. CASE OverviewPolls
    BY <2>3, <1>n, <1>k DEF OverviewPolls
  <2> QED BY <1>1, <2>1, <2>2, <2>3 DEF OverviewNext
<1>2. CASE GeoNext
  BY <1>2, <1>e, <1>n DEF GeoNext, GeoLoads, GeoGuardFires, TurnCountries, TurnAsns
<1>3. CASE ListPagesNext
  <2>1. CASE LogsLoad \/ ValidationLoad
    <3>1. PICK r, news : /\ Settle("read", r, news)
                         /\ \/ news = [read |-> ListCall(view.number - 1)]
                            \/ news = Ended("read")
      BY <2>1 DEF LogsLoad, ValidationLoad
    <3>2. PICK req : ListCall(view.number - 1) = Calling(req) /\ req.op \in {"events", "validation"}
      BY <2>1, ListOpIs DEF LogsLoad, ValidationLoad, ListCall, At
    <3> QED BY <3>1, <3>2, <1>e, <1>s
  <2>2. CASE LogMoves
    BY <2>2, GoingNone DEF LogMoves, World
  <2>3. CASE ProvidersLoad
    BY <2>3, <1>e DEF ProvidersLoad
  <2>4. CASE ImportSettles
    <3>1. PICK r, news : /\ Settle("write", r, news)
                         /\ \/ news = [write |-> Calling([op |-> "providers"])]
                            \/ news = Ended("write")
      BY <2>4 DEF ImportSettles
    <3>2. PICK req : req = [op |-> "providers"]
      OBVIOUS
    <3>3. CASE news = [write |-> Calling([op |-> "providers"])]
      <4>1. DOMAIN news = {"write"} /\ news["write"] = Calling(req)
        BY <3>2, <3>3
      <4>2. req.op = "providers"
        BY <3>2
      <4> QED BY <3>1, <4>1, <4>2, <1>s
    <3> QED BY <3>1, <3>3, <1>e
  <2>5. CASE ImportedLoad
    BY <2>5, <1>e DEF ImportedLoad
  <2>6. ASSUME NEW direct, SubmitImport(direct) PROVE Going
    BY <2>6, <1>k DEF SubmitImport
  <2>7. ASSUME NEW number, TurnListPage(number) PROVE Going
    <3>1. Call("read", [op |-> ListOp[view.page], page |-> number])
          /\ ListOp[view.page] \in {"events", "validation"}
      BY <2>7, ListOpIs DEF TurnListPage, OnListPage
    <3> QED BY <3>1, <1>k
  <2>8. ASSUME NEW number, TurnProviders(number) PROVE Going
    BY <2>8, <1>n DEF TurnProviders
  <2> QED BY <1>3, <2>1, <2>2, <2>3, <2>4, <2>5, <2>6, <2>7, <2>8 DEF ListPagesNext
<1> QED BY <1>1, <1>2, <1>3

LEMMA GoingSettings ==
    ASSUME Frame, FormInv, SettingsNext
    PROVE  Going
<1>c. CallsWhole /\ {"read", "write"} \subseteq Slot
  BY SlotsAre DEF Frame
<1>n. UNCHANGED apiVars => Going
  BY GoingNone DEF apiVars
<1>e. \A s, r : Settle(s, r, Ended(s)) => Going
  BY <1>c, GoingEnded
<1>1. CASE SettingsLoad \/ SaveSettles
  BY <1>1, <1>e DEF SettingsLoad, SaveSettles
<1>2. ASSUME NEW value, EditSettings(value) PROVE Going
  BY <1>2, <1>n DEF EditSettings
<1>3. CASE SaveSettings
  <2>1. PICK req : req = [op |-> "patch", value |-> view.form] /\ Call("write", req)
    BY <1>3 DEF SaveSettings
  <2>2. view.form \in Setting
    BY <1>3 DEF SaveSettings, SettingsShow, FormInv
  <2>3. Asked(req)
    BY <2>1, <2>2 DEF Asked
  <2> QED BY <1>c, <2>1, <2>3, GoingCall
<1>4. CASE ChooseLanguage
  <2>1. PICK req : req = [op |-> "settings"] /\ Call("read", req)
    BY <1>4 DEF ChooseLanguage
  <2> QED BY <1>c, <2>1, AskedElse, GoingCall
<1> QED BY <1>1, <1>2, <1>3, <1>4 DEF SettingsNext

LEMMA GoingProxies ==
    ASSUME Frame, ProxiesInv, NumbersInv, ProxiesNext
    PROVE  Going
<1>c. CallsWhole /\ Details \cup {"read", "write"} \subseteq Slot
  BY SlotsAre DEF Frame, Details
<1>p. At("proxies")
  BY ProxiesFrame
<1>v. PICK v, n : v = view /\ n = view.number /\ ProxiesShape(v) /\ n \in Nat \ {0}
  BY <1>p DEF ProxiesInv, ProxiesGood, NumbersInv, Numbered
<1>n. UNCHANGED apiVars => Going
  BY GoingNone DEF apiVars
<1>e. \A s, r : Settle(s, r, Ended(s)) => Going
  BY <1>c, GoingEnded
<1>s. ASSUME NEW r, NEW s, NEW t, NEW req, NEW news, Settle(s, r, news), DOMAIN news = {t},
             news[t] = Calling(req), Asked(req)
      PROVE  Going
  <2>1. \A x \in DOMAIN news : Begins(news[x])
    BY <1>s DEF Begins
  <2> QED BY <1>c, <1>s, <2>1, GoingSettle
<1>r. ASSUME NEW w, ProxiesShape(w), NEW number \in Nat \ {0}, Reload(Rerun(w, number)) PROVE Going
  <2>1. PICK back : back = Rerun(w, number)
    OBVIOUS
  <2>2. back.number = number
    BY <1>r, <2>1, RerunIs
  <2> QED BY <1>c, <1>r, <2>1, <2>2, GoingReload
<1>b. n # 1 => n - 1 \in Nat \ {0}
  BY <1>v
<1>1. CASE OptionsLoad \/ LateLoad
  BY <1>1, <1>e DEF OptionsLoad, LateLoad
<1>2. CASE ProxiesLoad
  <2>1. PICK r : \/ Settle("read", r, Ended("read"))
                 \/ /\ Settle("read", r, [read |-> Calling(ListReq(Rerun(v, n - 1)))])
                    /\ n > 1
    BY <1>2, <1>v, ZenonT(60) DEF ProxiesLoad, BlankPage
  <2>2. PICK back : back = Rerun(v, n - 1)
    OBVIOUS
  <2>3. back.number = n - 1
    BY <1>v, <2>2, RerunIs
  <2>4. n > 1 => Asked(ListReq(back))
    BY <1>v, <1>b, <2>3, ListReqIs DEF Asked
  <2> QED BY <1>e, <1>s, <2>1, <2>2, <2>4
<1>3. ASSUME NEW filter, ChangeFilter(filter) PROVE Going
  <2>1. PICK w : w = [v EXCEPT !.filter = filter, !.touched = TRUE]
    OBVIOUS
  <2>2. ProxiesShape(w)
    BY <1>v, <2>1 DEF ProxiesShape, PFields
  <2>3. Reload(Rerun(w, 1))
    BY <1>3, <1>v, <2>1 DEF ChangeFilter
  <2> QED BY <1>r, <2>2, <2>3
<1>4. CASE ResetFilters
  <2>1. PICK w : w = [v EXCEPT !.filter = defaultFilters, !.touched = FALSE]
    OBVIOUS
  <2>2. ProxiesShape(w)
    BY <1>v, <2>1 DEF ProxiesShape, PFields
  <2>3. Reload(Rerun(w, 1))
    BY <1>4, <1>v, <2>1 DEF ResetFilters
  <2> QED BY <1>r, <2>2, <2>3
<1>5. ASSUME NEW number \in 1..Cardinality(Proxy), TurnPage(number) PROVE Going
  <2>1. number \in Nat \ {0}
    BY <1>5
  <2> QED BY <1>5, <1>r, <1>v, <2>1 DEF TurnPage
<1>6. ASSUME NEW p, AskDelete(p) PROVE Going
  BY <1>6, <1>n DEF AskDelete
<1>7. ASSUME NEW s \in Details, DetailArrives(s) PROVE Going
  BY <1>7, <1>e DEF DetailArrives
<1>8. ASSUME NEW s \in Details, NEW p, OpenDrawer(s, p) PROVE Going
  <2>1. PICK req : req = [op |-> "detail", proxy |-> p] /\ Call(s, req)
    BY <1>8 DEF OpenDrawer
  <2> QED BY <1>c, <2>1, AskedElse, GoingCall
<1>9. CASE CloseDrawer \/ CancelDelete
  BY <1>9, <1>n DEF CloseDrawer, CancelDelete
<1>10. CASE ConfirmDelete
  <2>1. PICK req : req = [op |-> "delete", proxy |-> view.target] /\ Call("write", req)
    BY <1>10 DEF ConfirmDelete
  <2> QED BY <1>c, <2>1, AskedElse, GoingCall
<1>11. CASE DeleteAnswered
  <2>1. PICK r, news : /\ Settle("write", r, news)
                       /\ \/ news = [write |-> Calling(ListReq(view.closure))]
                          \/ news = Ended("write")
    BY <1>11 DEF DeleteAnswered
  <2>2. view.closure.number \in Nat \ {0}
    BY <1>11, <1>p DEF DeleteAnswered, Holds, NumbersInv, Numbered
  <2>3. Asked(ListReq(view.closure))
    BY <2>2, ListReqIs DEF Asked
  <2>4. CASE news = [write |-> Calling(ListReq(view.closure))]
    <3>1. DOMAIN news = {"write"} /\ news["write"] = Calling(ListReq(view.closure))
      BY <2>4
    <3> QED BY <1>s, <2>1, <2>3, <3>1
  <2> QED BY <1>e, <2>1, <2>4
<1>12. CASE ListReloaded
  <2> DEFINE done == [v EXCEPT !.target = Null, !.pending = FALSE, !.closure = Null]
             back == Rerun(done, n - 1)
             both == Over(Ended("write"), Renewed(back))
  <2>1. PICK r \in Results("write") :
            \/ Settle("write", r, Ended("write"))
            \/ Settle("write", r, both) /\ n # 1
    BY <1>12, <1>v, ZenonT(60) DEF ListReloaded
  <2>2. ProxiesShape(done)
    BY <1>v DEF ProxiesShape, PFields
  <2> HIDE DEF done
  <2>3. PICK w : w = back /\ w.number = n - 1
    BY <2>2, RerunIs
  <2>4. PICK news, old : news = Renewed(w) /\ old = Ended("write")
    OBVIOUS
  <2>5. n # 1 => \A t \in DOMAIN news : Begins(news[t])
    BY <1>b, <2>3, <2>4, GoingRenewed
  <2>6. \A t \in DOMAIN old : Begins(old[t])
    BY <2>4 DEF Ended, Begins
  <2>7. n # 1 => \A t \in DOMAIN Over(old, news) : Begins(Over(old, news)[t])
    BY <2>5, <2>6 DEF Over
  <2>8. both = Over(old, news)
    BY <2>3, <2>4
  <2> HIDE DEF both
  <2>9. ASSUME Settle("write", r, both), n # 1 PROVE Going
    BY <1>c, <2>7, <2>8, <2>9, GoingSettle
  <2> QED BY <1>e, <2>1, <2>9
<1>13. CASE PoolMoves
  BY <1>13, GoingNone DEF PoolMoves, World
<1> QED BY <1>1, <1>2, <1>3, <1>4, <1>5, <1>6, <1>7, <1>8, <1>9, <1>10, <1>11, <1>12, <1>13
        DEF ProxiesNext

CallsTyped == \A s \in Slot : CallTyped(calls[s])

\* Every step.
LEMMA GoingSteps ==
    ASSUME Frame, CallsTyped, ProxiesInv, NumbersInv, FormInv, [Next]_vars
    PROVE  Going
<1>s. /\ AppSlots = {"auth", "logout", "logout2"} /\ AppSlots \subseteq Slot
      /\ Slot = AppSlots \cup PageSlots
  BY SlotsAre DEF AppSlots, PageSlots
<1>1. CASE UNCHANGED vars
  BY <1>1, GoingNone DEF vars
<1>2. CASE Wire
  <2>1. \A s \in Slot : WireStep(calls[s], calls'[s])
    BY <1>2, WireSteps
  <2>2. ASSUME NEW s \in Slot, FallBack(s) PROVE MockMoves
    <3>1. mock' = mock \/ mock' = After(calls[s].req, mock)
      BY <2>2 DEF FallBack
    <3>2. Asked(calls[s].req)
      BY DEF CallsTyped, CallTyped
    <3> QED BY <3>1, <3>2 DEF MockMoves
  <2>3. MockMoves
    <3>1. ASSUME NEW s \in Slot, Serve(s) \/ HeadersArrive(s) PROVE mock' = mock
      BY <3>1, Zenon DEF Serve, HeadersArrive
    <3>2. ASSUME NEW c, ServeStray(c) PROVE mock' = mock
      BY <3>2 DEF ServeStray
    <3> QED BY <1>2, <2>2, <3>1, <3>2 DEF Wire, MockMoves
  <2> QED BY <2>1, <2>3 DEF Going, Goes
<1>3. CASE AppNext
  <2>1. ASSUME NEW s \in PageSlots PROVE Goes(calls[s], calls'[s])
    BY <1>3, AppSteps, GoingOpening DEF Unmoved, OnLogin, Mounted, Goes
  <2>2. ASSUME NEW s \in AppSlots PROVE Goes(calls[s], calls'[s])
    <3>1. AppMoves
      BY <1>3, AppMoved
    <3>2. PICK session, logout : session = [op |-> "session"] /\ logout = [op |-> "logout"]
      OBVIOUS
    <3>3. Asked(session) /\ Asked(logout)
      BY <3>2 DEF Asked
    <3>4. \A right : Asked([op |-> "login", right |-> right])
      BY DEF Asked
    <3>5. \/ calls'[s] \in {calls[s], Free, Fetching(session, cookie)}
          \/ \E req : Asked(req) /\ calls'[s] = Calling(req)
      BY <1>s, <3>1, <3>2, <3>3, <3>4 DEF AppMoves, Else
    <3> QED BY <3>3, <3>5 DEF Goes, Begins
  <2>3. MockMoves
    <3>1. ASSUME NEW s, NEW r, NEW news, Settle(s, r, news) PROVE MockMoves
      BY <3>1 DEF Settle, MockMoves
    <3>2. ASSUME NEW s, NEW req, req.op \in {"login", "logout"}, Call(s, req) PROVE MockMoves
      BY <3>2 DEF Call, MockAfter, MockMoves, Asked
    <3>3. CASE SessionChecked
      BY <3>1, <3>3 DEF SessionChecked
    <3>4. CASE LoginAnswered
      BY <3>1, <3>4 DEF LoginAnswered
    <3>5. ASSUME NEW right, SubmitLogin(right) PROVE MockMoves
      BY <3>2, <3>5 DEF SubmitLogin
    <3>6. ASSUME NEW s, PressLogout(s) PROVE MockMoves
      BY <3>2, <3>6 DEF PressLogout
    <3>7. ASSUME NEW s, LogoutAnswered(s) PROVE MockMoves
      BY <3>1, <3>7 DEF LogoutAnswered
    <3>8. ASSUME NEW hash, Navigate(hash) PROVE MockMoves
      BY <3>8 DEF Navigate, MockMoves
    <3>9. CASE LoadAgain \/ SessionEnds
      BY <3>9 DEF LoadAgain, SessionEnds, MockMoves
    <3> QED BY <1>3, <3>3, <3>4, <3>5, <3>6, <3>7, <3>8, <3>9 DEF AppNext
  <2> QED BY <1>s, <2>1, <2>2, <2>3 DEF Going
<1>4. CASE Tick
  <2>1. /\ \A s \in PageSlots : ~Overdue(calls[s]) /\ calls'[s] = Aged(calls[s])
        /\ \A s \in AppSlots : calls'[s] = calls[s]
        /\ mock' = mock
    BY <1>4, <1>s DEF Tick, PageSlots
  <2> QED BY <1>s, <2>1 DEF Going, Goes, MockMoves
<1>5. CASE OverviewNext \/ GeoNext \/ ListPagesNext
  BY <1>5, GoingLists
<1>6. CASE SettingsNext
  BY <1>6, GoingSettings
<1>7. CASE ProxiesNext
  BY <1>7, GoingProxies
<1>8. CASE RenderLine
  BY <1>8, GoingNone DEF RenderLine, apiVars
<1> QED BY <1>1, <1>2, <1>3, <1>4, <1>5, <1>6, <1>7, <1>8 DEF Next

\* What the client keeps is typed, and so are the settings and sessions of the stores.
Settled(store) == "settings" \in DOMAIN store /\ store.settings \in Setting
SrvTyped(store) ==
    /\ Settled(store) /\ {"tokens", "issued"} \subseteq DOMAIN store
    /\ store.tokens \subseteq Token /\ store.issued \subseteq Token
MockTyped(store) == Settled(store) /\ "tokens" \in DOMAIN store /\ store.tokens \subseteq Token
StoresTyped == SrvTyped(srv) /\ MockTyped(mock)
StraysTyped == \A c \in strays : Unserved(c) /\ Asked(c.req)

LEMMA CallsTypedKept ==
    ASSUME Frame, CallsTyped, StoresInv, StoresTyped, Going
    PROVE  CallsTyped'
<1>1. \A store \in {srv, mock} :
        /\ "settings" \in DOMAIN store /\ store.settings \in Setting /\ store.proxies \in Seq(Proxy)
  BY DEF StoresInv, StoreGood, StoresTyped, SrvTyped, MockTyped, Settled
<1> SUFFICES ASSUME NEW s \in Slot PROVE CallTyped(calls'[s])
  BY DEF CallsTyped
<1>2. PICK c, d : c = calls[s] /\ d = calls'[s] /\ CallTyped(c) /\ IsCall(c) /\ Goes(c, d)
  BY DEF CallsTyped, Frame, CallsWhole, Going
<1>3. CallTyped(calls["read"])
  BY SlotsAre DEF CallsTyped
<1>4. Begins(d) => CallTyped(d)
  BY <1>1, <1>3, BeginTyped DEF Begins
<1>5. WireStep(c, d) => CallTyped(d)
  BY <1>1, <1>2, WireTyped
<1>6. d = Aged(c) /\ ~Overdue(c) => CallTyped(d)
  BY <1>2, AgedTyped
<1> QED BY <1>2, <1>4, <1>5, <1>6 DEF Goes

\* What a request leaves of them.
LEMMA AfterTyped ==
    ASSUME NEW store, Settled(store), NEW req, Asked(req)
    PROVE  /\ Settled(After(req, store)) /\ DOMAIN After(req, store) = DOMAIN store
           /\ "tokens" \in DOMAIN store => After(req, store).tokens = store.tokens
           /\ "issued" \in DOMAIN store => After(req, store).issued = store.issued
<1>1. CASE req.op = "delete"
  BY <1>1 DEF After, Settled
<1>2. CASE req.op = "import"
  BY <1>2 DEF After, Settled
<1>3. CASE req.op = "patch"
  BY <1>3 DEF After, Settled, Asked
<1>4. CASE req.op \notin {"delete", "import", "patch"}
  BY <1>4 DEF After
<1> QED BY <1>1, <1>2, <1>3, <1>4

LEMMA StoresTypedKept ==
    ASSUME CallsTyped, StraysTyped, StoresTyped, Going, [Next]_vars
    PROVE  StoresTyped'
<1>n. PICK new : new = srv'
  OBVIOUS
<1>i. SrvTyped(srv) /\ MockTyped(mock)
  BY DEF StoresTyped
<1>a. ASSUME NEW req, Asked(req)
      PROVE  SrvTyped(After(req, srv)) /\ MockTyped(After(req, mock))
  <2>1. PICK next : next = After(req, srv) /\ Settled(next) /\ DOMAIN next = DOMAIN srv
                    /\ next.tokens = srv.tokens /\ next.issued = srv.issued
    BY <1>a, <1>i, AfterTyped DEF SrvTyped
  <2>2. PICK kept : kept = After(req, mock) /\ Settled(kept) /\ DOMAIN kept = DOMAIN mock
                    /\ kept.tokens = mock.tokens
    BY <1>a, <1>i, AfterTyped DEF MockTyped
  <2> QED BY <1>i, <2>1, <2>2 DEF SrvTyped, MockTyped
<1>m. MockTyped(mock')
  <2>1. MockTyped(MockStore)
    BY StartsAssumption DEF MockTyped, Settled
  <2> QED BY <1>i, <1>a, <2>1 DEF Going, MockMoves
<1> SUFFICES SrvTyped(new)
  BY <1>m, <1>n DEF StoresTyped
<1>t. ASSUME NEW tokens \in SUBSET Token, new = [srv EXCEPT !.tokens = tokens]
      PROVE  SrvTyped(new)
  BY <1>i, <1>t DEF SrvTyped, Settled
<1>u. ASSUME NEW token \in Token,
             new = [srv EXCEPT !.tokens = @ \cup {token}, !.issued = @ \cup {token}]
      PROVE  SrvTyped(new)
  BY <1>i, <1>u DEF SrvTyped, Settled
<1>w. ASSUME NEW jar, new = [srv EXCEPT !.tokens = @ \ {jar}] PROVE SrvTyped(new)
  <2>1. PICK tokens : tokens = srv.tokens \ {jar} /\ tokens \in SUBSET Token
    BY <1>i DEF SrvTyped
  <2>2. new = [srv EXCEPT !.tokens = tokens]
    BY <1>w, <2>1
  <2> QED BY <1>t, <2>1, <2>2
<1>1. CASE new = srv
  BY <1>i, <1>1
<1>2. ASSUME NEW s \in Slot, Serve(s) PROVE SrvTyped(new)
  <2>1. \/ srv' = srv
        \/ \E token \in Token :
                srv' = [srv EXCEPT !.tokens = @ \cup {token}, !.issued = @ \cup {token}]
        \/ srv' = [srv EXCEPT !.tokens = @ \ {calls[s].cookie}]
        \/ srv' = After(calls[s].req, srv)
    BY <1>2, ZenonT(60) DEF Serve
  <2>2. PICK req, jar : req = calls[s].req /\ jar = calls[s].cookie
    OBVIOUS
  <2>3. \/ new = srv
        \/ \E token \in Token :
                new = [srv EXCEPT !.tokens = @ \cup {token}, !.issued = @ \cup {token}]
        \/ new = [srv EXCEPT !.tokens = @ \ {jar}]
        \/ new = After(req, srv)
    BY <1>n, <2>1, <2>2
  <2>4. Asked(req)
    BY <2>2 DEF CallsTyped, CallTyped
  <2>5. new = After(req, srv) => SrvTyped(new)
    BY <1>a, <2>4
  <2> QED BY <1>u, <1>w, <1>1, <2>3, <2>5
<1>3. ASSUME NEW c \in strays, ServeStray(c) PROVE SrvTyped(new)
  <2>1. \/ srv' = srv \/ srv' = [srv EXCEPT !.tokens = @ \ {c.cookie}]
        \/ srv' = After(c.req, srv)
    BY <1>3 DEF ServeStray
  <2>2. PICK req, jar : req = c.req /\ jar = c.cookie
    OBVIOUS
  <2>3. \/ new = srv \/ new = [srv EXCEPT !.tokens = @ \ {jar}] \/ new = After(req, srv)
    BY <1>n, <2>1, <2>2
  <2>4. Asked(req)
    BY <2>2 DEF StraysTyped
  <2>5. new = After(req, srv) => SrvTyped(new)
    BY <1>a, <2>4
  <2> QED BY <1>w, <1>1, <2>3, <2>5
<1>4. ASSUME NEW field \in {"events", "jobs", "proxies"}, NEW list, new = [srv EXCEPT ![field] = list]
      PROVE  SrvTyped(new)
  BY <1>i, <1>4 DEF SrvTyped, Settled
<1>5. CASE LogMoves
  <2>1. PICK field, log :
          /\ field \in {"events", "jobs"} /\ log = srv[field] /\ log # <<>>
          /\ \/ srv' = [srv EXCEPT ![field] = <<log[1]>> \o log]
             \/ srv' = [srv EXCEPT ![field] = Front(log)]
             \/ srv' = [srv EXCEPT ![field] = <<>>]
    BY <1>5 DEF LogMoves, World
  <2>2. \E list : srv' = [srv EXCEPT ![field] = list]
    BY <2>1, Zenon
  <2> QED BY <1>n, <1>4, <2>1, <2>2
<1>6. CASE PoolMoves
  <2>0. PICK list : new = [srv EXCEPT !.proxies = list]
    BY <1>6, <1>n DEF PoolMoves, World
  <2> QED BY <1>4, <2>0
<1>7. CASE SessionEnds
  <2>1. new = [srv EXCEPT !.tokens = {}]
    BY <1>7, <1>n DEF SessionEnds
  <2> QED BY <1>t, <2>1
<1> QED BY <1>n, <1>1, <1>2, <1>3, <1>5, <1>6, <1>7, StoresSteps DEF StoresStep

LEMMA StraysTypedKept ==
    ASSUME Frame, CallsTyped, StraysTyped, [Next]_vars
    PROVE  StraysTyped'
<1>s. AppSlots \subseteq Slot /\ PageSlots \subseteq Slot
  BY SlotsAre DEF AppSlots, PageSlots
<1>n. ASSUME NEW slots \in SUBSET Slot, NewStrays(slots) PROVE StraysTyped'
  <2>1. \A s \in slots : Asked(calls[s].req)
    BY <1>n DEF CallsTyped, CallTyped
  <2> QED BY <1>n, <2>1 DEF NewStrays, StraysTyped
<1>l. strays' \subseteq strays => StraysTyped'
  BY DEF StraysTyped
<1>1. CASE Unmoved \/ OnLogin \/ Mounted
  BY <1>1, <1>n, <1>s DEF Unmoved, OnLogin, Mounted
<1>2. CASE Wired
  <2>1. strays' \subseteq strays
    BY <1>2, ZenonT(60) DEF Wired, Wire, Serve, ServeStray, HeadersArrive, FallBack
  <2> QED BY <1>l, <2>1
<1>3. CASE Tick
  BY <1>3, <1>l DEF Tick
<1>4. CASE OverviewNext \/ GeoNext \/ ListPagesNext \/ SettingsNext \/ ProxiesNext \/ RenderLine
  <2>1. NewStrays(PageSlots)
    BY <1>4, PageTouches DEF PageTouch, Elsewhere
  <2> QED BY <1>n, <1>s, <2>1
<1> QED BY <1>1, <1>2, <1>3, <1>4, PageSteps

-----------------------------------------------------------------------------
\* The numbers of the list and of the dialog's.
LEMMA NumbersActs ==
    ASSUME Frame, ProxiesInv, NumbersInv, ProxiesNext
    PROVE  Numbered(view', calls'["write"])
<1> DEFINE Goal == Numbered(view', calls'["write"])
<1>c. CallsWhole /\ Details \cup {"read", "write", "late", "options"} \subseteq Slot
      /\ "write" \notin Details
  BY SlotsAre DEF Frame, Details
<1>v. PICK v, w, n : /\ v = view /\ w = calls["write"] /\ n = v.number
                     /\ ProxiesShape(v) /\ Numbered(v, w) /\ n \in Nat \ {0}
  BY ProxiesFrame DEF ProxiesInv, ProxiesGood, NumbersInv, Numbered
<1>b. n # 1 => n - 1 \in Nat \ {0}
  BY <1>v
<1>k. ASSUME view'.number \in Nat \ {0}, view'.closure = v.closure,
             calls'["write"] = w \/ calls'["write"] = Free
      PROVE  Goal
  BY <1>v, <1>k DEF Numbered, Free
<1>u. UNCHANGED apiVars => calls'["write"] = w
  BY <1>v DEF apiVars
<1>e. ASSUME NEW s \in Details \cup {"read", "late", "options"}, NEW r, Settle(s, r, Ended(s))
      PROVE  calls'["write"] = w
  BY <1>c, <1>e, <1>v, SettleEnded
<1>f. ASSUME NEW r, Settle("write", r, Ended("write")) PROVE calls'["write"] = Free
  BY <1>c, <1>f, SettleEnded
<1>r. ASSUME NEW u, ProxiesShape(u), u.closure = v.closure, NEW number \in Nat \ {0},
             Reload(Rerun(u, number))
      PROVE  Goal
  <2>1. PICK back : back = Rerun(u, number)
    OBVIOUS
  <2>2. back.number = number /\ back.closure = v.closure
    BY <1>r, <2>1, RerunIs DEF Overlays
  <2>3. view' = back /\ calls'["write"] = w
    BY <1>c, <1>r, <1>v, <2>1, ReloadElse
  <2> QED BY <1>k, <2>2, <2>3
<1>1. CASE OptionsLoad
  <2>1. \/ \E options : view' = [v EXCEPT !.options = options]
        \/ view' = [v EXCEPT !.error = TRUE]
    BY <1>1, <1>v DEF OptionsLoad
  <2>2. view'.number = n /\ view'.closure = v.closure
    BY <1>v, <2>1 DEF ProxiesShape, PFields
  <2>3. calls'["write"] = w
    BY <1>1, <1>e DEF OptionsLoad
  <2> QED BY <1>k, <1>v, <2>2, <2>3
<1>2. CASE LateLoad
  <2>1. calls'["write"] = w /\ view' = view
    BY <1>2, <1>e DEF LateLoad
  <2> QED BY <1>k, <1>v, <2>1
<1>3. CASE ProxiesLoad
  <2>1. PICK r : \/ /\ Settle("read", r, [read |-> Calling(ListReq(Rerun(v, n - 1)))])
                    /\ view' = Rerun(v, n - 1) /\ n > 1
                 \/ /\ Settle("read", r, Ended("read"))
                    /\ view' = Listed(r)
    BY <1>3, <1>v, ZenonT(60) DEF ProxiesLoad, BlankPage
  <2>2. CASE /\ Settle("read", r, [read |-> Calling(ListReq(Rerun(v, n - 1)))])
             /\ view' = Rerun(v, n - 1) /\ n > 1
    <3>1. PICK back, news : /\ back = Rerun(v, n - 1) /\ news = [read |-> Calling(ListReq(back))]
                            /\ Settle("read", r, news)
      BY <2>2
    <3>2. DOMAIN news = {"read"}
      BY <3>1
    <3>3. calls'["write"] = w
      BY <1>c, <1>v, <3>1, <3>2, SettleElse
    <3>4. back.number = n - 1 /\ back.closure = v.closure
      BY <1>v, <3>1, RerunIs DEF Overlays
    <3> QED BY <1>b, <1>k, <1>v, <2>2, <3>1, <3>3, <3>4
  <2>3. CASE Settle("read", r, Ended("read")) /\ view' = Listed(r)
    <3>1. view'.number = n /\ view'.closure = v.closure
      BY <1>v, <2>3 DEF Listed, ProxiesShape, PFields
    <3>2. calls'["write"] = w
      BY <1>e, <2>3
    <3> QED BY <1>k, <1>v, <3>1, <3>2
  <2> QED BY <2>1, <2>2, <2>3
<1>4. ASSUME NEW filter, ChangeFilter(filter) PROVE Goal
  <2>1. PICK u : u = [v EXCEPT !.filter = filter, !.touched = TRUE]
    OBVIOUS
  <2>2. ProxiesShape(u) /\ u.closure = v.closure
    BY <1>v, <2>1 DEF ProxiesShape, PFields
  <2>3. Reload(Rerun(u, 1))
    BY <1>4, <1>v, <2>1 DEF ChangeFilter
  <2> QED BY <1>r, <2>2, <2>3
<1>5. CASE ResetFilters
  <2>1. PICK u : u = [v EXCEPT !.filter = defaultFilters, !.touched = FALSE]
    OBVIOUS
  <2>2. ProxiesShape(u) /\ u.closure = v.closure
    BY <1>v, <2>1 DEF ProxiesShape, PFields
  <2>3. Reload(Rerun(u, 1))
    BY <1>5, <1>v, <2>1 DEF ResetFilters
  <2> QED BY <1>r, <2>2, <2>3
<1>6. ASSUME NEW number \in 1..Cardinality(Proxy), TurnPage(number) PROVE Goal
  <2>1. number \in Nat \ {0}
    BY <1>6
  <2> QED BY <1>6, <1>r, <1>v, <2>1 DEF TurnPage
<1>7. ASSUME NEW p, AskDelete(p) PROVE Goal
  <2>1. view'.number = n /\ view'.closure = v.closure
    BY <1>7, <1>v DEF AskDelete, ProxiesShape, PFields
  <2> QED BY <1>7, <1>k, <1>u, <1>v, <2>1 DEF AskDelete
<1>8. ASSUME NEW s \in Details, DetailArrives(s) PROVE Goal
  <2>1. \/ \E shown : view' = [v EXCEPT !.drawer = [@ EXCEPT !.shown = shown, !.loading = FALSE]]
        \/ view' = [v EXCEPT !.error = TRUE, !.drawer.loading = FALSE]
    BY <1>8, <1>v DEF DetailArrives
  <2>2. view'.number = n /\ view'.closure = v.closure
    BY <1>v, <2>1 DEF ProxiesShape, PFields
  <2>3. calls'["write"] = w
    BY <1>8, <1>e DEF DetailArrives
  <2> QED BY <1>k, <1>v, <2>2, <2>3
<1>9. ASSUME NEW s \in Details, NEW p, OpenDrawer(s, p) PROVE Goal
  <2>1. \E drawer : view' = [v EXCEPT !.drawer = drawer]
    BY <1>9, <1>v DEF OpenDrawer
  <2>2. view'.number = n /\ view'.closure = v.closure
    BY <1>v, <2>1 DEF ProxiesShape, PFields
  <2>3. calls'["write"] = w
    BY <1>9, <1>c, <1>v, CallElse DEF OpenDrawer
  <2> QED BY <1>k, <1>v, <2>2, <2>3
<1>10. CASE CloseDrawer \/ CancelDelete
  <2>1. \/ view' = [v EXCEPT !.drawer = NoDrawer]
        \/ \E dismissed : view' = [v EXCEPT !.target = Null, !.dismissed = dismissed]
    BY <1>10, <1>v DEF CloseDrawer, CancelDelete
  <2>2. view'.number = n /\ view'.closure = v.closure
    BY <1>v, <2>1 DEF ProxiesShape, PFields
  <2> QED BY <1>10, <1>k, <1>u, <1>v, <2>2 DEF CloseDrawer, CancelDelete
<1>11. CASE ConfirmDelete
  <2>0. PICK closure : closure = [filter |-> view.filter, number |-> view.number,
            selected |-> view.drawer.shown, target |-> view.target,
            back |-> UNION {Brought(c.req) : c \in Imports(strays)}]
    OBVIOUS
  <2>1. view' = [v EXCEPT !.pending = TRUE, !.closure = closure] /\ closure.number = n
    BY <1>11, <1>v, <2>0 DEF ConfirmDelete
  <2>2. view'.number = n /\ view'.closure.number = n
    BY <1>v, <2>1 DEF ProxiesShape, PFields
  <2> QED BY <1>v, <2>2 DEF Numbered
<1>12. CASE DeleteAnswered
  <2>1. PICK r, news : Settle("write", r, news)
    BY <1>12 DEF DeleteAnswered
  <2>2. w.phase # "free"
    BY <1>c, <1>v, <2>1, SettleElse
  <2>d. \/ view' = [view EXCEPT !.gone = @ \cup ({view.closure.target} \ view.closure.back),
                    !.drawer = IF view.closure.selected = view.closure.target THEN NoDrawer ELSE @]
        \/ view' = Failed(view) /\ \E rr : Settle("write", rr, Ended("write"))
    BY <1>12, ZenonT(60) DEF DeleteAnswered
  <2>3. \/ \E gone, drawer : view' = [v EXCEPT !.gone = gone, !.drawer = drawer]
        \/ view' = Failed(v) /\ \E rr : Settle("write", rr, Ended("write"))
    BY <1>v, <2>d
  <2>4. CASE \E gone, drawer : view' = [v EXCEPT !.gone = gone, !.drawer = drawer]
    <3>1. view'.number = n /\ view'.closure = v.closure
      BY <1>v, <2>4 DEF ProxiesShape, PFields
    <3> QED BY <1>v, <2>2, <3>1 DEF Numbered
  <2>5. CASE view' = Failed(v) /\ \E rr : Settle("write", rr, Ended("write"))
    <3>1. view'.number = n
      BY <1>v, <2>5 DEF Failed, ProxiesShape, PFields
    <3>2. calls'["write"].phase = "free"
      BY <1>f, <2>5 DEF Free
    <3> QED BY <1>v, <3>1, <3>2 DEF Numbered
  <2> QED BY <2>3, <2>4, <2>5
<1>13. CASE ListReloaded
  <2> DEFINE done == [v EXCEPT !.target = Null, !.pending = FALSE, !.closure = Null]
             back == Rerun(done, n - 1)
             both == Over(Ended("write"), Renewed(back))
  <2>1. PICK r : \/ /\ Settle("write", r, Ended("write"))
                    /\ view' = Failed(v) \/ view' = [done EXCEPT !.data = r] \/ view' = done
                 \/ /\ Settle("write", r, both) /\ view' = back /\ n # 1
    BY <1>13, <1>v, ZenonT(60) DEF ListReloaded
  <2>2. ProxiesShape(done) /\ done.number = n
    BY <1>v DEF ProxiesShape, PFields
  <2>3. CASE /\ Settle("write", r, Ended("write"))
             /\ view' = Failed(v) \/ view' = [done EXCEPT !.data = r] \/ view' = done
    <3>1. view'.number = n
      BY <1>v, <2>3 DEF Failed, ProxiesShape, PFields
    <3>2. calls'["write"].phase = "free"
      BY <1>f, <2>3 DEF Free
    <3> QED BY <1>v, <3>1, <3>2 DEF Numbered
  <2>4. CASE Settle("write", r, both) /\ view' = back /\ n # 1
    <3> HIDE DEF done
    <3>1. PICK u : u = back /\ u.number = n - 1
      BY <2>2, RerunIs
    <3>2. PICK news, old : news = Renewed(u) /\ old = Ended("write")
      OBVIOUS
    <3>3. /\ DOMAIN news \subseteq {"read", "late"}
          /\ DOMAIN old = {"write"} /\ old["write"] = Free
      BY <1>c, <3>2, RenewedElse DEF Ended
    <3>4. both = Over(old, news)
      BY <3>1, <3>2
    <3>5. "write" \in DOMAIN Over(old, news) /\ Over(old, news)["write"] = Free
      BY <3>3 DEF Over
    <3> HIDE DEF both
    <3>6. calls'["write"] = Free
      BY <1>c, <2>4, <3>4, <3>5, SettleElse
    <3>7. view'.number \in Nat \ {0}
      BY <1>b, <2>4, <3>1
    <3> QED BY <3>6, <3>7 DEF Numbered, Free
  <2> QED BY <2>1, <2>3, <2>4
<1>14. CASE PoolMoves
  <2>1. view' = v \/ \E gone : view' = [v EXCEPT !.gone = gone]
    BY <1>14, <1>v DEF PoolMoves
  <2>2. view'.number = n /\ view'.closure = v.closure
    BY <1>v, <2>1 DEF ProxiesShape, PFields
  <2>3. calls'["write"] = w
    BY <1>14, <1>v DEF PoolMoves, World
  <2> QED BY <1>k, <1>v, <2>2, <2>3
<1> QED BY <1>1, <1>2, <1>3, <1>4, <1>5, <1>6, <1>7, <1>8, <1>9, <1>10, <1>11, <1>12, <1>13, <1>14
        DEF ProxiesNext

LEMMA NumbersKept ==
    ASSUME Frame, ProxiesInv, NumbersInv, [Next]_vars
    PROVE  NumbersInv'
<1> SUFFICES ASSUME At("proxies")' PROVE Numbered(view', calls'["write"])
  BY DEF NumbersInv
<1>w. "write" \in PageSlots /\ "write" \in Slot
  BY SlotsAre, PageSlotsAre
<1>1. CASE Unmoved
  BY <1>1, <1>w DEF Unmoved, NumbersInv, At
<1>2. CASE Mounted
  <2>1. view' = ProxiesFirst /\ calls'["write"] = Opening(ProxiesCalls)["write"]
    BY <1>2, <1>w, PagesAre DEF Mounted, At
  <2>2. calls'["write"] = Free
    BY <1>w, <2>1 DEF Opening, ProxiesCalls
  <2> QED BY <2>1, <2>2 DEF Numbered, ProxiesFirst, Free
<1>3. CASE Wired
  BY <1>3, <1>w, WiredBusy DEF Wired, NumbersInv, Numbered, At
<1>4. CASE ProxiesNext
  BY <1>4, NumbersActs
<1>5. CASE Tick /\ view'.page = view.page
  BY <1>5, TickFrame DEF At
<1> QED BY <1>1, <1>2, <1>3, <1>4, <1>5, PageSteps DEF OnLogin, At

\* The settings of the form.
LEMMA FormKept ==
    ASSUME Frame, SettingsInv, CallsTyped, cache \subseteq Proxy, FormInv, [Next]_vars
    PROVE  FormInv'
<1> DEFINE Good(form) == form = Null \/ form \in Setting
<1> SUFFICES ASSUME At("settings")' PROVE Good(view'.form)
  BY DEF FormInv
<1>1. CASE Unmoved \/ Wired
  BY <1>1 DEF Unmoved, Wired, FormInv, At
<1>2. CASE Mounted
  <2>1. view' = SettingsFirst
    BY <1>2, PagesAre DEF Mounted, At
  <2> QED BY <2>1 DEF SettingsFirst
<1>3. CASE Tick /\ view'.page = view.page
  BY <1>3, TickFrame DEF At
<1>4. CASE SettingsNext
  <2>1. PICK v : v = view /\ SettingsShape(v) /\ Good(v.form)
    BY <1>4, SettingsFrame DEF SettingsInv, SettingsGood, FormInv
  <2>2. ASSUME NEW s \in {"read", "write"}, NEW r \in Results(s), Busy(s), r.status = 200
        PROVE  r.value \in Setting
    <3>1. calls[s].req.op \in {"settings", "patch"}
      BY <1>4, <2>2, SettingsFrame DEF SettingsInv, SettingsGood, SettingsCall, Busy
    <3>2. Replied(calls[s].req, r)
      BY <2>2, ResultsTyped, SlotsAre DEF CallsTyped
    <3> QED BY <2>2, <3>1, <3>2 DEF Replied
  <2>3. CASE SettingsLoad \/ SaveSettles
    <3>1. PICK s \in {"read", "write"} : \E r \in Results(s) :
            /\ Busy(s)
            /\ view'.form = IF r.status = 200 THEN r.value ELSE v.form
      BY <2>1, <2>3 DEF SettingsLoad, SaveSettles, Settle, SettingsShape
    <3> QED BY <2>1, <2>2, <3>1
  <2>4. ASSUME NEW value \in Setting, EditSettings(value) PROVE Good(view'.form)
    BY <2>1, <2>4 DEF EditSettings, SettingsShape
  <2>5. CASE SaveSettings \/ ChooseLanguage
    <3>1. view'.form = v.form
      BY <2>1, <2>5 DEF SaveSettings, ChooseLanguage, SettingsShape
    <3> QED BY <2>1, <3>1
  <2> QED BY <1>4, <2>3, <2>4, <2>5 DEF SettingsNext
<1> QED BY <1>1, <1>2, <1>3, <1>4, PageSteps DEF OnLogin, At

-----------------------------------------------------------------------------
\* What is left of the bounds.
SpentInv ==
    /\ {"acts", "world"} \subseteq DOMAIN spent
    /\ spent.acts \in 0..MaxActs /\ spent.world \in 0..MaxWorld

LEMMA SpentKept == ASSUME SpentInv, Spends PROVE SpentInv'
<1>1. PICK n : n = spent /\ {"acts", "world"} \subseteq DOMAIN n
               /\ n.acts \in 0..MaxActs /\ n.world \in 0..MaxWorld
  BY DEF SpentInv
<1>2. CASE spent' = n
  BY <1>1, <1>2 DEF SpentInv
<1>3. CASE n.acts < MaxActs /\ spent' = [n EXCEPT !.acts = @ + 1]
  BY <1>1, <1>3, ViewAssumption DEF SpentInv
<1>4. CASE n.world < MaxWorld /\ spent' = [n EXCEPT !.world = @ + 1]
  BY <1>1, <1>4, ViewAssumption DEF SpentInv
<1> QED BY <1>1, <1>2, <1>3, <1>4 DEF Spends

\* All that the types rest on.
TypedInv ==
    /\ Frame /\ env.mode \in {"live", "mock"} /\ SpentInv /\ cache \subseteq Proxy
    /\ CallsTyped /\ StraysTyped /\ StoresTyped /\ NumbersInv /\ FormInv

LEMMA TypedOpens == Init => TypedInv
<1> SUFFICES ASSUME Init PROVE TypedInv
  OBVIOUS
<1>f. Frame /\ view = First(view.page) /\ \A s \in PageSlots : calls[s] = Opening(Calls(view.page))[s]
  BY InitFrame
<1>1. /\ env.mode \in {"live", "mock"} /\ SpentInv
      /\ StoresTyped /\ cache = {} /\ strays = {} /\ mock = MockStore
  BY StartsAssumption DEF Init, SpentInv, StoresTyped, SrvTyped, MockTyped, Settled
<1>2. CallsTyped
  <2>s. Slot = AppSlots \cup PageSlots
    BY SlotsAre DEF AppSlots, PageSlots
  <2>m. "settings" \in DOMAIN mock /\ mock.settings \in Setting /\ mock.proxies \in Seq(Proxy)
    BY <1>1, StartsAssumption
  <2>1. ASSUME NEW s \in PageSlots PROVE CallTyped(calls[s])
    <3>1. PICK c : c = calls[s] /\ c = Opening(Calls(view.page))[s]
      BY <1>f
    <3>2. c = Free \/ \E req : Asked(req) /\ c = Calling(req)
      BY <3>1, AskedOpening
    <3> QED BY <2>m, <3>1, <3>2, BeginTyped
  <2>2. ASSUME NEW s \in AppSlots PROVE CallTyped(calls[s])
    <3> DEFINE page == [t \in PageSlots |->
                            IF t \in DOMAIN Calls(Screen(auth))
                            THEN Calling(Calls(Screen(auth))[t]) ELSE Free]
               boot == [t \in AppSlots |->
                            IF t = "auth" /\ Live THEN Fetching([op |-> "session"], 0) ELSE Free]
    <3>1. calls = Over(page, boot)
      BY DEF Init
    <3>2. calls[s] = boot[s]
      BY <3>1 DEF Over, PageSlots
    <3>3. PICK req : req = [op |-> "session"]
      OBVIOUS
    <3>4. Asked(req)
      BY <3>3 DEF Asked
    <3>5. calls[s] \in {Free, Fetching(req, 0)}
      BY <3>2, <3>3
    <3> QED BY <2>m, <3>4, <3>5, BeginTyped
  <2> QED BY <2>s, <2>1, <2>2 DEF CallsTyped
<1>3. NumbersInv
  <2> SUFFICES ASSUME At("proxies") PROVE Numbered(view, calls["write"])
    BY DEF NumbersInv
  <2>1. view = ProxiesFirst /\ calls["write"] = Opening(ProxiesCalls)["write"]
    BY <1>f, PagesAre, PageSlotsAre DEF At
  <2>2. calls["write"] = Free
    BY <2>1, PageSlotsAre DEF Opening, ProxiesCalls
  <2> QED BY <2>1, <2>2 DEF Numbered, ProxiesFirst, Free
<1>4. FormInv
  <2> SUFFICES ASSUME At("settings") PROVE view.form = Null
    BY DEF FormInv
  <2>1. view = SettingsFirst
    BY <1>f, PagesAre DEF At
  <2> QED BY <2>1 DEF SettingsFirst
<1>5. StraysTyped
  BY <1>1 DEF StraysTyped
<1> QED BY <1>f, <1>1, <1>2, <1>3, <1>4, <1>5 DEF TypedInv

LEMMA TypedKept ==
    ASSUME TypedInv, StoresInv, ProxiesInv, SettingsInv, [Next]_vars
    PROVE  TypedInv'
<1> USE DEF TypedInv
<1>1. Going
  BY GoingSteps
<1>2. Frame' /\ (env.mode \in {"live", "mock"})'
  BY PageSteps
<1>3. Spends /\ Caches
  BY SpendsCaches
<1>4. SpentInv'
  BY <1>3, SpentKept
<1>5. cache' \subseteq Proxy
  BY <1>3, CacheTyped DEF CallsTyped
<1>6. CallsTyped'
  BY <1>1, CallsTypedKept
<1>7. StraysTyped'
  BY StraysTypedKept
<1>8. StoresTyped'
  BY <1>1, StoresTypedKept
<1>9. NumbersInv' /\ FormInv'
  BY NumbersKept, FormKept
<1> QED BY <1>2, <1>4, <1>5, <1>6, <1>7, <1>8, <1>9

LEMMA TypedAlways == Spec => [](TypedInv /\ StoresInv /\ SessionInv)
<1>1. Init => TypedInv
  BY TypedOpens
<1>2. TypedInv /\ StoresInv /\ ProxiesInv /\ SettingsInv /\ [Next]_vars => TypedInv'
  BY TypedKept
<1> QED BY <1>1, <1>2, ProxiesAlways, SettingsAlways, SessionAlways, GoneAlways, PTL DEF Spec, Safe

\* TypeOK: the calls are calls and their ages within the timeout, what the stores,
\* the cache and the cookie hold is proxies, settings and tokens, only unserved
\* changes are left behind by a page, the screen is the one App's state calls for
\* (api-client.ts, App.tsx and the pages), and the bounds are kept.
THEOREM DashboardTyped == Spec => []TypeOK
<1>1. TypedInv /\ StoresInv /\ SessionInv => TypeOK
  <2> SUFFICES ASSUME TypedInv, StoresInv, SessionInv PROVE TypeOK
    OBVIOUS
  <2>1. FetchTypeOK
    BY DEF TypedInv, CallsTyped, CallTyped, FetchTypeOK
  <2>2. ASSUME NEW store \in {srv, mock}
        PROVE  /\ ToSet(store.proxies) \subseteq Proxy
               /\ store.settings \in Setting
               /\ store.tokens \subseteq Token
               /\ store.submitted \in BOOLEAN
    <3>1. store.proxies \in Seq(Proxy) /\ store.submitted \in BOOLEAN
      BY <2>2 DEF StoresInv, StoreGood
    <3>2. store.settings \in Setting /\ store.tokens \subseteq Token
      BY <2>2 DEF TypedInv, StoresTyped, SrvTyped, MockTyped, Settled
    <3>3. ToSet(store.proxies) \subseteq Proxy
      BY <3>1 DEF ToSet
    <3> QED BY <3>1, <3>2, <3>3
  <2>3. cookie \in Token \cup {0}
    BY DEF TypedInv, StoresTyped, SrvTyped, SessionInv, SessionGood, Minted
  <2>4. \A c \in strays : c.phase = "sent" /\ c.req.op \in Mutations
    BY DEF TypedInv, StraysTyped, Unserved
  <2>5. ApiTypeOK
    BY <2>1, <2>2, <2>3, <2>4 DEF ApiTypeOK, TypedInv
  <2>6. /\ auth.route \in navigationItems
        /\ {auth.loading, auth.error, auth.enabled, auth.authenticated} \subseteq BOOLEAN
        /\ view.page = Screen(auth)
    BY DEF SessionInv, SessionGood, AuthShape
  <2> QED BY <2>5, <2>6 DEF TypeOK, TypedInv, SpentInv
<1> QED BY <1>1, TypedAlways, PTL
=============================================================================
