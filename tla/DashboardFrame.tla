--------------------------- MODULE DashboardFrame ---------------------------
(***************************************************************************)
(* What every invariant of the dashboard rests on: each slot holds a call, *)
(* a step leaves the environment alone, and each step is, for the page that*)
(* is mounted, one of a few: nothing, the wire's, another page's mounting, *)
(* or one of its own.  Which calls a slot may hold, what a page does to its*)
(* slots and App to its own, and how the two stores change.                *)
(***************************************************************************)
EXTENDS DashboardApp, TLAPS, WellFoundedInduction, FiniteSetTheorems

\* A call and its five fields, and the slots with their calls.
IsCall(c) ==
    c = [phase |-> c.phase, req |-> c.req, cookie |-> c.cookie, reply |-> c.reply, age |-> c.age]
CallsWhole == DOMAIN calls = Slot /\ \A s \in Slot : IsCall(calls[s])
Frame == CallsWhole /\ "page" \in DOMAIN view

LEMMA SlotsAre ==
    Slot = {"auth", "logout", "logout2", "read", "late", "options", "detail", "detail2", "write"}
BY AppAssumption DEF AppSlots

LEMMA FreshCalls ==
    /\ IsCall(Free)
    /\ \A req, jar : IsCall(Fetching(req, jar))
    /\ \A req, answer : IsCall(Delayed(req, answer))
    /\ \A req : IsCall(Calling(req))
BY DEF IsCall, Free, Fetching, Delayed, Calling

\* A call that ends, or begins, leaves calls in all the slots.
LEMMA SettleKeeps ==
    ASSUME CallsWhole, NEW s, NEW r, NEW news, Settle(s, r, news),
           DOMAIN news \subseteq Slot, \A t \in DOMAIN news : IsCall(news[t])
    PROVE  CallsWhole' /\ env' = env
BY DEF CallsWhole, Settle, Replace, Over

LEMMA CallKeeps ==
    ASSUME CallsWhole, NEW s \in Slot, NEW req, Call(s, req)
    PROVE  CallsWhole' /\ env' = env
BY FreshCalls DEF CallsWhole, Call

LEMMA EndedIs ==
    \A s \in Slot : DOMAIN Ended(s) \subseteq Slot /\ \A t \in DOMAIN Ended(s) : IsCall(Ended(s)[t])
BY FreshCalls DEF Ended

\* The steps of each page: they leave it mounted.
LEMMA OverviewFrame ==
    ASSUME Frame, OverviewNext
    PROVE  Frame' /\ env' = env /\ At("overview") /\ At("overview")'
<1>0. At("overview")
  BY DEF OverviewNext, OverviewLoads, OverviewGuardFires, OverviewPolls, PollDue
<1>1. "page" \in DOMAIN view' /\ view'.page = view.page
  <2>1. CASE OverviewLoads
    BY <2>1 DEF OverviewLoads, OverviewSettled, Frame
  <2> QED BY <2>1 DEF OverviewNext, OverviewGuardFires, OverviewPolls, Frame
<1>2. CallsWhole' /\ env' = env
  <2>1. CASE OverviewLoads
    BY <2>1, SettleKeeps, EndedIs, SlotsAre DEF OverviewLoads, Frame
  <2>2. CASE OverviewGuardFires
    BY <2>2 DEF OverviewGuardFires, apiVars, Frame, CallsWhole
  <2>3. CASE OverviewPolls
    BY <2>3, CallKeeps, SlotsAre DEF OverviewPolls, apiVars, Frame, CallsWhole
  <2> QED BY <2>1, <2>2, <2>3 DEF OverviewNext
<1> QED BY <1>0, <1>1, <1>2 DEF Frame, At

LEMMA GeoFrame ==
    ASSUME Frame, GeoNext
    PROVE  Frame' /\ env' = env /\ At("geo") /\ At("geo")'
<1>1. CASE GeoLoads
  <2>1. CallsWhole' /\ env' = env
    BY <1>1, SettleKeeps, EndedIs, SlotsAre DEF GeoLoads, Frame
  <2> QED BY <1>1, <2>1 DEF GeoLoads, GeoSettled, Frame, At
<1>2. CASE GeoGuardFires
  BY <1>2 DEF GeoGuardFires, apiVars, Frame, CallsWhole, At
<1>3. ASSUME NEW page, TurnCountries(page) \/ TurnAsns(page)
      PROVE  Frame' /\ env' = env /\ At("geo") /\ At("geo")'
  BY <1>3 DEF TurnCountries, TurnAsns, apiVars, Frame, CallsWhole, At
<1> QED BY <1>1, <1>2, <1>3 DEF GeoNext

LEMMA ListViews ==
    ASSUME "page" \in DOMAIN view
    PROVE  /\ \A number : "page" \in DOMAIN Reloading(view, number)
                          /\ Reloading(view, number).page = view.page
           /\ \A r : "page" \in DOMAIN ListSettled(r) /\ ListSettled(r).page = view.page
<1>1. ASSUME NEW number
      PROVE  "page" \in DOMAIN Reloading(view, number) /\ Reloading(view, number).page = view.page
  BY DEF Reloading
<1>2. ASSUME NEW r
      PROVE  "page" \in DOMAIN ListSettled(r) /\ ListSettled(r).page = view.page
  BY DEF ListSettled
<1> QED BY <1>1, <1>2

LEMMA ListFrame ==
    ASSUME Frame, ListPagesNext
    PROVE  /\ Frame' /\ env' = env /\ view'.page = view.page
           /\ view.page \in {"logs", "validation", "providers"}
<1> DEFINE Kept ==
        /\ Frame' /\ env' = env /\ view'.page = view.page
        /\ view.page \in {"logs", "validation", "providers"}
<1> USE FreshCalls
<1>1. \A req : /\ DOMAIN [write |-> Calling(req)] \subseteq Slot
                /\ DOMAIN [read |-> Calling(req)] \subseteq Slot
  BY SlotsAre
<1>2. CASE LogsLoad
  <2>1. CallsWhole' /\ env' = env
    BY <1>2, SettleKeeps, EndedIs, SlotsAre DEF LogsLoad, Frame, ListCall
  <2> QED BY <1>2, <2>1, ListViews DEF LogsLoad, Frame, At
<1>3. CASE ValidationLoad
  <2>1. CallsWhole' /\ env' = env
    BY <1>3, SettleKeeps, EndedIs, SlotsAre DEF ValidationLoad, Frame, ListCall
  <2> QED BY <1>3, <2>1, ListViews DEF ValidationLoad, Frame, At
<1>4. CASE LogMoves
  BY <1>4 DEF LogMoves, World, OnListPage, ListOp, Frame, CallsWhole
<1>5. CASE ProvidersLoad
  <2>1. CallsWhole' /\ env' = env
    BY <1>5, SettleKeeps, EndedIs, SlotsAre DEF ProvidersLoad, Frame
  <2> QED BY <1>5, <2>1 DEF ProvidersLoad, Frame, At
<1>6. ASSUME NEW direct, SubmitImport(direct) PROVE Kept
  <2>1. CallsWhole' /\ env' = env
    BY <1>6, CallKeeps, SlotsAre DEF SubmitImport, Frame
  <2> QED BY <1>6, <2>1 DEF SubmitImport, Frame, At
<1>7. CASE ImportSettles
  <2>1. CallsWhole' /\ env' = env
    BY <1>7, SettleKeeps, EndedIs, SlotsAre DEF ImportSettles, Frame
  <2>2. At("providers") /\ \E form :
            \/ view' = [view EXCEPT !.form = EmptyForm, !.loading = TRUE, !.error = FALSE,
                                    !.imported = ImportedNow]
            \/ view' = [view EXCEPT !.form = form]
    BY <1>7, Zenon DEF ImportSettles
  <2>3. "page" \in DOMAIN view' /\ view'.page = view.page
    BY <2>2 DEF Frame
  <2> QED BY <2>1, <2>2, <2>3 DEF Frame, At
<1>8. CASE ImportedLoad
  <2>1. CallsWhole' /\ env' = env
    BY <1>8, SettleKeeps, EndedIs, SlotsAre DEF ImportedLoad, Frame
  <2> QED BY <1>8, <2>1 DEF ImportedLoad, Frame, At
<1>9. ASSUME NEW number, TurnListPage(number) PROVE Kept
  <2>1. CallsWhole' /\ env' = env
    BY <1>9, CallKeeps, SlotsAre DEF TurnListPage, Frame
  <2> QED BY <1>9, <2>1 DEF TurnListPage, Reloading, OnListPage, ListOp, Frame
<1>10. ASSUME NEW number, TurnProviders(number) PROVE Kept
  BY <1>10 DEF TurnProviders, apiVars, Frame, CallsWhole, At
<1> QED BY <1>2, <1>3, <1>4, <1>5, <1>6, <1>7, <1>8, <1>9, <1>10 DEF ListPagesNext

LEMMA SettingsFrame ==
    ASSUME Frame, SettingsNext
    PROVE  Frame' /\ env' = env /\ At("settings") /\ At("settings")'
<1> DEFINE Kept == Frame' /\ env' = env /\ At("settings") /\ At("settings")'
<1>1. CASE SettingsLoad
  <2>1. CallsWhole' /\ env' = env
    BY <1>1, SettleKeeps, EndedIs, SlotsAre DEF SettingsLoad, Frame
  <2> QED BY <1>1, <2>1 DEF SettingsLoad, Frame, At
<1>2. ASSUME NEW value, EditSettings(value) PROVE Kept
  BY <1>2 DEF EditSettings, apiVars, Frame, CallsWhole, At
<1>3. CASE SaveSettings
  <2>1. CallsWhole' /\ env' = env
    BY <1>3, CallKeeps, SlotsAre DEF SaveSettings, Frame
  <2> QED BY <1>3, <2>1 DEF SaveSettings, Frame, At
<1>4. CASE SaveSettles
  <2>1. CallsWhole' /\ env' = env
    BY <1>4, SettleKeeps, EndedIs, SlotsAre DEF SaveSettles, Frame
  <2> QED BY <1>4, <2>1 DEF SaveSettles, Frame, At
<1>5. CASE ChooseLanguage
  <2>1. CallsWhole' /\ env' = env
    BY <1>5, CallKeeps, SlotsAre DEF ChooseLanguage, Frame
  <2> QED BY <1>5, <2>1 DEF ChooseLanguage, Frame, At
<1> QED BY <1>1, <1>2, <1>3, <1>4, <1>5 DEF SettingsNext

LEMMA ProxiesViews ==
    ASSUME NEW v, "page" \in DOMAIN v
    PROVE  /\ \A number : "page" \in DOMAIN Rerun(v, number) /\ Rerun(v, number).page = v.page
           /\ "page" \in DOMAIN Failed(v) /\ Failed(v).page = v.page
           /\ \A r : "page" \in DOMAIN view =>
                    "page" \in DOMAIN Listed(r) /\ Listed(r).page = view.page
<1>1. ASSUME NEW number
      PROVE  "page" \in DOMAIN Rerun(v, number) /\ Rerun(v, number).page = v.page
  BY DEF Rerun
<1>2. ASSUME NEW r, "page" \in DOMAIN view
      PROVE  "page" \in DOMAIN Listed(r) /\ Listed(r).page = view.page
  BY <1>2 DEF Listed
<1> QED BY <1>1, <1>2 DEF Failed

LEMMA RenewedIs ==
    ASSUME CallsWhole, NEW v
    PROVE  /\ DOMAIN Renewed(v) \subseteq {"read", "late"}
           /\ \A s \in DOMAIN Renewed(v) : IsCall(Renewed(v)[s])
<1>1. IsCall(calls["read"])
  BY SlotsAre DEF CallsWhole
<1> QED BY <1>1, FreshCalls DEF Renewed, Over, NoCall

LEMMA ReloadKeeps ==
    ASSUME CallsWhole, NEW v, Reload(v)
    PROVE  CallsWhole' /\ env' = env /\ view' = v
<1>1. DOMAIN Renewed(v) \subseteq Slot /\ \A s \in DOMAIN Renewed(v) : IsCall(Renewed(v)[s])
  BY RenewedIs, SlotsAre
<1> QED BY <1>1 DEF Reload, Replace, CallsWhole, Over

LEMMA ProxiesFrame ==
    ASSUME Frame, ProxiesNext
    PROVE  Frame' /\ env' = env /\ At("proxies") /\ At("proxies")'
<1> DEFINE Kept == Frame' /\ env' = env /\ At("proxies") /\ At("proxies")'
<1> USE FreshCalls
<1>1. CASE OptionsLoad
  <2>1. CallsWhole' /\ env' = env
    BY <1>1, SettleKeeps, EndedIs, SlotsAre DEF OptionsLoad, Frame
  <2> QED BY <1>1, <2>1 DEF OptionsLoad, Frame, At
<1>2. CASE ProxiesLoad
  <2>1. CallsWhole' /\ env' = env
    BY <1>2, SettleKeeps, EndedIs, SlotsAre DEF ProxiesLoad, Frame
  <2>2. "page" \in DOMAIN view' /\ view'.page = view.page
    BY <1>2, ProxiesViews DEF ProxiesLoad, Frame
  <2> QED BY <1>2, <2>1, <2>2 DEF ProxiesLoad, Frame, At
<1>3. CASE LateLoad
  <2>1. CallsWhole' /\ env' = env
    BY <1>3, SettleKeeps, EndedIs, SlotsAre DEF LateLoad, Frame
  <2> QED BY <1>3, <2>1 DEF LateLoad, Frame, At
<1>4. ASSUME NEW filter, ChangeFilter(filter) PROVE Kept
  <2> DEFINE v == [view EXCEPT !.filter = filter, !.touched = TRUE]
  <2>1. "page" \in DOMAIN v /\ v.page = view.page
    BY DEF Frame
  <2>2. CallsWhole' /\ env' = env /\ view' = Rerun(v, 1) /\ At("proxies")
    BY <1>4, ReloadKeeps DEF ChangeFilter, Frame, Uncovered
  <2> HIDE DEF v
  <2> QED BY <2>1, <2>2, ProxiesViews DEF Frame, At
<1>5. CASE ResetFilters
  <2> DEFINE v == [view EXCEPT !.filter = defaultFilters, !.touched = FALSE]
  <2>1. "page" \in DOMAIN v /\ v.page = view.page
    BY DEF Frame
  <2>2. CallsWhole' /\ env' = env /\ view' = Rerun(v, 1) /\ At("proxies")
    BY <1>5, ReloadKeeps DEF ResetFilters, Frame, Uncovered
  <2> HIDE DEF v
  <2> QED BY <2>1, <2>2, ProxiesViews DEF Frame, At
<1>6. ASSUME NEW number, TurnPage(number) PROVE Kept
  <2>1. CallsWhole' /\ env' = env /\ view' = Rerun(view, number) /\ At("proxies")
    BY <1>6, ReloadKeeps DEF TurnPage, Frame, Uncovered
  <2> QED BY <2>1, ProxiesViews DEF Frame, At
<1>7. ASSUME NEW p, AskDelete(p) PROVE Kept
  BY <1>7 DEF AskDelete, Uncovered, apiVars, Frame, CallsWhole, At
<1>8. ASSUME NEW s \in Details, DetailArrives(s) PROVE Kept
  <2>1. CallsWhole' /\ env' = env
    BY <1>8, SettleKeeps, EndedIs, SlotsAre DEF DetailArrives, Frame, Details
  <2> QED BY <1>8, <2>1 DEF DetailArrives, Frame, At
<1>9. ASSUME NEW s \in Details, NEW p, OpenDrawer(s, p) PROVE Kept
  <2>1. CallsWhole' /\ env' = env
    BY <1>9, CallKeeps, SlotsAre DEF OpenDrawer, Frame, Details
  <2> QED BY <1>9, <2>1 DEF OpenDrawer, Uncovered, Frame, At
<1>10. CASE CloseDrawer
  BY <1>10 DEF CloseDrawer, apiVars, Frame, CallsWhole, At
<1>11. CASE CancelDelete
  BY <1>11 DEF CancelDelete, apiVars, Frame, CallsWhole, At
<1>12. CASE ConfirmDelete
  <2>1. CallsWhole' /\ env' = env
    BY <1>12, CallKeeps, SlotsAre DEF ConfirmDelete, Frame
  <2> QED BY <1>12, <2>1 DEF ConfirmDelete, Frame, At
<1>13. CASE DeleteAnswered
  <2>1. CallsWhole' /\ env' = env
    BY <1>13, SettleKeeps, EndedIs, SlotsAre DEF DeleteAnswered, Frame
  <2> QED BY <1>13, <2>1, ProxiesViews DEF DeleteAnswered, Frame, At
<1>14. CASE ListReloaded
  <2> DEFINE done == [view EXCEPT !.target = Null, !.pending = FALSE, !.closure = Null]
             back == Rerun(done, view.number - 1)
             both == Over(Ended("write"), Renewed(back))
  <2>1. "page" \in DOMAIN done /\ done.page = view.page
    BY DEF Frame
  <2>2. DOMAIN both \subseteq Slot /\ \A t \in DOMAIN both : IsCall(both[t])
    BY RenewedIs, EndedIs, SlotsAre DEF Over, Frame
  <2>3. PICK r \in Results("write") :
            \/ Settle("write", r, Ended("write")) /\ view' = Failed(view)
            \/ Settle("write", r, Ended("write")) /\ view' = [done EXCEPT !.data = r]
            \/ Settle("write", r, Ended("write")) /\ view' = done
            \/ Settle("write", r, both) /\ view' = back
    BY <1>14, ZenonT(60) DEF ListReloaded
  <2> HIDE DEF both, done
  <2>4. CallsWhole' /\ env' = env
    <3>1. CASE Settle("write", r, Ended("write"))
      BY <3>1, SettleKeeps, EndedIs, SlotsAre DEF Frame
    <3>2. CASE Settle("write", r, both)
      BY <2>2, <3>2, SettleKeeps DEF Frame
    <3> QED BY <2>3, <3>1, <3>2
  <2>5. "page" \in DOMAIN view' /\ view'.page = view.page
    BY <2>1, <2>3, ProxiesViews DEF Frame
  <2>6. At("proxies")
    BY <1>14 DEF ListReloaded
  <2> QED BY <2>4, <2>5, <2>6 DEF Frame, At
<1>15. CASE PoolMoves
  BY <1>15 DEF PoolMoves, World, Frame, CallsWhole, At
<1> QED BY <1>1, <1>2, <1>3, <1>4, <1>5, <1>6, <1>7, <1>8, <1>9, <1>10, <1>11, <1>12, <1>13,
           <1>14, <1>15 DEF ProxiesNext

LEMMA DocFrame ==
    ASSUME Frame, RenderLine
    PROVE  Frame' /\ env' = env /\ At("doc") /\ At("doc")' /\ UNCHANGED <<apiVars, auth, spent>>
<1>1. UNCHANGED <<apiVars, auth, spent>> /\ At("doc")
  BY DEF RenderLine
<1>2. \/ \E next : Skip(next)
      \/ \E tag, whole, cut, next : EmitCut(tag, whole, cut, next)
  BY DEF RenderLine, CodeBlock, OneLine, Several, Table, Emit
<1> QED BY <1>1, <1>2 DEF Skip, EmitCut, Frame, CallsWhole, At, apiVars

-----------------------------------------------------------------------------
\* What the wire does to the call in a slot: the server answers it, its headers
\* arrive, or it goes on to its fallback.
Alike(c, d) == d.req = c.req /\ d.cookie = c.cookie /\ d.age = c.age
Served(c, d) ==
    /\ c.phase = "sent" /\ d.phase = "replied" /\ Alike(c, d)
    /\ c.req.op \notin Open =>
        \/ d.reply = [status |-> 401]
        \/ c.req.op \in env.missing /\ d.reply = [status |-> 404]
        \/ c.req.op \notin env.missing /\ d.reply = Answer(c.req, srv, "srv")
ReadOn(c, d) == c.phase = "replied" /\ d.phase = "reading" /\ Alike(c, d) /\ d.reply = c.reply
FellBack(c, d) ==
    /\ c.phase = "reading" /\ Live /\ c.req.op \in Fallback /\ c.reply.status = 404
    /\ c.req.op = "geo" => d = Fetching([op |-> "geoUniverse"], cookie)
    /\ c.req.op = "providers" => d = Fetching([op |-> "providersUniverse"], cookie)
    /\ c.req.op \in {"events", "settings"} => d = Delayed(c.req, Answer(c.req, mock, "mock"))
    /\ c.req.op = "patch" => d = Delayed(c.req, Answer(c.req, After(c.req, mock), "mock"))
WireStep(c, d) == c = d \/ Served(c, d) \/ ReadOn(c, d) \/ FellBack(c, d)

LEMMA ServeSteps ==
    ASSUME CallsWhole, NEW s \in Slot, Serve(s)
    PROVE  /\ CallsWhole' /\ env' = env
           /\ Served(calls[s], calls'[s])
           /\ \A t \in Slot \ {s} : calls'[t] = calls[t]
<1> DEFINE c == calls[s]
<1>1. /\ c.phase = "sent" /\ env' = env
      /\ \E r : /\ calls' = [calls EXCEPT ![s].phase = "replied", ![s].reply = r]
                /\ c.req.op \notin Open =>
                     \/ r = [status |-> 401]
                     \/ c.req.op \in env.missing /\ r = [status |-> 404]
                     \/ c.req.op \notin env.missing /\ r = Answer(c.req, srv, "srv")
  <2>1. CASE c.req.op \in Open
    BY <2>1 DEF Serve, Open
  <2>2. CASE c.req.op \notin Open
    BY <2>2, ZenonT(60) DEF Serve, Open
  <2> QED BY <2>1, <2>2
<1>2. PICK r : /\ calls' = [calls EXCEPT ![s].phase = "replied", ![s].reply = r]
               /\ c.req.op \notin Open =>
                    \/ r = [status |-> 401]
                    \/ c.req.op \in env.missing /\ r = [status |-> 404]
                    \/ c.req.op \notin env.missing /\ r = Answer(c.req, srv, "srv")
  BY <1>1
<1>3. /\ CallsWhole' /\ \A t \in Slot \ {s} : calls'[t] = calls[t]
      /\ calls'[s].phase = "replied" /\ calls'[s].reply = r /\ Alike(c, calls'[s])
  <2> DEFINE mid == [calls EXCEPT ![s].phase = "replied"]
  <2>1. /\ DOMAIN mid = Slot /\ \A t \in Slot : IsCall(mid[t])
        /\ \A t \in Slot \ {s} : mid[t] = calls[t]
        /\ mid[s].phase = "replied" /\ Alike(c, mid[s])
    BY DEF CallsWhole, IsCall, Alike
  <2>2. calls' = [mid EXCEPT ![s].reply = r]
    BY <1>2
  <2> HIDE DEF mid
  <2> QED BY <2>1, <2>2 DEF CallsWhole, IsCall, Alike
<1>4. c.phase = "sent" /\ env' = env
  BY <1>1
<1>5. c.req.op \notin Open =>
        \/ calls'[s].reply = [status |-> 401]
        \/ c.req.op \in env.missing /\ calls'[s].reply = [status |-> 404]
        \/ c.req.op \notin env.missing /\ calls'[s].reply = Answer(c.req, srv, "srv")
  BY <1>2, <1>3
<1> QED BY <1>3, <1>4, <1>5 DEF Served

LEMMA HeadersSteps ==
    ASSUME CallsWhole, NEW s \in Slot, HeadersArrive(s)
    PROVE  /\ CallsWhole' /\ env' = env
           /\ ReadOn(calls[s], calls'[s])
           /\ \A t \in Slot \ {s} : calls'[t] = calls[t]
BY DEF HeadersArrive, CallsWhole, IsCall, ReadOn, Alike

LEMMA FallBackSteps ==
    ASSUME CallsWhole, NEW s \in Slot, FallBack(s)
    PROVE  /\ CallsWhole' /\ env' = env
           /\ FellBack(calls[s], calls'[s])
           /\ \A t \in Slot \ {s} : calls'[t] = calls[t]
<1> DEFINE c == calls[s]
           answer == Answer(c.req, IF c.req.op = "patch" THEN After(c.req, mock) ELSE mock, "mock")
           d == CASE c.req.op = "geo" -> Fetching([op |-> "geoUniverse"], cookie)
                  [] c.req.op = "providers" -> Fetching([op |-> "providersUniverse"], cookie)
                  [] OTHER -> Delayed(c.req, answer)
<1>1. /\ c.phase = "reading" /\ env' = env
      /\ FallsBack(c, c.reply)
      /\ calls' = [calls EXCEPT ![s] = d]
  BY DEF FallBack
<1>2. IsCall(d)
  BY FreshCalls
<1>3. FellBack(c, d)
  BY <1>1 DEF FellBack, FallsBack, Fallback
<1> HIDE DEF d
<1> QED BY <1>1, <1>2, <1>3 DEF CallsWhole

LEMMA WireSteps ==
    ASSUME Frame, Wire
    PROVE  /\ Frame' /\ env' = env /\ UNCHANGED <<auth, view, spent>>
           /\ \A s \in Slot : WireStep(calls[s], calls'[s])
<1>1. CASE \E s \in Slot : Serve(s) \/ HeadersArrive(s) \/ FallBack(s)
  BY <1>1, ServeSteps, HeadersSteps, FallBackSteps DEF Wire, WireStep, Frame
<1>2. CASE \E c \in strays : ServeStray(c)
  BY <1>2 DEF Wire, ServeStray, WireStep, Frame, CallsWhole
<1> QED BY <1>1, <1>2 DEF Wire

-----------------------------------------------------------------------------
\* Mounting: the page in its first state, with its calls.
LEMMA FirstIs == ASSUME NEW x PROVE "page" \in DOMAIN First(x) /\ First(x).page = x
<1>1. CASE x \in {"overview", "geo", "providers", "settings", "proxies", "doc", "login"}
  BY <1>1 DEF First, OverviewFirst, GeoFirst, ProvidersFirst, SettingsFirst, ProxiesFirst,
              DocFirst, LoginFirst, ListOp
<1>2. CASE x \in {"logs", "validation"}
  BY <1>2 DEF First, ListFirst, ListOp
<1>3. CASE x \notin {"overview", "geo", "providers", "settings", "proxies", "doc", "login", "logs",
                     "validation"}
  BY <1>3 DEF First, ListOp
<1> QED BY <1>1, <1>2, <1>3

LEMMA OpeningIs ==
    ASSUME NEW reqs
    PROVE  DOMAIN Opening(reqs) = PageSlots /\ \A s \in PageSlots : IsCall(Opening(reqs)[s])
BY FreshCalls DEF Opening

LEMMA RemountedIs ==
    ASSUME NEW a
    PROVE  /\ DOMAIN Remounted(a) \subseteq PageSlots
           /\ \A s \in DOMAIN Remounted(a) : IsCall(Remounted(a)[s])
           /\ Stays(a) => DOMAIN Remounted(a) = {}
           /\ ~Stays(a) => Remounted(a) = Opening(Calls(Screen(a)))
<1>1. CASE Stays(a)
  BY <1>1 DEF Remounted, NoCall
<1>2. CASE ~Stays(a)
  BY <1>2, OpeningIs DEF Remounted
<1> QED BY <1>1, <1>2

\* What App does to the page: nothing, a change of the login page, or another
\* page in its place.
NewStrays(slots) ==
    \A c \in strays' :
        c \in strays \/ \E s \in slots : Unserved(calls[s]) /\ Unserved(c) /\ c.req = calls[s].req
Unmoved ==
    /\ view' = view /\ \A s \in PageSlots : calls'[s] = calls[s]
    /\ mock' = mock /\ (srv' = srv \/ SessionEnds) /\ NewStrays(AppSlots)
OnLogin ==
    /\ At("login") /\ At("login")' /\ \A s \in PageSlots : calls'[s] = calls[s]
    /\ NewStrays(AppSlots)
Mounted ==
    /\ view' = First(view'.page) /\ view'.page # view.page
    /\ \A s \in PageSlots : calls'[s] = Opening(Calls(view'.page))[s]
    /\ view'.page # "boot" => mock' = mock
    /\ srv' = srv /\ NewStrays(Slot)

LEMMA ReplaceStrays ==
    ASSUME CallsWhole, NEW slots, slots \subseteq Slot, NEW news, Replace(news),
           DOMAIN news \subseteq slots
    PROVE  NewStrays(slots)
<1> SUFFICES ASSUME NEW c \in strays', c \notin strays
             PROVE  \E s \in slots : Unserved(calls[s]) /\ Unserved(c) /\ c.req = calls[s].req
  BY DEF NewStrays
<1>1. PICK s \in DOMAIN news : Unserved(calls[s]) /\ c = [calls[s] EXCEPT !.age = 0]
  BY DEF Replace
<1>2. c.req = calls[s].req /\ c.phase = calls[s].phase
  BY <1>1 DEF CallsWhole, IsCall
<1> QED BY <1>1, <1>2 DEF Unserved

LEMMA RenderedIs ==
    ASSUME Frame, NEW a, NEW news, view' = Rendered(a), mock' = mock, srv' = srv,
           DOMAIN news \subseteq AppSlots, \A s \in DOMAIN news : IsCall(news[s]),
           Replace(Over(news, Remounted(a)))
    PROVE  /\ Frame' /\ (Unmoved \/ Mounted)
           /\ \A s \in DOMAIN news : calls'[s] = news[s]
           /\ \A s \in AppSlots \ DOMAIN news : calls'[s] = calls[s]
<1> DEFINE both == Over(news, Remounted(a))
<1>1. /\ DOMAIN both = DOMAIN news \cup DOMAIN Remounted(a)
      /\ \A s \in DOMAIN news : both[s] = news[s]
      /\ \A s \in DOMAIN Remounted(a) : both[s] = Remounted(a)[s]
  BY RemountedIs DEF Over, PageSlots
<1>2. /\ DOMAIN calls' = Slot
      /\ \A s \in Slot : calls'[s] = IF s \in DOMAIN both THEN both[s] ELSE calls[s]
  BY <1>1, RemountedIs, SlotsAre DEF Replace, Over, PageSlots, AppSlots, Frame, CallsWhole
<1>s. NewStrays(IF Stays(a) THEN AppSlots ELSE Slot)
  <2>1. DOMAIN both \subseteq IF Stays(a) THEN AppSlots ELSE Slot
    BY <1>1, RemountedIs, SlotsAre DEF PageSlots, AppSlots
  <2>2. (IF Stays(a) THEN AppSlots ELSE Slot) \subseteq Slot
    BY SlotsAre DEF AppSlots
  <2> HIDE DEF both
  <2>3. Replace(both)
    BY DEF both
  <2> QED BY <2>1, <2>2, <2>3, ReplaceStrays DEF Frame
<1> HIDE DEF both
<1>3. CallsWhole'
  BY <1>1, <1>2, RemountedIs DEF CallsWhole, Frame
<1>4. /\ \A s \in DOMAIN news : calls'[s] = news[s]
      /\ \A s \in AppSlots \ DOMAIN news : calls'[s] = calls[s]
  BY <1>1, <1>2, RemountedIs, SlotsAre DEF PageSlots, AppSlots
<1>5. CASE Stays(a)
  <2>1. view' = view
    BY <1>5 DEF Rendered
  <2>2. \A s \in PageSlots : calls'[s] = calls[s]
    BY <1>1, <1>2, <1>5, RemountedIs DEF PageSlots
  <2> QED BY <1>3, <1>4, <1>5, <1>s, <2>1, <2>2 DEF Frame, Unmoved
<1>6. CASE ~Stays(a)
  <2>1. view' = First(Screen(a)) /\ view'.page = Screen(a) /\ "page" \in DOMAIN view'
    BY <1>6, FirstIs DEF Rendered
  <2>2. \A s \in PageSlots : calls'[s] = Opening(Calls(Screen(a)))[s]
    BY <1>1, <1>2, <1>6, RemountedIs, OpeningIs DEF PageSlots
  <2> QED BY <1>3, <1>4, <1>6, <1>s, <2>1, <2>2 DEF Frame, Mounted, Stays
<1> QED BY <1>5, <1>6

\* The steps of App and the login page.
LEMMA AppSteps ==
    ASSUME Frame, AppNext
    PROVE  Frame' /\ env' = env /\ (Unmoved \/ OnLogin \/ Mounted)
<1> DEFINE Kept == Frame' /\ env' = env /\ (Unmoved \/ OnLogin \/ Mounted)
<1>a. \A s \in AppSlots : /\ DOMAIN Ended(s) \subseteq AppSlots
                          /\ \A t \in DOMAIN Ended(s) : IsCall(Ended(s)[t])
  BY FreshCalls DEF Ended
<1>b. /\ DOMAIN CheckSession \subseteq AppSlots
      /\ \A t \in DOMAIN CheckSession : IsCall(CheckSession[t])
  BY FreshCalls DEF CheckSession, AppSlots
<1>1. CASE SessionChecked
  <2>1. \E r : view' = Rendered(auth') /\ Settle("auth", r, Over(Ended("auth"), Remounted(auth')))
    BY <1>1 DEF SessionChecked
  <2>2. /\ Replace(Over(Ended("auth"), Remounted(auth')))
        /\ env' = env /\ mock' = mock /\ srv' = srv
    BY <2>1 DEF Settle
  <2> QED BY <1>a, <2>1, <2>2, RenderedIs DEF AppSlots
<1>2. ASSUME NEW right, SubmitLogin(right) PROVE Kept
  <2>1. CallsWhole' /\ env' = env
    BY <1>2, CallKeeps, SlotsAre DEF SubmitLogin, Frame
  <2> QED BY <1>2, <2>1
          DEF SubmitLogin, Call, OnLogin, NewStrays, Frame, CallsWhole, PageSlots, AppSlots, At
<1>3. CASE LoginAnswered
  <2>1. PICK r :
          \/ /\ view' = Rendered(auth')
             /\ Settle("auth", r, Over(CheckSession, Remounted(auth')))
          \/ /\ view' = IF At("login") THEN [view EXCEPT !.pending = FALSE, !.error = TRUE] ELSE view
             /\ Settle("auth", r, Ended("auth"))
    BY <1>3 DEF LoginAnswered
  <2>2. CASE /\ view' = Rendered(auth')
             /\ Settle("auth", r, Over(CheckSession, Remounted(auth')))
    <3>1. /\ Replace(Over(CheckSession, Remounted(auth')))
          /\ env' = env /\ mock' = mock /\ srv' = srv
      BY <2>2 DEF Settle
    <3> QED BY <1>b, <2>2, <3>1, RenderedIs
  <2>3. CASE /\ view' = IF At("login") THEN [view EXCEPT !.pending = FALSE, !.error = TRUE] ELSE view
             /\ Settle("auth", r, Ended("auth"))
    <3>1. CallsWhole' /\ env' = env
      BY <2>3, SettleKeeps, EndedIs, SlotsAre DEF Frame
    <3>2. \A s \in PageSlots : calls'[s] = calls[s]
      BY <2>3 DEF Settle, Replace, Over, Ended, PageSlots, AppSlots, Frame, CallsWhole
    <3>3. NewStrays(AppSlots)
      BY <1>a, <2>3, ReplaceStrays, SlotsAre DEF Settle, Frame, AppSlots
    <3> QED BY <2>3, <3>1, <3>2, <3>3 DEF Settle, Frame, Unmoved, OnLogin, At
  <2> QED BY <2>1, <2>2, <2>3
<1>4. ASSUME NEW s \in {"logout", "logout2"}, PressLogout(s) PROVE Kept
  <2>1. CallsWhole' /\ env' = env
    BY <1>4, CallKeeps, SlotsAre DEF PressLogout, Frame
  <2>2. mock' = mock
    BY <1>4 DEF PressLogout, Call, MockAfter, After
  <2> QED BY <1>4, <2>1, <2>2
          DEF PressLogout, Call, Unmoved, NewStrays, Frame, CallsWhole, PageSlots, AppSlots
<1>5. ASSUME NEW s \in {"logout", "logout2"}, LogoutAnswered(s) PROVE Kept
  <2>1. \E r : view' = Rendered(auth') /\ Settle(s, r, Over(Ended(s), Remounted(auth')))
    BY <1>5 DEF LogoutAnswered
  <2>2. /\ Replace(Over(Ended(s), Remounted(auth')))
        /\ env' = env /\ mock' = mock /\ srv' = srv
    BY <2>1 DEF Settle
  <2> QED BY <1>a, <2>1, <2>2, RenderedIs DEF AppSlots
<1>6. ASSUME NEW hash, Navigate(hash) PROVE Kept
  <2>1. /\ view' = Rendered(auth') /\ Replace(Remounted(auth'))
        /\ env' = env /\ mock' = mock /\ srv' = srv
    BY <1>6 DEF Navigate
  <2>2. PICK a : a = auth'
    OBVIOUS
  <2>3. DOMAIN Remounted(a) \cup {} = DOMAIN Remounted(a)
    OBVIOUS
  <2>4. Over(NoCall, Remounted(a)) = Remounted(a)
    <3>1. \/ Remounted(a) = NoCall
          \/ Remounted(a) = Opening(Calls(Screen(a)))
      BY DEF Remounted
    <3>2. NoCall = [s \in {} |-> Free] /\ \E S, f : Remounted(a) = [s \in S |-> f[s]]
      BY <3>1 DEF NoCall, Opening
    <3> QED BY <3>2 DEF Over
  <2>5. Replace(Over(NoCall, Remounted(a)))
    BY <2>1, <2>2, <2>4
  <2> QED BY <2>1, <2>2, <2>5, RenderedIs DEF NoCall
<1>7. CASE LoadAgain
  <2> DEFINE all == [s \in Slot |->
                        IF s = "auth" THEN Fetching([op |-> "session"], cookie) ELSE Free]
  <2>1. view' = First("boot") /\ calls' = Over(all, calls) /\ env' = env /\ srv' = srv
    BY <1>7 DEF LoadAgain, Replace
  <2>2. calls' = all /\ DOMAIN all = Slot /\ \A s \in Slot : IsCall(all[s])
    BY <2>1, FreshCalls DEF Over, Frame, CallsWhole
  <2>3. Calls("boot") = NoCall
    BY DEF Calls, ListOp
  <2>4. \A s \in PageSlots : calls'[s] = Opening(Calls("boot"))[s]
    BY <2>2, <2>3 DEF Opening, NoCall, PageSlots, AppSlots
  <2>5. NewStrays(Slot)
    <3>1. Replace(all)
      BY <1>7 DEF LoadAgain
    <3> HIDE DEF all
    <3> QED BY <2>2, <3>1, ReplaceStrays DEF Frame
  <2>6. view'.page = "boot" /\ "page" \in DOMAIN view' /\ view.page # "boot"
    BY <1>7, <2>1, FirstIs DEF LoadAgain, At
  <2> QED BY <2>1, <2>2, <2>4, <2>5, <2>6 DEF Mounted, Frame, CallsWhole
<1>8. CASE SessionEnds
  BY <1>8 DEF SessionEnds, Unmoved, NewStrays, Frame, CallsWhole
<1> QED BY <1>1, <1>2, <1>3, <1>4, <1>5, <1>6, <1>7, <1>8 DEF AppNext

LEMMA TickFrame ==
    ASSUME Frame, Tick
    PROVE  Frame' /\ env' = env /\ view'.page = view.page /\ view.page \in {"overview", "geo"}
<1>1. \A c : IsCall(c) => IsCall(Aged(c))
  BY DEF IsCall, Aged
<1>2. CallsWhole'
  BY <1>1 DEF Tick, CallsWhole, Frame
<1> QED BY <1>2 DEF Tick, Frame, Timed, At

LEMMA InitFrame ==
    ASSUME Init
    PROVE  Frame /\ view = First(view.page)
           /\ \A s \in PageSlots : calls[s] = Opening(Calls(view.page))[s]
<1> DEFINE page == [s \in PageSlots |->
                        IF s \in DOMAIN Calls(Screen(auth))
                        THEN Calling(Calls(Screen(auth))[s]) ELSE Free]
           boot == [s \in AppSlots |->
                        IF s = "auth" /\ Live THEN Fetching([op |-> "session"], 0) ELSE Free]
<1>1. view = First(Screen(auth)) /\ calls = Over(page, boot)
  BY DEF Init
<1>2. /\ \A s \in PageSlots : IsCall(page[s])
      /\ \A s \in AppSlots : IsCall(boot[s])
  BY FreshCalls
<1>3. DOMAIN calls = Slot /\ \A s \in Slot : IsCall(calls[s])
  BY <1>1, <1>2, SlotsAre DEF Over, PageSlots, AppSlots
<1>4. \A s \in PageSlots : calls[s] = page[s]
  BY <1>1 DEF Over
<1>5. page = Opening(Calls(Screen(auth)))
  BY DEF Opening
<1> QED BY <1>1, <1>3, <1>4, <1>5, FirstIs DEF Frame, CallsWhole

LEMMA PagesAre ==
    /\ First("overview") = OverviewFirst /\ Calls("overview") = OverviewCalls
    /\ First("geo") = GeoFirst /\ Calls("geo") = GeoCalls
    /\ First("logs") = ListFirst("logs") /\ Calls("logs") = ListCalls("logs")
    /\ First("validation") = ListFirst("validation") /\ Calls("validation") = ListCalls("validation")
    /\ First("providers") = ProvidersFirst /\ Calls("providers") = ProvidersCalls
    /\ First("settings") = SettingsFirst /\ Calls("settings") = SettingsCalls
    /\ First("proxies") = ProxiesFirst /\ Calls("proxies") = ProxiesCalls
    /\ First("doc") = DocFirst /\ Calls("doc") = NoCall
    /\ First("login") = LoginFirst /\ Calls("login") = NoCall
<1> USE DEF ListOp
<1>1. First("overview") = OverviewFirst /\ Calls("overview") = OverviewCalls
  BY DEF First, Calls
<1>2. First("geo") = GeoFirst /\ Calls("geo") = GeoCalls
  BY DEF First, Calls
<1>3. First("logs") = ListFirst("logs") /\ Calls("logs") = ListCalls("logs")
  BY DEF First, Calls
<1>4. First("validation") = ListFirst("validation") /\ Calls("validation") = ListCalls("validation")
  BY DEF First, Calls
<1>5. First("providers") = ProvidersFirst /\ Calls("providers") = ProvidersCalls
  BY DEF First, Calls
<1>6. First("settings") = SettingsFirst /\ Calls("settings") = SettingsCalls
  BY DEF First, Calls
<1>7. First("proxies") = ProxiesFirst /\ Calls("proxies") = ProxiesCalls
  BY DEF First, Calls
<1>8. First("doc") = DocFirst /\ Calls("doc") = NoCall
  BY DEF First, Calls
<1>9. First("login") = LoginFirst /\ Calls("login") = NoCall
  BY DEF First, Calls
<1> QED BY <1>1, <1>2, <1>3, <1>4, <1>5, <1>6, <1>7, <1>8, <1>9

-----------------------------------------------------------------------------
\* A step of the wire, as a page sees it.
Wired == Wire /\ view' = view /\ \A s \in Slot : WireStep(calls[s], calls'[s])

\* Every step, as a page sees it.
LEMMA PageSteps ==
    ASSUME Frame, [Next]_vars
    PROVE  /\ Frame' /\ env' = env
           /\ \/ Unmoved \/ Mounted \/ Wired
              \/ Tick /\ view'.page = view.page
              \/ OnLogin
              \/ OverviewNext /\ At("overview") /\ At("overview")'
              \/ GeoNext /\ At("geo") /\ At("geo")'
              \/ /\ ListPagesNext /\ view'.page = view.page
                 /\ view.page \in {"logs", "validation", "providers"}
              \/ SettingsNext /\ At("settings") /\ At("settings")'
              \/ ProxiesNext /\ At("proxies") /\ At("proxies")'
              \/ RenderLine /\ At("doc") /\ At("doc")'
<1>1. CASE UNCHANGED vars
  BY <1>1 DEF vars, Frame, CallsWhole, Unmoved, NewStrays
<1>2. CASE Wire
  BY <1>2, WireSteps DEF Wired
<1>3. CASE AppNext
  BY <1>3, AppSteps
<1>4. CASE Tick
  BY <1>4, TickFrame
<1>5. CASE OverviewNext
  BY <1>5, OverviewFrame
<1>6. CASE GeoNext
  BY <1>6, GeoFrame
<1>7. CASE ListPagesNext
  BY <1>7, ListFrame
<1>8. CASE SettingsNext
  BY <1>8, SettingsFrame
<1>9. CASE ProxiesNext
  BY <1>9, ProxiesFrame
<1>10. CASE RenderLine
  BY <1>10, DocFrame
<1> QED BY <1>1, <1>2, <1>3, <1>4, <1>5, <1>6, <1>7, <1>8, <1>9, <1>10 DEF Next

LEMMA WiredBusy ==
    ASSUME Wired, NEW s \in Slot
    PROVE  calls'[s].phase = "free" <=> calls[s].phase = "free"
<1>1. WireStep(calls[s], calls'[s])
  BY DEF Wired
<1>2. CASE FellBack(calls[s], calls'[s])
  BY <1>2 DEF FellBack, Fallback, Fetching, Delayed
<1> QED BY <1>1, <1>2 DEF WireStep, Served, ReadOn

\* The ticks of the timers.
LEMMA LimitsAre ==
    /\ GuardTicks \in Nat /\ RefreshTicks \in Nat /\ TimeoutTicks \in Nat
    /\ 0 < TimeoutTicks /\ TimeoutTicks < GuardTicks /\ GuardTicks <= RefreshTicks
    /\ Cleared \in 0..Cleared /\ GuardTicks \in 0..Cleared /\ GuardTicks < Cleared
    /\ \A n \in 0..Cleared : n < GuardTicks => n + 1 \in 0..Cleared /\ n + 1 # Cleared
    /\ \A n \in 0..RefreshTicks : n # RefreshTicks => n + 1 \in 0..RefreshTicks
    /\ 0 \in 0..RefreshTicks /\ 0 \in 0..Cleared /\ Cleared = GuardTicks + 1
BY FetchAssumption, ViewAssumption DEF Cleared

-----------------------------------------------------------------------------
\* How the stores change: by a call that is served or answered without the
\* server, and by what others do.
StoresStep ==
    /\ \/ srv' = srv
       \/ \E s \in Slot : Serve(s)
       \/ \E c \in strays : ServeStray(c)
       \/ LogMoves \/ PoolMoves \/ SessionEnds
    /\ \/ mock' = mock
       \/ \E s \in Slot : FallBack(s)
       \/ \E req : mock' = MockAfter(req)
       \/ mock' = MockStore

LEMMA StoresSteps == ASSUME [Next]_vars PROVE StoresStep
<1>a. ASSUME NEW s, NEW req, Call(s, req) PROVE StoresStep
  BY <1>a DEF Call, StoresStep
<1>b. ASSUME NEW s, NEW r, NEW news, Settle(s, r, news) PROVE StoresStep
  BY <1>b DEF Settle, StoresStep
<1>c. ASSUME UNCHANGED <<srv, mock>> PROVE StoresStep
  BY <1>c DEF StoresStep
<1>d. UNCHANGED apiVars => StoresStep
  BY <1>c DEF apiVars
<1>1. CASE UNCHANGED vars
  BY <1>1, <1>c DEF vars
<1>2. CASE Wire
  BY <1>2, ZenonT(60) DEF Wire, Serve, ServeStray, HeadersArrive, FallBack, StoresStep
<1>3. CASE AppNext
  <2>1. CASE SessionChecked
    BY <2>1, <1>b DEF SessionChecked
  <2>2. ASSUME NEW right, SubmitLogin(right) PROVE StoresStep
    BY <2>2, <1>a DEF SubmitLogin
  <2>3. CASE LoginAnswered
    BY <2>3, <1>b DEF LoginAnswered
  <2>4. ASSUME NEW s, PressLogout(s) PROVE StoresStep
    BY <2>4, <1>a DEF PressLogout
  <2>5. ASSUME NEW s, LogoutAnswered(s) PROVE StoresStep
    BY <2>5, <1>b DEF LogoutAnswered
  <2>6. ASSUME NEW hash, Navigate(hash) PROVE StoresStep
    BY <2>6 DEF Navigate, StoresStep
  <2>7. CASE LoadAgain
    BY <2>7 DEF LoadAgain, StoresStep
  <2>8. CASE SessionEnds
    BY <2>8 DEF SessionEnds, StoresStep
  <2> QED BY <1>3, <2>1, <2>2, <2>3, <2>4, <2>5, <2>6, <2>7, <2>8 DEF AppNext
<1>4. CASE Tick
  BY <1>4, <1>c DEF Tick
<1>5. CASE OverviewNext
  BY <1>5, <1>a, <1>b, <1>d DEF OverviewNext, OverviewLoads, OverviewGuardFires, OverviewPolls
<1>6. CASE GeoNext
  BY <1>6, <1>b, <1>d DEF GeoNext, GeoLoads, GeoGuardFires, TurnCountries, TurnAsns
<1>7. CASE ListPagesNext
  <2>1. CASE LogMoves
    BY <2>1 DEF LogMoves, World, StoresStep
  <2>2. CASE LogsLoad \/ ValidationLoad
    BY <2>2, <1>b DEF LogsLoad, ValidationLoad
  <2>3. CASE ProvidersLoad \/ ImportSettles \/ ImportedLoad
    <3>1. CASE ProvidersLoad
      BY <3>1, <1>b DEF ProvidersLoad
    <3>2. CASE ImportSettles
      BY <3>2, <1>b DEF ImportSettles
    <3>3. CASE ImportedLoad
      BY <3>3, <1>b DEF ImportedLoad
    <3> QED BY <2>3, <3>1, <3>2, <3>3
  <2>4. ASSUME NEW direct, SubmitImport(direct) PROVE StoresStep
    BY <2>4, <1>a DEF SubmitImport
  <2>5. ASSUME NEW number, TurnListPage(number) \/ TurnProviders(number) PROVE StoresStep
    BY <2>5, <1>a, <1>d DEF TurnListPage, TurnProviders
  <2> QED BY <1>7, <2>1, <2>2, <2>3, <2>4, <2>5 DEF ListPagesNext
<1>8. CASE SettingsNext
  BY <1>8, <1>a, <1>b, <1>d
     DEF SettingsNext, SettingsLoad, EditSettings, SaveSettings, SaveSettles, ChooseLanguage
<1>9. CASE ProxiesNext
  <2>1. CASE PoolMoves
    BY <2>1 DEF PoolMoves, World, StoresStep
  <2>2. ASSUME NEW v, Reload(v) PROVE StoresStep
    BY <2>2, <1>c DEF Reload
  <2>3. CASE OptionsLoad \/ ProxiesLoad \/ LateLoad
    BY <2>3, <1>b DEF OptionsLoad, ProxiesLoad, LateLoad
  <2>4. CASE DeleteAnswered \/ ListReloaded
    <3>1. CASE DeleteAnswered
      BY <3>1, <1>b DEF DeleteAnswered
    <3>2. CASE ListReloaded
      <4>1. \E r : \/ Settle("write", r, Ended("write"))
                  \/ \E news : Settle("write", r, news)
        BY <3>2 DEF ListReloaded
      <4> QED BY <4>1, <1>b
    <3> QED BY <2>4, <3>1, <3>2
  <2>5. ASSUME NEW filter, ChangeFilter(filter) PROVE StoresStep
    BY <2>5, <2>2 DEF ChangeFilter
  <2>6. CASE ResetFilters
    BY <2>6, <2>2 DEF ResetFilters
  <2>7. ASSUME NEW number, TurnPage(number) PROVE StoresStep
    BY <2>7, <2>2 DEF TurnPage
  <2>8. ASSUME NEW s, DetailArrives(s) PROVE StoresStep
    BY <2>8, <1>b DEF DetailArrives
  <2>9. ASSUME NEW s, NEW p, OpenDrawer(s, p) PROVE StoresStep
    BY <2>9, <1>a DEF OpenDrawer
  <2>10. ASSUME NEW p, AskDelete(p) PROVE StoresStep
    BY <2>10, <1>d DEF AskDelete
  <2>11. CASE CloseDrawer \/ CancelDelete \/ ConfirmDelete
    BY <2>11, <1>a, <1>d DEF CloseDrawer, CancelDelete, ConfirmDelete
  <2> QED BY <1>9, <2>1, <2>3, <2>4, <2>5, <2>6, <2>7, <2>8, <2>9, <2>10, <2>11 DEF ProxiesNext
<1>10. CASE RenderLine
  BY <1>10, <1>d DEF RenderLine
<1> QED BY <1>1, <1>2, <1>3, <1>4, <1>5, <1>6, <1>7, <1>8, <1>9, <1>10 DEF Next

-----------------------------------------------------------------------------
LEMMA ListOpIs ==
    /\ DOMAIN ListOp = {"logs", "validation"}
    /\ ListOp["logs"] = "events" /\ ListOp["validation"] = "validation"
BY DEF ListOp

\* A call that has its answer.
Answered(c) == c.phase \in {"replied", "reading", "delayed"}

\* What the slots of a page may hold: no call of the session, and a save, an import or
\* a delete only of the page that has it.
MayHold(s, op, page) ==
    /\ op \notin Open
    /\ op = "patch" => s = "write" /\ page = "settings"
    /\ op = "import" => s = "write" /\ page = "providers"
    /\ op = "delete" => s = "write" /\ page = "proxies"

Homed == {"patch", "import", "delete"}

\* What the steps of a page do outside of it: to no slot of App's and to no session.
PageAsks(s, req) == MayHold(s, req.op, view.page)
Touches(s, c) ==
    c \in {Free, calls["read"]} \/ \E req : c = Calling(req) /\ PageAsks(s, req)
Elsewhere == cookie' = cookie /\ NewStrays(PageSlots) /\ (srv' = srv \/ LogMoves \/ PoolMoves)
PageTouch ==
    /\ Elsewhere
    /\ \A s \in AppSlots : calls'[s] = calls[s]
    /\ \A s \in PageSlots : calls'[s] = calls[s] \/ Touches(s, calls'[s])

LEMMA TouchSettle ==
    ASSUME CallsWhole, NEW s, NEW r, NEW news, Settle(s, r, news),
           DOMAIN news \subseteq PageSlots, \A t \in DOMAIN news : Touches(t, news[t])
    PROVE  PageTouch
<1>1. calls' = Over(news, calls)
  BY DEF Settle, Replace
<1>2. DOMAIN calls = Slot /\ AppSlots \cap PageSlots = {} /\ AppSlots \subseteq Slot /\ PageSlots \subseteq Slot
  BY SlotsAre DEF CallsWhole, PageSlots, AppSlots
<1>3. \A t \in Slot : calls'[t] = IF t \in DOMAIN news THEN news[t] ELSE calls[t]
  BY <1>1, <1>2 DEF Over
<1>4. Elsewhere
  BY <1>2, ReplaceStrays DEF Settle, Elsewhere
<1> QED BY <1>2, <1>3, <1>4 DEF PageTouch

LEMMA TouchCall ==
    ASSUME CallsWhole, NEW s \in PageSlots, NEW req, Call(s, req), PageAsks(s, req)
    PROVE  PageTouch
<1>1. /\ calls'[s] = Calling(req) /\ \A t \in Slot \ {s} : calls'[t] = calls[t]
      /\ s \notin AppSlots /\ AppSlots \subseteq Slot /\ PageSlots \subseteq Slot
  BY SlotsAre DEF Call, CallsWhole, PageSlots, AppSlots
<1>2. Touches(s, calls'[s])
  BY <1>1 DEF Touches
<1>3. Elsewhere
  BY DEF Call, Elsewhere, NewStrays
<1> QED BY <1>1, <1>2, <1>3 DEF PageTouch

LEMMA TouchNone ==
    ASSUME UNCHANGED <<calls, strays, cookie>>, srv' = srv \/ LogMoves \/ PoolMoves
    PROVE  PageTouch
BY DEF PageTouch, Elsewhere, NewStrays

LEMMA TouchEnded ==
    ASSUME NEW s \in PageSlots
    PROVE  /\ DOMAIN Ended(s) \subseteq PageSlots
           /\ \A t \in DOMAIN Ended(s) : Touches(t, Ended(s)[t])
BY DEF Ended, Touches

LEMMA PageSlotsAre == PageSlots = {"read", "late", "options", "detail", "detail2", "write"}
BY SlotsAre DEF PageSlots, AppSlots

LEMMA TouchReload == ASSUME CallsWhole, NEW v, Reload(v) PROVE PageTouch
<1>1. DOMAIN Renewed(v) \subseteq PageSlots /\ \A t \in DOMAIN Renewed(v) : Touches(t, Renewed(v)[t])
  <2>1. PageAsks("read", ListReq(v))
    BY DEF PageAsks, MayHold, ListReq, Open
  <2>2. "read" \in DOMAIN Renewed(v) /\ Renewed(v)["read"] = Calling(ListReq(v))
    BY DEF Renewed, Over
  <2>3. \A t \in DOMAIN Renewed(v) : t = "read" \/ (t = "late" /\ Renewed(v)[t] = calls["read"])
    BY DEF Renewed, Over, NoCall
  <2> QED BY <2>1, <2>2, <2>3, PageSlotsAre DEF Touches
<1>2. calls' = Over(Renewed(v), calls)
  BY DEF Reload, Replace
<1>3. \A t \in Slot : calls'[t] = IF t \in DOMAIN Renewed(v) THEN Renewed(v)[t] ELSE calls[t]
  BY <1>2 DEF Over, CallsWhole
<1>4. Elsewhere
  <2>1. PageSlots \subseteq Slot
    BY DEF PageSlots
  <2> QED BY <1>1, <2>1, ReplaceStrays DEF Reload, Elsewhere
<1> QED BY <1>1, <1>3, <1>4, SlotsAre DEF PageTouch, PageSlots, AppSlots

LEMMA PageTouches ==
    ASSUME Frame,
           OverviewNext \/ GeoNext \/ ListPagesNext \/ SettingsNext \/ ProxiesNext \/ RenderLine
    PROVE  PageTouch
<1>c. CallsWhole
  BY DEF Frame
<1>e. ASSUME NEW s \in PageSlots, NEW r, Settle(s, r, Ended(s)) PROVE PageTouch
  BY <1>c, <1>e, TouchSettle, TouchEnded
<1>n. UNCHANGED apiVars => PageTouch
  BY TouchNone DEF apiVars
<1>k. ASSUME NEW s \in PageSlots, NEW op, NEW req, req.op = op, Call(s, req),
             \/ op \in {"overview", "events", "validation", "settings", "detail"}
             \/ op = "import" /\ s = "write" /\ At("providers")
             \/ op = "delete" /\ s = "write" /\ At("proxies")
      PROVE  PageTouch
  BY <1>c, <1>k, TouchCall DEF PageAsks, MayHold, Open, At
<1>s. ASSUME NEW s \in PageSlots, NEW r, NEW t \in PageSlots, NEW req, NEW news,
             Settle(s, r, news), DOMAIN news = {t}, news[t] = Calling(req),
             req.op \in {"events", "validation", "providers", "list"}
      PROVE  PageTouch
  <2>1. \A x \in DOMAIN news : Touches(x, news[x]) /\ x \in PageSlots
    BY <1>s DEF Touches, PageAsks, MayHold, Open
  <2> QED BY <1>c, <1>s, <2>1, TouchSettle
<1> USE PageSlotsAre
<1>1. CASE OverviewNext
  <2>1. CASE OverviewLoads
    BY <2>1, <1>e DEF OverviewLoads
  <2>2. CASE OverviewGuardFires
    BY <2>2, <1>n DEF OverviewGuardFires
  <2>3. CASE OverviewPolls
    BY <2>3, <1>n, <1>k DEF OverviewPolls
  <2> QED BY <1>1, <2>1, <2>2, <2>3 DEF OverviewNext
<1>2. CASE GeoNext
  BY <1>2, <1>e, <1>n DEF GeoNext, GeoLoads, GeoGuardFires, TurnCountries, TurnAsns
<1>3. CASE ListPagesNext
  <2>1. CASE LogsLoad \/ ValidationLoad
    <3>1. PICK r, news : /\ Settle("read", r, news)
                         /\ \/ news = [read |-> ListCall(view.number - 1)]
                            \/ news = Ended("read")
      BY <2>1 DEF LogsLoad, ValidationLoad
    <3>2. PICK req : ListCall(view.number - 1) = Calling(req) /\ req.op \in {"events", "validation"}
      BY <2>1, ListOpIs DEF LogsLoad, ValidationLoad, ListCall, At
    <3> QED BY <3>1, <3>2, <1>e, <1>s
  <2>2. CASE LogMoves
    BY <2>2, TouchNone DEF LogMoves, World
  <2>3. CASE ProvidersLoad
    BY <2>3, <1>e DEF ProvidersLoad
  <2>4. CASE ImportSettles
    <3>1. PICK r, news : /\ Settle("write", r, news)
                         /\ \/ news = [write |-> Calling([op |-> "providers"])]
                            \/ news = Ended("write")
      BY <2>4 DEF ImportSettles
    <3>2. PICK req : req = [op |-> "providers"]
      OBVIOUS
    <3> QED BY <3>1, <3>2, <1>e, <1>s
  <2>5. CASE ImportedLoad
    BY <2>5, <1>e DEF ImportedLoad
  <2>6. ASSUME NEW direct, SubmitImport(direct) PROVE PageTouch
    BY <2>6, <1>k DEF SubmitImport
  <2>7. ASSUME NEW number, TurnListPage(number) PROVE PageTouch
    <3>1. Call("read", [op |-> ListOp[view.page], page |-> number])
          /\ ListOp[view.page] \in {"events", "validation"}
      BY <2>7, ListOpIs DEF TurnListPage, OnListPage
    <3> QED BY <3>1, <1>k
  <2>8. ASSUME NEW number, TurnProviders(number) PROVE PageTouch
    BY <2>8, <1>n DEF TurnProviders
  <2> QED BY <1>3, <2>1, <2>2, <2>3, <2>4, <2>5, <2>6, <2>7, <2>8 DEF ListPagesNext
<1>4. CASE SettingsNext
  <2>1. CASE SettingsLoad
    BY <2>1, <1>e DEF SettingsLoad
  <2>2. ASSUME NEW value, EditSettings(value) PROVE PageTouch
    BY <2>2, <1>n DEF EditSettings
  <2>3. CASE SaveSettings
    <3>1. PICK req : Call("write", req) /\ req.op = "patch" /\ At("settings")
      BY <2>3 DEF SaveSettings
    <3>2. PageAsks("write", req)
      BY <3>1 DEF PageAsks, MayHold, Open, At
    <3> QED BY <1>c, <3>1, <3>2, TouchCall
  <2>4. CASE SaveSettles
    BY <2>4, <1>e DEF SaveSettles
  <2>5. CASE ChooseLanguage
    BY <2>5, <1>k DEF ChooseLanguage
  <2> QED BY <1>4, <2>1, <2>2, <2>3, <2>4, <2>5 DEF SettingsNext
<1>5. CASE ProxiesNext
  <2>1. CASE OptionsLoad \/ LateLoad
    BY <2>1, <1>e DEF OptionsLoad, LateLoad
  <2>2. CASE ProxiesLoad
    <3>1. PICK r, v, news : /\ Settle("read", r, news)
                            /\ \/ news = [read |-> Calling(ListReq(v))]
                               \/ news = Ended("read")
      BY <2>2 DEF ProxiesLoad
    <3>2. ListReq(v).op = "list"
      BY DEF ListReq
    <3> QED BY <3>1, <3>2, <1>e, <1>s
  <2>3. ASSUME NEW filter, ChangeFilter(filter) PROVE PageTouch
    BY <2>3, <1>c, TouchReload DEF ChangeFilter
  <2>4. CASE ResetFilters
    BY <2>4, <1>c, TouchReload DEF ResetFilters
  <2>5. ASSUME NEW number, TurnPage(number) PROVE PageTouch
    BY <2>5, <1>c, TouchReload DEF TurnPage
  <2>6. ASSUME NEW p, AskDelete(p) PROVE PageTouch
    BY <2>6, <1>n DEF AskDelete
  <2>7. ASSUME NEW s \in Details, DetailArrives(s) PROVE PageTouch
    BY <2>7, <1>e DEF DetailArrives, Details
  <2>8. ASSUME NEW s \in Details, NEW p, OpenDrawer(s, p) PROVE PageTouch
    BY <2>8, <1>k DEF OpenDrawer, Details
  <2>9. CASE CloseDrawer \/ CancelDelete
    BY <2>9, <1>n DEF CloseDrawer, CancelDelete
  <2>10. CASE ConfirmDelete
    BY <2>10, <1>k DEF ConfirmDelete
  <2>11. CASE DeleteAnswered
    <3>1. PICK r, v, news : /\ Settle("write", r, news)
                            /\ \/ news = [write |-> Calling(ListReq(v))]
                               \/ news = Ended("write")
      BY <2>11 DEF DeleteAnswered
    <3>2. ListReq(v).op = "list"
      BY DEF ListReq
    <3> QED BY <3>1, <3>2, <1>e, <1>s
  <2>12. CASE ListReloaded
    <3>1. PICK r, v : \/ Settle("write", r, Ended("write"))
                      \/ Settle("write", r, Over(Ended("write"), Renewed(v)))
      BY <2>12 DEF ListReloaded
    <3>2. CASE Settle("write", r, Over(Ended("write"), Renewed(v)))
      <4> DEFINE both == Over(Ended("write"), Renewed(v))
      <4>1. PageAsks("read", ListReq(v))
        BY DEF PageAsks, MayHold, ListReq, Open
      <4>2. "read" \in DOMAIN Renewed(v) /\ Renewed(v)["read"] = Calling(ListReq(v))
        BY DEF Renewed, Over
      <4>3. \A t \in DOMAIN Renewed(v) : t = "read" \/ (t = "late" /\ Renewed(v)[t] = calls["read"])
        BY DEF Renewed, Over, NoCall
      <4>4. /\ DOMAIN both = {"write"} \cup DOMAIN Renewed(v)
            /\ \A t \in DOMAIN both :
                    \/ t = "write" /\ both[t] = Free
                    \/ both[t] = Renewed(v)[t] /\ t \in DOMAIN Renewed(v)
        <5>1. DOMAIN Ended("write") = {"write"} /\ Ended("write")["write"] = Free
          BY DEF Ended
        <5>2. PICK new, old : new = Ended("write") /\ old = Renewed(v)
          OBVIOUS
        <5>3. both = Over(new, old)
          BY <5>2
        <5>4. /\ DOMAIN both = {"write"} \cup DOMAIN old
              /\ \A t \in DOMAIN new : both[t] = new[t]
              /\ \A t \in DOMAIN old \ DOMAIN new : both[t] = old[t]
          <6>1. PICK w : w = Over(new, old)
            OBVIOUS
          <6>2. /\ DOMAIN w = DOMAIN new \cup DOMAIN old
                /\ \A t \in DOMAIN new : w[t] = new[t]
                /\ \A t \in DOMAIN old \ DOMAIN new : w[t] = old[t]
            BY <6>1 DEF Over
          <6>3. both = w
            BY <5>3, <6>1
          <6>4. DOMAIN new = {"write"}
            BY <5>1, <5>2
          <6> HIDE DEF both
          <6> QED BY <6>2, <6>3, <6>4
        <5> HIDE DEF both
        <5> QED BY <5>1, <5>2, <5>4
      <4>5. DOMAIN both \subseteq PageSlots /\ \A t \in DOMAIN both : Touches(t, both[t])
        BY <4>1, <4>2, <4>3, <4>4 DEF Touches
      <4> HIDE DEF both
      <4>6. Settle("write", r, both)
        BY <3>2 DEF both
      <4> QED BY <1>c, <4>5, <4>6, TouchSettle
    <3> QED BY <3>1, <3>2, <1>e
  <2>13. CASE PoolMoves
    BY <2>13, TouchNone DEF PoolMoves, World
  <2> QED BY <1>5, <2>1, <2>2, <2>3, <2>4, <2>5, <2>6, <2>7, <2>8, <2>9, <2>10, <2>11, <2>12, <2>13
          DEF ProxiesNext
<1>6. CASE RenderLine
  BY <1>6, <1>n DEF RenderLine
<1> QED BY <1>1, <1>2, <1>3, <1>4, <1>5, <1>6

LEMMA SettleElse ==
    ASSUME CallsWhole, NEW s, NEW r, NEW news, Settle(s, r, news)
    PROVE  /\ \A t \in Slot \cap DOMAIN news : calls'[t] = news[t]
           /\ \A t \in Slot \ DOMAIN news : calls'[t] = calls[t]
           /\ r \in Results(s) /\ calls[s].phase # "free"
BY DEF Settle, Replace, Over, CallsWhole, Busy

LEMMA SettleEnded ==
    ASSUME CallsWhole, NEW s \in Slot, NEW r, Settle(s, r, Ended(s))
    PROVE  /\ calls'[s] = Free
           /\ \A t \in Slot \ {s} : calls'[t] = calls[t]
           /\ r \in Results(s) /\ calls[s].phase # "free"
<1>1. DOMAIN Ended(s) = {s} /\ Ended(s)[s] = Free
  BY DEF Ended
<1> QED BY <1>1, SettleElse

LEMMA CallElse ==
    ASSUME CallsWhole, NEW s \in Slot, NEW req, Call(s, req)
    PROVE  /\ calls'[s] = Calling(req)
           /\ \A t \in Slot \ {s} : calls'[t] = calls[t]
BY DEF Call, CallsWhole

LEMMA RenewedElse ==
    ASSUME CallsWhole, NEW v
    PROVE  /\ DOMAIN Renewed(v) \subseteq {"read", "late"} /\ "read" \in DOMAIN Renewed(v)
           /\ Renewed(v)["read"] = Calling(ListReq(v))
BY DEF Renewed, Over, NoCall

LEMMA ReloadElse ==
    ASSUME CallsWhole, NEW v, Reload(v)
    PROVE  /\ view' = v
           /\ calls'["read"] = Calling(ListReq(v))
           /\ \A t \in Slot \ {"read", "late"} : calls'[t] = calls[t]
<1>1. calls' = Over(Renewed(v), calls) /\ view' = v
  BY DEF Reload, Replace
<1>2. PICK news : news = Renewed(v)
  OBVIOUS
<1>3. calls' = Over(news, calls)
  BY <1>1, <1>2
<1>4. /\ DOMAIN news \subseteq {"read", "late"} /\ "read" \in DOMAIN news
      /\ news["read"] = Calling(ListReq(v))
  BY <1>2, RenewedElse
<1>5. \A t \in Slot : calls'[t] = IF t \in DOMAIN news THEN news[t] ELSE calls[t]
  BY <1>3 DEF Over, CallsWhole
<1> QED BY <1>1, <1>4, <1>5, SlotsAre

-----------------------------------------------------------------------------
\* What is answered is what was asked for.
Echoes(c) ==
    /\ c.phase \in Phase
    /\ Answered(c) /\ c.reply.status = 200 =>
            /\ c.req.op = "list" => c.reply.filter = c.req.filter /\ c.reply.page = c.req.page
            /\ c.req.op = "detail" => c.reply.proxy = c.req.proxy

LEMMA SearchedIs ==
    ASSUME NEW rows, NEW filter, NEW page
    PROVE  "page" \in DOMAIN Searched(rows, filter, page) /\ Searched(rows, filter, page).page = page
<1> DEFINE all == BestFirst(Filtered(rows, LAMBDA p : Passes(p, [filter EXCEPT !.named = Null])))
           found == Filtered(PageOf(all, page, PageSize), LAMBDA p : Passes(p, filter))
           offset == (page - 1) * PageSize
           total == IF filter.named # Null /\ Len(found) < PageSize + offset
                    THEN Len(found) + offset ELSE Slice(all, page, "srv").total
<1>1. Searched(rows, filter, page) = [Slice(all, page, "srv") EXCEPT !.items = found, !.total = total]
  BY Zenon DEF Searched
<1> HIDE DEF all, found, total
<1> QED BY <1>1 DEF Slice

LEMMA AnswersEcho ==
    ASSUME NEW req, NEW store, NEW at, Answer(req, store, at).status = 200
    PROVE  /\ req.op = "list" => /\ Answer(req, store, at).filter = req.filter
                                 /\ Answer(req, store, at).page = req.page
           /\ req.op = "detail" => Answer(req, store, at).proxy = req.proxy
<1>1. CASE req.op = "list"
  <2>1. PICK slice : /\ slice = IF at = "srv" THEN Searched(store.proxies, req.filter, req.page)
                                 ELSE Slice(filterAndSortProxies(store.proxies, req.filter), req.page, at)
                     /\ Answer(req, store, at) = Over([filter |-> req.filter], slice)
    BY <1>1 DEF Answer, ProxyAnswer
  <2>2. "page" \in DOMAIN slice /\ slice.page = req.page
    <3>1. CASE at = "srv"
      BY <2>1, <3>1, SearchedIs
    <3>2. CASE at # "srv"
      BY <2>1, <3>2 DEF Slice
    <3> QED BY <3>1, <3>2
  <2>4. Answer(req, store, at) = Over([filter |-> req.filter], slice)
    BY <2>1
  <2>5. PICK a : a = Answer(req, store, at)
    OBVIOUS
  <2>6. a.filter = req.filter /\ a.page = slice.page
    BY <2>2, <2>4, <2>5 DEF Over
  <2> QED BY <1>1, <2>2, <2>5, <2>6
<1>2. CASE req.op = "detail"
  <2>1. Answer(req, store, at) = IF req.proxy \in ToSet(store.proxies) THEN Ok([proxy |-> req.proxy])
                                 ELSE [status |-> IF at = "srv" THEN 404 ELSE 0]
    BY <1>2 DEF Answer, ProxyAnswer
  <2>2. Ok([proxy |-> req.proxy]).proxy = req.proxy
    BY DEF Ok, Over
  <2> QED BY <1>2, <2>1, <2>2
<1> QED BY <1>1, <1>2

LEMMA CallsEcho ==
    /\ Echoes(Free)
    /\ \A req : Echoes(Calling(req)) /\ Calling(req).phase # "free" /\ Calling(req).req = req
<1>1. Echoes(Free)
  BY DEF Echoes, Free, Answered, Phase
<1>2. ASSUME NEW req
      PROVE  Echoes(Calling(req)) /\ Calling(req).phase # "free" /\ Calling(req).req = req
  <2>1. CASE Live
    BY <2>1 DEF Calling, Fetching, Echoes, Answered, Phase
  <2>2. CASE ~Live
    <3>1. PICK a, c : a = Answer(req, mock, "mock") /\ c = Calling(req)
      OBVIOUS
    <3>2. c = Delayed(req, a)
      BY <2>2, <3>1 DEF Calling
    <3>3. c.phase = "delayed" /\ c.req = req /\ c.reply = a
      BY <3>2 DEF Delayed
    <3>4. Echoes(c)
      BY <3>1, <3>3, AnswersEcho DEF Echoes, Phase
    <3> QED BY <3>1, <3>3, <3>4
  <2> QED BY <2>1, <2>2
<1> QED BY <1>1, <1>2

LEMMA WireEchoes ==
    ASSUME NEW c, NEW d, Echoes(c), WireStep(c, d), c.req.op \notin Open
    PROVE  Echoes(d)
<1>1. CASE c = d
  BY <1>1
<1>2. CASE Served(c, d)
  <2>1. /\ d.phase = "replied" /\ d.req = c.req
        /\ \/ d.reply.status # 200
           \/ d.reply = Answer(c.req, srv, "srv")
    BY <1>2 DEF Served, Alike
  <2> QED BY <2>1, AnswersEcho DEF Echoes, Phase
<1>3. CASE ReadOn(c, d)
  BY <1>3 DEF ReadOn, Alike, Echoes, Answered, Phase
<1>4. CASE FellBack(c, d)
  <2>1. d.phase \in {"sent", "delayed"} /\ (d.phase = "delayed" => d.req.op \in {"events", "settings", "patch"})
    BY <1>4 DEF FellBack, Fetching, Delayed, Fallback
  <2> QED BY <2>1 DEF Echoes, Answered, Phase
<1> QED BY <1>1, <1>2, <1>3, <1>4 DEF WireStep

PageCalls == \A s \in PageSlots : Echoes(calls[s]) /\ MayHold(s, calls[s].req.op, view.page)

LEMMA OpeningHolds ==
    ASSUME NEW page, NEW s \in PageSlots
    PROVE  \/ Opening(Calls(page))[s] = Free
           \/ \E req : /\ Opening(Calls(page))[s] = Calling(req)
                       /\ req.op \notin Open \cup Homed
<1>1. \A x \in DOMAIN Calls(page) : Calls(page)[x].op \notin Open \cup Homed
  <2>1. CASE page = "overview"
    BY <2>1, PagesAre DEF OverviewCalls, Homed, Open
  <2>2. CASE page = "geo"
    BY <2>2, PagesAre DEF GeoCalls, Homed, Open
  <2>3. CASE page \in DOMAIN ListOp
    <3>1. Calls(page) = ListCalls(page)
      BY <2>3, PagesAre, ListOpIs
    <3>2. DOMAIN ListCalls(page) = {"read"} /\ ListCalls(page)["read"].op = ListOp[page]
      BY DEF ListCalls
    <3> QED BY <2>3, <3>1, <3>2, ListOpIs DEF Homed, Open
  <2>4. CASE page = "providers"
    BY <2>4, PagesAre DEF ProvidersCalls, Homed, Open
  <2>5. CASE page = "settings"
    BY <2>5, PagesAre DEF SettingsCalls, Homed, Open
  <2>6. CASE page = "proxies"
    BY <2>6, PagesAre DEF ProxiesCalls, ListReq, Homed, Open
  <2>7. CASE page \notin {"overview", "geo", "providers", "settings", "proxies"} \cup DOMAIN ListOp
    <3>1. Calls(page) = NoCall
      BY <2>7 DEF Calls
    <3> QED BY <3>1 DEF NoCall
  <2> QED BY <2>1, <2>2, <2>3, <2>4, <2>5, <2>6, <2>7
<1>2. Opening(Calls(page))[s] = IF s \in DOMAIN Calls(page) THEN Calling(Calls(page)[s]) ELSE Free
  BY DEF Opening
<1>3. CASE s \in DOMAIN Calls(page)
  <2>1. PICK req : req = Calls(page)[s]
    OBVIOUS
  <2>2. Opening(Calls(page))[s] = Calling(req) /\ req.op \notin Open \cup Homed
    BY <1>1, <1>2, <1>3, <2>1
  <2> QED BY <2>2
<1>4. CASE s \notin DOMAIN Calls(page)
  BY <1>2, <1>4
<1> QED BY <1>3, <1>4

LEMMA PageCallsKept ==
    ASSUME Frame, PageCalls, [Next]_vars
    PROVE  PageCalls'
<1> SUFFICES ASSUME NEW s \in PageSlots
             PROVE  Echoes(calls'[s]) /\ MayHold(s, calls'[s].req.op, view'.page)
  BY DEF PageCalls
<1>i. Echoes(calls[s]) /\ MayHold(s, calls[s].req.op, view.page)
  BY DEF PageCalls
<1>s. PageSlots \subseteq Slot /\ "read" \in PageSlots
  BY PageSlotsAre, SlotsAre
<1>f. Echoes(Free) /\ \A page : MayHold(s, Free.req.op, page)
  BY CallsEcho DEF Free, MayHold, Open
<1>1. CASE Unmoved
  BY <1>1, <1>i DEF Unmoved, At
<1>2. CASE OnLogin
  BY <1>2, <1>i DEF OnLogin, At
<1>3. CASE Mounted
  <2>1. calls'[s] = Opening(Calls(view'.page))[s]
    BY <1>3 DEF Mounted
  <2>2. \/ calls'[s] = Free
        \/ \E req : calls'[s] = Calling(req) /\ req.op \notin Open \cup Homed
    BY <2>1, OpeningHolds
  <2>3. CASE calls'[s] = Free
    BY <1>f, <2>3 DEF MayHold, Free
  <2>4. ASSUME NEW req, calls'[s] = Calling(req), req.op \notin Open \cup Homed
        PROVE  Echoes(calls'[s]) /\ MayHold(s, calls'[s].req.op, view'.page)
    BY <2>4, CallsEcho DEF MayHold, Homed
  <2> QED BY <2>2, <2>3, <2>4
<1>4. CASE Wired
  <2>1. WireStep(calls[s], calls'[s]) /\ view' = view
    BY <1>4, <1>s DEF Wired
  <2>2. MayHold(s, calls'[s].req.op, view.page)
    BY <2>1, <1>i
       DEF WireStep, Served, ReadOn, FellBack, Alike, Fallback, Fetching, Delayed, MayHold, Open
  <2>3. Echoes(calls'[s])
    BY <2>1, <1>i, WireEchoes DEF MayHold
  <2> QED BY <2>1, <2>2, <2>3 DEF At
<1>5. CASE Tick /\ view'.page = view.page
  <2>1. calls'[s] = Aged(calls[s]) /\ IsCall(calls[s])
    BY <1>5, <1>s DEF Tick, Frame, CallsWhole
  <2>2. /\ Aged(calls[s]).phase = calls[s].phase /\ Aged(calls[s]).req = calls[s].req
        /\ Aged(calls[s]).reply = calls[s].reply
    BY <2>1 DEF Aged, IsCall
  <2> QED BY <1>5, <1>i, <2>1, <2>2 DEF Echoes, Answered, At
<1>6. ASSUME PageTouch, view'.page = view.page
      PROVE  Echoes(calls'[s]) /\ MayHold(s, calls'[s].req.op, view'.page)
  <2>1. CASE calls'[s] = calls[s]
    BY <1>6, <1>i, <2>1 DEF MayHold
  <2>2. CASE calls'[s] = Free
    BY <1>f, <2>2 DEF MayHold, Free
  <2>3. CASE calls'[s] = calls["read"]
    <3>1. Echoes(calls["read"]) /\ MayHold("read", calls["read"].req.op, view.page)
      BY <1>s DEF PageCalls
    <3> QED BY <2>3, <3>1 DEF MayHold
  <2>4. ASSUME NEW req, calls'[s] = Calling(req), PageAsks(s, req)
        PROVE  Echoes(calls'[s]) /\ MayHold(s, calls'[s].req.op, view'.page)
    BY <1>6, <2>4, CallsEcho DEF PageAsks, MayHold
  <2> QED BY <1>6, <2>1, <2>2, <2>3, <2>4 DEF PageTouch, Touches
<1> QED BY <1>1, <1>2, <1>3, <1>4, <1>5, <1>6, PageSteps, PageTouches DEF At

LEMMA PageCallsOpen == Init => PageCalls
<1> SUFFICES ASSUME Init, NEW s \in PageSlots
             PROVE  Echoes(calls[s]) /\ MayHold(s, calls[s].req.op, view.page)
  BY DEF PageCalls
<1>1. calls[s] = Opening(Calls(view.page))[s]
  BY InitFrame
<1> QED BY <1>1, OpeningHolds, CallsEcho DEF MayHold, Free, Homed, Open

LEMMA CallingIs ==
    \A req : Calling(req).req = req /\ Calling(req).phase # "free"
BY CallsEcho

-----------------------------------------------------------------------------
\* What App and the login page do to their own slots.
Else(slots) == \A t \in AppSlots \ slots : calls'[t] = calls[t]
AppMoves ==
    \/ /\ SessionChecked \/ LoginAnswered
       /\ calls'["auth"] = Free /\ Else({"auth"})
    \/ /\ LoginAnswered
       /\ calls'["auth"] = Calling([op |-> "session"]) /\ Else({"auth"})
    \/ \E right \in BOOLEAN :
        /\ SubmitLogin(right)
        /\ calls'["auth"] = Calling([op |-> "login", right |-> right]) /\ Else({"auth"})
    \/ \E s \in {"logout", "logout2"} :
        /\ PressLogout(s)
        /\ calls'[s] = Calling([op |-> "logout"]) /\ Else({s})
    \/ \E s \in {"logout", "logout2"} : LogoutAnswered(s) /\ calls'[s] = Free /\ Else({s})
    \/ LoadAgain /\ calls'["auth"] = Fetching([op |-> "session"], cookie)
                 /\ \A s \in {"logout", "logout2"} : calls'[s] = Free
    \/ ((\E hash \in spent.hashes : Navigate(hash)) \/ SessionEnds) /\ Else({})

LEMMA AppMoved == ASSUME Frame, AppNext PROVE AppMoves
<1>s. AppSlots \subseteq Slot /\ AppSlots = {"auth", "logout", "logout2"}
  BY SlotsAre DEF AppSlots
<1>a. \A s \in AppSlots : /\ DOMAIN Ended(s) = {s} /\ Ended(s)[s] = Free
                          /\ DOMAIN Ended(s) \subseteq AppSlots
                          /\ \A t \in DOMAIN Ended(s) : IsCall(Ended(s)[t])
  BY FreshCalls DEF Ended
<1>e. ASSUME NEW s \in AppSlots, NEW r, NEW a, view' = Rendered(a),
             Settle(s, r, Over(Ended(s), Remounted(a)))
      PROVE  calls'[s] = Free /\ Else({s})
  <2>1. /\ Replace(Over(Ended(s), Remounted(a)))
        /\ env' = env /\ mock' = mock /\ srv' = srv
    BY <1>e DEF Settle
  <2>2. PICK news : news = Ended(s)
    OBVIOUS
  <2>3. /\ DOMAIN news = {s} /\ news[s] = Free
        /\ DOMAIN news \subseteq AppSlots /\ \A t \in DOMAIN news : IsCall(news[t])
    BY <1>a, <2>2
  <2>4. Replace(Over(news, Remounted(a)))
    BY <2>1, <2>2
  <2>5. /\ \A t \in DOMAIN news : calls'[t] = news[t]
        /\ \A t \in AppSlots \ DOMAIN news : calls'[t] = calls[t]
    BY <1>e, <2>1, <2>3, <2>4, RenderedIs
  <2> QED BY <2>3, <2>5 DEF Else
<1>c. ASSUME NEW s \in AppSlots, NEW req, Call(s, req)
      PROVE  calls'[s] = Calling(req) /\ Else({s})
  <2>1. s \in Slot
    BY <1>s
  <2>2. calls'[s] = Calling(req) /\ \A t \in Slot \ {s} : calls'[t] = calls[t]
    BY <1>c, <2>1, CallElse DEF Frame
  <2> QED BY <1>s, <2>2 DEF Else
<1>1. CASE SessionChecked
  <2>1. \E r : view' = Rendered(auth') /\ Settle("auth", r, Over(Ended("auth"), Remounted(auth')))
    BY <1>1 DEF SessionChecked
  <2>2. PICK a : a = auth'
    OBVIOUS
  <2>3. calls'["auth"] = Free /\ Else({"auth"})
    BY <1>s, <1>e, <2>1, <2>2
  <2> QED BY <1>1, <2>3 DEF AppMoves
<1>2. ASSUME NEW right \in BOOLEAN, SubmitLogin(right) PROVE AppMoves
  <2>1. PICK req : req = [op |-> "login", right |-> right]
    OBVIOUS
  <2>2. calls'["auth"] = Calling(req) /\ Else({"auth"})
    BY <1>2, <1>s, <1>c, <2>1 DEF SubmitLogin
  <2> QED BY <1>2, <2>1, <2>2 DEF AppMoves
<1>3. CASE LoginAnswered
  <2>1. PICK r :
          \/ /\ view' = Rendered(auth')
             /\ Settle("auth", r, Over(CheckSession, Remounted(auth')))
          \/ Settle("auth", r, Ended("auth"))
    BY <1>3 DEF LoginAnswered
  <2>2. CASE /\ view' = Rendered(auth')
             /\ Settle("auth", r, Over(CheckSession, Remounted(auth')))
    <3>1. /\ Replace(Over(CheckSession, Remounted(auth')))
          /\ env' = env /\ mock' = mock /\ srv' = srv
      BY <2>2 DEF Settle
    <3>2. /\ DOMAIN CheckSession = {"auth"}
          /\ CheckSession["auth"] = Calling([op |-> "session"])
      BY DEF CheckSession
    <3>3. DOMAIN CheckSession \subseteq AppSlots /\ \A t \in DOMAIN CheckSession : IsCall(CheckSession[t])
      BY <1>s, <3>2, FreshCalls
    <3>4. calls'["auth"] = Calling([op |-> "session"]) /\ Else({"auth"})
      BY <2>2, <3>1, <3>2, <3>3, RenderedIs DEF Else
    <3> QED BY <1>3, <3>4 DEF AppMoves
  <2>3. CASE Settle("auth", r, Ended("auth"))
    <3>1. "auth" \in Slot
      BY <1>s
    <3>2. calls'["auth"] = Free /\ \A t \in Slot \ {"auth"} : calls'[t] = calls[t]
      BY <2>3, <3>1, SettleEnded DEF Frame
    <3> QED BY <1>3, <1>s, <3>2 DEF AppMoves, Else
  <2> QED BY <2>1, <2>2, <2>3
<1>4. ASSUME NEW s \in {"logout", "logout2"}, PressLogout(s) PROVE AppMoves
  <2>1. PICK req : req = [op |-> "logout"]
    OBVIOUS
  <2>2. calls'[s] = Calling(req) /\ Else({s})
    BY <1>4, <1>s, <1>c, <2>1 DEF PressLogout
  <2> QED BY <1>4, <2>1, <2>2 DEF AppMoves
<1>5. ASSUME NEW s \in {"logout", "logout2"}, LogoutAnswered(s) PROVE AppMoves
  <2>1. \E r : view' = Rendered(auth') /\ Settle(s, r, Over(Ended(s), Remounted(auth')))
    BY <1>5 DEF LogoutAnswered
  <2>2. calls'[s] = Free /\ Else({s})
    BY <1>s, <1>e, <2>1
  <2> QED BY <1>5, <2>2 DEF AppMoves
<1>6. ASSUME NEW hash \in spent.hashes, Navigate(hash) PROVE AppMoves
  <2>1. PICK a : a = auth'
    OBVIOUS
  <2>2. DOMAIN Remounted(a) \subseteq PageSlots
    BY DEF Remounted, NoCall, Opening
  <2>3. PICK news : news = Remounted(a)
    OBVIOUS
  <2>4. calls' = Over(news, calls)
    BY <1>6, <2>1, <2>3 DEF Navigate, Replace
  <2>5. \A t \in AppSlots : calls'[t] = calls[t]
    BY <1>s, <2>2, <2>3, <2>4 DEF Over, PageSlots, Frame, CallsWhole
  <2> QED BY <1>6, <2>5 DEF AppMoves, Else
<1>7. CASE LoadAgain
  <2>1. PICK all : /\ all = [s \in Slot |->
                            IF s = "auth" THEN Fetching([op |-> "session"], cookie) ELSE Free]
                   /\ calls' = Over(all, calls)
    BY <1>7 DEF LoadAgain, Replace
  <2>2. DOMAIN all = Slot /\ \A t \in AppSlots : calls'[t] = all[t]
    BY <1>s, <2>1 DEF Over
  <2> QED BY <1>7, <1>s, <2>1, <2>2 DEF AppMoves
<1>8. CASE SessionEnds
  BY <1>8 DEF SessionEnds, AppMoves, Else
<1> QED BY <1>1, <1>2, <1>3, <1>4, <1>5, <1>6, <1>7, <1>8 DEF AppNext

\* App's slots hold its own calls.
OwnOp(s, op) ==
    op = "none" \/ IF s = "auth" THEN op \in {"session", "login"} ELSE op = "logout"
AppCalls == \A s \in AppSlots : OwnOp(s, calls[s].req.op)

LEMMA FetchingIs ==
    \A req, jar : /\ Fetching(req, jar).req = req /\ Fetching(req, jar).phase = "sent"
                  /\ Fetching(req, jar).cookie = jar
BY DEF Fetching

LEMMA AppCallsKept ==
    ASSUME Frame, AppCalls, [Next]_vars
    PROVE  AppCalls'
<1> SUFFICES ASSUME NEW s \in AppSlots PROVE OwnOp(s, calls'[s].req.op)
  BY DEF AppCalls
<1>i. OwnOp(s, calls[s].req.op)
  BY DEF AppCalls
<1>s. AppSlots = {"auth", "logout", "logout2"} /\ AppSlots \subseteq Slot
  BY SlotsAre DEF AppSlots
<1>f. OwnOp(s, Free.req.op)
  BY DEF Free, OwnOp
<1>1. CASE UNCHANGED vars
  BY <1>1, <1>i DEF vars
<1>2. CASE Wire
  <2>1. WireStep(calls[s], calls'[s])
    BY <1>2, <1>s, WireSteps
  <2>2. calls[s].req.op \notin Fallback
    BY <1>i DEF OwnOp, Fallback
  <2> QED BY <1>i, <2>1, <2>2 DEF WireStep, Served, ReadOn, FellBack, Alike
<1>3. CASE AppNext
  <2>1. AppMoves
    BY <1>3, AppMoved
  <2>2. \/ calls'[s] = calls[s] \/ calls'[s] = Free
        \/ s = "auth" /\ calls'[s] = Calling([op |-> "session"])
        \/ s = "auth" /\ \E right : calls'[s] = Calling([op |-> "login", right |-> right])
        \/ s # "auth" /\ calls'[s] = Calling([op |-> "logout"])
        \/ s = "auth" /\ calls'[s] = Fetching([op |-> "session"], cookie)
    BY <1>s, <2>1 DEF AppMoves, Else
  <2>3. ASSUME s = "auth", NEW right, calls'[s] = Calling([op |-> "login", right |-> right])
        PROVE  OwnOp(s, calls'[s].req.op)
    <3>1. calls'[s].req = [op |-> "login", right |-> right]
      BY <2>3, CallingIs
    <3> QED BY <2>3, <3>1 DEF OwnOp
  <2>4. PICK session, logout : session = [op |-> "session"] /\ logout = [op |-> "logout"]
    OBVIOUS
  <2>5. CASE s = "auth" /\ (calls'[s] = Calling(session) \/ calls'[s] = Fetching(session, cookie))
    <3>1. calls'[s].req = session
      BY <2>5, CallingIs, FetchingIs
    <3> QED BY <2>4, <2>5, <3>1 DEF OwnOp
  <2>6. CASE s # "auth" /\ calls'[s] = Calling(logout)
    <3>1. calls'[s].req = logout
      BY <2>6, CallingIs
    <3> QED BY <2>4, <2>6, <3>1 DEF OwnOp
  <2> QED BY <1>i, <1>f, <2>2, <2>3, <2>4, <2>5, <2>6
<1>4. CASE Tick
  <2>1. calls'[s] = calls[s]
    BY <1>4, <1>s DEF Tick, PageSlots
  <2> QED BY <1>i, <2>1
<1>5. CASE OverviewNext \/ GeoNext \/ ListPagesNext \/ SettingsNext \/ ProxiesNext \/ RenderLine
  BY <1>5, <1>i, PageTouches DEF PageTouch
<1> QED BY <1>1, <1>2, <1>3, <1>4, <1>5 DEF Next

LEMMA AppCallsOpen == Init => AppCalls
<1> SUFFICES ASSUME Init, NEW s \in AppSlots PROVE OwnOp(s, calls[s].req.op)
  BY DEF AppCalls
<1> DEFINE page == [t \in PageSlots |->
                        IF t \in DOMAIN Calls(Screen(auth))
                        THEN Calling(Calls(Screen(auth))[t]) ELSE Free]
           boot == [t \in AppSlots |->
                        IF t = "auth" /\ Live THEN Fetching([op |-> "session"], 0) ELSE Free]
<1>1. calls = Over(page, boot)
  BY DEF Init
<1>2. calls[s] = boot[s]
  BY <1>1 DEF Over, PageSlots
<1> QED BY <1>2, FetchingIs DEF OwnOp, Free

-----------------------------------------------------------------------------
\* Induction up to a number, for the members of a set.
LEMMA UpTo ==
    ASSUME NEW N \in Nat, NEW S, 0 \in S, \A n \in 1..N : n - 1 \in S => n \in S
    PROVE  \A n \in 0..N : n \in S
<1> DEFINE Missing == (0..N) \ S
<1> SUFFICES ASSUME Missing # {} PROVE FALSE
  OBVIOUS
<1>1. PICK least \in Missing : \A n \in Missing : ~(n < least)
  <2>1. Missing \subseteq Nat
    OBVIOUS
  <2> HIDE DEF Missing
  <2>2. \E x \in Missing : \A y \in Missing : ~(<<y, x>> \in OpToRel(<, Nat))
    BY <2>1, NatLessThanWellFounded, WFMin, Zenon
  <2> QED BY <2>1, <2>2 DEF OpToRel
<1>2. least \in 1..N /\ least - 1 \in 0..N
  OBVIOUS
<1>3. least - 1 \notin Missing
  BY <1>1, <1>2
<1>4. least \in S
  BY <1>2, <1>3
<1> QED BY <1>1, <1>4

\* j comes before i, or is i: by a first number, a second one, and the place they had.
Ahead(first, second, j, i) ==
    \/ first[j] > first[i]
    \/ first[j] = first[i] /\ second[j] > second[i]
    \/ first[j] = first[i] /\ second[j] = second[i] /\ j <= i

Place(kept, first, second, i) == Cardinality({j \in kept : Ahead(first, second, j, i)})

\* Counting those ahead numbers the kept places from 1, in their order.
LEMMA PlacesAre ==
    ASSUME NEW n \in Nat, NEW kept \in SUBSET (1..n), NEW first \in [1..n -> Int],
           NEW second \in [1..n -> Int]
    PROVE  /\ IsFiniteSet(kept) /\ Cardinality(kept) \in Nat
           /\ \A i \in kept : Place(kept, first, second, i) \in 1..Cardinality(kept)
           /\ \A i, j \in kept : Ahead(first, second, i, j)
                    <=> Place(kept, first, second, i) <= Place(kept, first, second, j)
           /\ \A k \in 1..Cardinality(kept) : \E i \in kept : Place(kept, first, second, i) = k
<1> DEFINE Upto(i) == {j \in kept : Ahead(first, second, j, i)}
           P(i) == Place(kept, first, second, i)
<1>1. IsFiniteSet(kept) /\ Cardinality(kept) \in Nat
  <2>1. IsFiniteSet(1..n)
    BY FS_Interval
  <2> QED BY <2>1, FS_Subset, FS_CardinalityType
<1>2. \A i \in kept : i \in Upto(i) /\ Upto(i) \subseteq kept
  BY DEF Ahead
<1>3. ASSUME NEW i \in kept, NEW j \in kept, Ahead(first, second, i, j) PROVE Upto(i) \subseteq Upto(j)
  <2> SUFFICES ASSUME NEW x \in kept, Ahead(first, second, x, i) PROVE Ahead(first, second, x, j)
    OBVIOUS
  <2>1. {first[x], first[i], first[j], second[x], second[i], second[j], x, i, j} \subseteq Int
    OBVIOUS
  <2> QED BY <1>3, <2>1 DEF Ahead
<1>4. ASSUME NEW i \in kept, NEW j \in kept, Ahead(first, second, i, j), Ahead(first, second, j, i)
      PROVE  i = j
  BY <1>4 DEF Ahead
<1>5. ASSUME NEW i \in kept, NEW j \in kept, ~Ahead(first, second, i, j)
      PROVE  Ahead(first, second, j, i)
  BY <1>5 DEF Ahead
<1>6. \A i \in kept : IsFiniteSet(Upto(i)) /\ Cardinality(Upto(i)) \in Nat
                        /\ Cardinality(Upto(i)) <= Cardinality(kept) /\ P(i) = Cardinality(Upto(i))
  <2> SUFFICES ASSUME NEW i \in kept
               PROVE  IsFiniteSet(Upto(i)) /\ Cardinality(Upto(i)) \in Nat
                        /\ Cardinality(Upto(i)) <= Cardinality(kept) /\ P(i) = Cardinality(Upto(i))
    OBVIOUS
  <2>1. Upto(i) \in SUBSET kept
    OBVIOUS
  <2>2. P(i) = Cardinality(Upto(i))
    BY DEF Place
  <2> HIDE DEF Upto, P
  <2> QED BY <1>1, <2>1, <2>2, FS_Subset, FS_CardinalityType
<1>7. \A i \in kept : Cardinality(Upto(i)) >= 1
  <2> TAKE i \in kept
  <2>1. Upto(i) # {}
    BY <1>2
  <2> HIDE DEF Upto
  <2> QED BY <1>6, <2>1, FS_EmptySet
<1>8. ASSUME NEW i \in kept, NEW j \in kept PROVE Ahead(first, second, i, j) <=> P(i) <= P(j)
  <2>1. CASE Ahead(first, second, i, j)
    <3>1. Upto(i) \in SUBSET Upto(j)
      BY <1>3, <2>1
    <3> HIDE DEF Upto, P
    <3> QED BY <1>6, <2>1, <3>1, FS_Subset
  <2>2. CASE ~Ahead(first, second, i, j)
    <3>1. Upto(j) \in SUBSET Upto(i)
      BY <1>3, <1>5, <2>2
    <3>2. i \in Upto(i) /\ i \notin Upto(j)
      BY <1>2, <2>2
    <3> HIDE DEF Upto, P
    <3>3. Upto(j) # Upto(i)
      BY <3>2
    <3>4. Cardinality(Upto(j)) <= Cardinality(Upto(i)) /\ Cardinality(Upto(j)) # Cardinality(Upto(i))
      BY <1>6, <3>1, <3>3, FS_Subset
    <3> QED BY <1>6, <2>2, <3>4
  <2> QED BY <2>1, <2>2
<1>9. \A i, j \in kept : P(i) = P(j) => i = j
  <2> SUFFICES ASSUME NEW i \in kept, NEW j \in kept, P(i) = P(j) PROVE i = j
    OBVIOUS
  <2>1. P(i) <= P(j) /\ P(j) <= P(i)
    <3> HIDE DEF Upto, P
    <3> QED BY <1>6
  <2> QED BY <1>4, <1>8, <2>1
<1>10. \A i \in kept : P(i) \in 1..Cardinality(kept)
  <2> HIDE DEF Upto, P
  <2> QED BY <1>1, <1>6, <1>7
<1>11. \A k \in 1..Cardinality(kept) : \E i \in kept : P(i) = k
  <2> DEFINE f == [i \in kept |-> P(i)]
             c == Cardinality(kept)
  <2>1. f \in Injection(kept, 1..c)
    <3> HIDE DEF P
    <3> QED BY <1>9, <1>10 DEF Injection, IsInjective
  <2>2. IsFiniteSet(1..c) /\ Cardinality(1..c) = c
    <3> HIDE DEF P
    <3> QED BY <1>1, FS_Interval
  <2>3. f \in Surjection(kept, 1..c)
    <3> HIDE DEF f, P
    <3> QED BY <1>1, <2>1, <2>2, FS_Injection
  <2> HIDE DEF P
  <2> QED BY <2>3 DEF Surjection
<1> HIDE DEF P
<1>12. \A i \in kept : P(i) = Place(kept, first, second, i)
  BY DEF P
<1> QED BY <1>1, <1>8, <1>10, <1>11, <1>12

\* A list of the kept places by their number is one of all of them, once, in order.
LEMMA RankedIs ==
    ASSUME NEW n \in Nat, NEW kept \in SUBSET (1..n), NEW first \in [1..n -> Int],
           NEW second \in [1..n -> Int], NEW at,
           \A k \in 1..Cardinality(kept) : at[k] \in kept /\ Place(kept, first, second, at[k]) = k
    PROVE  /\ \A i \in kept : \E k \in 1..Cardinality(kept) : at[k] = i
           /\ \A k, m \in 1..Cardinality(kept) :
                /\ at[k] = at[m] => k = m
                /\ k <= m <=> Ahead(first, second, at[k], at[m])
<1> DEFINE P(i) == Place(kept, first, second, i)
           c == Cardinality(kept)
<1>1. /\ \A i \in kept : P(i) \in 1..c
      /\ \A i, j \in kept : Ahead(first, second, i, j) <=> P(i) <= P(j)
      /\ \A i, j \in kept : P(i) = P(j) => i = j
  <2>1. /\ \A i \in kept : Place(kept, first, second, i) \in 1..Cardinality(kept)
        /\ \A i, j \in kept : Ahead(first, second, i, j)
                <=> Place(kept, first, second, i) <= Place(kept, first, second, j)
        /\ \A i, j \in kept : Place(kept, first, second, i) = Place(kept, first, second, j) => i = j
    <3>1. kept \in SUBSET (1..n) /\ first \in [1..n -> Int] /\ second \in [1..n -> Int] /\ n \in Nat
      OBVIOUS
    <3>2. \A i \in kept : Place(kept, first, second, i) \in 1..Cardinality(kept)
      BY <3>1, PlacesAre, Zenon
    <3>3. \A i, j \in kept : Ahead(first, second, i, j)
                <=> Place(kept, first, second, i) <= Place(kept, first, second, j)
      BY <3>1, PlacesAre, Zenon
    <3>4. \A i, j \in kept : Place(kept, first, second, i) = Place(kept, first, second, j) => i = j
      <4> SUFFICES ASSUME NEW i \in kept, NEW j \in kept,
                          Place(kept, first, second, i) = Place(kept, first, second, j)
                   PROVE  i = j
        OBVIOUS
      <4>1. Ahead(first, second, i, j) /\ Ahead(first, second, j, i)
        BY <3>2, <3>3
      <4> QED BY <4>1 DEF Ahead
    <3> QED BY <3>2, <3>3, <3>4
  <2> QED BY <2>1, Zenon
<1>2. \A k \in 1..c : at[k] \in kept /\ P(at[k]) = k
  OBVIOUS
<1> HIDE DEF P, c
<1>3. \A i \in kept : \E k \in 1..c : at[k] = i
  <2> TAKE i \in kept
  <2>1. P(i) \in 1..c
    BY <1>1
  <2>2. at[P(i)] \in kept /\ P(at[P(i)]) = P(i)
    BY <1>2, <2>1
  <2> QED BY <1>1, <2>1, <2>2
<1>4. ASSUME NEW k \in 1..c, NEW m \in 1..c
      PROVE  (at[k] = at[m] => k = m) /\ (k <= m <=> Ahead(first, second, at[k], at[m]))
  <2>1. at[k] \in kept /\ at[m] \in kept /\ P(at[k]) = k /\ P(at[m]) = m
    BY <1>2
  <2>2. Ahead(first, second, at[k], at[m]) <=> P(at[k]) <= P(at[m])
    BY <1>1, <2>1
  <2> QED BY <2>1, <2>2
<1> QED BY <1>3, <1>4 DEF c

-----------------------------------------------------------------------------
\* What filter leaves, by the places it keeps.
Picked(list, kept) ==
    [k \in 1..Cardinality(kept) |->
        list[CHOOSE i \in kept : Cardinality({j \in kept : j <= i}) = k]]

\* b lists the places in kept, each once and in their order.
InOrder(b, kept) ==
    /\ b \in [1..Cardinality(kept) -> kept]
    /\ \A i \in kept : \E k \in 1..Cardinality(kept) : b[k] = i
    /\ \A k, m \in 1..Cardinality(kept) : (b[k] = b[m] => k = m) /\ (k <= m <=> b[k] <= b[m])

\* b lists the places that are kept, and those are the ones picked.
Picks(b, list, kept) ==
    InOrder(b, kept) /\ Picked(list, kept) = [k \in 1..Cardinality(kept) |-> list[b[k]]]

LEMMA PickedIs ==
    ASSUME NEW n \in Nat, NEW kept \in SUBSET (1..n), NEW list
    PROVE  /\ IsFiniteSet(kept) /\ Cardinality(kept) \in Nat
           /\ \E b : Picks(b, list, kept)
<1> DEFINE zero == [i \in 1..n |-> 0]
           c == Cardinality(kept)
           b == [k \in 1..c |-> CHOOSE i \in kept : Cardinality({j \in kept : j <= i}) = k]
<1>1. zero \in [1..n -> Int]
  OBVIOUS
<1>2. \A i, j \in kept : Ahead(zero, zero, j, i) <=> j <= i
  BY DEF Ahead
<1>3. \A i \in kept : Place(kept, zero, zero, i) = Cardinality({j \in kept : j <= i})
  <2> TAKE i \in kept
  <2>1. {j \in kept : Ahead(zero, zero, j, i)} = {j \in kept : j <= i}
    BY <1>2
  <2> HIDE DEF zero
  <2> QED BY <2>1, Zenon DEF Place
<1> HIDE DEF zero
<1>4. /\ IsFiniteSet(kept) /\ c \in Nat
      /\ \A k \in 1..Cardinality(kept) : \E i \in kept : Place(kept, zero, zero, i) = k
  BY <1>1, PlacesAre, Zenon
<1>5. \A k \in 1..c : b[k] \in kept /\ Place(kept, zero, zero, b[k]) = k
  <2> TAKE k \in 1..c
  <2>1. b[k] = CHOOSE i \in kept : Cardinality({j \in kept : j <= i}) = k
    BY Zenon
  <2>2. \E i \in kept : Cardinality({j \in kept : j <= i}) = k
    BY <1>3, <1>4, Zenon
  <2>3. b[k] \in kept /\ Cardinality({j \in kept : j <= b[k]}) = k
    <3> HIDE DEF b
    <3> QED BY <2>1, <2>2, Zenon
  <2> QED BY <1>3, <2>3, Zenon
<1>6. Picked(list, kept) = [k \in 1..c |-> list[b[k]]]
  <2>1. \A k \in 1..c : list[CHOOSE i \in kept : Cardinality({j \in kept : j <= i}) = k] = list[b[k]]
    <3> TAKE k \in 1..c
    <3>1. b[k] = CHOOSE i \in kept : Cardinality({j \in kept : j <= i}) = k
      BY Zenon
    <3> HIDE DEF b
    <3> QED BY <3>1, Zenon
  <2> HIDE DEF b
  <2>2. [k \in 1..c |-> list[CHOOSE i \in kept : Cardinality({j \in kept : j <= i}) = k]]
            = [k \in 1..c |-> list[b[k]]]
    BY <2>1, Zenon
  <2> QED BY <2>2, Zenon DEF Picked
<1>7. b \in [1..c -> kept]
  <2>1. \A k \in 1..c : b[k] \in kept
    BY <1>5, Zenon
  <2> QED BY <2>1, Zenon
<1> HIDE DEF b
<1>8. /\ \A i \in kept : \E k \in 1..Cardinality(kept) : b[k] = i
      /\ \A k, m \in 1..Cardinality(kept) :
                /\ b[k] = b[m] => k = m
                /\ k <= m <=> Ahead(zero, zero, b[k], b[m])
  BY <1>1, <1>5, RankedIs
<1>9. InOrder(b, kept)
  BY <1>2, <1>7, <1>8 DEF InOrder
<1> QED BY <1>4, <1>6, <1>9 DEF Picks

\* What sort leaves, by two numbers of each place.
LEMMA SortPlaces ==
    ASSUME NEW n \in Nat, NEW first \in [1..n -> Int], NEW second \in [1..n -> Int]
    PROVE  \A k \in 1..n : \E i \in 1..n : Place(1..n, first, second, i) = k
<1> DEFINE S == 1..n
<1>1. Cardinality(S) = n
  BY FS_Interval
<1>2. S \in SUBSET (1..n)
  OBVIOUS
<1> HIDE DEF S
<1>3. \A k \in 1..Cardinality(S) : \E i \in S : Place(S, first, second, i) = k
  BY <1>2, PlacesAre, Zenon
<1> QED BY <1>1, <1>3 DEF S

LEMMA SortRanks ==
    ASSUME NEW n \in Nat, NEW first \in [1..n -> Int], NEW second \in [1..n -> Int], NEW at,
           \A k \in 1..n : at[k] \in 1..n /\ Place(1..n, first, second, at[k]) = k
    PROVE  /\ \A i \in 1..n : \E k \in 1..n : at[k] = i
           /\ \A k, m \in 1..n :
                /\ at[k] = at[m] => k = m
                /\ k <= m <=> Ahead(first, second, at[k], at[m])
<1> DEFINE S == 1..n
<1>1. Cardinality(S) = n
  BY FS_Interval
<1>2. S \in SUBSET (1..n) /\ \A k \in 1..Cardinality(S) : at[k] \in S /\ Place(S, first, second, at[k]) = k
  BY <1>1
<1> HIDE DEF S
<1>3. /\ \A i \in S : \E k \in 1..Cardinality(S) : at[k] = i
      /\ \A k, m \in 1..Cardinality(S) :
                /\ at[k] = at[m] => k = m
                /\ k <= m <=> Ahead(first, second, at[k], at[m])
  BY <1>2, RankedIs
<1> QED BY <1>1, <1>3 DEF S

-----------------------------------------------------------------------------
\* The filtered and sorted list has rows of the snapshot.
LEMMA ListedIs ==
    ASSUME NEW rows \in Seq(Proxy), NEW filter
    PROVE  /\ filterAndSortProxies(rows, filter) \in Seq(Proxy)
           /\ ToSet(filterAndSortProxies(rows, filter)) \subseteq ToSet(rows)
<1> DEFINE kept == {i \in DOMAIN rows : Passes(rows[i], filter)}
           list == Picked(rows, kept)
           n == Cardinality(kept)
           first == [i \in 1..n |-> RowOf[list[i]].score]
           second == [i \in 1..n |-> ListedAt(list[i])]
           ahead(i) == {j \in DOMAIN list :
                \/ \/ RowOf[list[j]].score > RowOf[list[i]].score
                   \/ RowOf[list[j]].score = RowOf[list[i]].score /\ ListedAt(list[j]) > ListedAt(list[i])
                \/ /\ ~(\/ RowOf[list[i]].score > RowOf[list[j]].score
                        \/ RowOf[list[i]].score = RowOf[list[j]].score /\ ListedAt(list[i]) > ListedAt(list[j]))
                   /\ j <= i}
           at == [k \in DOMAIN list |-> CHOOSE i \in DOMAIN list : Cardinality(ahead(i)) = k]
           r == filterAndSortProxies(rows, filter)
<1>1. Filtered(rows, LAMBDA p : Passes(p, filter)) = list
  BY Zenon DEF Filtered, Picked
<1>0. r = [k \in DOMAIN list |-> list[CHOOSE i \in DOMAIN list : Cardinality(ahead(i)) = k]]
  <2> DEFINE all == Filtered(rows, LAMBDA p : Passes(p, filter))
             aheadIn(items, i) == {j \in DOMAIN items :
                \/ \/ RowOf[items[j]].score > RowOf[items[i]].score
                   \/ RowOf[items[j]].score = RowOf[items[i]].score /\ ListedAt(items[j]) > ListedAt(items[i])
                \/ /\ ~(\/ RowOf[items[i]].score > RowOf[items[j]].score
                        \/ RowOf[items[i]].score = RowOf[items[j]].score /\ ListedAt(items[i]) > ListedAt(items[j]))
                   /\ j <= i}
             sort(items) == [k \in DOMAIN items |->
                                items[CHOOSE i \in DOMAIN items : Cardinality(aheadIn(items, i)) = k]]
  <2>1. r = [items \in {all} |-> sort(items)][all]
    BY Zenon DEF filterAndSortProxies, Sorted
  <2> HIDE DEF list, sort, r
  <2>2. r = sort(list)
    BY <1>1, <2>1
  <2> QED BY <2>2 DEF sort
<1>2. kept \in SUBSET (1..Len(rows)) /\ Len(rows) \in Nat
  OBVIOUS
<1> HIDE DEF kept, r, first, second, ahead, at
<1>3. n \in Nat
  BY <1>2, PickedIs
<1>4. PICK b : InOrder(b, kept) /\ list = [k \in 1..n |-> rows[b[k]]]
  <2>1. \E b : Picks(b, rows, kept)
    BY <1>2, PickedIs
  <2> QED BY <2>1, Zenon DEF Picks
<1> HIDE DEF list, n
<1>5. \A k \in 1..n : b[k] \in 1..Len(rows)
  BY <1>2, <1>4 DEF InOrder, n
<1>6. DOMAIN list = 1..n /\ \A k \in 1..n : list[k] \in Proxy /\ list[k] \in ToSet(rows)
  BY <1>4, <1>5 DEF ToSet
<1>8. \A p \in Proxy : RowOf[p].score \in Int /\ ListedAt(p) \in Int
  BY RowsAssumption DEF ListedAt
<1>9. first \in [1..n -> Int] /\ second \in [1..n -> Int]
  BY <1>6, <1>8 DEF first, second
<1>10. \A i \in 1..n : Place(1..n, first, second, i) = Cardinality(ahead(i))
  <2> TAKE i \in 1..n
  <2>1. {j \in 1..n : Ahead(first, second, j, i)} = ahead(i)
    BY <1>3, <1>6, <1>8, <1>9 DEF Ahead, ahead, first, second
    <2> QED BY <2>1 DEF Place
<1>11. \A k \in 1..n : at[k] \in 1..n
  <2> TAKE k \in 1..n
  <2>1. at[k] = CHOOSE i \in 1..n : Cardinality(ahead(i)) = k
    BY <1>6, Zenon DEF at
  <2>2. \E i \in 1..n : Cardinality(ahead(i)) = k
    <3>1. \E i \in 1..n : Place(1..n, first, second, i) = k
      BY <1>3, <1>9, SortPlaces
    <3> QED BY <1>10, <3>1, Zenon
  <2> QED BY <2>1, <2>2, Zenon
<1>12. \A k \in 1..n : r[k] = list[at[k]]
  <2> TAKE k \in 1..n
  <2>1. at[k] = CHOOSE i \in DOMAIN list : Cardinality(ahead(i)) = k
    BY <1>6, Zenon DEF at
  <2>2. r[k] = list[CHOOSE i \in DOMAIN list : Cardinality(ahead(i)) = k]
    BY <1>6, <1>0, Zenon
  <2> QED BY <2>1, <2>2
<1>13. DOMAIN r = 1..n
  BY <1>6, <1>0
<1>14. r \in [1..n -> Proxy]
  <2>1. \A k \in 1..n : r[k] \in Proxy
    BY <1>6, <1>11, <1>12
  <2>2. r = [k \in 1..n |-> r[k]]
    BY <1>0, <1>13 DEF r
  <2> QED BY <2>1, <2>2
<1>15. ToSet(r) \subseteq ToSet(rows)
  BY <1>6, <1>11, <1>12, <1>13 DEF ToSet
<1> QED BY <1>3, <1>14, <1>15 DEF r

-----------------------------------------------------------------------------
\* What filter leaves of a list: as many as it keeps, all of those and no others.
LEMMA PickedList ==
    ASSUME NEW S, NEW rows \in Seq(S), NEW kept \in SUBSET DOMAIN rows
    PROVE  /\ Picked(rows, kept) \in Seq(S)
           /\ IsFiniteSet(kept) /\ Cardinality(kept) \in Nat
           /\ DOMAIN Picked(rows, kept) = 1..Cardinality(kept)
           /\ ToSet(Picked(rows, kept)) = {rows[i] : i \in kept}
           /\ IsInjective(rows) => IsInjective(Picked(rows, kept))
<1> DEFINE c == Cardinality(kept)
           list == Picked(rows, kept)
<1>1. Len(rows) \in Nat /\ kept \in SUBSET (1..Len(rows))
  OBVIOUS
<1>2. IsFiniteSet(kept) /\ c \in Nat /\ \E b : Picks(b, rows, kept)
  BY <1>1, PickedIs, Zenon
<1>3. PICK b : InOrder(b, kept) /\ list = [k \in 1..c |-> rows[b[k]]]
  BY <1>2, Zenon DEF Picks
<1>4. /\ \A k \in 1..c : b[k] \in kept
      /\ \A i \in kept : \E k \in 1..c : b[k] = i
      /\ \A k, m \in 1..c : b[k] = b[m] => k = m
  <2>1. /\ b \in [1..c -> kept]
        /\ \A i \in kept : \E k \in 1..c : b[k] = i
        /\ \A k, m \in 1..c : b[k] = b[m] => k = m
    BY <1>3, Zenon DEF InOrder
  <2> HIDE DEF c
  <2> QED BY <2>1
<1> HIDE DEF c, list
<1>5. \A k \in 1..c : list[k] = rows[b[k]] /\ list[k] \in S
  BY <1>3, <1>4
<1>6. DOMAIN list = 1..c
  BY <1>3
<1>7. list \in Seq(S)
  BY <1>2, <1>3, <1>5
<1>8. ToSet(list) = {rows[i] : i \in kept}
  BY <1>4, <1>5, <1>6 DEF ToSet
<1>9. IsInjective(rows) => IsInjective(list)
  BY <1>4, <1>5, <1>6 DEF IsInjective
<1> QED BY <1>2, <1>6, <1>7, <1>8, <1>9 DEF c, list

\* A delete leaves the rest of a list.
LEMMA WithoutIs ==
    ASSUME NEW list \in Seq(Proxy), NEW p
    PROVE  /\ Without(list, p) \in Seq(Proxy) /\ ToSet(Without(list, p)) = ToSet(list) \ {p}
           /\ IsInjective(list) => IsInjective(Without(list, p))
<1> DEFINE kept == {i \in DOMAIN list : list[i] # p}
<1>1. Without(list, p) = Picked(list, kept)
  BY Zenon DEF Without, Filtered, Picked
<1>2. kept \in SUBSET DOMAIN list
  OBVIOUS
<1>3. {list[i] : i \in kept} = ToSet(list) \ {p}
  BY DEF ToSet
<1> HIDE DEF kept
<1> QED BY <1>1, <1>2, <1>3, PickedList

\* An import leaves all that was there and adds what it brings.
LEMMA WithImportedIs ==
    ASSUME NEW list \in Seq(Proxy), NEW req
    PROVE  /\ WithImported(req, list) \in Seq(Proxy)
           /\ ToSet(WithImported(req, list)) = Brought(req) \cup ToSet(list)
           /\ IsInjective(list) => IsInjective(WithImported(req, list))
<1> DEFINE new == Brought(req) \ ToSet(list)
           f == SetToSeq(new)
           c == Cardinality(new)
<1>1. new \subseteq Proxy /\ IsFiniteSet(new)
  BY ApiAssumption, FS_EmptySet, FS_Subset DEF Brought
<1>2. c \in Nat /\ \E g \in [1..c -> new] : IsInjective(g)
  <2> HIDE DEF new
  <2>1. c \in Nat /\ ExistsBijection(1..c, new)
    BY <1>1, FS_CardinalityType
  <2> QED BY <2>1 DEF ExistsBijection, Bijection, Injection
<1>3. f \in [1..c -> new] /\ IsInjective(f)
  <2> HIDE DEF new
  <2> QED BY <1>2, Zenon DEF SetToSeq
<1>4. \A x \in new : \E k \in 1..c : f[k] = x
  <2> HIDE DEF new, f
  <2>1. f \in Injection(1..c, new)
    BY <1>3 DEF Injection
  <2>2. Cardinality(1..c) = c /\ IsFiniteSet(1..c)
    BY <1>2, FS_Interval
  <2>3. f \in Surjection(1..c, new)
    BY <1>1, <2>1, <2>2, FS_Injection
  <2> QED BY <2>3 DEF Surjection
<1>5. WithImported(req, list) = f \o list
  BY DEF WithImported
<1> HIDE DEF f, c
<1>6. f \in Seq(Proxy) /\ Len(f) = c /\ DOMAIN f = 1..c /\ DOMAIN list = 1..Len(list) /\ Len(list) \in Nat
  BY <1>1, <1>2, <1>3
<1> DEFINE all == f \o list
<1>7. /\ all \in Seq(Proxy) /\ DOMAIN all = 1..(c + Len(list))
      /\ \A i \in 1..(c + Len(list)) : all[i] = IF i <= c THEN f[i] ELSE list[i - c]
  BY <1>2, <1>6
<1> HIDE DEF all
<1>8. ToSet(all) \subseteq Brought(req) \cup ToSet(list)
  <2> SUFFICES ASSUME NEW i \in 1..(c + Len(list)) PROVE all[i] \in Brought(req) \cup ToSet(list)
    BY <1>7 DEF ToSet
  <2>1. CASE i <= c
    BY <1>2, <1>3, <1>7, <2>1
  <2>2. CASE i > c
    <3>1. i - c \in 1..Len(list) /\ all[i] = list[i - c]
      BY <1>2, <1>6, <1>7, <2>2
    <3> QED BY <1>6, <3>1 DEF ToSet
  <2> QED BY <1>2, <2>1, <2>2
<1>9. Brought(req) \cup ToSet(list) \subseteq ToSet(all)
  <2>1. ASSUME NEW k \in 1..Len(list) PROVE list[k] \in ToSet(all)
    <3> HIDE DEF new
    <3>1. c + k \in 1..(c + Len(list)) /\ ~(c + k <= c) /\ (c + k) - c = k
      BY <1>2, <1>6
    <3>2. all[c + k] = list[k]
      BY <1>7, <3>1
    <3> QED BY <1>7, <3>1, <3>2 DEF ToSet
  <2>2. ASSUME NEW x \in new PROVE x \in ToSet(all)
    <3>1. PICK k \in 1..c : f[k] = x
      BY <1>4
    <3>2. k \in 1..(c + Len(list)) /\ all[k] = x
      BY <1>2, <1>6, <1>7, <3>1
    <3> QED BY <1>7, <3>2 DEF ToSet
  <2>3. ToSet(list) \subseteq ToSet(all)
    BY <1>6, <2>1 DEF ToSet
  <2> QED BY <2>2, <2>3
<1>10. ASSUME IsInjective(list) PROVE IsInjective(all)
  <2> SUFFICES ASSUME NEW i \in 1..(c + Len(list)), NEW j \in 1..(c + Len(list)), all[i] = all[j]
               PROVE  i = j
    BY <1>7 DEF IsInjective
  <2>1. CASE i <= c /\ j <= c
    <3>1. i \in 1..c /\ j \in 1..c /\ f[i] = f[j]
      BY <1>2, <1>7, <2>1
    <3> QED BY <1>3, <1>6, <3>1 DEF IsInjective
  <2>2. CASE i > c /\ j > c
    <3>1. i - c \in 1..Len(list) /\ j - c \in 1..Len(list) /\ list[i - c] = list[j - c]
      BY <1>2, <1>6, <1>7, <2>2
    <3>2. i - c = j - c
      BY <1>6, <1>10, <3>1 DEF IsInjective
    <3> QED BY <1>2, <3>2
  <2>3. ASSUME NEW a \in 1..(c + Len(list)), NEW b \in 1..(c + Len(list)), a <= c, b > c
        PROVE  all[a] # all[b]
    <3>1. a \in 1..c /\ all[a] = f[a] /\ b - c \in 1..Len(list) /\ all[b] = list[b - c]
      BY <1>2, <1>6, <1>7, <2>3
    <3>2. f[a] \in new /\ list[b - c] \in ToSet(list)
      BY <1>3, <1>6, <3>1 DEF ToSet
    <3> QED BY <3>1, <3>2
  <2> QED BY <1>2, <1>6, <2>1, <2>2, <2>3
<1> QED BY <1>5, <1>7, <1>8, <1>9, <1>10 DEF all

\* A page is a part of its list, in its order.
LEMMA PageOfIs ==
    ASSUME NEW S, NEW list \in Seq(S), NEW page \in Nat \ {0}, NEW size \in Nat \ {0}
    PROVE  /\ PageOf(list, page, size) \in Seq(S)
           /\ ToSet(PageOf(list, page, size)) \subseteq ToSet(list)
           /\ IsInjective(list) => IsInjective(PageOf(list, page, size))
           /\ page = 1 =>
                /\ Len(PageOf(list, page, size)) = IF size < Len(list) THEN size ELSE Len(list)
                /\ \A k \in DOMAIN PageOf(list, page, size) : PageOf(list, page, size)[k] = list[k]
<1> DEFINE from == (page - 1) * size + 1
           to == IF page * size < Len(list) THEN page * size ELSE Len(list)
           r == SubSeq(list, from, to)
<1>1. (page - 1) * size \in Nat /\ page * size \in Nat /\ Len(list) \in Nat
  <2>1. \A m \in Nat, n \in Nat : m * n \in Nat
    OBVIOUS
  <2>2. page - 1 \in Nat
    OBVIOUS
  <2> QED BY <2>1, <2>2
<1>2. from \in Nat \ {0} /\ to \in 0..Len(list)
  BY <1>1
<1>f. page = 1 => from = 1 /\ to = IF size < Len(list) THEN size ELSE Len(list)
  OBVIOUS
<1>3. PageOf(list, page, size) = r
  BY DEF PageOf
<1> HIDE DEF from, to
<1>4. \A i \in from..to : i \in DOMAIN list /\ list[i] \in S
  BY <1>1, <1>2
<1>5. r \in Seq(S)
  BY <1>2, <1>4
<1>6. /\ DOMAIN r = 1..(1 + to - from)
      /\ \A k \in DOMAIN r : r[k] = list[k + from - 1] /\ k + from - 1 \in from..to
  BY <1>1, <1>2, <1>4
<1>l. page = 1 => Len(r) = to /\ \A k \in DOMAIN r : r[k] = list[k]
  <2> SUFFICES ASSUME page = 1 PROVE Len(r) = to /\ \A k \in DOMAIN r : r[k] = list[k]
    OBVIOUS
  <2>1. DOMAIN r = 1..to /\ to \in Nat
    BY <1>1, <1>2, <1>f, <1>6
  <2>2. \A k \in DOMAIN r : r[k] = list[k]
    BY <1>f, <1>6, <2>1
  <2> HIDE DEF r
  <2> QED BY <1>5, <2>1, <2>2
<1> HIDE DEF r
<1>7. ToSet(r) \subseteq ToSet(list)
  BY <1>4, <1>6 DEF ToSet
<1>8. IsInjective(list) => IsInjective(r)
  <2> SUFFICES ASSUME IsInjective(list), NEW a \in DOMAIN r, NEW b \in DOMAIN r, r[a] = r[b]
               PROVE  a = b
    BY DEF IsInjective
  <2>1. a + from - 1 = b + from - 1
    BY <1>4, <1>6 DEF IsInjective
  <2> QED BY <1>2, <1>6, <2>1
<1> QED BY <1>3, <1>5, <1>7, <1>8, <1>f, <1>l

-----------------------------------------------------------------------------
\* The first of some places.
LEMMA FirstOf ==
    ASSUME NEW n \in Nat, NEW T \in SUBSET (1..n), T # {}
    PROVE  \E least \in T : \A x \in T : least <= x
<1> SUFFICES ASSUME \A least \in T : \E x \in T : x < least PROVE FALSE
  OBVIOUS
<1> DEFINE S == {k \in 0..n : \A x \in T : k < x}
<1>1. 0 \in S
  OBVIOUS
<1>2. ASSUME NEW k \in 1..n, k - 1 \in S PROVE k \in S
  <2>1. \A x \in T : k <= x
    BY <1>2
  <2>2. k \notin T
    BY <2>1
  <2> QED BY <2>1, <2>2
<1> HIDE DEF S
<1>3. n \in S
  BY <1>1, <1>2, UpTo
<1>4. PICK x \in T : TRUE
  OBVIOUS
<1> QED BY <1>3, <1>4 DEF S

\* The keys of a Map: each once, and all there are.
LEMMA KeysAre ==
    ASSUME NEW S, NEW rows \in Seq(S), NEW keyOf
    PROVE  /\ \E m \in Nat : DOMAIN Keys(rows, keyOf) = 1..m
           /\ \A i, j \in DOMAIN Keys(rows, keyOf) :
                    Keys(rows, keyOf)[i] = Keys(rows, keyOf)[j] => i = j
           /\ {Keys(rows, keyOf)[i] : i \in DOMAIN Keys(rows, keyOf)}
                    = {keyOf[p] : p \in ToSet(rows)} \ {Null}
<1> DEFINE places == [i \in DOMAIN rows |-> i]
           kept == {i \in DOMAIN places : /\ keyOf[rows[places[i]]] # Null
                                          /\ \A j \in 1..(places[i] - 1) :
                                                keyOf[rows[j]] # keyOf[rows[places[i]]]}
           at == Picked(places, kept)
           keys == Keys(rows, keyOf)
<1>1. keys = [i \in DOMAIN at |-> keyOf[rows[at[i]]]]
  <2>1. Filtered(places, LAMBDA i : /\ keyOf[rows[i]] # Null
                                     /\ \A j \in 1..(i - 1) : keyOf[rows[j]] # keyOf[rows[i]]) = at
    BY Zenon DEF Filtered, Picked
  <2> HIDE DEF at
  <2> QED BY <2>1, Zenon DEF Keys
<1>2. Len(rows) \in Nat /\ DOMAIN rows = 1..Len(rows)
  OBVIOUS
<1>3. places \in Seq(1..Len(rows)) /\ IsInjective(places) /\ DOMAIN places = 1..Len(rows)
      /\ \A i \in 1..Len(rows) : places[i] = i
  BY <1>2 DEF IsInjective
<1>4. /\ kept \in SUBSET (1..Len(rows))
      /\ \A i \in kept : /\ keyOf[rows[i]] # Null
                         /\ \A j \in 1..(i - 1) : keyOf[rows[j]] # keyOf[rows[i]]
      /\ \A i \in 1..Len(rows) :
            keyOf[rows[i]] # Null /\ (\A j \in 1..(i - 1) : keyOf[rows[j]] # keyOf[rows[i]]) => i \in kept
  BY <1>2, <1>3
<1> HIDE DEF keys, kept, places
<1>5. {places[i] : i \in kept} = kept
  <2>1. \A i \in kept : places[i] = i
    BY <1>3, <1>4
  <2> QED BY <2>1
<1>6. PICK k, l : /\ k \in Seq(1..Len(rows)) /\ IsInjective(k) /\ ToSet(k) = kept /\ l \in Nat
                  /\ DOMAIN k = 1..l /\ k = at
  <2>1. kept \in SUBSET DOMAIN places
    BY <1>3, <1>4
  <2>2. PICK T : T = 1..Len(rows)
    OBVIOUS
  <2>3. places \in Seq(T)
    BY <1>3, <2>2
  <2>4. at \in Seq(T) /\ Cardinality(kept) \in Nat /\ DOMAIN at = 1..Cardinality(kept)
    BY <2>1, <2>3, PickedList
  <2>5. ToSet(at) = {places[i] : i \in kept}
    BY <2>1, <2>3, PickedList, Zenon
  <2>6. IsInjective(at)
    BY <1>3, <2>1, <2>3, PickedList
  <2> HIDE DEF at
  <2> QED BY <1>5, <2>2, <2>4, <2>5, <2>6
<1> HIDE DEF at
<1>7. keys = [i \in 1..l |-> keyOf[rows[k[i]]]]
  BY <1>1, <1>6
<1>8. DOMAIN keys = 1..l /\ \A i \in DOMAIN keys : keys[i] = keyOf[rows[k[i]]] /\ k[i] \in kept
  BY <1>6, <1>7 DEF ToSet
<1>9. ASSUME NEW i \in DOMAIN keys, NEW j \in DOMAIN keys, keys[i] = keys[j] PROVE i = j
  <2>1. PICK x, y : x = k[i] /\ y = k[j] /\ x \in kept /\ y \in kept /\ keyOf[rows[x]] = keyOf[rows[y]]
    BY <1>8, <1>9
  <2>2. x \in Nat /\ y \in Nat /\ x >= 1 /\ y >= 1
    BY <1>2, <1>4, <2>1
  <2>3. \A c, d \in kept : c \in Nat /\ d \in Nat /\ c >= 1 /\ c < d => c \in 1..(d - 1)
    OBVIOUS
  <2>4. ~(x < y) /\ ~(y < x)
    BY <1>4, <2>1, <2>2, <2>3
  <2> QED BY <1>6, <1>8, <2>1, <2>2, <2>4 DEF IsInjective
<1>10. ASSUME NEW i \in DOMAIN keys PROVE keys[i] \in {keyOf[p] : p \in ToSet(rows)} \ {Null}
  <2>1. PICK x : x = k[i] /\ x \in kept /\ keys[i] = keyOf[rows[x]]
    BY <1>8
  <2>2. rows[x] \in ToSet(rows) /\ keyOf[rows[x]] # Null
    BY <1>2, <1>4, <2>1 DEF ToSet
  <2> QED BY <2>1, <2>2
<1>11. ASSUME NEW p \in ToSet(rows), keyOf[p] # Null PROVE \E i \in DOMAIN keys : keys[i] = keyOf[p]
  <2> DEFINE T == {a \in 1..Len(rows) : keyOf[rows[a]] = keyOf[p]}
  <2>1. T # {} /\ T \in SUBSET (1..Len(rows))
    BY <1>2 DEF ToSet
  <2>2. PICK least \in T : \A x \in T : least <= x
    <3> HIDE DEF T
    <3> QED BY <1>2, <2>1, FirstOf
  <2>3. least \in kept
    <3>1. \A j \in 1..(least - 1) : j \in 1..Len(rows) /\ ~(least <= j)
      BY <1>2
    <3> QED BY <1>4, <1>11, <2>2, <3>1
  <2>4. PICK i \in DOMAIN k : k[i] = least
    BY <1>6, <2>3 DEF ToSet
  <2> QED BY <1>6, <1>8, <2>2, <2>4
<1>12. {keys[i] : i \in DOMAIN keys} = {keyOf[p] : p \in ToSet(rows)} \ {Null}
  BY <1>10, <1>11
<1> QED BY <1>6, <1>8, <1>9, <1>12 DEF keys

\* A sorted list: the same items, in the order of two numbers.
SortedBy(n, items, first, second) ==
    [k \in 1..n |-> items[CHOOSE i \in 1..n : Place(1..n, first, second, i) = k]]
Sorts(at, n, first, second) ==
    /\ at \in [1..n -> 1..n]
    /\ \A i \in 1..n : \E k \in 1..n : at[k] = i
    /\ \A k, m \in 1..n : at[k] = at[m] => k = m
    /\ \A k, m \in 1..n : k <= m <=> Ahead(first, second, at[k], at[m])
InSorts(r, n, items, first, second) ==
    \E at : Sorts(at, n, first, second) /\ r = [k \in 1..n |-> items[at[k]]]

LEMMA SortedIs ==
    ASSUME NEW n \in Nat, NEW items, NEW first \in [1..n -> Int],
           NEW second \in [1..n -> Int]
    PROVE  InSorts(SortedBy(n, items, first, second), n, items, first, second)
<1> DEFINE at == [k \in 1..n |-> CHOOSE i \in 1..n : Place(1..n, first, second, i) = k]
<1>1. \A k \in 1..n : at[k] \in 1..n /\ Place(1..n, first, second, at[k]) = k
  <2> TAKE k \in 1..n
  <2>1. \E i \in 1..n : Place(1..n, first, second, i) = k
    <3> HIDE DEF at
    <3> QED BY SortPlaces
  <2>2. at[k] = CHOOSE i \in 1..n : Place(1..n, first, second, i) = k
    BY Zenon
  <2> HIDE DEF at
  <2> QED BY <2>1, <2>2, Zenon
<1>2. SortedBy(n, items, first, second) = [k \in 1..n |-> items[at[k]]]
  <2>1. \A k \in 1..n : items[CHOOSE i \in 1..n : Place(1..n, first, second, i) = k] = items[at[k]]
    <3> TAKE k \in 1..n
    <3>1. at[k] = CHOOSE i \in 1..n : Place(1..n, first, second, i) = k
      BY Zenon
    <3> HIDE DEF at
    <3> QED BY <3>1, Zenon
  <2> HIDE DEF at
  <2>2. [k \in 1..n |-> items[CHOOSE i \in 1..n : Place(1..n, first, second, i) = k]]
            = [k \in 1..n |-> items[at[k]]]
    BY <2>1, Zenon
  <2> QED BY <2>2, Zenon DEF SortedBy
<1>3. at \in [1..n -> 1..n]
  BY <1>1, Zenon
<1> HIDE DEF at
<1>4. /\ \A i \in 1..n : \E k \in 1..n : at[k] = i
      /\ \A k, m \in 1..n : /\ at[k] = at[m] => k = m
                            /\ k <= m <=> Ahead(first, second, at[k], at[m])
  BY <1>1, SortRanks
<1>5. Sorts(at, n, first, second)
  BY <1>3, <1>4 DEF Sorts
<1> QED BY <1>2, <1>5, Zenon DEF InSorts

\* The server's order: the same rows, the better score before the worse.
SameRows(r, rows) ==
    /\ r \in Seq(Proxy) /\ Len(r) = Len(rows) /\ ToSet(r) = ToSet(rows)
    /\ IsInjective(rows) => IsInjective(r)
Scored(r) == \A k, m \in DOMAIN r : k <= m => RowOf[r[k]].score >= RowOf[r[m]].score

LEMMA BestFirstIs ==
    ASSUME NEW rows \in Seq(Proxy)
    PROVE  SameRows(BestFirst(rows), rows) /\ Scored(BestFirst(rows))
<1> DEFINE r == BestFirst(rows)
           n == Len(rows)
           aheadIn(items, i) == {j \in DOMAIN items :
                \/ \/ RowOf[items[j]].score > RowOf[items[i]].score
                   \/ RowOf[items[j]].score = RowOf[items[i]].score /\ RowOf[items[j]].id < RowOf[items[i]].id
                \/ /\ ~(\/ RowOf[items[i]].score > RowOf[items[j]].score
                        \/ RowOf[items[i]].score = RowOf[items[j]].score /\ RowOf[items[i]].id < RowOf[items[j]].id)
                   /\ j <= i}
           sort(items) == [k \in DOMAIN items |->
                items[CHOOSE i \in DOMAIN items : Cardinality(aheadIn(items, i)) = k]]
           first == [i \in 1..n |-> RowOf[rows[i]].score]
           second == [i \in 1..n |-> 0 - RowOf[rows[i]].id]
<1>1. r = sort(rows)
  <2>1. r = [items \in {rows} |-> sort(items)][rows]
    BY Zenon DEF BestFirst, Sorted
  <2> HIDE DEF sort, r
  <2> QED BY <2>1
<1>n. n \in Nat /\ DOMAIN rows = 1..n /\ \A i \in 1..n : rows[i] \in Proxy
  OBVIOUS
<1> HIDE DEF n
<1>m. DOMAIN rows = 1..n
  BY <1>n
<1>d. \A i \in 1..n : RowOf[rows[i]].score \in Int /\ RowOf[rows[i]].id \in Int
  BY <1>n, RowsAssumption
<1>2. /\ first \in [1..n -> Int] /\ second \in [1..n -> Int]
      /\ \A i \in 1..n : first[i] = RowOf[rows[i]].score /\ second[i] = 0 - RowOf[rows[i]].id
  BY <1>d
<1> HIDE DEF first, second, r
<1>3. \A i \in 1..n : Cardinality(aheadIn(rows, i)) = Place(1..n, first, second, i)
  <2> TAKE i \in 1..n
  <2>1. ASSUME NEW j \in 1..n PROVE j \in aheadIn(rows, i) <=> Ahead(first, second, j, i)
    <3>1. PICK s, x, y, z :
            /\ s = RowOf[rows[i]].score /\ x = RowOf[rows[i]].id
            /\ y = RowOf[rows[j]].score /\ z = RowOf[rows[j]].id
      OBVIOUS
    <3>2. s \in Int /\ x \in Int /\ y \in Int /\ z \in Int
      BY <1>d, <3>1
    <3>3. first[i] = s /\ first[j] = y /\ second[i] = 0 - x /\ second[j] = 0 - z
      BY <1>2, <3>1
    <3>4. /\ 0 - z > 0 - x <=> z < x
          /\ 0 - z = 0 - x <=> z = x
      BY <3>2
    <3>5. Ahead(first, second, j, i)
            <=> (y > s \/ (y = s /\ z < x) \/ (y = s /\ z = x /\ j <= i))
      BY <3>3, <3>4 DEF Ahead
    <3>6. j \in aheadIn(rows, i)
            <=> (y > s \/ (y = s /\ z < x) \/ (~(s > y \/ (s = y /\ x < z)) /\ j <= i))
      BY <1>m, <3>1
    <3> HIDE DEF aheadIn
    <3> QED BY <3>2, <3>5, <3>6
  <2>2. ASSUME NEW j \in aheadIn(rows, i) PROVE j \in 1..n
    <3>1. j \in DOMAIN rows
      OBVIOUS
    <3> QED BY <1>m, <3>1
  <2>3. aheadIn(rows, i) = {j \in 1..n : Ahead(first, second, j, i)}
    <3> HIDE DEF aheadIn
    <3> QED BY <2>1, <2>2
  <2> HIDE DEF aheadIn
  <2> QED BY <2>3 DEF Place
<1>4. r = SortedBy(n, rows, first, second)
  <2> HIDE DEF aheadIn
  <2> DEFINE at == [k \in 1..n |-> rows[CHOOSE i \in 1..n : Cardinality(aheadIn(rows, i)) = k]]
  <2>1. r = at
    BY <1>1, <1>m
  <2>2. \A k \in 1..n : at[k] = rows[CHOOSE i \in 1..n : Place(1..n, first, second, i) = k]
    <3> TAKE k \in 1..n
    <3>1. at[k] = rows[CHOOSE i \in 1..n : Cardinality(aheadIn(rows, i)) = k]
      BY Zenon
    <3>2. (CHOOSE i \in 1..n : Cardinality(aheadIn(rows, i)) = k)
            = CHOOSE i \in 1..n : Place(1..n, first, second, i) = k
      BY <1>3, Zenon
    <3> QED BY <3>1, <3>2, Zenon
  <2>3. at = [k \in 1..n |-> at[k]]
    OBVIOUS
  <2> HIDE DEF at
  <2>4. [k \in 1..n |-> at[k]]
            = [k \in 1..n |-> rows[CHOOSE i \in 1..n : Place(1..n, first, second, i) = k]]
    BY <2>2, Zenon
  <2> QED BY <2>1, <2>3, <2>4, Zenon DEF SortedBy
<1> HIDE DEF sort, aheadIn
<1>5. PICK at : Sorts(at, n, first, second) /\ r = [k \in 1..n |-> rows[at[k]]]
  <2>1. InSorts(SortedBy(n, rows, first, second), n, rows, first, second)
    BY <1>n, <1>2, SortedIs
  <2> QED BY <1>4, <2>1, Zenon DEF InSorts
<1>6. DOMAIN r = 1..n /\ \A k \in 1..n : at[k] \in 1..n /\ r[k] = rows[at[k]] /\ r[k] \in Proxy
  BY <1>5, <1>n DEF Sorts
<1>7. r \in Seq(Proxy) /\ Len(r) = n
  <2>1. r = [k \in 1..n |-> r[k]]
    BY <1>5, <1>6
  <2> QED BY <1>n, <1>6, <2>1
<1>8. ToSet(r) = ToSet(rows)
  BY <1>5, <1>6, <1>n DEF Sorts, ToSet
<1>9. IsInjective(rows) => IsInjective(r)
  BY <1>5, <1>6, <1>n DEF Sorts, IsInjective
<1>10. Scored(r)
  <2> SUFFICES ASSUME NEW k \in 1..n, NEW m \in 1..n, k <= m
               PROVE  RowOf[r[k]].score >= RowOf[r[m]].score
    BY <1>6 DEF Scored
  <2>1. at[k] \in 1..n /\ at[m] \in 1..n /\ Ahead(first, second, at[k], at[m])
    BY <1>5 DEF Sorts
  <2>2. first[at[k]] >= first[at[m]]
    BY <1>2, <2>1 DEF Ahead
  <2> QED BY <1>2, <1>6, <2>1, <2>2
<1> QED BY <1>7, <1>8, <1>9, <1>10 DEF SameRows, r, n

\* The client's picture of the pool: rows of it, and what is left out is no better
\* than what is not.
Pictures(u, rows, at) ==
    /\ u \in Seq(Proxy) /\ ToSet(u) \subseteq ToSet(rows) /\ (IsInjective(rows) => IsInjective(u))
    /\ \A q \in ToSet(rows) \ ToSet(u) :
            /\ at = "srv" /\ Len(u) = SnapshotLimit
            /\ \A p \in ToSet(u) : RowOf[p].score >= RowOf[q].score

LEMMA UniverseIs ==
    ASSUME NEW store, store.proxies \in Seq(Proxy), NEW at
    PROVE  Pictures(Universe(store, at), store.proxies, at)
<1>1. PICK rows, u : rows = store.proxies /\ u = Universe(store, at) /\ rows \in Seq(Proxy)
  OBVIOUS
<1>2. CASE at = "srv"
  <2>1. PICK all : all = BestFirst(rows) /\ SameRows(all, rows) /\ Scored(all)
    BY <1>1, BestFirstIs
  <2>2. u = PageOf(all, 1, SnapshotLimit)
    BY <1>1, <1>2, <2>1 DEF Universe
  <2>3. /\ u \in Seq(Proxy) /\ ToSet(u) \subseteq ToSet(all) /\ (IsInjective(all) => IsInjective(u))
        /\ Len(u) = IF SnapshotLimit < Len(all) THEN SnapshotLimit ELSE Len(all)
        /\ \A k \in DOMAIN u : u[k] = all[k]
    BY <2>1, <2>2, PageOfIs, ApiAssumption DEF SameRows
  <2>4. ASSUME NEW q \in ToSet(all) \ ToSet(u)
        PROVE  Len(u) = SnapshotLimit /\ \A p \in ToSet(u) : RowOf[p].score >= RowOf[q].score
    <3>1. all \in Seq(Proxy)
      BY <2>1 DEF SameRows
    <3>2. PICK i \in 1..Len(all) : all[i] = q
      BY <3>1 DEF ToSet
    <3>3. DOMAIN u = 1..Len(u) /\ Len(u) \in Nat /\ Len(all) \in Nat
      BY <2>3, <3>1
    <3>4. i \notin DOMAIN u
      BY <2>3, <2>4, <3>2 DEF ToSet
    <3>5. SnapshotLimit < Len(all) /\ Len(u) = SnapshotLimit /\ Len(u) < i
      BY <2>3, <3>2, <3>3, <3>4, ApiAssumption
    <3>6. ASSUME NEW k \in DOMAIN u PROVE RowOf[u[k]].score >= RowOf[q].score
      BY <2>1, <2>3, <3>1, <3>2, <3>3, <3>5 DEF Scored
    <3> QED BY <3>5, <3>6 DEF ToSet
  <2> QED BY <1>1, <1>2, <2>1, <2>3, <2>4 DEF Pictures, SameRows
<1>3. CASE at # "srv"
  <2>1. u = rows
    BY <1>1, <1>3 DEF Universe
  <2> QED BY <1>1, <2>1 DEF Pictures
<1> QED BY <1>1, <1>2, <1>3

\* A page of the list of proxies.
LEMMA ListAnswers ==
    ASSUME NEW req, req.op = "list", req.page \in Nat \ {0}, NEW store, store.proxies \in Seq(Proxy),
           NEW at
    PROVE  /\ Answer(req, store, at).items \in Seq(Proxy)
           /\ ToSet(Answer(req, store, at).items) \subseteq ToSet(store.proxies)
<1>1. PICK a, rows, filter, page :
        /\ a = Answer(req, store, at) /\ rows = store.proxies /\ filter = req.filter /\ page = req.page
        /\ rows \in Seq(Proxy) /\ page \in Nat \ {0}
  OBVIOUS
<1>2. PICK slice : /\ slice = IF at = "srv" THEN Searched(rows, filter, page)
                               ELSE Slice(filterAndSortProxies(rows, filter), page, at)
                   /\ a = Over([filter |-> filter], slice)
  BY <1>1 DEF Answer, ProxyAnswer
<1>3. /\ "items" \in DOMAIN slice
      /\ slice.items \in Seq(Proxy) /\ ToSet(slice.items) \subseteq ToSet(rows)
  <2>1. CASE at = "srv"
    <3> DEFINE kept == {i \in DOMAIN rows : Passes(rows[i], [filter EXCEPT !.named = Null])}
               some == Picked(rows, kept)
               all == BestFirst(some)
               paged == PageOf(all, page, PageSize)
               named == {i \in DOMAIN paged : Passes(paged[i], filter)}
               found == Picked(paged, named)
    <3>1. \E total : slice = [Slice(all, page, "srv") EXCEPT !.items = found, !.total = total]
      <4>1. Filtered(rows, LAMBDA p : Passes(p, [filter EXCEPT !.named = Null])) = some
        BY Zenon DEF Filtered, Picked
      <4>2. Filtered(paged, LAMBDA p : Passes(p, filter)) = found
        BY Zenon DEF Filtered, Picked
      <4> DEFINE sifted == Filtered(rows, LAMBDA p : Passes(p, [filter EXCEPT !.named = Null]))
                 best == BestFirst(sifted)
                 here == PageOf(best, page, PageSize)
                 left == Filtered(here, LAMBDA p : Passes(p, filter))
                 offset == (page - 1) * PageSize
                 total == IF filter.named # Null /\ Len(left) < PageSize + offset
                          THEN Len(left) + offset ELSE Slice(best, page, "srv").total
      <4>3. Searched(rows, filter, page)
                = [Slice(best, page, "srv") EXCEPT !.items = left, !.total = total]
        BY Zenon DEF Searched
      <4>4. sifted = some
        BY <4>1
      <4>5. best = all
        BY <4>4
      <4>6. here = paged
        BY <4>5
      <4>7. left = found
        BY <4>2, <4>6
      <4> HIDE DEF some, all, paged, named, found, best, left, total
      <4> QED BY <1>2, <2>1, <4>3, <4>5, <4>7
    <3>2. kept \in SUBSET DOMAIN rows /\ ToSet(rows) = {rows[i] : i \in DOMAIN rows}
      BY DEF ToSet
    <3> HIDE DEF kept, found
    <3>3. some \in Seq(Proxy) /\ ToSet(some) \subseteq ToSet(rows)
      BY <1>1, <3>2, PickedList
    <3> HIDE DEF some
    <3>4. all \in Seq(Proxy) /\ ToSet(all) = ToSet(some)
      BY <3>3, BestFirstIs DEF SameRows
    <3> HIDE DEF all
    <3>5. paged \in Seq(Proxy) /\ ToSet(paged) \subseteq ToSet(all)
      BY <1>1, <3>4, PageOfIs, ApiAssumption
    <3>6. named \in SUBSET DOMAIN paged /\ ToSet(paged) = {paged[i] : i \in DOMAIN paged}
      BY DEF ToSet
    <3> HIDE DEF paged, named
    <3>7. Picked(paged, named) \in Seq(Proxy) /\ ToSet(Picked(paged, named)) \subseteq ToSet(paged)
      BY <3>5, <3>6, PickedList
    <3>8. found = Picked(paged, named)
      BY DEF found
    <3>9. "items" \in DOMAIN slice /\ slice.items = found
      BY <3>1 DEF Slice
    <3> QED BY <3>3, <3>4, <3>5, <3>7, <3>8, <3>9
  <2>2. CASE at # "srv"
    <3>1. PICK all : all = filterAndSortProxies(rows, filter) /\ all \in Seq(Proxy) /\ ToSet(all) \subseteq ToSet(rows)
      BY <1>1, ListedIs
    <3>2. "items" \in DOMAIN slice /\ slice.items = PageOf(all, page, PageSize)
      BY <1>2, <2>2, <3>1 DEF Slice
    <3>3. /\ PageOf(all, page, PageSize) \in Seq(Proxy)
          /\ ToSet(PageOf(all, page, PageSize)) \subseteq ToSet(all)
      BY <1>1, <3>1, PageOfIs, ApiAssumption
    <3> QED BY <3>1, <3>2, <3>3
  <2> QED BY <2>1, <2>2
<1>4. a.items = slice.items
  BY <1>2, <1>3 DEF Over
<1> QED BY <1>1, <1>3, <1>4

\* A finite set of numbers has a largest and a smallest.
LEMMA FirstRank ==
    ASSUME NEW n \in Nat, n >= 1, NEW f \in [1..n -> Int]
    PROVE  \E i \in 1..n : \A j \in 1..n : f[j] <= f[i]
<1> DEFINE S == 1..n
           zero == [i \in 1..n |-> 0]
<1>1. Cardinality(S) = n /\ S \in SUBSET (1..n) /\ 1 \in 1..n
  BY FS_Interval
<1>s. S \in SUBSET (1..n)
  BY <1>1
<1>f. zero \in [1..n -> Int]
  OBVIOUS
<1>z. zero \in [1..n -> Int] /\ \A i \in 1..n : zero[i] = 0
  OBVIOUS
<1> HIDE DEF S, zero
<1>2. /\ \A i \in S : Place(S, f, zero, i) \in 1..n
      /\ \A i, j \in S : Ahead(f, zero, i, j) <=> Place(S, f, zero, i) <= Place(S, f, zero, j)
      /\ \E i \in S : Place(S, f, zero, i) = 1
  <2>1. \A i \in S : Place(S, f, zero, i) \in 1..Cardinality(S)
    BY <1>1, <1>z, PlacesAre, Zenon
  <2>2. \A i, j \in S : Ahead(f, zero, i, j) <=> Place(S, f, zero, i) <= Place(S, f, zero, j)
    BY <1>1, <1>z, PlacesAre, Zenon
  <2>3. \A k \in 1..Cardinality(S) : \E i \in S : Place(S, f, zero, i) = k
    BY <1>s, <1>f, PlacesAre, Zenon
  <2> QED BY <1>1, <2>1, <2>2, <2>3
<1>3. PICK i \in S : Place(S, f, zero, i) = 1
  BY <1>2
<1>4. \A j \in S : Ahead(f, zero, i, j)
  <2> TAKE j \in S
  <2>1. 1 <= Place(S, f, zero, j)
    BY <1>2
  <2> QED BY <1>2, <1>3, <2>1
<1>5. \A j \in 1..n : f[j] <= f[i]
  BY <1>1, <1>3, <1>4 DEF Ahead, S
<1> QED BY <1>1, <1>3, <1>5

LEMMA MaxOf ==
    ASSUME NEW S \in SUBSET Int, IsFiniteSet(S), S # {}
    PROVE  /\ Max(S) \in S /\ \A x \in S : x <= Max(S)
           /\ Min(S) \in S /\ \A x \in S : Min(S) <= x
<1> DEFINE n == Cardinality(S)
<1>1. n \in Nat /\ n >= 1
  <2>1. n \in Nat /\ n # 0
    BY FS_CardinalityType, FS_EmptySet
  <2> QED BY <2>1
<1>0. \A x \in S : x \in Int
  OBVIOUS
<1>2. PICK f \in [1..n -> S] : \A x \in S : \E i \in 1..n : f[i] = x
  <2>1. ExistsBijection(1..n, S)
    BY FS_CardinalityType
  <2> HIDE DEF n
  <2> QED BY <2>1 DEF ExistsBijection, Bijection, Surjection
<1> DEFINE g == [i \in 1..n |-> -f[i]]
<1>3. f \in [1..n -> Int] /\ g \in [1..n -> Int] /\ \A i \in 1..n : g[i] = -f[i]
  <2> HIDE DEF n
  <2>1. \A i \in 1..n : f[i] \in Int
    BY <1>0, <1>2
  <2>2. f \in [1..n -> Int]
    BY <1>2, <2>1
  <2> QED BY <2>1, <2>2
<1> HIDE DEF n, g
<1>4. PICK i \in 1..n : \A j \in 1..n : f[j] <= f[i]
  BY <1>1, <1>3, FirstRank
<1>5. PICK k \in 1..n : \A j \in 1..n : g[j] <= g[k]
  BY <1>1, <1>3, FirstRank
<1>6. \A j \in 1..n : f[k] <= f[j]
  BY <1>3, <1>5
<1>7. f[i] \in S /\ f[k] \in S /\ \A x \in S : x <= f[i] /\ f[k] <= x
  BY <1>2, <1>4, <1>6
<1>8. \E m \in S : \A x \in S : m >= x
  BY <1>7
<1>9. \E m \in S : \A x \in S : m <= x
  BY <1>7
<1>10. Max(S) \in S /\ \A x \in S : Max(S) >= x
  BY <1>8 DEF Max
<1>11. Min(S) \in S /\ \A x \in S : Min(S) <= x
  BY <1>9 DEF Min
<1> QED BY <1>10, <1>11

\* A list without repetitions is as long as it has members; so are its parts.
LEMMA PartOf ==
    ASSUME NEW S, NEW list \in Seq(S), NEW T \in SUBSET ToSet(list)
    PROVE  /\ IsFiniteSet({i \in DOMAIN list : list[i] \in T}) /\ IsFiniteSet(T)
           /\ Cardinality({i \in DOMAIN list : list[i] \in T}) \in Nat
           /\ IsInjective(list) => Cardinality({i \in DOMAIN list : list[i] \in T}) = Cardinality(T)
<1> DEFINE at == {i \in DOMAIN list : list[i] \in T}
           f == [i \in at |-> list[i]]
<1>1. Len(list) \in Nat /\ DOMAIN list = 1..Len(list)
  OBVIOUS
<1>2. IsFiniteSet(at) /\ Cardinality(at) \in Nat
  <2>1. IsFiniteSet(1..Len(list)) /\ at \in SUBSET (1..Len(list))
    BY <1>1, FS_Interval
  <2> HIDE DEF at
  <2> QED BY <2>1, FS_Subset, FS_CardinalityType
<1>3. f \in Surjection(at, T)
  <2>1. \A x \in T : \E i \in at : f[i] = x
    BY DEF ToSet
  <2>2. f \in [at -> T]
    OBVIOUS
  <2> HIDE DEF f, at
  <2> QED BY <2>1, <2>2 DEF Surjection
<1>4. IsFiniteSet(T)
  <2> HIDE DEF f, at
  <2> QED BY <1>2, <1>3, FS_Surjection
<1>5. ASSUME IsInjective(list) PROVE Cardinality(at) = Cardinality(T)
  <2>1. f \in Injection(at, T)
    <3>1. \A i, j \in at : f[i] = f[j] => i = j
      BY <1>5 DEF IsInjective
    <3>2. f \in [at -> T]
      OBVIOUS
    <3> HIDE DEF f, at
    <3> QED BY <3>1, <3>2 DEF Injection, IsInjective
  <2> HIDE DEF f, at
  <2> QED BY <1>2, <1>3, <2>1, FS_Surjection
<1> QED BY <1>2, <1>4, <1>5

LEMMA WholeOf ==
    ASSUME NEW S, NEW list \in Seq(S)
    PROVE  /\ IsFiniteSet(ToSet(list)) /\ ToSet(list) \subseteq S /\ Len(list) \in Nat
           /\ IsInjective(list) => Cardinality(ToSet(list)) = Len(list)
<1>1. {i \in DOMAIN list : list[i] \in ToSet(list)} = 1..Len(list) /\ Len(list) \in Nat
  BY DEF ToSet
<1>2. Cardinality(1..Len(list)) = Len(list)
  <2>1. PICK n \in Nat : n = Len(list)
    BY <1>1
  <2>2. Cardinality(1..n) = n
    BY FS_Interval
  <2> QED BY <2>1, <2>2
<1>3. ToSet(list) \in SUBSET ToSet(list) /\ ToSet(list) \subseteq S
  BY DEF ToSet
<1>4. IsFiniteSet(ToSet(list))
  BY <1>3, PartOf
<1>5. IsInjective(list) => Cardinality({i \in DOMAIN list : list[i] \in ToSet(list)}) = Cardinality(ToSet(list))
  BY <1>3, PartOf
<1> QED BY <1>1, <1>2, <1>3, <1>4, <1>5

\* The rows of a bucket.
LEMMA BucketIs ==
    ASSUME NEW rows \in Seq(Proxy), NEW keyOf, NEW key
    PROVE  /\ Bucket(rows, keyOf, key) \in Seq(Proxy)
           /\ ToSet(Bucket(rows, keyOf, key)) = {p \in ToSet(rows) : keyOf[p] = key}
           /\ IsInjective(rows) => IsInjective(Bucket(rows, keyOf, key))
<1> DEFINE kept == {i \in DOMAIN rows : keyOf[rows[i]] = key}
<1>1. Bucket(rows, keyOf, key) = Picked(rows, kept)
  BY Zenon DEF Bucket, Filtered, Picked
<1>2. kept \in SUBSET DOMAIN rows
  OBVIOUS
<1>3. {rows[i] : i \in kept} = {p \in ToSet(rows) : keyOf[p] = key}
  BY DEF ToSet
<1> HIDE DEF kept
<1> QED BY <1>1, <1>2, <1>3, PickedList

\* What a list of providers says of one of them, of the rows it was derived from.
OwnRows(rows, name) == {p \in ToSet(rows) : Source(p) = name}
ProviderFits(item, rows) ==
    /\ item.fetched = Cardinality(OwnRows(rows, item.name)) /\ item.fetched \in Nat /\ item.valid \in Nat
    /\ item.error # Null => \E p \in OwnRows(rows, item.name) : RowOf[p].error = item.error
    /\ item.fetchedAt # Null => \E p \in OwnRows(rows, item.name) : FetchedAt(p) = item.fetchedAt
    /\ \A p \in OwnRows(rows, item.name) : FetchedAt(p) # Null => item.fetchedAt >= FetchedAt(p)

LEMMA ProviderIs ==
    ASSUME NEW rows \in Seq(Proxy), IsInjective(rows), NEW name
    PROVE  Provider(rows, name).name = name /\ ProviderFits(Provider(rows, name), rows)
<1> DEFINE bucket == Bucket(rows, SourceOf, name)
           times == {FetchedAt(bucket[i]) : i \in DOMAIN bucket} \ {Null}
           failed == {i \in DOMAIN bucket : RowOf[bucket[i]].error # Null}
           errors == Picked(bucket, failed)
           valid == {i \in DOMAIN bucket : Status(bucket[i]) \in {"checked", "elite"}}
           own == OwnRows(rows, name)
           item == Provider(rows, name)
<1>1. item = [name |-> name, fetched |-> Len(bucket), valid |-> Cardinality(valid),
              fetchedAt |-> IF times = {} THEN Null ELSE Max(times),
              error |-> IF errors = <<>> THEN Null ELSE RowOf[errors[1]].error]
  <2>1. Filtered(bucket, LAMBDA p : RowOf[p].error # Null) = errors
    BY Zenon DEF Filtered, Picked
  <2>2. Count(bucket, LAMBDA p : Status(p) \in {"checked", "elite"}) = Cardinality(valid)
    BY Zenon DEF Count
  <2>3. item = [name |-> name, fetched |-> Len(bucket),
                valid |-> Count(bucket, LAMBDA p : Status(p) \in {"checked", "elite"}),
                fetchedAt |-> IF times = {} THEN Null ELSE Max(times),
                error |-> IF Filtered(bucket, LAMBDA p : RowOf[p].error # Null) = <<>> THEN Null
                          ELSE RowOf[Filtered(bucket, LAMBDA p : RowOf[p].error # Null)[1]].error]
    BY Zenon DEF Provider
  <2> HIDE DEF item, bucket, valid, times, errors
  <2> QED BY <2>1, <2>2, <2>3
<1>2. bucket \in Seq(Proxy) /\ IsInjective(bucket) /\ ToSet(bucket) = own
  <2>1. {p \in ToSet(rows) : SourceOf[p] = name} = own
    <3>1. \A p \in ToSet(rows) : p \in Proxy
      BY DEF ToSet
    <3> QED BY <3>1 DEF OwnRows, SourceOf
  <2>2. /\ bucket \in Seq(Proxy)
        /\ ToSet(bucket) = {p \in ToSet(rows) : SourceOf[p] = name}
        /\ IsInjective(rows) => IsInjective(bucket)
    BY BucketIs, Zenon
  <2> QED BY <2>1, <2>2
<1> HIDE DEF item, bucket
<1>3. Len(bucket) = Cardinality(own) /\ Len(bucket) \in Nat /\ DOMAIN bucket = 1..Len(bucket)
  BY <1>2, WholeOf
<1>4. Cardinality(valid) \in Nat
  <2>1. valid \in SUBSET (1..Len(bucket))
    BY <1>3
  <2>2. IsFiniteSet(1..Len(bucket))
    BY <1>3, FS_Interval
  <2> HIDE DEF valid
  <2>3. IsFiniteSet(valid)
    BY <2>1, <2>2, FS_Subset
  <2> QED BY <2>3, FS_CardinalityType
<1>5. ASSUME errors # <<>> PROVE \E p \in own : RowOf[p].error = RowOf[errors[1]].error
  <2>1. failed \in SUBSET DOMAIN bucket
    OBVIOUS
  <2> HIDE DEF failed
  <2>2. errors \in Seq(Proxy) /\ ToSet(errors) = {bucket[i] : i \in failed}
    BY <1>2, <2>1, PickedList
  <2> HIDE DEF errors
  <2>3. 1 \in DOMAIN errors
    BY <1>5, <2>2
  <2>4. errors[1] \in ToSet(errors)
    BY <2>3 DEF ToSet
  <2>5. PICK i \in failed : errors[1] = bucket[i]
    BY <2>2, <2>4
  <2>6. bucket[i] \in own
    BY <1>2, <2>1, <2>5 DEF ToSet
  <2> QED BY <2>5, <2>6
<1>6. \A p \in own : FetchedAt(p) # Null => FetchedAt(p) \in times
  <2> TAKE p \in own
  <2>1. PICK i \in DOMAIN bucket : p = bucket[i]
    BY <1>2 DEF ToSet
  <2> QED BY <2>1
<1>7. \A x \in times : x \in Int /\ \E p \in own : FetchedAt(p) = x
  <2> TAKE x \in times
  <2>1. PICK i \in DOMAIN bucket : x = FetchedAt(bucket[i]) /\ x # Null
    OBVIOUS
  <2>2. bucket[i] \in own /\ bucket[i] \in Proxy
    BY <1>2, <2>1 DEF ToSet
  <2> QED BY <2>1, <2>2, RowsAssumption DEF FetchedAt
<1>8. IsFiniteSet(times)
  <2> DEFINE at == {i \in 1..Len(bucket) : FetchedAt(bucket[i]) # Null}
             f == [i \in at |-> FetchedAt(bucket[i])]
  <2>1. IsFiniteSet(1..Len(bucket)) /\ at \in SUBSET (1..Len(bucket))
    BY <1>3, FS_Interval
  <2>2. IsFiniteSet(at)
    <3> HIDE DEF at
    <3> QED BY <2>1, FS_Subset
  <2>3. f \in [at -> times] /\ \A x \in times : \E i \in at : f[i] = x
    BY <1>3
  <2> HIDE DEF f, at, times
  <2>4. f \in Surjection(at, times)
    BY <2>3 DEF Surjection
  <2> QED BY <2>2, <2>4, FS_Surjection
<1> HIDE DEF times, valid, errors, own
<1>9. ASSUME times # {}
      PROVE  Max(times) \in times /\ \A x \in times : x <= Max(times)
  <2>1. times \in SUBSET Int
    BY <1>7
  <2> QED BY <1>8, <1>9, <2>1, MaxOf
<1>10. item.name = name /\ item.fetched = Len(bucket) /\ item.valid = Cardinality(valid)
  BY <1>1
<1>11. item.error # Null => \E p \in own : RowOf[p].error = item.error
  BY <1>1, <1>5
<1>12. item.fetchedAt # Null => \E p \in own : FetchedAt(p) = item.fetchedAt
  BY <1>1, <1>7, <1>9
<1>13. \A p \in own : FetchedAt(p) # Null => item.fetchedAt >= FetchedAt(p)
  <2> SUFFICES ASSUME NEW p \in own, FetchedAt(p) # Null PROVE item.fetchedAt >= FetchedAt(p)
    OBVIOUS
  <2>1. FetchedAt(p) \in times
    BY <1>6
  <2>2. item.fetchedAt = Max(times)
    BY <1>1, <2>1
  <2> QED BY <1>7, <1>9, <2>1, <2>2
<1> QED BY <1>3, <1>4, <1>10, <1>11, <1>12, <1>13 DEF ProviderFits, own, item

\* A list of providers has every source of its rows once, the one with most valid
\* rows first.
ProvidersFit(list, rows) ==
    /\ \E m \in Nat : DOMAIN list = 1..m
    /\ {list[i].name : i \in DOMAIN list} = {Source(p) : p \in ToSet(rows)}
    /\ \A i \in DOMAIN list : ProviderFits(list[i], rows)
    /\ \A i, j \in DOMAIN list : list[i].name = list[j].name => i = j
    /\ \A i \in DOMAIN list : i > 1 => list[i].valid <= list[i - 1].valid

LEMMA ProvidersAre ==
    ASSUME NEW rows \in Seq(Proxy), IsInjective(rows)
    PROVE  ProvidersFit(deriveProviderSummaries(rows), rows)
<1> DEFINE names == Keys(rows, SourceOf)
           sources == {Source(p) : p \in ToSet(rows)}
           provider == [name \in sources |-> Provider(rows, name)]
           list == [i \in DOMAIN names |-> provider[names[i]]]
           r == deriveProviderSummaries(rows)
           aheadIn(items, i) == {j \in DOMAIN items :
                \/ items[j].valid > items[i].valid
                   \/ (items[j].valid = items[i].valid /\ items[j].fetched > items[i].fetched)
                \/ /\ ~(items[i].valid > items[j].valid
                        \/ (items[i].valid = items[j].valid /\ items[i].fetched > items[j].fetched))
                   /\ j <= i}
           sort(items) == [k \in DOMAIN items |->
                items[CHOOSE i \in DOMAIN items : Cardinality(aheadIn(items, i)) = k]]
<1>1. r = sort(list)
  <2>1. r = [items \in {list} |-> sort(items)][list]
    BY Zenon DEF deriveProviderSummaries, Sorted
  <2> HIDE DEF list, sort, r
  <2> QED BY <2>1
<1>2. \A p \in ToSet(rows) : p \in Proxy /\ SourceOf[p] = Source(p) /\ Source(p) # Null
  BY RowsAssumption DEF ToSet, SourceOf, Source
<1>3. /\ \E m \in Nat : DOMAIN names = 1..m
      /\ \A i, j \in DOMAIN names : names[i] = names[j] => i = j
      /\ {names[i] : i \in DOMAIN names} = sources
  <2>1. {SourceOf[p] : p \in ToSet(rows)} \ {Null} = sources
    BY <1>2
  <2>2. /\ \E m \in Nat : DOMAIN names = 1..m
        /\ \A i, j \in DOMAIN names : names[i] = names[j] => i = j
        /\ {names[i] : i \in DOMAIN names} = {SourceOf[p] : p \in ToSet(rows)} \ {Null}
    BY KeysAre
  <2> QED BY <2>1, <2>2
<1>4. PICK m \in Nat : DOMAIN names = 1..m
  BY <1>3
<1> DEFINE first == [i \in 1..m |-> list[i].valid]
           second == [i \in 1..m |-> list[i].fetched]
<1>5. DOMAIN list = 1..m /\ \A i \in 1..m : list[i] = Provider(rows, names[i])
  <2>1. \A i \in 1..m : names[i] \in sources
    BY <1>3, <1>4
  <2> HIDE DEF names, sources
  <2> QED BY <1>4, <2>1
<1>6. \A i \in 1..m : list[i].name = names[i] /\ ProviderFits(list[i], rows)
  BY <1>5, ProviderIs
<1> HIDE DEF list, names, r, sources
<1>7. first \in [1..m -> Int] /\ second \in [1..m -> Int]
      /\ \A i \in 1..m : first[i] = list[i].valid /\ second[i] = list[i].fetched
  BY <1>6 DEF ProviderFits
<1> HIDE DEF first, second
<1>8. \A i \in 1..m : Cardinality(aheadIn(list, i)) = Place(1..m, first, second, i)
  <2> TAKE i \in 1..m
  <2>1. aheadIn(list, i) = {j \in 1..m : Ahead(first, second, j, i)}
    BY <1>5, <1>7 DEF Ahead
  <2> HIDE DEF aheadIn
  <2> QED BY <2>1 DEF Place
<1>9. r = SortedBy(m, list, first, second)
  <2> HIDE DEF aheadIn
  <2> DEFINE at == [k \in 1..m |-> list[CHOOSE i \in 1..m : Cardinality(aheadIn(list, i)) = k]]
  <2>1. DOMAIN list = 1..m
    BY <1>5
  <2>2. r = at
    BY <1>1, <2>1
  <2>3. \A k \in 1..m : at[k] = list[CHOOSE i \in 1..m : Place(1..m, first, second, i) = k]
    <3> TAKE k \in 1..m
    <3>1. at[k] = list[CHOOSE i \in 1..m : Cardinality(aheadIn(list, i)) = k]
      BY Zenon
    <3>2. (CHOOSE i \in 1..m : Cardinality(aheadIn(list, i)) = k)
            = CHOOSE i \in 1..m : Place(1..m, first, second, i) = k
      BY <1>8, Zenon
    <3> QED BY <3>1, <3>2, Zenon
  <2>4. at = [k \in 1..m |-> at[k]]
    OBVIOUS
  <2> HIDE DEF at
  <2>5. [k \in 1..m |-> at[k]]
            = [k \in 1..m |-> list[CHOOSE i \in 1..m : Place(1..m, first, second, i) = k]]
    BY <2>3, Zenon
  <2> QED BY <2>2, <2>4, <2>5, Zenon DEF SortedBy
<1> HIDE DEF sort, aheadIn
<1>10. PICK at : Sorts(at, m, first, second) /\ r = [k \in 1..m |-> list[at[k]]]
  <2>1. first \in [1..m -> Int] /\ second \in [1..m -> Int]
    BY <1>7
  <2>2. InSorts(SortedBy(m, list, first, second), m, list, first, second)
    BY <2>1, SortedIs
  <2> QED BY <1>9, <2>2, Zenon DEF InSorts
<1>11. DOMAIN r = 1..m /\ \A k \in 1..m : at[k] \in 1..m /\ r[k] = list[at[k]]
  BY <1>10 DEF Sorts
<1>12. {r[i].name : i \in DOMAIN r} = sources
  <2>1. \A k \in 1..m : r[k].name \in sources
    BY <1>3, <1>4, <1>6, <1>11
  <2>2. ASSUME NEW s \in sources PROVE \E k \in 1..m : r[k].name = s
    <3>1. PICK i \in 1..m : names[i] = s
      BY <1>3, <1>4
    <3>2. PICK k \in 1..m : at[k] = i
      BY <1>10 DEF Sorts
    <3> QED BY <1>6, <1>11, <3>1, <3>2
  <2> QED BY <1>11, <2>1, <2>2
<1>13. \A i \in DOMAIN r : ProviderFits(r[i], rows)
  BY <1>6, <1>11
<1>14. \A i, j \in DOMAIN r : r[i].name = r[j].name => i = j
  <2> SUFFICES ASSUME NEW i \in 1..m, NEW j \in 1..m, r[i].name = r[j].name PROVE i = j
    BY <1>11
  <2>1. at[i] = at[j]
    BY <1>3, <1>4, <1>6, <1>11
  <2> QED BY <1>10, <2>1 DEF Sorts
<1>15. \A i \in DOMAIN r : i > 1 => r[i].valid <= r[i - 1].valid
  <2> SUFFICES ASSUME NEW i \in 1..m, i > 1 PROVE r[i].valid <= r[i - 1].valid
    BY <1>11
  <2>1. i - 1 \in 1..m /\ i - 1 <= i
    BY <1>4
  <2>2. Ahead(first, second, at[i - 1], at[i])
    BY <1>10, <2>1 DEF Sorts
  <2>3. r[i].valid = first[at[i]] /\ r[i - 1].valid = first[at[i - 1]]
        /\ first[at[i]] \in Int /\ first[at[i - 1]] \in Int
    BY <1>7, <1>11, <2>1
  <2> QED BY <2>2, <2>3 DEF Ahead
<1> QED BY <1>4, <1>11, <1>12, <1>13, <1>14, <1>15 DEF ProvidersFit, r, sources

-----------------------------------------------------------------------------
\* The partial sums of a list of numbers.
Sums(s, n, list) ==
    /\ s \in [0..n -> Int] /\ s[0] = 0
    /\ \A k \in 1..n : s[k] = s[k - 1] + list[k]

LEMMA SumsAre ==
    ASSUME NEW n \in Nat, NEW list \in [1..n -> Int]
    PROVE  \E s : Sums(s, n, list)
<1> DEFINE S == {k \in 0..n : \E s : Sums(s, k, list)}
<1>1. 0 \in S
  <2>1. PICK s : s = [k \in 0..0 |-> 0]
    OBVIOUS
  <2>2. Sums(s, 0, list)
    BY <2>1 DEF Sums
  <2> QED BY <2>2
<1>2. ASSUME NEW k \in 1..n, k - 1 \in S PROVE k \in S
  <2>1. PICK s : Sums(s, k - 1, list)
    BY <1>2
  <2>2. PICK t : t = [j \in 0..k |-> IF j = k THEN s[k - 1] + list[k] ELSE s[j]]
    OBVIOUS
  <2>3. s[k - 1] \in Int /\ list[k] \in Int /\ k - 1 \in 0..(k - 1)
    BY <2>1 DEF Sums
  <2>4. \A j \in 0..k : j = k \/ j \in 0..(k - 1)
    OBVIOUS
  <2>5. t \in [0..k -> Int] /\ t[0] = 0
    BY <2>1, <2>2, <2>3, <2>4 DEF Sums
  <2>6. ASSUME NEW j \in 1..k PROVE t[j] = t[j - 1] + list[j]
    <3>1. j - 1 \in 0..k /\ j - 1 # k /\ j \in 0..k
      OBVIOUS
    <3>2. CASE j = k
      BY <2>2, <3>1, <3>2
    <3>3. CASE j # k
      <4>1. j \in 1..(k - 1)
        BY <3>3
      <4> QED BY <2>1, <2>2, <3>1, <3>3, <4>1 DEF Sums
    <3> QED BY <3>2, <3>3
  <2>7. Sums(t, k, list)
    BY <2>5, <2>6 DEF Sums
  <2> QED BY <2>7
<1>3. \A k \in 1..n : k - 1 \in S => k \in S
  BY ONLY <1>2
<1> HIDE DEF S
<1>4. \A k \in 0..n : k \in S
  BY <1>1, <1>3, UpTo, Zenon
<1>5. n \in S
  BY <1>4
<1> QED BY <1>5 DEF S

LEMMA SumIs ==
    ASSUME NEW n \in Nat, NEW list \in [1..n -> Int]
    PROVE  \E s : Sums(s, n, list) /\ Sum(list) = s[n]
<1>1. list \in Seq(Int) /\ Len(list) = n
  OBVIOUS
<1> DEFINE step(g) == [k \in 0..Len(list) |-> IF k = 0 THEN 0 ELSE g[k - 1] + list[k]]
           s == CHOOSE g : g = step(g)
<1>2. PICK t : Sums(t, n, list)
  BY SumsAre
<1>3. t = step(t)
  BY <1>1, <1>2 DEF Sums
<1>4. s = step(s)
  <2> HIDE DEF step
  <2> QED BY <1>3
<1>5. Sum(list) = s[Len(list)]
  BY Zenon DEF Sum
<1> HIDE DEF s
<1>6. s[0] = 0 /\ \A k \in 1..n : s[k] = s[k - 1] + list[k]
  BY <1>1, <1>4
<1> DEFINE S == {k \in 0..n : s[k] = t[k]}
<1>7. 0 \in S
  BY <1>2, <1>6 DEF Sums
<1>8. ASSUME NEW k \in 1..n, k - 1 \in S PROVE k \in S
  BY <1>2, <1>6, <1>8 DEF Sums
<1>9. \A k \in 1..n : k - 1 \in S => k \in S
  BY ONLY <1>8
<1> HIDE DEF S
<1>10. \A k \in 0..n : k \in S
  BY <1>7, <1>9, UpTo, Zenon
<1>11. n \in S
  BY <1>10
<1> QED BY <1>1, <1>2, <1>5, <1>11 DEF S

\* What the first k parts of a list of sets hold.
Parts(part, k) == UNION {part[i] : i \in 1..k}

\* The sizes of sets with nothing in common add up to the size of their union.
LEMMA SumOfParts ==
    ASSUME NEW n \in Nat, NEW list \in [1..n -> Int], NEW part,
           \A i \in 1..n : IsFiniteSet(part[i]) /\ list[i] = Cardinality(part[i]),
           \A i, j \in 1..n : i # j => part[i] \cap part[j] = {}
    PROVE  IsFiniteSet(Parts(part, n)) /\ Sum(list) = Cardinality(Parts(part, n))
<1>1. PICK s : Sums(s, n, list) /\ Sum(list) = s[n]
  BY SumIs
<1> DEFINE S == {k \in 0..n : IsFiniteSet(Parts(part, k)) /\ s[k] = Cardinality(Parts(part, k))}
<1>2. 0 \in S
  <2>1. Parts(part, 0) = {}
    BY DEF Parts
  <2>2. IsFiniteSet({}) /\ Cardinality({}) = 0
    BY FS_EmptySet
  <2>3. IsFiniteSet(Parts(part, 0)) /\ Cardinality(Parts(part, 0)) = 0
    BY <2>1, <2>2
  <2>4. s[0] = 0 /\ 0 \in 0..n
    BY <1>1 DEF Sums
  <2> QED BY <2>3, <2>4
<1>3. ASSUME NEW k \in 1..n, k - 1 \in S PROVE k \in S
  <2> DEFINE A == Parts(part, k - 1)
             B == part[k]
  <2>1. Parts(part, k) = A \cup B
    <3>1. 1..k = (1..(k - 1)) \cup {k}
      OBVIOUS
    <3> QED BY <3>1 DEF Parts
  <2>2. A \cap B = {}
    <3>1. \A i \in 1..(k - 1) : i \in 1..n /\ i # k
      OBVIOUS
    <3> QED BY <3>1 DEF Parts
  <2>3. IsFiniteSet(A) /\ IsFiniteSet(B) /\ s[k - 1] = Cardinality(A) /\ list[k] = Cardinality(B)
    BY <1>3
  <2>4. s[k] = s[k - 1] + list[k] /\ k \in 0..n
    BY <1>1 DEF Sums
  <2> HIDE DEF A, B
  <2>5. Cardinality(A) \in Nat /\ Cardinality(B) \in Nat /\ Cardinality(A \cap B) = 0
    BY <2>2, <2>3, FS_CardinalityType, FS_EmptySet
  <2>6. IsFiniteSet(A \cup B) /\ Cardinality(A \cup B) = Cardinality(A) + Cardinality(B) - Cardinality(A \cap B)
    BY <2>3, FS_Union
  <2>7. IsFiniteSet(Parts(part, k)) /\ s[k] = Cardinality(Parts(part, k))
    <3> DEFINE C == A \cup B
    <3>1. IsFiniteSet(C) /\ s[k] = Cardinality(C)
      BY <2>3, <2>4, <2>5, <2>6
    <3> HIDE DEF C
    <3>2. Parts(part, k) = C
      BY <2>1 DEF C
    <3> QED BY <3>1, <3>2
  <2> QED BY <2>4, <2>7
<1>4. \A k \in 1..n : k - 1 \in S => k \in S
  BY ONLY <1>3
<1> HIDE DEF S
<1>5. \A k \in 0..n : k \in S
  BY <1>2, <1>4, UpTo, Zenon
<1>6. n \in S
  BY <1>5
<1> QED BY <1>1, <1>6 DEF S

\* A sum lies between as many times the least and the largest of its numbers.
LEMMA SumBetween ==
    ASSUME NEW n \in Nat, NEW list \in [1..n -> Int], NEW low \in Int, NEW high \in Int,
           \A i \in 1..n : low <= list[i] /\ list[i] <= high
    PROVE  Sum(list) \in Int /\ n * low <= Sum(list) /\ Sum(list) <= n * high
<1>1. PICK s : Sums(s, n, list) /\ Sum(list) = s[n]
  BY SumIs
<1> DEFINE S == {k \in 0..n : s[k] \in Int /\ k * low <= s[k] /\ s[k] <= k * high}
<1>2. 0 \in S
  BY <1>1 DEF Sums
<1>3. ASSUME NEW k \in 1..n, k - 1 \in S PROVE k \in S
  <2>1. s[k] = s[k - 1] + list[k] /\ s[k - 1] \in Int /\ list[k] \in Int
    BY <1>1, <1>3 DEF Sums
  <2>2. k * low = (k - 1) * low + low /\ k * high = (k - 1) * high + high
    OBVIOUS
  <2>3. (k - 1) * low <= s[k - 1] /\ s[k - 1] <= (k - 1) * high
    BY <1>3
  <2>4. (k - 1) * low \in Int /\ (k - 1) * high \in Int
    OBVIOUS
  <2>5. low <= list[k] /\ list[k] <= high
    OBVIOUS
  <2> DEFINE a == (k - 1) * low
             b == (k - 1) * high
  <2>6. k * low = a + low /\ k * high = b + high /\ a <= s[k - 1] /\ s[k - 1] <= b /\ a \in Int /\ b \in Int
    BY <2>2, <2>3, <2>4
  <2> DEFINE kl == k * low
             kh == k * high
  <2>7. kl = a + low /\ kh = b + high
    BY <2>6
  <2> HIDE DEF a, b, kl, kh
  <2>8. kl <= s[k] /\ s[k] <= kh /\ s[k] \in Int
    BY <2>1, <2>5, <2>6, <2>7
  <2> QED BY <2>8 DEF kl, kh
<1>4. \A k \in 1..n : k - 1 \in S => k \in S
  BY ONLY <1>3
<1> HIDE DEF S
<1>5. \A k \in 0..n : k \in S
  BY <1>2, <1>4, UpTo, Zenon
<1>6. n \in S
  BY <1>5
<1> QED BY <1>1, <1>6 DEF S

\* A sum rounded to a mean lies between the least and the largest of its numbers.
LEMMA MeanBetween ==
    ASSUME NEW n \in Nat, n >= 1, NEW sum \in Int, NEW low \in Int, NEW high \in Int,
           n * low <= sum, sum <= n * high
    PROVE  LET mean == (2 * sum + n) \div (2 * n) IN mean \in Int /\ low <= mean /\ mean <= high
<1> DEFINE d == 2 * n
           a == 2 * sum + n
           mean == a \div d
           rest == a % d
           p == n * low
           q == n * high
<1>1. d \in Nat /\ d >= 2 /\ a \in Int /\ d = 2 * n /\ a = 2 * sum + n
  OBVIOUS
<1>2. mean \in Int /\ rest \in 0..(d - 1) /\ a = d * mean + rest
  <2> HIDE DEF d, a
  <2> QED BY <1>1
<1>3. p \in Int /\ q \in Int /\ p <= sum /\ sum <= q
  OBVIOUS
<1>4. low <= mean
  <2> SUFFICES ASSUME mean <= low - 1 PROVE FALSE
    BY <1>2
  <2>1. d * mean <= d * (low - 1)
    BY <1>1, <1>2
  <2>2. d * (low - 1) = 2 * p - d
    BY <1>1
  <2> DEFINE m == d * mean
             t == d * (low - 1)
  <2>3. m <= t /\ t = 2 * p - d /\ a = m + rest /\ m \in Int
    BY <1>1, <1>2, <2>1, <2>2
  <2> HIDE DEF m, t, a, d, p, rest, mean
  <2> QED BY <1>1, <1>2, <1>3, <2>3
<1>5. mean <= high
  <2> SUFFICES ASSUME mean >= high + 1 PROVE FALSE
    BY <1>2
  <2>1. d * mean >= d * (high + 1)
    BY <1>1, <1>2
  <2>2. d * (high + 1) = 2 * q + d
    BY <1>1
  <2> DEFINE m == d * mean
             t == d * (high + 1)
  <2>3. m >= t /\ t = 2 * q + d /\ a = m + rest /\ m \in Int
    BY <1>1, <1>2, <2>1, <2>2
  <2> HIDE DEF m, t, a, d, q, rest, mean
  <2> QED BY <1>1, <1>2, <1>3, <2>3
<1> QED BY <1>2, <1>4, <1>5

\* The sources of a list of providers share out its rows.
LEMMA ProvidersTotal ==
    ASSUME NEW rows \in Seq(Proxy), IsInjective(rows), NEW list, ProvidersFit(list, rows)
    PROVE  Total(list, LAMBDA s : s.fetched) = Len(rows)
<1>1. PICK n \in Nat : DOMAIN list = 1..n
  BY DEF ProvidersFit
<1> DEFINE sizes == [i \in DOMAIN list |-> list[i].fetched]
           part == [i \in 1..n |-> OwnRows(rows, list[i].name)]
<1>2. Total(list, LAMBDA s : s.fetched) = Sum(sizes)
  BY Zenon DEF Total
<1>3. \A i \in 1..n : ProviderFits(list[i], rows)
  BY <1>1 DEF ProvidersFit
<1>4. sizes \in [1..n -> Int]
  BY <1>1, <1>3 DEF ProviderFits
<1>5. IsFiniteSet(ToSet(rows)) /\ Cardinality(ToSet(rows)) = Len(rows)
  BY WholeOf
<1>6. \A i \in 1..n : IsFiniteSet(part[i]) /\ sizes[i] = Cardinality(part[i])
  <2> TAKE i \in 1..n
  <2>1. part[i] = OwnRows(rows, list[i].name) /\ sizes[i] = list[i].fetched
    BY <1>1
  <2>2. OwnRows(rows, list[i].name) \subseteq ToSet(rows)
    BY DEF OwnRows
  <2>3. IsFiniteSet(OwnRows(rows, list[i].name))
    BY <1>5, <2>2, FS_Subset
  <2> QED BY <1>3, <2>1, <2>3 DEF ProviderFits
<1>7. \A i, j \in 1..n : i # j => part[i] \cap part[j] = {}
  BY <1>1 DEF ProvidersFit, OwnRows
<1>8. Parts(part, n) = ToSet(rows)
  <2>1. Parts(part, n) \subseteq ToSet(rows)
    BY DEF Parts, OwnRows
  <2>2. ASSUME NEW p \in ToSet(rows) PROVE p \in Parts(part, n)
    <3>1. PICK i \in 1..n : list[i].name = Source(p)
      BY <1>1 DEF ProvidersFit
    <3>2. p \in part[i]
      BY <3>1 DEF OwnRows
    <3> QED BY <3>2 DEF Parts
  <2> QED BY <2>1, <2>2
<1> HIDE DEF sizes, part
<1>9. Sum(sizes) = Cardinality(Parts(part, n))
  BY <1>4, <1>6, <1>7, SumOfParts
<1> QED BY <1>2, <1>5, <1>8, <1>9

-----------------------------------------------------------------------------
\* Lists by their totals, the largest first, and by their latencies, the least first.
ByTotal(list) == Sorted(list, LAMBDA a, b : a.total > b.total)
ByLatency(list) == Sorted(list, LAMBDA a, b : a.latency < b.latency)
Totals(list) == Total(list, LAMBDA c : c.total)

\* r is the list in another order: at says where each of its items was.
Reorders(at, r, list, m) ==
    /\ r = [k \in 1..m |-> list[at[k]]]
    /\ at \in [1..m -> 1..m]
    /\ \A i \in 1..m : \E k \in 1..m : at[k] = i
    /\ \A k, j \in 1..m : at[k] = at[j] => k = j
Downward(r, list, m) ==
    \E at : /\ Reorders(at, r, list, m)
            /\ \A k, j \in 1..m : k <= j => list[at[k]].total >= list[at[j]].total
Upward(r, list, m) ==
    \E at : /\ Reorders(at, r, list, m)
            /\ \A k, j \in 1..m : k <= j => list[at[k]].latency <= list[at[j]].latency

LEMMA ByTotalIs ==
    ASSUME NEW m \in Nat, NEW list, DOMAIN list = 1..m, \A i \in 1..m : list[i].total \in Int
    PROVE  Downward(ByTotal(list), list, m)
<1> DEFINE r == ByTotal(list)
           aheadIn(items, i) == {j \in DOMAIN items :
                \/ items[j].total > items[i].total
                \/ ~(items[i].total > items[j].total) /\ j <= i}
           sort(items) == [k \in DOMAIN items |->
                items[CHOOSE i \in DOMAIN items : Cardinality(aheadIn(items, i)) = k]]
           first == [i \in 1..m |-> list[i].total]
           second == [i \in 1..m |-> 0]
<1>1. r = sort(list)
  <2>1. r = [items \in {list} |-> sort(items)][list]
    BY Zenon DEF ByTotal, Sorted
  <2> HIDE DEF sort, r
  <2> QED BY <2>1
<1>2. /\ first \in [1..m -> Int] /\ second \in [1..m -> Int]
      /\ \A i \in 1..m : first[i] = list[i].total /\ second[i] = 0
  OBVIOUS
<1> HIDE DEF first, second, r
<1>3. \A i \in 1..m : Cardinality(aheadIn(list, i)) = Place(1..m, first, second, i)
  <2> TAKE i \in 1..m
  <2>1. aheadIn(list, i) = {j \in 1..m : Ahead(first, second, j, i)}
    BY <1>2 DEF Ahead
  <2> HIDE DEF aheadIn
  <2> QED BY <2>1 DEF Place
<1>4. r = SortedBy(m, list, first, second)
  <2> HIDE DEF aheadIn
  <2> DEFINE at == [k \in 1..m |-> list[CHOOSE i \in 1..m : Cardinality(aheadIn(list, i)) = k]]
  <2>1. r = at
    BY <1>1
  <2>2. \A k \in 1..m : at[k] = list[CHOOSE i \in 1..m : Place(1..m, first, second, i) = k]
    <3> TAKE k \in 1..m
    <3>1. at[k] = list[CHOOSE i \in 1..m : Cardinality(aheadIn(list, i)) = k]
      BY Zenon
    <3>2. (CHOOSE i \in 1..m : Cardinality(aheadIn(list, i)) = k)
            = CHOOSE i \in 1..m : Place(1..m, first, second, i) = k
      BY <1>3, Zenon
    <3> QED BY <3>1, <3>2, Zenon
  <2>3. at = [k \in 1..m |-> at[k]]
    OBVIOUS
  <2> HIDE DEF at
  <2>4. [k \in 1..m |-> at[k]]
            = [k \in 1..m |-> list[CHOOSE i \in 1..m : Place(1..m, first, second, i) = k]]
    BY <2>2, Zenon
  <2> QED BY <2>1, <2>3, <2>4, Zenon DEF SortedBy
<1> HIDE DEF sort, aheadIn
<1>5. PICK at : Sorts(at, m, first, second) /\ r = [k \in 1..m |-> list[at[k]]]
  <2>1. InSorts(SortedBy(m, list, first, second), m, list, first, second)
    BY <1>2, SortedIs
  <2> QED BY <1>4, <2>1, Zenon DEF InSorts
<1>6. Reorders(at, r, list, m)
  BY <1>5 DEF Reorders, Sorts
<1>7. \A k, j \in 1..m : k <= j => list[at[k]].total >= list[at[j]].total
  <2> SUFFICES ASSUME NEW k \in 1..m, NEW j \in 1..m, k <= j
               PROVE  list[at[k]].total >= list[at[j]].total
    OBVIOUS
  <2>1. at[k] \in 1..m /\ at[j] \in 1..m /\ Ahead(first, second, at[k], at[j])
    BY <1>5 DEF Sorts
  <2> QED BY <1>2, <2>1 DEF Ahead
<1> QED BY <1>6, <1>7 DEF Downward, r

LEMMA ByLatencyIs ==
    ASSUME NEW m \in Nat, NEW list, DOMAIN list = 1..m, \A i \in 1..m : list[i].latency \in Int
    PROVE  Upward(ByLatency(list), list, m)
<1> DEFINE r == ByLatency(list)
           aheadIn(items, i) == {j \in DOMAIN items :
                \/ items[j].latency < items[i].latency
                \/ ~(items[i].latency < items[j].latency) /\ j <= i}
           sort(items) == [k \in DOMAIN items |->
                items[CHOOSE i \in DOMAIN items : Cardinality(aheadIn(items, i)) = k]]
           first == [i \in 1..m |-> 0 - list[i].latency]
           second == [i \in 1..m |-> 0]
<1>1. r = sort(list)
  <2>1. r = [items \in {list} |-> sort(items)][list]
    BY Zenon DEF ByLatency, Sorted
  <2> HIDE DEF sort, r
  <2> QED BY <2>1
<1>2. /\ first \in [1..m -> Int] /\ second \in [1..m -> Int]
      /\ \A i \in 1..m : first[i] = 0 - list[i].latency /\ second[i] = 0
  OBVIOUS
<1> HIDE DEF first, second, r
<1>3. \A i \in 1..m : Cardinality(aheadIn(list, i)) = Place(1..m, first, second, i)
  <2> TAKE i \in 1..m
  <2>1. aheadIn(list, i) = {j \in 1..m : Ahead(first, second, j, i)}
    BY <1>2 DEF Ahead
  <2> HIDE DEF aheadIn
  <2> QED BY <2>1 DEF Place
<1>4. r = SortedBy(m, list, first, second)
  <2> HIDE DEF aheadIn
  <2> DEFINE at == [k \in 1..m |-> list[CHOOSE i \in 1..m : Cardinality(aheadIn(list, i)) = k]]
  <2>1. r = at
    BY <1>1
  <2>2. \A k \in 1..m : at[k] = list[CHOOSE i \in 1..m : Place(1..m, first, second, i) = k]
    <3> TAKE k \in 1..m
    <3>1. at[k] = list[CHOOSE i \in 1..m : Cardinality(aheadIn(list, i)) = k]
      BY Zenon
    <3>2. (CHOOSE i \in 1..m : Cardinality(aheadIn(list, i)) = k)
            = CHOOSE i \in 1..m : Place(1..m, first, second, i) = k
      BY <1>3, Zenon
    <3> QED BY <3>1, <3>2, Zenon
  <2>3. at = [k \in 1..m |-> at[k]]
    OBVIOUS
  <2> HIDE DEF at
  <2>4. [k \in 1..m |-> at[k]]
            = [k \in 1..m |-> list[CHOOSE i \in 1..m : Place(1..m, first, second, i) = k]]
    BY <2>2, Zenon
  <2> QED BY <2>1, <2>3, <2>4, Zenon DEF SortedBy
<1> HIDE DEF sort, aheadIn
<1>5. PICK at : Sorts(at, m, first, second) /\ r = [k \in 1..m |-> list[at[k]]]
  <2>1. InSorts(SortedBy(m, list, first, second), m, list, first, second)
    BY <1>2, SortedIs
  <2> QED BY <1>4, <2>1, Zenon DEF InSorts
<1>6. Reorders(at, r, list, m)
  BY <1>5 DEF Reorders, Sorts
<1>7. \A k, j \in 1..m : k <= j => list[at[k]].latency <= list[at[j]].latency
  <2> SUFFICES ASSUME NEW k \in 1..m, NEW j \in 1..m, k <= j
               PROVE  list[at[k]].latency <= list[at[j]].latency
    OBVIOUS
  <2>1. at[k] \in 1..m /\ at[j] \in 1..m /\ Ahead(first, second, at[k], at[j])
    BY <1>5 DEF Sorts
  <2>2. first[at[k]] >= first[at[j]] /\ first[at[k]] \in Int /\ first[at[j]] \in Int
    BY <1>2, <2>1 DEF Ahead
  <2>3. first[at[k]] = 0 - list[at[k]].latency /\ first[at[j]] = 0 - list[at[j]].latency
    BY <1>2, <2>1
  <2>4. list[at[k]].latency \in Int /\ list[at[j]].latency \in Int
    BY <2>1
  <2> QED BY <2>2, <2>3, <2>4
<1> QED BY <1>6, <1>7 DEF Upward, r

\* What filter leaves of a sequence, in its order.
LEMMA FilteredPlaces ==
    ASSUME NEW S, NEW rows \in Seq(S), NEW kept \in SUBSET DOMAIN rows
    PROVE  /\ Picked(rows, kept) \in Seq(S)
           /\ Len(Picked(rows, kept)) = Cardinality(kept) /\ Cardinality(kept) \in Nat
           /\ ToSet(Picked(rows, kept)) = {rows[i] : i \in kept}
<1> DEFINE n == Len(rows)
           c == Cardinality(kept)
           r == Picked(rows, kept)
<1>1. n \in Nat /\ DOMAIN rows = 1..n /\ kept \in SUBSET (1..n)
  OBVIOUS
<1>2. c \in Nat /\ \E b : Picks(b, rows, kept)
  <2> HIDE DEF n
  <2> QED BY <1>1, PickedIs
<1>3. PICK b : Picks(b, rows, kept)
  BY <1>2
<1>4. /\ b \in [1..c -> kept] /\ \A i \in kept : \E k \in 1..c : b[k] = i
      /\ r = [k \in 1..c |-> rows[b[k]]]
  BY <1>3 DEF Picks, InOrder
<1> HIDE DEF c, r
<1>5. \A k \in 1..c : rows[b[k]] \in S
  BY <1>1, <1>4
<1>6. r \in Seq(S) /\ Len(r) = c /\ DOMAIN r = 1..c
  BY <1>2, <1>4, <1>5
<1>7. ToSet(r) = {rows[i] : i \in kept}
  BY <1>4, <1>6 DEF ToSet
<1> QED BY <1>2, <1>6, <1>7 DEF c, r

\* Events have a type and one of three levels.
EventsAre(events) ==
    /\ \E S : events \in Seq(S)
    /\ \A i \in DOMAIN events : events[i].type # Null /\ events[i].level \in {"info", "warning", "error"}

\* The rows of one key, counted.
LEMMA BucketSize ==
    ASSUME NEW S, NEW rows \in Seq(S), NEW keyOf, NEW key
    PROVE  /\ Len(Bucket(rows, keyOf, key)) = Cardinality({i \in DOMAIN rows : keyOf[rows[i]] = key})
           /\ Len(Bucket(rows, keyOf, key)) \in Nat
<1> DEFINE kept == {i \in DOMAIN rows : keyOf[rows[i]] = key}
<1>1. Bucket(rows, keyOf, key) = Picked(rows, kept)
  BY Zenon DEF Bucket, Filtered, Picked
<1>2. kept \in SUBSET DOMAIN rows
  OBVIOUS
<1> HIDE DEF kept
<1>3. Len(Picked(rows, kept)) = Cardinality(kept) /\ Cardinality(kept) \in Nat
  BY <1>2, FilteredPlaces
<1> QED BY <1>1, <1>3 DEF kept

\* The error types of a sample are those of its warnings and errors, counted.
LEMMA ErrorsCount ==
    ASSUME NEW events, EventsAre(events)
    PROVE  ErrorsAreCounted(events)
<1> DEFINE kept == {i \in DOMAIN events : events[i].level \in {"warning", "error"}}
           bad == Picked(events, kept)
           typeOf == [e \in ToSet(bad) |-> e.type]
           types == Keys(bad, typeOf)
           items == [i \in DOMAIN types |->
                        [type |-> types[i], total |-> Len(Bucket(bad, typeOf, types[i]))]]
           r == ByTotal(items)
           n == Len(bad)
           those(type) == {j \in 1..n : bad[j].type = type}
<1>1. countErrorTypes(events) = r
  BY Zenon DEF countErrorTypes, ByTotal, Filtered, Picked
<1>2. PICK S : events \in Seq(S)
  BY DEF EventsAre
<1>3. kept \in SUBSET DOMAIN events
  OBVIOUS
<1>4. kept = {i \in DOMAIN events : events[i].level # "info"}
  BY DEF EventsAre
<1>k. \A i \in kept : events[i].type # Null
  BY DEF EventsAre
<1> HIDE DEF kept
<1>5. /\ bad \in Seq(S) /\ n = Cardinality(kept) /\ n \in Nat
      /\ ToSet(bad) = {events[i] : i \in kept}
  BY <1>2, <1>3, FilteredPlaces
<1> HIDE DEF bad
<1>6. /\ DOMAIN bad = 1..n /\ \A j \in 1..n : bad[j] \in ToSet(bad)
      /\ \A e \in ToSet(bad) : typeOf[e] = e.type /\ e.type # Null
      /\ \A e \in ToSet(bad) : \E j \in 1..n : bad[j] = e
  <2>1. DOMAIN bad = 1..n
    BY <1>5
  <2>2. \A e \in ToSet(bad) : e.type # Null
    BY <1>k, <1>5
  <2> HIDE DEF n
  <2> QED BY <2>1, <2>2 DEF ToSet
<1>7. {typeOf[e] : e \in ToSet(bad)} \ {Null} = {e.type : e \in ToSet(bad)}
  <2> HIDE DEF typeOf
  <2> QED BY <1>6
<1> HIDE DEF typeOf
<1>8. /\ \E m \in Nat : DOMAIN types = 1..m
      /\ \A i, j \in DOMAIN types : types[i] = types[j] => i = j
      /\ {types[i] : i \in DOMAIN types} = {e.type : e \in ToSet(bad)}
  <2>1. /\ \E m \in Nat : DOMAIN types = 1..m
        /\ \A i, j \in DOMAIN types : types[i] = types[j] => i = j
        /\ {types[i] : i \in DOMAIN types} = {typeOf[e] : e \in ToSet(bad)} \ {Null}
    BY <1>5, KeysAre
  <2> QED BY <1>7, <2>1
<1>9. PICK m \in Nat : DOMAIN types = 1..m
  BY <1>8
<1> HIDE DEF types
<1>10. ASSUME NEW i \in 1..m
       PROVE  /\ items[i].type = types[i] /\ items[i].total \in Nat
              /\ items[i].total = Cardinality(those(types[i]))
  <2>1. items[i] = [type |-> types[i], total |-> Len(Bucket(bad, typeOf, types[i]))]
    BY <1>9
  <2>2. /\ Len(Bucket(bad, typeOf, types[i])) = Cardinality({j \in DOMAIN bad : typeOf[bad[j]] = types[i]})
        /\ Len(Bucket(bad, typeOf, types[i])) \in Nat
    BY <1>5, BucketSize
  <2>3. {j \in DOMAIN bad : typeOf[bad[j]] = types[i]} = those(types[i])
    BY <1>6
  <2>4. PICK l : l = Len(Bucket(bad, typeOf, types[i]))
    OBVIOUS
  <2>5. items[i] = [type |-> types[i], total |-> l]
    BY <2>1, <2>4
  <2>6. l \in Nat /\ l = Cardinality(those(types[i]))
    BY <2>2, <2>3, <2>4
  <2> HIDE DEF items, those
  <2> QED BY <2>5, <2>6
<1>11. DOMAIN items = 1..m
  BY <1>9
<1> HIDE DEF items, n, those
<1>12. Downward(r, items, m)
  <2>1. \A i \in 1..m : items[i].total \in Int
    BY <1>10
  <2> QED BY <1>11, <2>1, ByTotalIs
<1> HIDE DEF r
<1>13. PICK at : /\ Reorders(at, r, items, m)
                 /\ \A k, j \in 1..m : k <= j => items[at[k]].total >= items[at[j]].total
  BY <1>12 DEF Downward
<1>14. DOMAIN r = 1..m /\ \A k \in 1..m : at[k] \in 1..m /\ r[k] = items[at[k]]
  BY <1>13 DEF Reorders
<1> DEFINE part == [k \in 1..m |-> those(r[k].type)]
           sizes == [k \in DOMAIN r |-> r[k].total]
<1>15. \A k \in 1..m : r[k].total \in Nat /\ r[k].total = Cardinality(those(r[k].type))
                       /\ r[k].type = types[at[k]]
  BY <1>10, <1>14
<1>16. IsFiniteSet(1..n) /\ Cardinality(1..n) = n
  BY <1>5, FS_Interval
<1>17. sizes \in [1..m -> Int] /\ \A k \in 1..m : sizes[k] = r[k].total
  BY <1>14, <1>15
<1>18. \A k \in 1..m : IsFiniteSet(part[k]) /\ sizes[k] = Cardinality(part[k])
  <2> TAKE k \in 1..m
  <2>1. part[k] = those(r[k].type) /\ part[k] \in SUBSET (1..n)
    BY DEF those
  <2> HIDE DEF part
  <2>2. IsFiniteSet(part[k])
    BY <1>16, <2>1, FS_Subset
  <2> QED BY <1>15, <1>17, <2>1, <2>2
<1>19. \A k, j \in 1..m : k # j => part[k] \cap part[j] = {}
  <2> SUFFICES ASSUME NEW k \in 1..m, NEW j \in 1..m, k # j PROVE r[k].type # r[j].type
    BY DEF those
  <2>1. at[k] # at[j]
    BY <1>13 DEF Reorders
  <2> QED BY <1>8, <1>9, <1>14, <1>15, <2>1
<1>20. Parts(part, m) = 1..n
  <2>1. Parts(part, m) \subseteq 1..n
    BY DEF Parts, those
  <2>2. ASSUME NEW j \in 1..n PROVE j \in Parts(part, m)
    <3>1. PICK i \in 1..m : types[i] = bad[j].type
      BY <1>6, <1>8, <1>9
    <3>2. PICK k \in 1..m : at[k] = i
      BY <1>13 DEF Reorders
    <3>3. j \in part[k]
      BY <1>15, <3>1, <3>2 DEF those
    <3> QED BY <3>3 DEF Parts
  <2> QED BY <2>1, <2>2
<1>21. Total(r, LAMBDA t : t.total) = Sum(sizes)
  BY Zenon DEF Total
<1> HIDE DEF sizes, part
<1>22. Sum(sizes) = Cardinality(Parts(part, m))
  BY <1>17, <1>18, <1>19, SumOfParts
<1>23. Total(r, LAMBDA t : t.total) = Cardinality(kept)
  BY <1>5, <1>16, <1>20, <1>21, <1>22
<1>24. ASSUME NEW i \in DOMAIN r
       PROVE  /\ \E j \in kept : events[j].type = r[i].type
              /\ \A j \in DOMAIN r : i < j => r[i].total >= r[j].total /\ r[i].type # r[j].type
  <2>1. i \in 1..m /\ r[i].type \in {types[k] : k \in DOMAIN types}
    BY <1>9, <1>14, <1>15
  <2>2. \E j \in kept : events[j].type = r[i].type
    BY <1>5, <1>8, <2>1
  <2>3. ASSUME NEW j \in DOMAIN r, i < j PROVE r[i].total >= r[j].total /\ r[i].type # r[j].type
    <3>1. i \in 1..m /\ j \in 1..m /\ i <= j /\ i # j
      BY <1>14, <2>3
    <3>2. at[i] # at[j]
      BY <1>13, <3>1 DEF Reorders
    <3> QED BY <1>8, <1>9, <1>13, <1>14, <1>15, <3>1, <3>2
  <2> QED BY <2>2, <2>3
<1> QED BY <1>1, <1>4, <1>23, <1>24, Zenon DEF ErrorsAreCounted

-----------------------------------------------------------------------------
\* The latencies there are among some rows, and a mean that lies between them.
Latencies(own) == {Latency(p) : p \in own} \ {Null}
MeanFits(mean, own) ==
    /\ mean = Null <=> Latencies(own) = {}
    /\ Latencies(own) # {} => /\ mean \in Int
                              /\ mean <= Max(Latencies(own)) /\ mean >= Min(Latencies(own))

LEMMA LatencyIs ==
    ASSUME NEW rows \in Seq(Proxy)
    PROVE  MeanFits(averageLatency(rows), ToSet(rows))
<1> DEFINE kept == {i \in DOMAIN rows : Latency(rows[i]) # Null}
           known == Picked(rows, kept)
           list == [i \in DOMAIN known |-> Latency(known[i])]
           n == Len(known)
           all == Latencies(ToSet(rows))
           mean == averageLatency(rows)
<1>1. mean = IF known = <<>> THEN Null ELSE (2 * Sum(list) + n) \div (2 * n)
  <2>1. Filtered(rows, LAMBDA p : Latency(p) # Null) = known
    BY Zenon DEF Filtered, Picked
  <2>2. Total(known, Latency) = Sum(list)
    BY Zenon DEF Total
  <2>3. mean = IF Filtered(rows, LAMBDA p : Latency(p) # Null) = <<>> THEN Null
               ELSE (2 * Total(Filtered(rows, LAMBDA p : Latency(p) # Null), Latency)
                        + Len(Filtered(rows, LAMBDA p : Latency(p) # Null)))
                    \div (2 * Len(Filtered(rows, LAMBDA p : Latency(p) # Null)))
    BY Zenon DEF averageLatency
  <2> HIDE DEF known, list, mean
  <2> QED BY <2>1, <2>2, <2>3
<1>2. kept \in SUBSET DOMAIN rows
  OBVIOUS
<1>3. /\ known \in Seq(Proxy) /\ n \in Nat
      /\ ToSet(known) = {rows[i] : i \in kept}
  <2> HIDE DEF kept
  <2>1. known \in Seq(Proxy) /\ ToSet(known) = {rows[i] : i \in kept}
    BY <1>2, FilteredPlaces
  <2> HIDE DEF known
  <2> QED BY <2>1
<1>4. ToSet(known) = {p \in ToSet(rows) : Latency(p) # Null}
  <2> HIDE DEF known
  <2> QED BY <1>3 DEF ToSet
<1> HIDE DEF kept, known
<1>5. DOMAIN known = 1..n /\ \A i \in 1..n : known[i] \in ToSet(known) /\ known[i] \in Proxy
  BY <1>3 DEF ToSet
<1>6. \A i \in 1..n : list[i] = Latency(known[i]) /\ list[i] \in Int
  <2>1. \A p \in Proxy : Latency(p) \in Int \cup {Null}
    BY RowsAssumption DEF Latency
  <2> QED BY <1>4, <1>5, <2>1
<1>7. list \in [1..n -> Int] /\ list \in Seq(Int) /\ DOMAIN list = 1..n
  <2>1. list \in [1..n -> Int] /\ DOMAIN list = 1..n
    BY <1>5, <1>6
  <2> HIDE DEF list, n
  <2> QED BY <1>3, <2>1
<1>8. ToSet(list) = all
  <2>1. ToSet(list) = {Latency(p) : p \in ToSet(known)}
    <3>1. \A p \in ToSet(known) : \E i \in 1..n : known[i] = p
      BY <1>5 DEF ToSet
    <3> HIDE DEF list
    <3> QED BY <1>5, <1>6, <1>7, <3>1 DEF ToSet
  <2> QED BY <1>4, <2>1 DEF Latencies
<1> HIDE DEF list, n, all
<1>9. IsFiniteSet(all) /\ all \subseteq Int
  BY <1>7, <1>8, WholeOf
<1>10. CASE known = <<>>
  <2>1. n = 0
    BY <1>10 DEF n
  <2>2. all = {}
    BY <1>7, <1>8, <2>1 DEF ToSet
  <2> QED BY <1>1, <1>10, <2>2 DEF MeanFits, all
<1>11. CASE known # <<>>
  <2>1. n >= 1
    BY <1>3, <1>11 DEF n
  <2>2. all # {} /\ \A i \in 1..n : list[i] \in all
    <3>1. \A i \in 1..n : list[i] \in all
      BY <1>7, <1>8 DEF ToSet
    <3>2. 1 \in 1..n
      BY <1>3, <2>1
    <3> QED BY <3>1, <3>2
  <2>3. PICK low, high : /\ low = Min(all) /\ high = Max(all) /\ low \in Int /\ high \in Int
                         /\ \A x \in all : low <= x /\ x <= high
    BY <1>9, <2>2, MaxOf
  <2>4. \A i \in 1..n : low <= list[i] /\ list[i] <= high
    BY <2>2, <2>3
  <2>5. Sum(list) \in Int /\ n * low <= Sum(list) /\ Sum(list) <= n * high
    BY <1>3, <1>7, <2>3, <2>4, SumBetween
  <2>6. PICK sum \in Int : sum = Sum(list)
    BY <2>5
  <2>7. LET m == (2 * sum + n) \div (2 * n) IN m \in Int /\ low <= m /\ m <= high
    BY <1>3, <2>1, <2>3, <2>5, <2>6, MeanBetween
  <2>8. mean = (2 * sum + n) \div (2 * n)
    BY <1>1, <1>11, <2>6
  <2>9. mean \in Int /\ low <= mean /\ mean <= high
    BY <2>7, <2>8
  <2>10. mean # Null
    BY <2>9, RowsAssumption
  <2> HIDE DEF mean
  <2> QED BY <2>2, <2>3, <2>9, <2>10 DEF MeanFits, all, mean
<1> QED BY <1>10, <1>11

\* What a summary says of the rows with its key.
Keyed(rows, keyOf, key) == {p \in ToSet(rows) : keyOf[p] = key}
SummaryFits(item, rows, keyOf) ==
    LET own == Keyed(rows, keyOf, item.name)
    IN  /\ item.total = Cardinality(own) /\ item.total \in Nat
        /\ item.elite = Cardinality({p \in own : Status(p) = "elite"})
        /\ MeanFits(item.latency, own)

LEMMA SummaryIs ==
    ASSUME NEW rows \in Seq(Proxy), IsInjective(rows), NEW keyOf, NEW key
    PROVE  Summary(rows, keyOf, key).name = key /\ SummaryFits(Summary(rows, keyOf, key), rows, keyOf)
<1> DEFINE bucket == Bucket(rows, keyOf, key)
           own == Keyed(rows, keyOf, key)
           elite == {i \in DOMAIN bucket : Status(bucket[i]) = "elite"}
           item == Summary(rows, keyOf, key)
<1>1. item = [name |-> key, total |-> Len(bucket), elite |-> Cardinality(elite),
              latency |-> averageLatency(bucket)]
  <2>1. Count(bucket, LAMBDA p : Status(p) = "elite") = Cardinality(elite)
    BY Zenon DEF Count
  <2>2. item = [name |-> key, total |-> Len(bucket),
                elite |-> Count(bucket, LAMBDA p : Status(p) = "elite"),
                latency |-> averageLatency(bucket)]
    BY Zenon DEF Summary
  <2> HIDE DEF item, bucket, elite
  <2> QED BY <2>1, <2>2
<1>2. bucket \in Seq(Proxy) /\ IsInjective(bucket) /\ ToSet(bucket) = own
  <2>1. /\ bucket \in Seq(Proxy)
        /\ ToSet(bucket) = {p \in ToSet(rows) : keyOf[p] = key}
        /\ IsInjective(rows) => IsInjective(bucket)
    BY BucketIs, Zenon
  <2> QED BY <2>1 DEF Keyed
<1> HIDE DEF item, bucket
<1>3. Len(bucket) = Cardinality(own) /\ Len(bucket) \in Nat
  BY <1>2, WholeOf
<1>4. Cardinality(elite) = Cardinality({p \in own : Status(p) = "elite"})
  <2> DEFINE T == {p \in own : Status(p) = "elite"}
  <2>1. T \in SUBSET ToSet(bucket)
    BY <1>2
  <2>2. elite = {i \in DOMAIN bucket : bucket[i] \in T}
    BY <1>2 DEF ToSet
  <2> HIDE DEF T, elite
  <2>3. Cardinality({i \in DOMAIN bucket : bucket[i] \in T}) = Cardinality(T)
    BY <1>2, <2>1, PartOf
  <2> QED BY <2>2, <2>3 DEF T
<1>5. MeanFits(averageLatency(bucket), own)
  BY <1>2, LatencyIs
<1>6. PICK mean, total, good : /\ mean = averageLatency(bucket) /\ total = Len(bucket)
                               /\ good = Cardinality(elite)
  OBVIOUS
<1> HIDE DEF elite, own
<1>7. item = [name |-> key, total |-> total, elite |-> good, latency |-> mean]
  BY <1>1, <1>6
<1>8. item.name = key /\ item.total = total /\ item.elite = good /\ item.latency = mean
  BY <1>7
<1>9. Keyed(rows, keyOf, item.name) = own
  BY <1>8 DEF own
<1>10. SummaryFits(item, rows, keyOf)
  BY <1>3, <1>4, <1>5, <1>6, <1>8, <1>9, Zenon DEF SummaryFits
<1> QED BY <1>8, <1>10 DEF item

\* A list of summaries has every key of its rows once, the one with most rows first.
SummariesFit(list, rows, keyOf) ==
    /\ \E m \in Nat : DOMAIN list = 1..m
    /\ \E S : list \in Seq(S)
    /\ {list[i].name : i \in DOMAIN list} = {keyOf[p] : p \in ToSet(rows)} \ {Null}
    /\ \A i \in DOMAIN list : SummaryFits(list[i], rows, keyOf)
    /\ \A i, j \in DOMAIN list : list[i].name = list[j].name => i = j
    /\ \A i, j \in DOMAIN list : i <= j => list[i].total >= list[j].total

LEMMA SummariesAre ==
    ASSUME NEW rows \in Seq(Proxy), IsInjective(rows), NEW keyOf
    PROVE  SummariesFit(Summaries(rows, keyOf), rows, keyOf)
<1> DEFINE keys == Keys(rows, keyOf)
           items == [i \in DOMAIN keys |-> Summary(rows, keyOf, keys[i])]
           r == ByTotal(items)
           all == {keyOf[p] : p \in ToSet(rows)} \ {Null}
<1>1. Summaries(rows, keyOf) = r
  BY Zenon DEF Summaries, ByTotal
<1>2. /\ \E m \in Nat : DOMAIN keys = 1..m
      /\ \A i, j \in DOMAIN keys : keys[i] = keys[j] => i = j
      /\ {keys[i] : i \in DOMAIN keys} = all
  BY KeysAre
<1>3. PICK m \in Nat : DOMAIN keys = 1..m
  BY <1>2
<1> HIDE DEF keys, all
<1>4. DOMAIN items = 1..m /\ \A i \in 1..m : items[i] = Summary(rows, keyOf, keys[i])
  BY <1>3
<1> HIDE DEF items
<1>5. \A i \in 1..m : items[i].name = keys[i] /\ SummaryFits(items[i], rows, keyOf)
  BY <1>4, SummaryIs
<1>6. \A i \in 1..m : items[i].total \in Int
  <2> TAKE i \in 1..m
  <2>1. items[i].total \in Nat
    BY <1>5, Zenon DEF SummaryFits
  <2> QED BY <2>1
<1>7. Downward(r, items, m)
  BY <1>4, <1>6, ByTotalIs
<1> HIDE DEF r
<1>8. PICK at : /\ Reorders(at, r, items, m)
                /\ \A k, j \in 1..m : k <= j => items[at[k]].total >= items[at[j]].total
  BY <1>7 DEF Downward
<1>9. DOMAIN r = 1..m /\ \A k \in 1..m : at[k] \in 1..m /\ r[k] = items[at[k]]
  BY <1>8 DEF Reorders
<1>10. {r[i].name : i \in DOMAIN r} = all
  <2>1. \A k \in 1..m : r[k].name \in all
    BY <1>2, <1>3, <1>5, <1>9
  <2>2. ASSUME NEW s \in all PROVE \E k \in 1..m : r[k].name = s
    <3>1. PICK i \in 1..m : keys[i] = s
      BY <1>2, <1>3
    <3>2. PICK k \in 1..m : at[k] = i
      BY <1>8 DEF Reorders
    <3> QED BY <1>5, <1>9, <3>1, <3>2
  <2> QED BY <1>9, <2>1, <2>2
<1>11. \A i \in DOMAIN r : SummaryFits(r[i], rows, keyOf)
  BY <1>5, <1>9
<1>12. \A i, j \in DOMAIN r : r[i].name = r[j].name => i = j
  <2> SUFFICES ASSUME NEW i \in 1..m, NEW j \in 1..m, r[i].name = r[j].name PROVE i = j
    BY <1>9
  <2>1. at[i] = at[j]
    BY <1>2, <1>3, <1>5, <1>9
  <2> QED BY <1>8, <2>1 DEF Reorders
<1>13. \A i, j \in DOMAIN r : i <= j => r[i].total >= r[j].total
  BY <1>8, <1>9
<1>14. \E n \in Nat : DOMAIN r = 1..n
  BY <1>3, <1>9
<1>s. \E S : r \in Seq(S)
  <2>1. r \in Seq({items[i] : i \in 1..m})
    BY <1>8 DEF Reorders
  <2> QED BY <2>1
<1>15. SummariesFit(r, rows, keyOf)
  BY <1>s, <1>10, <1>11, <1>12, <1>13, <1>14, Zenon DEF SummariesFit, all
<1> QED BY <1>1, <1>15

\* A list of summaries agrees with the rows it was made of.
AgreesBy(list, rows, keyOf) ==
    /\ \A p \in ToSet(rows) : keyOf[p] # Null =>
            Cardinality({i \in DOMAIN list : list[i].name = keyOf[p]}) = 1
    /\ \A i \in DOMAIN list :
        LET own == {p \in ToSet(rows) : keyOf[p] = list[i].name}
            latencies == {Latency(p) : p \in own} \ {Null}
        IN  /\ list[i].total = Cardinality(own) /\ own # {}
            /\ list[i].elite = Cardinality({p \in own : Status(p) = "elite"})
            /\ list[i].latency = Null <=> latencies = {}
            /\ latencies # {} => /\ list[i].latency <= Max(latencies)
                                 /\ list[i].latency >= Min(latencies)
            /\ i > 1 => list[i].total <= list[i - 1].total

LEMMA SummariesAgree ==
    ASSUME NEW rows, NEW keyOf, NEW list, SummariesFit(list, rows, keyOf)
    PROVE  AgreesBy(list, rows, keyOf)
<1>1. /\ {list[i].name : i \in DOMAIN list} = {keyOf[p] : p \in ToSet(rows)} \ {Null}
      /\ \A i \in DOMAIN list : SummaryFits(list[i], rows, keyOf)
      /\ \A i, j \in DOMAIN list : list[i].name = list[j].name => i = j
      /\ \A i, j \in DOMAIN list : i <= j => list[i].total >= list[j].total
  BY DEF SummariesFit
<1>2. PICK m \in Nat : DOMAIN list = 1..m
  BY DEF SummariesFit
<1>3. ASSUME NEW p \in ToSet(rows), keyOf[p] # Null
      PROVE  Cardinality({i \in DOMAIN list : list[i].name = keyOf[p]}) = 1
  <2>1. keyOf[p] \in {list[i].name : i \in DOMAIN list}
    BY <1>1, <1>3
  <2>2. PICK i \in DOMAIN list : list[i].name = keyOf[p]
    BY <2>1
  <2>3. {j \in DOMAIN list : list[j].name = keyOf[p]} = {i}
    BY <1>1, <2>2
  <2> QED BY <2>3, FS_Singleton
<1>4. ASSUME NEW i \in DOMAIN list
      PROVE  LET own == {p \in ToSet(rows) : keyOf[p] = list[i].name}
                 latencies == {Latency(p) : p \in own} \ {Null}
             IN  /\ list[i].total = Cardinality(own) /\ own # {}
                 /\ list[i].elite = Cardinality({p \in own : Status(p) = "elite"})
                 /\ list[i].latency = Null <=> latencies = {}
                 /\ latencies # {} => /\ list[i].latency <= Max(latencies)
                                      /\ list[i].latency >= Min(latencies)
                 /\ i > 1 => list[i].total <= list[i - 1].total
  <2> DEFINE own == Keyed(rows, keyOf, list[i].name)
  <2>1. SummaryFits(list[i], rows, keyOf)
    BY <1>1
  <2>2. /\ list[i].total = Cardinality(own)
        /\ list[i].elite = Cardinality({p \in own : Status(p) = "elite"})
        /\ MeanFits(list[i].latency, own)
    BY <2>1, Zenon DEF SummaryFits
  <2>3. own # {}
    <3>1. list[i].name \in {list[j].name : j \in DOMAIN list}
      OBVIOUS
    <3>2. list[i].name \in {keyOf[p] : p \in ToSet(rows)}
      BY <1>1, <3>1
    <3>3. PICK p \in ToSet(rows) : keyOf[p] = list[i].name
      BY <3>2
    <3> QED BY <3>3 DEF Keyed
  <2>4. i > 1 => list[i].total <= list[i - 1].total
    <3> SUFFICES ASSUME i > 1 PROVE list[i].total <= list[i - 1].total
      OBVIOUS
    <3>1. i - 1 \in DOMAIN list /\ i - 1 <= i
      BY <1>2
    <3>2. list[i - 1].total >= list[i].total
      BY <1>1, <3>1
    <3>3. list[i].total \in Nat /\ list[i - 1].total \in Nat
      BY <1>1, <3>1, Zenon DEF SummaryFits
    <3> QED BY <3>2, <3>3
  <2> QED BY <2>2, <2>3, <2>4, Zenon DEF Keyed, MeanFits, Latencies
<1> QED BY <1>3, <1>4, Zenon DEF AgreesBy

\* The totals of a list of summaries are the rows that have a key.
LEMMA TotalsAre ==
    ASSUME NEW rows \in Seq(Proxy), IsInjective(rows), NEW keyOf, NEW list,
           SummariesFit(list, rows, keyOf)
    PROVE  Totals(list) = Cardinality({p \in ToSet(rows) : keyOf[p] # Null})
<1>1. PICK n \in Nat : DOMAIN list = 1..n
  BY DEF SummariesFit
<1> DEFINE sizes == [i \in DOMAIN list |-> list[i].total]
           part == [i \in 1..n |-> Keyed(rows, keyOf, list[i].name)]
           tagged == {p \in ToSet(rows) : keyOf[p] # Null}
<1>2. Totals(list) = Sum(sizes)
  BY Zenon DEF Total, Totals
<1>f. /\ {list[i].name : i \in DOMAIN list} = {keyOf[p] : p \in ToSet(rows)} \ {Null}
      /\ \A i, j \in DOMAIN list : list[i].name = list[j].name => i = j
  BY DEF SummariesFit
<1>3. \A i \in 1..n : list[i].total \in Nat
                      /\ list[i].total = Cardinality(Keyed(rows, keyOf, list[i].name))
  <2> TAKE i \in 1..n
  <2>1. SummaryFits(list[i], rows, keyOf)
    BY <1>1 DEF SummariesFit
  <2> QED BY <2>1, Zenon DEF SummaryFits
<1>4. sizes \in [1..n -> Int]
  BY <1>1, <1>3
<1>5. IsFiniteSet(ToSet(rows))
  BY WholeOf
<1>6. \A i \in 1..n : IsFiniteSet(part[i]) /\ sizes[i] = Cardinality(part[i])
  <2> TAKE i \in 1..n
  <2>1. part[i] = Keyed(rows, keyOf, list[i].name) /\ sizes[i] = list[i].total
    BY <1>1
  <2>2. Keyed(rows, keyOf, list[i].name) \subseteq ToSet(rows)
    BY DEF Keyed
  <2>3. IsFiniteSet(Keyed(rows, keyOf, list[i].name))
    BY <1>5, <2>2, FS_Subset
  <2> QED BY <1>3, <2>1, <2>3
<1>7. \A i, j \in 1..n : i # j => part[i] \cap part[j] = {}
  BY <1>1, <1>f DEF Keyed
<1>8. Parts(part, n) = tagged
  <2>1. ASSUME NEW p \in Parts(part, n) PROVE p \in tagged
    <3>1. PICK i \in 1..n : p \in part[i]
      BY DEF Parts
    <3>2. p \in ToSet(rows) /\ keyOf[p] = list[i].name
      BY <3>1 DEF Keyed
    <3>3. list[i].name # Null
      BY <1>1, <1>f
    <3> QED BY <3>2, <3>3
  <2>2. ASSUME NEW p \in tagged PROVE p \in Parts(part, n)
    <3>1. keyOf[p] \in {list[i].name : i \in DOMAIN list}
      BY <1>f
    <3>2. PICK i \in 1..n : list[i].name = keyOf[p]
      BY <1>1, <3>1
    <3>3. p \in part[i]
      BY <3>2 DEF Keyed
    <3> QED BY <3>3 DEF Parts
  <2> QED BY <2>1, <2>2
<1> HIDE DEF sizes, part, tagged
<1>9. Sum(sizes) = Cardinality(Parts(part, n))
  BY <1>4, <1>6, <1>7, SumOfParts
<1> QED BY <1>2, <1>8, <1>9 DEF tagged

\* A geo summary of some rows.
GeoFits(geo, rows) ==
    /\ SummariesFit(geo.countries, rows, CountryOf) /\ SummariesFit(geo.asns, rows, AsnOf)
    /\ geo.coverage.total = geo.coverage.tagged + geo.coverage.unresolved
    /\ Totals(geo.countries) <= geo.coverage.tagged

LEMMA GeoIs ==
    ASSUME NEW rows \in Seq(Proxy), IsInjective(rows)
    PROVE  \A covered : GeoFits(normalizeGeoSummary(deriveGeoSummary(rows), covered), rows)
<1> DEFINE geo == deriveGeoSummary(rows)
           some == {i \in DOMAIN rows : Country(rows[i]) # Null \/ Asn(rows[i]) # Null}
           tagged == Cardinality(some)
           n == Len(rows)
<1>1. geo = [coverage |-> [total |-> n, tagged |-> tagged,
                           unresolved |-> Larger(n - tagged, 0), enabled |-> tagged > 0],
             countries |-> Summaries(rows, CountryOf), asns |-> Summaries(rows, AsnOf)]
  <2>1. Count(rows, LAMBDA p : Country(p) # Null \/ Asn(p) # Null) = tagged
    BY Zenon DEF Count
  <2>2. geo = [coverage |-> [total |-> n,
                             tagged |-> Count(rows, LAMBDA p : Country(p) # Null \/ Asn(p) # Null),
                             unresolved |-> Larger(n - Count(rows, LAMBDA p : Country(p) # Null \/ Asn(p) # Null), 0),
                             enabled |-> Count(rows, LAMBDA p : Country(p) # Null \/ Asn(p) # Null) > 0],
               countries |-> Summaries(rows, CountryOf), asns |-> Summaries(rows, AsnOf)]
    BY Zenon DEF deriveGeoSummary
  <2> HIDE DEF geo, tagged
  <2> QED BY <2>1, <2>2
<1> DEFINE T == {p \in ToSet(rows) : Country(p) # Null \/ Asn(p) # Null}
           C == {p \in ToSet(rows) : CountryOf[p] # Null}
           A == {p \in ToSet(rows) : AsnOf[p] # Null}
<1>2. \A p \in ToSet(rows) : p \in Proxy /\ CountryOf[p] = Country(p) /\ AsnOf[p] = Asn(p)
  BY DEF ToSet, CountryOf, AsnOf
<1>3. some = {i \in DOMAIN rows : rows[i] \in T} /\ T \in SUBSET ToSet(rows)
  BY DEF ToSet
<1>4. C \subseteq T
  BY <1>2
<1>5. some \in SUBSET (1..n) /\ n \in Nat
  OBVIOUS
<1> HIDE DEF geo, some, T, C, A
<1>6. IsFiniteSet(T) /\ tagged = Cardinality(T) /\ tagged \in Nat
  BY <1>3, PartOf
<1>7. tagged <= n
  <2> HIDE DEF n
  <2>1. IsFiniteSet(1..n) /\ Cardinality(1..n) = n
    BY <1>5, FS_Interval
  <2>2. Cardinality(some) <= Cardinality(1..n)
    BY <1>5, <2>1, FS_Subset
  <2> QED BY <2>1, <2>2
<1>8. Cardinality(C) \in Nat /\ Cardinality(C) <= tagged
  BY <1>4, <1>6, FS_Subset, FS_CardinalityType
<1>9. IsFiniteSet(A) /\ Cardinality(A) \in Nat
  <2>1. IsFiniteSet(ToSet(rows)) /\ A \subseteq ToSet(rows)
    BY WholeOf DEF A
  <2> QED BY <2>1, FS_Subset, FS_CardinalityType
<1>10. PICK cs, zs : cs = Summaries(rows, CountryOf) /\ zs = Summaries(rows, AsnOf)
  OBVIOUS
<1>11. /\ SummariesFit(cs, rows, CountryOf) /\ SummariesFit(zs, rows, AsnOf)
       /\ Totals(cs) = Cardinality(C) /\ Totals(zs) = Cardinality(A)
  BY <1>10, SummariesAre, TotalsAre DEF C, A
<1>12. PICK rest : rest = Larger(n - tagged, 0)
  OBVIOUS
<1>13. rest = n - tagged
  BY <1>5, <1>6, <1>7, <1>12 DEF Larger
<1>14. PICK cov : cov = [total |-> n, tagged |-> tagged, unresolved |-> rest, enabled |-> tagged > 0]
  OBVIOUS
<1>15. geo = [coverage |-> cov, countries |-> cs, asns |-> zs]
  BY <1>1, <1>10, <1>12, <1>14
<1>16. geo.countries = cs /\ geo.asns = zs /\ geo.coverage = cov
  BY <1>15
<1> HIDE DEF tagged, n
<1>17. cov.total = n /\ cov.tagged = tagged /\ cov.unresolved = rest
  BY <1>14
<1>18. n = tagged + rest
  BY <1>5, <1>6, <1>13 DEF n
<1>19. GeoFits(geo, rows)
  BY <1>8, <1>11, <1>16, <1>17, <1>18, Zenon DEF GeoFits
<1>20. ASSUME NEW covered PROVE GeoFits(normalizeGeoSummary(geo, covered), rows)
  <2>1. CASE covered
    <3>1. normalizeGeoSummary(geo, covered) = geo
      BY <2>1 DEF normalizeGeoSummary
    <3> QED BY <1>19, <3>1
  <2>2. CASE ~covered
    <3>1. PICK inferred : inferred = Larger(Totals(cs), Totals(zs))
      OBVIOUS
    <3>2. inferred \in Nat /\ Totals(cs) <= inferred
      BY <1>8, <1>9, <1>11, <3>1 DEF Larger
    <3>3. Totals(geo.countries) = Totals(cs) /\ Totals(geo.asns) = Totals(zs)
      BY <1>16
    <3>4. normalizeGeoSummary(geo, covered)
            = [geo EXCEPT !.coverage = [total |-> inferred, tagged |-> inferred,
                                        unresolved |-> 0, enabled |-> inferred > 0]]
      <4>1. normalizeGeoSummary(geo, covered)
              = [geo EXCEPT !.coverage =
                    [total |-> Larger(Totals(geo.countries), Totals(geo.asns)),
                     tagged |-> Larger(Totals(geo.countries), Totals(geo.asns)),
                     unresolved |-> 0,
                     enabled |-> Larger(Totals(geo.countries), Totals(geo.asns)) > 0]]
        BY <2>2, Zenon DEF normalizeGeoSummary, Totals
      <4> QED BY <3>1, <3>3, <4>1
    <3>5. PICK cov2 : cov2 = [total |-> inferred, tagged |-> inferred, unresolved |-> 0,
                              enabled |-> inferred > 0]
      OBVIOUS
    <3>6. PICK g : g = normalizeGeoSummary(geo, covered)
      OBVIOUS
    <3>7. g.countries = cs /\ g.asns = zs /\ g.coverage = cov2
      BY <1>15, <3>4, <3>5, <3>6
    <3>8. cov2.total = cov2.tagged + cov2.unresolved /\ cov2.tagged = inferred
      BY <3>2, <3>5
    <3>9. GeoFits(g, rows)
      BY <1>11, <3>2, <3>7, <3>8, Zenon DEF GeoFits
    <3> QED BY <3>6, <3>9
  <2> QED BY <2>1, <2>2
<1> QED BY <1>20 DEF geo

\* The latency panel of a summary: as many fast groups as slow ones, the fastest of the
\* fast ones first and the slowest of the slow ones.
PanelFits(fast, slow) ==
    /\ Len(fast) = Len(slow)
    /\ \A i \in DOMAIN fast : fast[1].latency <= fast[i].latency
    /\ \A j \in DOMAIN slow : slow[1].latency >= slow[j].latency

\* The first five of a list.
LEMMA FiveOf ==
    ASSUME NEW S, NEW list \in Seq(S), NEW last, last = IF 5 < Len(list) THEN 5 ELSE Len(list)
    PROVE  /\ Len(PageOf(list, 1, 5)) = last /\ DOMAIN PageOf(list, 1, 5) = 1..last
           /\ last \in Nat /\ last <= Len(list)
           /\ \A i \in 1..last : PageOf(list, 1, 5)[i] = list[i]
<1>1. PageOf(list, 1, 5) = SubSeq(list, 1, last)
  BY DEF PageOf
<1>2. Len(list) \in Nat
  OBVIOUS
<1>3. last \in 0..Len(list)
  BY <1>2
<1>4. /\ SubSeq(list, 1, last) \in Seq(S) /\ Len(SubSeq(list, 1, last)) = last
      /\ \A i \in 1..last : SubSeq(list, 1, last)[i] = list[i]
  BY <1>2, <1>3
<1>5. PICK five : five = SubSeq(list, 1, last)
  OBVIOUS
<1>6. five \in Seq(S) /\ Len(five) = last /\ \A i \in 1..last : five[i] = list[i]
  BY <1>4, <1>5
<1>7. DOMAIN five = 1..last
  <2>1. DOMAIN five = 1..Len(five)
    BY ONLY <1>6
  <2> QED BY <1>6, <2>1
<1>8. last \in Nat /\ last <= Len(list)
  BY <1>2, <1>3
<1> QED BY <1>1, <1>5, <1>6, <1>7, <1>8

\* The items of two lists put together.
BothFrom(both, cs, zs, S) ==
    /\ both \in Seq(S)
    /\ \A i \in DOMAIN both : \/ \E j \in DOMAIN cs : both[i] = cs[j]
                              \/ \E j \in DOMAIN zs : both[i] = zs[j]
LEMMA BothOf ==
    ASSUME NEW S, NEW cs \in Seq(S), NEW zs \in Seq(S)
    PROVE  BothFrom(cs \o zs, cs, zs, S)
<1>1. Len(cs) \in Nat /\ Len(zs) \in Nat
  OBVIOUS
<1>2. DOMAIN cs = 1..Len(cs) /\ DOMAIN zs = 1..Len(zs)
  OBVIOUS
<1>3. cs \o zs \in Seq(S) /\ Len(cs \o zs) = Len(cs) + Len(zs)
  OBVIOUS
<1>4. DOMAIN (cs \o zs) = 1..(Len(cs) + Len(zs))
  BY <1>3
<1>5. \A i \in 1..(Len(cs) + Len(zs)) :
            (cs \o zs)[i] = IF i <= Len(cs) THEN cs[i] ELSE zs[i - Len(cs)]
  OBVIOUS
<1>6. ASSUME NEW i \in 1..(Len(cs) + Len(zs))
      PROVE  \/ \E j \in DOMAIN cs : (cs \o zs)[i] = cs[j]
             \/ \E j \in DOMAIN zs : (cs \o zs)[i] = zs[j]
  <2>1. CASE i <= Len(cs)
    <3>1. i \in 1..Len(cs)
      BY <1>1, <2>1
    <3> QED BY <1>2, <1>5, <2>1, <3>1
  <2>2. CASE ~(i <= Len(cs))
    <3>1. i - Len(cs) \in 1..Len(zs)
      BY <1>1, <2>2
    <3> QED BY <1>2, <1>5, <2>2, <3>1
  <2> QED BY <2>1, <2>2
<1> QED BY <1>3, <1>4, <1>6 DEF BothFrom

LEMMA PanelIs ==
    ASSUME NEW geo, NEW rows, GeoFits(geo, rows)
    PROVE  PanelFits(Fastest(geo), Slowest(geo))
<1> DEFINE both == geo.countries \o geo.asns
           kept == {i \in DOMAIN both : both[i].latency # Null}
           known == Picked(both, kept)
           groups == ByLatency(known)
           back == Reverse(groups)
<1>1. buildLatencyGroups(geo) = groups
  BY Zenon DEF buildLatencyGroups, ByLatency, Filtered, Picked
<1>2. PICK cs, zs : cs = geo.countries /\ zs = geo.asns
  OBVIOUS
<1>3. SummariesFit(cs, rows, CountryOf) /\ SummariesFit(zs, rows, AsnOf)
  BY <1>2 DEF GeoFits
<1>4. PICK S1, S2 : cs \in Seq(S1) /\ zs \in Seq(S2)
  BY <1>3 DEF SummariesFit
<1>5. PICK S : S = S1 \cup S2
  OBVIOUS
<1>6. /\ both \in Seq(S)
      /\ \A i \in DOMAIN both : \/ \E j \in DOMAIN cs : both[i] = cs[j]
                                \/ \E j \in DOMAIN zs : both[i] = zs[j]
  <2>1. cs \in Seq(S) /\ zs \in Seq(S) /\ both = cs \o zs
    BY <1>2, <1>4, <1>5
  <2> HIDE DEF both
  <2>2. BothFrom(cs \o zs, cs, zs, S)
    BY <2>1, BothOf
  <2>3. BothFrom(both, cs, zs, S)
    BY <2>1, <2>2
  <2> QED BY <2>3 DEF BothFrom
<1> HIDE DEF both
<1>7. ASSUME NEW i \in DOMAIN both, both[i].latency # Null PROVE both[i].latency \in Int
  <2>1. ASSUME NEW list, NEW keyOf, SummariesFit(list, rows, keyOf), NEW j \in DOMAIN list,
               list[j].latency # Null
        PROVE  list[j].latency \in Int
    <3>1. SummaryFits(list[j], rows, keyOf)
      BY <2>1 DEF SummariesFit
    <3>2. PICK own : MeanFits(list[j].latency, own)
      BY <3>1, Zenon DEF SummaryFits
    <3> QED BY <2>1, <3>2 DEF MeanFits
  <2> QED BY <1>3, <1>6, <1>7, <2>1
<1>8. kept \in SUBSET DOMAIN both
  OBVIOUS
<1>9. \A i \in kept : both[i].latency \in Int
  BY <1>7
<1> HIDE DEF kept
<1>10. known \in Seq(S) /\ ToSet(known) = {both[i] : i \in kept}
  BY <1>6, <1>8, FilteredPlaces
<1> DEFINE n == Len(known)
<1> HIDE DEF known
<1>11. n \in Nat /\ DOMAIN known = 1..n /\ \A i \in 1..n : known[i] \in ToSet(known) /\ known[i] \in S
  BY <1>10 DEF ToSet
<1>12. \A i \in 1..n : known[i].latency \in Int
  BY <1>9, <1>10, <1>11
<1> HIDE DEF n
<1>13. Upward(groups, known, n)
  BY <1>11, <1>12, ByLatencyIs
<1> HIDE DEF groups
<1>14. PICK at : /\ Reorders(at, groups, known, n)
                 /\ \A k, j \in 1..n : k <= j => known[at[k]].latency <= known[at[j]].latency
  BY <1>13 DEF Upward
<1>15. /\ groups = [k \in 1..n |-> known[at[k]]]
       /\ \A k \in 1..n : at[k] \in 1..n
  BY <1>14 DEF Reorders
<1>16. groups \in Seq(S) /\ Len(groups) = n
  BY <1>11, <1>15
<1>17. \A k, j \in 1..n : k <= j => groups[k].latency <= groups[j].latency
  BY <1>14, <1>15
<1>18. /\ back \in Seq(S) /\ Len(back) = n
       /\ \A k \in 1..n : back[k] = groups[(n - k) + 1]
  <2>1. back = [k \in 1..n |-> groups[(n - k) + 1]]
    BY <1>16 DEF Reverse
  <2>2. \A k \in 1..n : (n - k) + 1 \in 1..n
    BY <1>11
  <2>3. \A k \in 1..n : groups[(n - k) + 1] \in S
    BY <1>16, <2>2
  <2> HIDE DEF back
  <2> QED BY <1>11, <2>1, <2>3
<1> HIDE DEF back
<1>19. PICK fast, slow : fast = PageOf(groups, 1, 5) /\ slow = PageOf(back, 1, 5)
  OBVIOUS
<1>20. PICK last : last = IF 5 < n THEN 5 ELSE n
  OBVIOUS
<1>21. /\ Len(fast) = last /\ DOMAIN fast = 1..last /\ last \in Nat /\ last <= n
       /\ \A i \in 1..last : fast[i] = groups[i]
  BY <1>16, <1>19, <1>20, FiveOf
<1>22. /\ Len(slow) = last /\ DOMAIN slow = 1..last
       /\ \A i \in 1..last : slow[i] = back[i]
  BY <1>18, <1>19, <1>20, FiveOf
<1>23. ASSUME NEW i \in 1..last PROVE fast[1].latency <= fast[i].latency
  <2>1. 1 \in 1..last /\ 1 \in 1..n /\ i \in 1..n /\ 1 <= i
    BY <1>11, <1>21
  <2> QED BY <1>17, <1>21, <2>1
<1>24. ASSUME NEW i \in 1..last PROVE slow[1].latency >= slow[i].latency
  <2>1. 1 \in 1..last /\ 1 \in 1..n /\ i \in 1..n
    BY <1>11, <1>21
  <2>2. (n - i) + 1 \in 1..n /\ (n - 1) + 1 \in 1..n /\ (n - i) + 1 <= (n - 1) + 1
    BY <1>11, <2>1
  <2>3. groups[(n - i) + 1].latency <= groups[(n - 1) + 1].latency
    BY <1>17, <2>2
  <2>4. slow[1] = groups[(n - 1) + 1] /\ slow[i] = groups[(n - i) + 1]
    BY <1>18, <1>22, <2>1
  <2>5. \A k \in 1..n : groups[k].latency \in Int
    BY <1>12, <1>15
  <2> QED BY <2>2, <2>3, <2>4, <2>5
<1>25. PanelFits(fast, slow)
  BY <1>21, <1>22, <1>23, <1>24 DEF PanelFits
<1> QED BY <1>1, <1>19, <1>25, Zenon DEF Fastest, Slowest, back

-----------------------------------------------------------------------------
\* What a step uses of the bounds, and what it leaves in the cache.
Spends ==
    \/ spent' = spent
    \/ spent.acts < MaxActs /\ spent' = [spent EXCEPT !.acts = @ + 1]
    \/ spent.world < MaxWorld /\ spent' = [spent EXCEPT !.world = @ + 1]
Caches ==
    \/ cache' = cache \/ cache' = {}
    \/ \E s \in Slot : \E r \in Results(s) : cache' = CacheAfter(calls[s].req, r)

LEMMA SpendsCaches == ASSUME [Next]_vars PROVE Spends /\ Caches
<1> DEFINE Both == Spends /\ Caches
<1> USE SlotsAre
<1>s. /\ Act => Spends
      /\ spent' = spent => Spends
      /\ \A changed : World(changed) => Spends /\ Caches
  BY DEF Act, World, Spends, Caches
<1>c. /\ UNCHANGED apiVars => Caches
      /\ \A s, req : Call(s, req) => Caches
      /\ \A v : Reload(v) => Caches
  BY DEF apiVars, Call, Reload, Caches
<1>t. ASSUME NEW s \in Slot, NEW r, NEW news, Settle(s, r, news) PROVE Caches
  BY <1>t DEF Settle, Caches
<1> HIDE DEF Both
<1>b. Spends /\ Caches => Both
  BY DEF Both
<1> SUFFICES Both
  BY DEF Both
<1>1. CASE UNCHANGED vars
  BY <1>1, <1>b DEF vars, Spends, Caches
<1>2. CASE Wire
  <2>1. spent' = spent /\ cache' = cache
    BY <1>2, Zenon DEF Wire, Serve, ServeStray, HeadersArrive, FallBack
  <2> QED BY <1>b, <2>1 DEF Spends, Caches
<1>3. CASE AppNext
  <2>1. CASE SessionChecked
    BY <2>1, <1>b, <1>s, <1>t DEF SessionChecked
  <2>2. ASSUME NEW right, SubmitLogin(right) PROVE Both
    BY <2>2, <1>b, <1>s, <1>c DEF SubmitLogin
  <2>3. CASE LoginAnswered
    BY <2>3, <1>b, <1>s, <1>t DEF LoginAnswered
  <2>4. ASSUME NEW s, PressLogout(s) PROVE Both
    BY <2>4, <1>b, <1>s, <1>c DEF PressLogout
  <2>5. ASSUME NEW s \in {"logout", "logout2"}, LogoutAnswered(s) PROVE Both
    BY <2>5, <1>b, <1>s, <1>t DEF LogoutAnswered
  <2>6. ASSUME NEW hash, Navigate(hash) PROVE Both
    BY <2>6, <1>b, <1>s DEF Navigate, Caches
  <2>7. CASE LoadAgain
    BY <2>7, <1>b, <1>s DEF LoadAgain, Caches
  <2>8. CASE SessionEnds
    BY <2>8, <1>b DEF SessionEnds, Spends, Caches
  <2> QED BY <1>3, <2>1, <2>2, <2>3, <2>4, <2>5, <2>6, <2>7, <2>8 DEF AppNext
<1>4. CASE Tick
  BY <1>4, <1>b DEF Tick, Spends, Caches
<1>5. CASE OverviewNext
  BY <1>5, <1>b, <1>s, <1>c, <1>t DEF OverviewNext, OverviewLoads, OverviewGuardFires, OverviewPolls
<1>6. CASE GeoNext
  BY <1>6, <1>b, <1>s, <1>c, <1>t DEF GeoNext, GeoLoads, GeoGuardFires, TurnCountries, TurnAsns
<1>7. CASE ListPagesNext
  <2>1. CASE LogMoves
    BY <2>1, <1>b, <1>s DEF LogMoves
  <2>2. CASE LogsLoad \/ ValidationLoad
    BY <2>2, <1>b, <1>s, <1>t DEF LogsLoad, ValidationLoad
  <2>3. CASE ProvidersLoad
    BY <2>3, <1>b, <1>s, <1>t DEF ProvidersLoad
  <2>4. CASE ImportSettles
    BY <2>4, <1>b, <1>s, <1>t DEF ImportSettles
  <2>5. CASE ImportedLoad
    BY <2>5, <1>b, <1>s, <1>t DEF ImportedLoad
  <2>6. ASSUME NEW direct, SubmitImport(direct) PROVE Both
    BY <2>6, <1>b, <1>s, <1>c DEF SubmitImport
  <2>7. ASSUME NEW number, TurnListPage(number) PROVE Both
    BY <2>7, <1>b, <1>s, <1>c DEF TurnListPage
  <2>8. ASSUME NEW number, TurnProviders(number) PROVE Both
    BY <2>8, <1>b, <1>s, <1>c DEF TurnProviders
  <2> QED BY <1>7, <2>1, <2>2, <2>3, <2>4, <2>5, <2>6, <2>7, <2>8 DEF ListPagesNext
<1>8. CASE SettingsNext
  BY <1>8, <1>b, <1>s, <1>c, <1>t
     DEF SettingsNext, SettingsLoad, EditSettings, SaveSettings, SaveSettles, ChooseLanguage
<1>9. CASE ProxiesNext
  <2>1. CASE PoolMoves
    BY <2>1, <1>b, <1>s DEF PoolMoves
  <2>2. CASE OptionsLoad \/ ProxiesLoad \/ LateLoad
    BY <2>2, <1>b, <1>s, <1>t DEF OptionsLoad, ProxiesLoad, LateLoad
  <2>3. CASE DeleteAnswered
    BY <2>3, <1>b, <1>s, <1>t DEF DeleteAnswered
  <2>4. CASE ListReloaded
    <3>1. \E r, news : Settle("write", r, news)
      BY <2>4 DEF ListReloaded
    <3>2. spent' = spent
      BY <2>4 DEF ListReloaded
    <3> QED BY <1>b, <1>s, <1>t, <3>1, <3>2
  <2>5. ASSUME NEW filter, ChangeFilter(filter) PROVE Both
    BY <2>5, <1>b, <1>s, <1>c DEF ChangeFilter
  <2>6. CASE ResetFilters
    BY <2>6, <1>b, <1>s, <1>c DEF ResetFilters
  <2>7. ASSUME NEW number, TurnPage(number) PROVE Both
    BY <2>7, <1>b, <1>s, <1>c DEF TurnPage
  <2>8. ASSUME NEW s \in Details, DetailArrives(s) PROVE Both
    BY <2>8, <1>b, <1>s, <1>t DEF DetailArrives, Details
  <2>9. ASSUME NEW s, NEW p, OpenDrawer(s, p) PROVE Both
    BY <2>9, <1>b, <1>s, <1>c DEF OpenDrawer
  <2>10. ASSUME NEW p, AskDelete(p) PROVE Both
    BY <2>10, <1>b, <1>s, <1>c DEF AskDelete
  <2>11. CASE CloseDrawer \/ CancelDelete \/ ConfirmDelete
    BY <2>11, <1>b, <1>s, <1>c DEF CloseDrawer, CancelDelete, ConfirmDelete
  <2> QED BY <1>9, <2>1, <2>2, <2>3, <2>4, <2>5, <2>6, <2>7, <2>8, <2>9, <2>10, <2>11 DEF ProxiesNext
<1>10. CASE RenderLine
  BY <1>10, <1>b, <1>s, <1>c DEF RenderLine
<1> QED BY <1>1, <1>2, <1>3, <1>4, <1>5, <1>6, <1>7, <1>8, <1>9, <1>10 DEF Next

-----------------------------------------------------------------------------
\* What is asked for and what is answered, as far as the client keeps any of it: pages
\* have numbers, settings are settings, and what is cached are proxies.
Asked(req) ==
    /\ req.op = "list" => req.page \in Nat \ {0}
    /\ req.op = "patch" => req.value \in Setting
Replied(req, r) ==
    r.status = 200 =>
        /\ req.op = "list" => ToSet(r.items) \subseteq Proxy
        /\ req.op \in {"options", "geoUniverse", "providersUniverse"} => ToSet(r.rows) \subseteq Proxy
        /\ req.op = "detail" => r.proxy \in Proxy
        /\ req.op \in {"settings", "patch"} => r.value \in Setting
CallTyped(c) ==
    /\ c.phase \in Phase /\ c.age \in 0..TimeoutTicks
    /\ Asked(c.req) /\ (Answered(c) => Replied(c.req, c.reply))

LEMMA AnswersTyped ==
    ASSUME NEW req, Asked(req), NEW store, "settings" \in DOMAIN store, store.settings \in Setting,
           store.proxies \in Seq(Proxy), NEW at
    PROVE  Replied(req, Answer(req, store, at))
<1>1. PICK a : a = Answer(req, store, at)
  OBVIOUS
<1>2. ToSet(store.proxies) \subseteq Proxy
  BY DEF ToSet
<1>3. CASE req.op = "list"
  <2>1. ToSet(a.items) \subseteq ToSet(store.proxies)
    BY <1>1, <1>3, ListAnswers DEF Asked
  <2> QED BY <1>1, <1>2, <1>3, <2>1 DEF Replied
<1>4. CASE req.op = "options"
  <2>1. PICK u : u = Universe(store, at) /\ a = Ok([rows |-> u])
    BY <1>1, <1>4 DEF Answer, ProxyAnswer
  <2>2. a.rows = u
    BY <2>1 DEF Ok, Over
  <2>3. ToSet(u) \subseteq ToSet(store.proxies)
    BY <2>1, UniverseIs DEF Pictures
  <2> QED BY <1>1, <1>2, <1>4, <2>2, <2>3 DEF Replied
<1>5. CASE req.op \in {"geoUniverse", "providersUniverse"}
  <2>1. a = SummaryAnswer(req, store, at)
    BY <1>1, <1>5 DEF Answer
  <2>2. a.rows = Universe(store, at)
    <3>1. CASE req.op = "geoUniverse"
      BY <2>1, <3>1 DEF SummaryAnswer
    <3>2. CASE req.op = "providersUniverse"
      BY <2>1, <3>2 DEF SummaryAnswer
    <3> QED BY <1>5, <3>1, <3>2
  <2>3. ToSet(a.rows) \subseteq ToSet(store.proxies)
    BY <2>2, UniverseIs DEF Pictures
  <2> QED BY <1>1, <1>2, <1>5, <2>3 DEF Replied
<1>6. CASE req.op = "detail"
  <2>1. \/ a = Ok([proxy |-> req.proxy]) /\ req.proxy \in ToSet(store.proxies)
        \/ a = [status |-> IF at = "srv" THEN 404 ELSE 0]
    BY <1>1, <1>6 DEF Answer, ProxyAnswer
  <2>2. a.status = 200 => a.proxy \in ToSet(store.proxies)
    BY <2>1 DEF Ok, Over
  <2> QED BY <1>1, <1>2, <1>6, <2>2 DEF Replied
<1>7. CASE req.op \in {"settings", "patch"}
  <2>1. a = Ok([value |-> IF req.op = "patch" THEN req.value ELSE store.settings, at |-> at])
    BY <1>1, <1>7 DEF Answer, SettingsAnswer
  <2>2. a.value = IF req.op = "patch" THEN req.value ELSE store.settings
    BY <2>1 DEF Ok, Over
  <2> QED BY <1>1, <1>7, <2>2 DEF Asked, Replied
<1>8. CASE req.op \notin {"list", "options", "geoUniverse", "providersUniverse", "detail", "settings", "patch"}
  BY <1>8 DEF Replied
<1> QED BY <1>3, <1>4, <1>5, <1>6, <1>7, <1>8

LEMMA TicksAre == 0 \in 0..TimeoutTicks /\ TimeoutTicks \in Nat
BY FetchAssumption

LEMMA BeginTyped ==
    ASSUME "settings" \in DOMAIN mock, mock.settings \in Setting, mock.proxies \in Seq(Proxy)
    PROVE  /\ CallTyped(Free)
           /\ \A req, jar : Asked(req) => CallTyped(Fetching(req, jar))
           /\ \A req : Asked(req) => CallTyped(Calling(req))
<1>1. CallTyped(Free)
  BY TicksAre DEF CallTyped, Free, Phase, Asked, Answered
<1>2. ASSUME NEW req, NEW jar, Asked(req) PROVE CallTyped(Fetching(req, jar))
  BY <1>2, TicksAre DEF CallTyped, Fetching, Phase, Answered
<1>3. ASSUME NEW req, Asked(req) PROVE CallTyped(Calling(req))
  <2>1. CASE Live
    BY <1>2, <1>3, <2>1 DEF Calling
  <2>2. CASE ~Live
    <3>1. PICK a : a = Answer(req, mock, "mock") /\ Replied(req, a)
      BY <1>3, AnswersTyped
    <3>2. Calling(req) = Delayed(req, a)
      BY <2>2, <3>1 DEF Calling
    <3>3. CallTyped(Delayed(req, a))
      BY <1>3, <3>1, TicksAre DEF CallTyped, Delayed, Phase
    <3> QED BY <3>2, <3>3
  <2> QED BY <2>1, <2>2
<1> QED BY <1>1, <1>2, <1>3

LEMMA WireTyped ==
    ASSUME NEW c, NEW d, CallTyped(c), WireStep(c, d),
           \A store \in {srv, mock} :
                /\ "settings" \in DOMAIN store /\ store.settings \in Setting
                /\ store.proxies \in Seq(Proxy)
    PROVE  CallTyped(d)
<1>1. CASE c = d
  BY <1>1
<1>2. CASE Served(c, d)
  <2>1. d.phase = "replied" /\ d.req = c.req /\ d.age = c.age
    BY <1>2 DEF Served, Alike
  <2>2. Replied(c.req, d.reply)
    <3>1. CASE c.req.op \in Open
      BY <3>1 DEF Open, Replied
    <3>2. CASE c.req.op \notin Open
      <4>1. Replied(c.req, Answer(c.req, srv, "srv"))
        BY AnswersTyped DEF CallTyped
      <4>2. \/ d.reply = [status |-> 401] \/ d.reply = [status |-> 404]
            \/ d.reply = Answer(c.req, srv, "srv")
        BY <1>2, <3>2 DEF Served
      <4>3. [status |-> 401].status # 200 /\ [status |-> 404].status # 200
        OBVIOUS
      <4> QED BY <4>1, <4>2, <4>3 DEF Replied
    <3> QED BY <3>1, <3>2
  <2> QED BY <2>1, <2>2 DEF CallTyped, Phase
<1>3. CASE ReadOn(c, d)
  BY <1>3 DEF ReadOn, Alike, CallTyped, Answered, Phase
<1>4. CASE FellBack(c, d)
  <2>1. CASE c.req.op \in {"geo", "providers"}
    <3>1. PICK req : /\ req.op \in {"geoUniverse", "providersUniverse"}
                     /\ d = Fetching(req, cookie)
      BY <1>4, <2>1 DEF FellBack
    <3>2. Asked(req)
      BY <3>1 DEF Asked
    <3> QED BY <3>1, <3>2, TicksAre DEF CallTyped, Fetching, Phase, Answered
  <2>2. CASE c.req.op \in {"events", "settings", "patch"}
    <3>1. PICK store : /\ d = Delayed(c.req, Answer(c.req, store, "mock"))
                       /\ store = mock \/ (c.req.op = "patch" /\ store = After(c.req, mock))
      BY <1>4, <2>2 DEF FellBack
    <3>2. PICK a : a = Answer(c.req, store, "mock")
      OBVIOUS
    <3>3. Replied(c.req, a)
      <4>1. CASE store = mock
        BY <3>2, <4>1, AnswersTyped DEF CallTyped
      <4>2. CASE c.req.op = "patch" /\ store = After(c.req, mock)
        <5>1. a = Ok([value |-> c.req.value, at |-> "mock"])
          BY <3>2, <4>2 DEF Answer, SettingsAnswer
        <5>2. a.value = c.req.value
          BY <5>1 DEF Ok, Over
        <5> QED BY <4>2, <5>2 DEF Replied, CallTyped, Asked
      <4> QED BY <3>1, <4>1, <4>2
    <3>4. d = Delayed(c.req, a)
      BY <3>1, <3>2
    <3> QED BY <3>3, <3>4, TicksAre DEF CallTyped, Delayed, Phase
  <2> QED BY <1>4, <2>1, <2>2 DEF FellBack, Fallback
<1> QED BY <1>1, <1>2, <1>3, <1>4 DEF WireStep

LEMMA AgedTyped ==
    ASSUME NEW c, IsCall(c), CallTyped(c), ~Overdue(c)
    PROVE  CallTyped(Aged(c))
<1>1. CASE Armed(c)
  <2>1. c.age + 1 \in 0..TimeoutTicks
    BY <1>1, FetchAssumption DEF Overdue, CallTyped
  <2>2. PICK d : d = [c EXCEPT !.age = c.age + 1]
    OBVIOUS
  <2>3. Aged(c) = d
    BY <1>1, <2>2 DEF Aged
  <2>4. d.age = c.age + 1 /\ d.phase = c.phase /\ d.req = c.req /\ d.reply = c.reply
    BY <2>2 DEF IsCall
  <2> QED BY <2>1, <2>3, <2>4 DEF CallTyped, Answered
<1>2. CASE ~Armed(c)
  BY <1>2 DEF Aged
<1> QED BY <1>1, <1>2

\* What the awaits end with.
LEMMA ResultsTyped ==
    ASSUME NEW s, CallTyped(calls[s]), cache \subseteq Proxy, NEW r \in Results(s)
    PROVE  Replied(calls[s].req, r)
<1>1. PICK c, o : c = calls[s] /\ o \in Outcomes(c) /\ r = FromCache(c, o)
  BY DEF Results
<1>2. o = NoReply \/ (Answered(c) /\ o = c.reply)
  BY <1>1 DEF Outcomes, Answered
<1>3. Replied(c.req, o)
  BY <1>1, <1>2 DEF CallTyped, Replied, NoReply
<1>4. CASE r = o
  BY <1>1, <1>3, <1>4
<1>5. CASE r # o
  <2>1. c.req.op = "detail" /\ c.req.proxy \in cache /\ r = Ok([proxy |-> c.req.proxy])
    BY <1>1, <1>5 DEF FromCache
  <2>2. r.proxy = c.req.proxy
    BY <2>1 DEF Ok, Over
  <2> QED BY <1>1, <2>1, <2>2 DEF Replied
<1> QED BY <1>4, <1>5

LEMMA CacheTyped ==
    ASSUME \A s \in Slot : CallTyped(calls[s]), cache \subseteq Proxy, Caches
    PROVE  cache' \subseteq Proxy
<1>1. ASSUME NEW s \in Slot, NEW r \in Results(s), cache' = CacheAfter(calls[s].req, r)
      PROVE  cache' \subseteq Proxy
  <2>1. PICK req : req = calls[s].req /\ Replied(req, r)
    BY ResultsTyped
  <2>2. \/ cache' = cache
        \/ /\ r.status = 200
           /\ \/ req.op = "list" /\ cache' = cache \cup ToSet(r.items)
              \/ /\ req.op \in {"options", "geoUniverse", "providersUniverse"}
                 /\ cache' = cache \cup ToSet(r.rows)
              \/ req.op = "detail" /\ cache' = cache \cup {r.proxy}
              \/ cache' = cache \ {req.proxy}
    BY <1>1, <2>1 DEF CacheAfter
  <2> QED BY <2>1, <2>2 DEF Replied
<1> QED BY <1>1 DEF Caches
=============================================================================
