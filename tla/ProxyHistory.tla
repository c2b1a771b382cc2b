---------------------------- MODULE ProxyHistory ----------------------------
(***************************************************************************)
(* Scores, counters, deadlines and batches: what the pools do to the data  *)
(* of a proxy when operations do not overlap (ProxyPool lets them).        *)
(*                                                                         *)
(* A validation run releases expired cooldowns out of the Batch best-scored*)
(* rows of cooldown, then validates the Batch best-scored rows of raw.     *)
(* Time is the ticks left until a deadline.                                *)
(***************************************************************************)
EXTENDS ProxyRules, Integers, FiniteSets

CONSTANTS
    ProxyId,
    MinElite,              \* min_elite_score: 80 by default
    Batch,                 \* validate_batch_size
    CooldownTicks,         \* cooldown_seconds
    Latencies,             \* latencies a connectivity check measures, in ms
    Floor, ScoreMax,       \* bound: scores stay between -Floor and ScoreMax
    CountCap               \* bound: counters stay there once they reach it

VARIABLES
    record,  \* the stored proxies
    job      \* "idle", or "released" between the two halves of a run

vars == <<record, job>>

InitialScore == 50
ScoreMin == -Floor
NoDeadline == -1

Record == [pool : Pools,
           score : ScoreMin..ScoreMax,
           success_count : 0..CountCap,
           fail_count : 0..CountCap,
           consecutive_fail_count : 0..CountCap,
           cooldown_left : {NoDeadline} \cup 0..CooldownTicks]

\* The value of a proxy that is not stored.
NoRecord == [pool |-> "none", score |-> 0, success_count |-> 0, fail_count |-> 0,
             consecutive_fail_count |-> 0, cooldown_left |-> NoDeadline]

FreshRecord == [NoRecord EXCEPT !.pool = "raw"]

ASSUME HistoryAssumption ==
    /\ Batch \in Nat \ {0}
    /\ CooldownTicks \in Nat
    /\ CountCap \in Nat /\ CountCap > DeadThreshold
    /\ Floor \in Nat
    /\ ScoreMax \in Nat /\ InitialScore <= ScoreMax

InPool(pool) == {p \in ProxyId : record[p].pool = pool}

\* list_proxies(pool, limit=Batch): ORDER BY score DESC, ties in any order.
Listings(pool) ==
    {S \in SUBSET InPool(pool) :
        /\ Cardinality(S) = IF Cardinality(InPool(pool)) < Batch
                            THEN Cardinality(InPool(pool)) ELSE Batch
        /\ \A p \in S, q \in InPool(pool) \ S : record[p].score >= record[q].score}

More(n) == IF n < CountCap THEN n + 1 ELSE n

Within(r) == r.score \in ScoreMin..ScoreMax

-----------------------------------------------------------------------------
\* Usage reports

ReportSuccess(r) ==
    [r EXCEPT !.score = @ + 10,
              !.success_count = More(@),
              !.consecutive_fail_count = 0,
              !.cooldown_left = NoDeadline]

ReportFailure(r) ==
    LET failures == More(r.consecutive_fail_count)
        counted == [r EXCEPT !.score = @ - 20,
                             !.fail_count = More(@),
                             !.consecutive_fail_count = failures]
    IN  IF failures >= DeadThreshold /\ r.pool # "dead"
        THEN [counted EXCEPT !.pool = "dead"]
        ELSE IF failures >= CooldownThreshold /\ r.pool # "cooldown"
        THEN [counted EXCEPT !.pool = "cooldown", !.cooldown_left = CooldownTicks]
        ELSE counted

-----------------------------------------------------------------------------
\* Validation

\* What the three validators answer together.  The anonymity check is made
\* only when the target was reached; "failed" when it gave no answer.
Unsupported == [reach |-> "unsupported", latency_ms |-> 0, anonymity |-> "failed"]
Unreachable == [reach |-> "unreachable", latency_ms |-> 0, anonymity |-> "failed"]
Results ==
    {Unsupported, Unreachable}
        \cup [reach : {"reached"}, latency_ms : Latencies,
              anonymity : {"failed", "transparent", "anonymous", "elite"}]

LatencyDelta(ms) ==
    CASE ms < 500 -> 10
      [] ms >= 500 /\ ms <= 1500 -> 5
      [] ms > 5000 -> -15
      [] OTHER -> 0

AnonymityDelta(level) ==
    CASE level = "elite" -> 30
      [] level = "anonymous" -> 15
      [] level = "transparent" -> -50
      [] OTHER -> 0

ValidationDelta(result) ==
    IF result.reach = "reached"
    THEN 10 + LatencyDelta(result.latency_ms) + AnonymityDelta(result.anonymity)
    ELSE -20

\* A proxy nothing is known of starts at InitialScore.
StartingScore(r) ==
    IF r.score = 0 /\ r.success_count = 0 /\ r.fail_count = 0 THEN InitialScore ELSE r.score

TargetByScore(r, result) ==
    CASE result.reach = "unsupported" -> "dead"
      [] result.reach = "unreachable" ->
            IF r.consecutive_fail_count >= DeadThreshold THEN "dead" ELSE "cooldown"
      [] result.reach = "reached" ->
            IF result.anonymity = "elite" /\ r.score >= MinElite THEN "elite" ELSE "checked"

Scored(r, result) ==
    LET ok == result.reach = "reached"
    IN  [r EXCEPT !.score = StartingScore(r) + ValidationDelta(result),
                  !.success_count = IF ok THEN More(@) ELSE @,
                  !.fail_count = IF ok THEN @ ELSE More(@),
                  !.consecutive_fail_count = IF ok THEN 0 ELSE More(@)]

\* Mutant: the pool is decided by the row as it was before the validation.
MutAfterValidationOld(r, result) ==
    LET target == TargetByScore(r, result)
    IN  [Scored(r, result) EXCEPT !.pool = target,
                         !.cooldown_left = IF target = "cooldown" THEN CooldownTicks ELSE NoDeadline]

AfterValidation(r, result) ==
    LET scored == Scored(r, result)
        target == TargetByScore(scored, result)
    IN  [scored EXCEPT !.pool = target,
                       !.cooldown_left = IF target = "cooldown" THEN CooldownTicks ELSE NoDeadline]

-----------------------------------------------------------------------------
Init ==
    /\ record = [p \in ProxyId |-> NoRecord]
    /\ job = "idle"

\* Mutant: the upsert of a known proxy does not update its pool.
MutFeedKeepsPool(p) ==
    /\ record' = [record EXCEPT ![p] =
                    [FreshRecord EXCEPT !.pool = IF record[p] = NoRecord THEN "raw" ELSE record[p].pool]]
    /\ UNCHANGED job

\* add_proxy("raw", ...): a known proxy is replaced, its history with it.
Feed(p) ==
    /\ record' = [record EXCEPT ![p] = FreshRecord]
    /\ UNCHANGED job

Delete(p) ==
    /\ record[p] # NoRecord
    /\ record' = [record EXCEPT ![p] = NoRecord]
    /\ UNCHANGED job

Report(p, ok) ==
    LET r == IF ok THEN ReportSuccess(record[p]) ELSE ReportFailure(record[p])
    IN  /\ record[p] # NoRecord
        /\ Within(r)
        /\ record' = [record EXCEPT ![p] = r]
        /\ UNCHANGED job

Tick ==
    /\ \E p \in ProxyId : record[p].cooldown_left > 0
    /\ record' = [p \in ProxyId |->
                    IF record[p].cooldown_left > 0
                    THEN [record[p] EXCEPT !.cooldown_left = @ - 1]
                    ELSE record[p]]
    /\ UNCHANGED job

\* Mutant: a row without a deadline never expires.
MutExpiredNeedsDeadline(r) == r.cooldown_left = 0

Expired(r) == r.cooldown_left \in {0, NoDeadline}

\* release_expired(limit=Batch): the limit comes before the filter.
ReleaseExpired ==
    /\ job = "idle"
    /\ \E listed \in Listings("cooldown") :
          record' = [p \in ProxyId |->
                        IF p \in listed /\ Expired(record[p])
                        THEN [record[p] EXCEPT !.pool = "raw", !.cooldown_left = NoDeadline]
                        ELSE record[p]]
    /\ job' = "released"

\* validate_pool("raw", limit=Batch).
ValidatePool ==
    /\ job = "released"
    /\ \E listed \in Listings("raw") : \E result \in [listed -> Results] :
          /\ \A p \in listed : Within(AfterValidation(record[p], result[p]))
          /\ record' = [p \in ProxyId |->
                            IF p \in listed THEN AfterValidation(record[p], result[p])
                            ELSE record[p]]
    /\ job' = "idle"

Next ==
    \/ \E p \in ProxyId : Feed(p) \/ Delete(p)
    \/ \E p \in ProxyId, ok \in BOOLEAN : Report(p, ok)
    \/ Tick
    \/ ReleaseExpired
    \/ ValidatePool

Spec == Init /\ [][Next]_vars

\* Time passes, and the interval trigger starts run after run.
Fairness == WF_vars(Tick) /\ WF_vars(ReleaseExpired) /\ WF_vars(ValidatePool)

FairSpec == Spec /\ Fairness

-----------------------------------------------------------------------------
\* Properties

\* The row of ProxyRules that a record stands for.
RowOf(r) ==
    [pool |-> r.pool,
     consecutive_fail_count |-> IF r.consecutive_fail_count < DeadThreshold
                                THEN r.consecutive_fail_count ELSE DeadThreshold,
     cooldown_until |-> IF r.cooldown_left = NoDeadline THEN "none" ELSE "set"]

Life(p) == INSTANCE PoolLifecycle WITH row <- RowOf(record[p])

\* Scores, latencies, deadlines and batches decide nothing but which of the
\* outcomes of PoolLifecycle happens when: every proxy lives by those rules,
\* so the rows and outcomes ProxyPool interleaves lose no case of the code
\* (apply_validation_score, _target_pool and report_result).
Lifecycle ==
    /\ \A p \in ProxyId : Life(p)!Init
    /\ [][\A p \in ProxyId : Life(p)!Next \/ UNCHANGED RowOf(record[p])]_vars

\* A proxy that can be handed out has reached the target at least once since
\* its source last delivered it; one with no failure and no deadline behind it
\* cannot be in dead or cooldown (feeds, reports and releases only reset).
PoolEarned ==
    \A p \in ProxyId :
        /\ record[p].pool \in SelectionPools => record[p].success_count > 0
        /\ record[p].pool \in {"dead", "cooldown"} => record[p].fail_count > 0

\* When a run can list the whole cooldown pool, no proxy stays there for ever,
\* whatever is reported of it meanwhile (a success clears its deadline).
CooldownEnds ==
    \A p \in ProxyId : record[p].pool = "cooldown" ~> record[p].pool # "cooldown"

\* README.md:145-146: "The scheduler releases expired cooldown proxies back to
\* raw before each validation run": a run that releases fewer proxies than its
\* limit leaves no expired one behind.
ExpiredReleased ==
    [][LET released == {p \in InPool("cooldown") : record'[p].pool = "raw"}
       IN  job = "idle" /\ job' = "released" /\ Cardinality(released) < Batch =>
              \A p \in InPool("cooldown") \ released : ~Expired(record[p])]_vars
=============================================================================
