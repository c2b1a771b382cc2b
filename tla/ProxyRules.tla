------------------------------ MODULE ProxyRules ------------------------------
(***************************************************************************)
(* The rules that move a proxy between pools: what a usage report, a       *)
(* validation and the end of a cooldown do to one stored row.  They are    *)
(* pure operators: services/proxy_service.py, services/validate_service.py *)
(* and services/cooldown_service.py compute them between two awaits.       *)
(*                                                                         *)
(* A row keeps the part of ProxyEndpoint that decides a pool: the pool     *)
(* itself (the store writes it to the pool column and to "status" in one   *)
(* statement), the failure streak, and whether a cooldown deadline is set. *)
(* The score, which orders lists and gates "elite", is in ProxyHistory.    *)
(***************************************************************************)
EXTENDS Naturals

CONSTANTS
    CooldownThreshold,  \* failures in a row that send a proxy to cooldown: 3 in the code
    DeadThreshold       \* failures in a row that declare it dead: 5 in the code

ASSUME ThresholdAssumption ==
    /\ CooldownThreshold \in Nat \ {0}
    /\ DeadThreshold \in Nat
    /\ CooldownThreshold <= DeadThreshold

Pools == {"raw", "checked", "elite", "dead", "cooldown"}

\* The pools a consumer is ever given a proxy from.
SelectionPools == {"elite", "checked"}

Row == [pool : Pools,
        consecutive_fail_count : 0..DeadThreshold,
        cooldown_until : {"none", "set"}]

\* The value of a key of the proxies table that has no row.
Absent == [pool |-> "none", consecutive_fail_count |-> 0, cooldown_until |-> "none"]

\* A proxy as every source delivers it: no history, in raw.
FreshRow == [pool |-> "raw", consecutive_fail_count |-> 0, cooldown_until |-> "none"]

\* One more failure.  The count saturates at DeadThreshold: the code only
\* compares it with the thresholds.
OneMore(n) == IF n < DeadThreshold THEN n + 1 ELSE n

-----------------------------------------------------------------------------
\* POST /proxy/report

\* A success clears the streak and the deadline and leaves the pool alone.
ReportedOk(row) ==
    [row EXCEPT !.consecutive_fail_count = 0, !.cooldown_until = "none"]

\* Mutant: the cooldown threshold is compared with > instead of >=.
MutReportedFailureLate(row) ==
    LET failures == OneMore(row.consecutive_fail_count)
        counted == [row EXCEPT !.consecutive_fail_count = failures]
        toDead == failures >= DeadThreshold /\ row.pool # "dead"
        toCooldown == failures > CooldownThreshold /\ row.pool # "cooldown"
    IN  CASE toDead -> [counted EXCEPT !.pool = "dead"]
          [] ~toDead /\ toCooldown ->
                [counted EXCEPT !.pool = "cooldown", !.cooldown_until = "set"]
          [] OTHER -> counted

\* A failure: the first rule that applies decides the pool.  Only the second
\* one touches the deadline.
ReportedFailure(row) ==
    LET failures == OneMore(row.consecutive_fail_count)
        counted == [row EXCEPT !.consecutive_fail_count = failures]
        toDead == failures >= DeadThreshold /\ row.pool # "dead"
        toCooldown == failures >= CooldownThreshold /\ row.pool # "cooldown"
    IN  CASE toDead -> [counted EXCEPT !.pool = "dead"]
          [] ~toDead /\ toCooldown ->
                [counted EXCEPT !.pool = "cooldown", !.cooldown_until = "set"]
          [] OTHER -> counted

Reported(row, ok) == IF ok THEN ReportedOk(row) ELSE ReportedFailure(row)

-----------------------------------------------------------------------------
\* Validation

\* How the three validators can end: the protocol check fails, the target is
\* not reached, it is reached, or it is reached and the proxy is anonymous
\* ("elite") with a score of at least min_elite_score.
Outcomes == {"unsupported", "unreachable", "reached", "elite"}

TargetPool(outcome, failures) ==
    CASE outcome = "unsupported" -> "dead"
      [] outcome = "unreachable" ->
            IF failures >= DeadThreshold THEN "dead" ELSE "cooldown"
      [] outcome = "reached" -> "checked"
      [] outcome = "elite" -> "elite"

Validated(row, outcome) ==
    LET failures == IF outcome \in {"unsupported", "unreachable"}
                    THEN OneMore(row.consecutive_fail_count) ELSE 0
        target == TargetPool(outcome, failures)
    IN  [pool |-> target,
         consecutive_fail_count |-> failures,
         cooldown_until |-> IF target = "cooldown" THEN "set" ELSE "none"]

-----------------------------------------------------------------------------
\* The end of a cooldown: back to raw; the failure streak is kept.
Released(row) == [row EXCEPT !.pool = "raw", !.cooldown_until = "none"]

\* Geo enrichment saves its copy under the pool the proxy has now.
SavedUnder(pool, row) == [row EXCEPT !.pool = pool]
=============================================================================
