------------------------- MODULE ProxyHistoryProofs -------------------------
(* Theorems about ProxyHistory for every value of its constants. *)
EXTENDS ProxyHistory, TLAPS

\* What a stored proxy has behind it, by its pool: the success that a
\* validation counts when it reaches the target, the failure that sends a
\* proxy to dead or cooldown.
Earned(r) ==
    /\ r.pool \in SelectionPools => r.success_count > 0
    /\ r.pool \in {"dead", "cooldown"} => r.fail_count > 0

EarnedRecord == {r \in Record : Earned(r)}

\* Every stored proxy is a record the code can build and has earned its pool.
HistoryInv == record \in [ProxyId -> EarnedRecord \cup {NoRecord}]

-----------------------------------------------------------------------------
(* The operations on one record: what each keeps, and which rule of ProxyRules *)
(* it is on the row the record stands for                                      *)

LEMMA Bounds ==
    /\ CountCap \in Nat /\ CountCap > DeadThreshold
    /\ DeadThreshold \in Nat /\ DeadThreshold > 0
    /\ CooldownThreshold \in Nat /\ CooldownThreshold > 0
    /\ CooldownThreshold <= DeadThreshold
    /\ CooldownTicks \in Nat
    /\ NoDeadline = -1
  BY HistoryAssumption, ThresholdAssumption DEF NoDeadline

\* The row with these values.
AsRow(pool, failures, until) ==
    [pool |-> pool, consecutive_fail_count |-> failures, cooldown_until |-> until]

LEMMA ReportedOkRow ==
    ASSUME NEW pool, NEW failures, NEW until
    PROVE  ReportedOk(AsRow(pool, failures, until)) = AsRow(pool, 0, "none")
<1> DEFINE e == [AsRow(pool, failures, until) EXCEPT !.consecutive_fail_count = 0]
<1>1. ReportedOk(AsRow(pool, failures, until)) = [e EXCEPT !.cooldown_until = "none"]
  BY DEF ReportedOk
<1>2. e = AsRow(pool, 0, until)
  BY DEF AsRow
<1>3. [AsRow(pool, 0, until) EXCEPT !.cooldown_until = "none"] = AsRow(pool, 0, "none")
  BY DEF AsRow
<1> HIDE DEF e
<1> QED
  BY <1>1, <1>2, <1>3

LEMMA ReportedFailureRow ==
    ASSUME NEW pool, NEW failures, NEW until
    PROVE  LET n == OneMore(failures)
           IN  ReportedFailure(AsRow(pool, failures, until)) =
                  IF n >= DeadThreshold /\ pool # "dead" THEN AsRow("dead", n, until)
                  ELSE IF n >= CooldownThreshold /\ pool # "cooldown"
                  THEN AsRow("cooldown", n, "set")
                  ELSE AsRow(pool, n, until)
<1> DEFINE row == AsRow(pool, failures, until)
           n == OneMore(failures)
           counted == [row EXCEPT !.consecutive_fail_count = n]
           inCooldown == [counted EXCEPT !.pool = "cooldown"]
           toDead == n >= DeadThreshold /\ pool # "dead"
           toCooldown == n >= CooldownThreshold /\ pool # "cooldown"
<1>1. row.pool = pool /\ row.consecutive_fail_count = failures
  BY DEF AsRow
<1>2. ReportedFailure(row) =
         CASE toDead -> [counted EXCEPT !.pool = "dead"]
           [] ~toDead /\ toCooldown -> [inCooldown EXCEPT !.cooldown_until = "set"]
           [] OTHER -> counted
  BY <1>1, Zenon DEF ReportedFailure
<1>3. counted = AsRow(pool, n, until)
  BY DEF AsRow
<1>4. [AsRow(pool, n, until) EXCEPT !.pool = "dead"] = AsRow("dead", n, until)
  BY DEF AsRow
<1>5. [AsRow(pool, n, until) EXCEPT !.pool = "cooldown"] = AsRow("cooldown", n, until)
  BY DEF AsRow
<1>6. [AsRow("cooldown", n, until) EXCEPT !.cooldown_until = "set"] = AsRow("cooldown", n, "set")
  BY DEF AsRow
<1>7. inCooldown = AsRow("cooldown", n, until)
  BY <1>3, <1>5
<1> HIDE DEF counted, inCooldown, row, toDead, toCooldown
<1>8. ReportedFailure(row) =
         IF toDead THEN AsRow("dead", n, until)
         ELSE IF toCooldown THEN AsRow("cooldown", n, "set")
         ELSE AsRow(pool, n, until)
  BY <1>2, <1>3, <1>4, <1>6, <1>7
<1> QED
  BY <1>8 DEF row, toDead, toCooldown

LEMMA ReleasedRow ==
    ASSUME NEW pool, NEW failures, NEW until
    PROVE  Released(AsRow(pool, failures, until)) = AsRow("raw", failures, "none")
<1> DEFINE e == [AsRow(pool, failures, until) EXCEPT !.pool = "raw"]
<1>1. Released(AsRow(pool, failures, until)) = [e EXCEPT !.cooldown_until = "none"]
  BY DEF Released
<1>2. e = AsRow("raw", failures, until)
  BY DEF AsRow
<1>3. [AsRow("raw", failures, until) EXCEPT !.cooldown_until = "none"] = AsRow("raw", failures, "none")
  BY DEF AsRow
<1> HIDE DEF e
<1> QED
  BY <1>1, <1>2, <1>3

\* The streak of the row a record stands for.
Streak(n) == IF n < DeadThreshold THEN n ELSE DeadThreshold

Until(left) == IF left = NoDeadline THEN "none" ELSE "set"

LEMMA RowOfFields ==
    ASSUME NEW r
    PROVE  RowOf(r) = AsRow(r.pool, Streak(r.consecutive_fail_count), Until(r.cooldown_left))
  BY DEF RowOf, AsRow, Streak, Until

\* A counter never falls back to zero, and it saturates past the streak.
LEMMA MoreCounts ==
    ASSUME NEW n \in 0..CountCap
    PROVE  /\ More(n) \in 0..CountCap
           /\ More(n) > 0
           /\ Streak(More(n)) = OneMore(Streak(n))
           /\ Streak(n) \in 0..DeadThreshold
           /\ Streak(n) >= DeadThreshold <=> n >= DeadThreshold
           /\ Streak(n) >= CooldownThreshold <=> n >= CooldownThreshold
  BY Bounds DEF More, OneMore, Streak

\* A stored record is not the record of an unknown proxy; the row it stands
\* for is a row of the table.
LEMMA RecordShape ==
    /\ NoRecord \notin Record
    /\ RowOf(NoRecord) = Absent
    /\ \A r \in Record : RowOf(r) # Absent /\ RowOf(r).pool = r.pool
<1>1. NoRecord \notin Record
  BY DEF NoRecord, Record, Pools
<1>2. RowOf(NoRecord) = Absent
  BY Bounds DEF RowOf, NoRecord, Absent
<1>3. ASSUME NEW r \in Record
      PROVE  RowOf(r) # Absent /\ RowOf(r).pool = r.pool
  BY DEF RowOf, Record, Absent, Pools
<1> QED
  BY <1>1, <1>2, <1>3

LEMMA FreshKept == FreshRecord \in EarnedRecord /\ RowOf(FreshRecord) = FreshRow
<1>1. FreshRecord = [pool |-> "raw", score |-> 0, success_count |-> 0, fail_count |-> 0,
                     consecutive_fail_count |-> 0, cooldown_left |-> NoDeadline]
  BY DEF FreshRecord, NoRecord
<1>2. 0 \in ScoreMin..ScoreMax
  BY HistoryAssumption DEF ScoreMin
<1>3. FreshRecord \in Record
  BY <1>1, <1>2, Bounds DEF Record, Pools
<1> QED
  BY <1>1, <1>3, Bounds DEF EarnedRecord, Earned, SelectionPools, RowOf, FreshRow

LEMMA SuccessKept ==
    ASSUME NEW r \in EarnedRecord, Within(ReportSuccess(r))
    PROVE  /\ ReportSuccess(r) \in EarnedRecord
           /\ RowOf(ReportSuccess(r)) = ReportedOk(RowOf(r))
<1> DEFINE s == ReportSuccess(r)
<1>1. r \in Record /\ Earned(r)
  BY DEF EarnedRecord
<1>2. /\ s.pool = r.pool
      /\ s.score = r.score + 10
      /\ s.success_count = More(r.success_count)
      /\ s.fail_count = r.fail_count
      /\ s.consecutive_fail_count = 0
      /\ s.cooldown_left = NoDeadline
  BY <1>1 DEF ReportSuccess, Record
<1>3. More(r.success_count) \in 0..CountCap /\ More(r.success_count) > 0
  BY <1>1, MoreCounts DEF Record
<1>4. s \in Record
  <2>1. r.score + 10 \in ScoreMin..ScoreMax /\ 0 \in 0..CountCap
    BY <1>2, Bounds DEF Within
  <2> QED
    BY <1>1, <1>3, <2>1 DEF ReportSuccess, Record
<1>5. Earned(s)
  BY <1>1, <1>2, <1>3 DEF Earned
<1>6. RowOf(s) = ReportedOk(RowOf(r))
  <2>1. RowOf(s) = AsRow(r.pool, 0, "none")
    BY <1>2, RowOfFields, Bounds DEF Streak, Until
  <2> QED
    BY <2>1, RowOfFields, ReportedOkRow
<1> QED
  BY <1>4, <1>5, <1>6 DEF EarnedRecord

LEMMA FailureKept ==
    ASSUME NEW r \in EarnedRecord, Within(ReportFailure(r))
    PROVE  /\ ReportFailure(r) \in EarnedRecord
           /\ RowOf(ReportFailure(r)) = ReportedFailure(RowOf(r))
<1> DEFINE s == ReportFailure(r)
           n == More(r.consecutive_fail_count)
           counted == [r EXCEPT !.score = r.score - 20,
                                !.fail_count = More(r.fail_count),
                                !.consecutive_fail_count = n]
           toDead == n >= DeadThreshold /\ r.pool # "dead"
           toCooldown == n >= CooldownThreshold /\ r.pool # "cooldown"
           pool == IF toDead THEN "dead" ELSE IF toCooldown THEN "cooldown" ELSE r.pool
           left == IF ~toDead /\ toCooldown THEN CooldownTicks ELSE r.cooldown_left
<1>1. r \in Record /\ Earned(r)
  BY DEF EarnedRecord
<1>2. s = IF toDead THEN [counted EXCEPT !.pool = "dead"]
          ELSE IF toCooldown
          THEN [counted EXCEPT !.pool = "cooldown", !.cooldown_left = CooldownTicks]
          ELSE counted
  BY DEF ReportFailure
<1>3. /\ n \in 0..CountCap
      /\ More(r.fail_count) \in 0..CountCap
      /\ More(r.fail_count) > 0
  BY <1>1, MoreCounts DEF Record
<1>4. /\ s.pool = pool
      /\ s.score = r.score - 20
      /\ s.success_count = r.success_count
      /\ s.fail_count = More(r.fail_count)
      /\ s.consecutive_fail_count = n
      /\ s.cooldown_left = left
  BY <1>1, <1>2 DEF Record
<1>5. s \in Record
  <2>1. r.score - 20 \in ScoreMin..ScoreMax
    BY <1>4 DEF Within
  <2>2. counted \in Record
    BY <1>1, <1>3, <2>1 DEF Record
  <2>3. "dead" \in Pools /\ "cooldown" \in Pools /\ CooldownTicks \in {NoDeadline} \cup 0..CooldownTicks
    BY Bounds DEF Pools
  <2> HIDE DEF counted
  <2>4. /\ [counted EXCEPT !.pool = "dead"] \in Record
        /\ [counted EXCEPT !.pool = "cooldown", !.cooldown_left = CooldownTicks] \in Record
    BY <2>2, <2>3 DEF Record
  <2> QED
    BY <1>2, <2>2, <2>4
<1>6. Earned(s)
  BY <1>1, <1>3, <1>4 DEF Earned, SelectionPools
<1>7. RowOf(s) = ReportedFailure(RowOf(r))
  <2> DEFINE m == Streak(r.consecutive_fail_count)
  <2>1. /\ Streak(n) = OneMore(m)
        /\ OneMore(m) >= DeadThreshold <=> n >= DeadThreshold
        /\ OneMore(m) >= CooldownThreshold <=> n >= CooldownThreshold
    BY <1>1, <1>3, MoreCounts DEF Record
  <2>2. RowOf(s) = AsRow(pool, OneMore(m), Until(left))
    BY <1>4, <2>1, RowOfFields
  <2>3. ReportedFailure(RowOf(r)) =
           IF toDead THEN AsRow("dead", OneMore(m), Until(r.cooldown_left))
           ELSE IF toCooldown THEN AsRow("cooldown", OneMore(m), "set")
           ELSE AsRow(r.pool, OneMore(m), Until(r.cooldown_left))
    BY <2>1, RowOfFields, ReportedFailureRow
  <2>4. Until(CooldownTicks) = "set"
    BY Bounds DEF Until
  <2> HIDE DEF s, n, m
  <2> QED
    BY <2>2, <2>3, <2>4
<1> QED
  BY <1>5, <1>6, <1>7 DEF EarnedRecord

LEMMA ReleaseKept ==
    ASSUME NEW r \in EarnedRecord
    PROVE  LET s == [r EXCEPT !.pool = "raw", !.cooldown_left = NoDeadline]
           IN  s \in EarnedRecord /\ RowOf(s) = Released(RowOf(r))
<1> DEFINE s == [r EXCEPT !.pool = "raw", !.cooldown_left = NoDeadline]
<1>1. r \in Record
  BY DEF EarnedRecord
<1>2. /\ s.pool = "raw"
      /\ s.consecutive_fail_count = r.consecutive_fail_count
      /\ s.cooldown_left = NoDeadline
  BY <1>1 DEF Record
<1>3. s \in Record
  BY <1>1 DEF Record, Pools
<1>4. Earned(s)
  BY <1>2 DEF Earned, SelectionPools
<1>5. RowOf(s) = AsRow("raw", Streak(r.consecutive_fail_count), "none")
  BY <1>2, RowOfFields DEF Until
<1> QED
  BY <1>3, <1>4, <1>5, RowOfFields, ReleasedRow DEF EarnedRecord

LEMMA TickKept ==
    ASSUME NEW r \in EarnedRecord, r.cooldown_left > 0
    PROVE  LET s == [r EXCEPT !.cooldown_left = r.cooldown_left - 1]
           IN  s \in EarnedRecord /\ RowOf(s) = RowOf(r)
<1> DEFINE s == [r EXCEPT !.cooldown_left = r.cooldown_left - 1]
<1>1. r \in Record /\ Earned(r)
  BY DEF EarnedRecord
<1>2. r.cooldown_left \in 1..CooldownTicks
  BY <1>1, Bounds DEF Record
<1>3. s \in Record
  BY <1>1, <1>2, Bounds DEF Record
<1>4. /\ s.pool = r.pool /\ s.success_count = r.success_count /\ s.fail_count = r.fail_count
      /\ s.consecutive_fail_count = r.consecutive_fail_count
      /\ s.cooldown_left = r.cooldown_left - 1
  BY <1>1 DEF Record
<1>5. Until(s.cooldown_left) = Until(r.cooldown_left)
  BY <1>2, <1>4, Bounds DEF Until
<1> QED
  BY <1>1, <1>3, <1>4, <1>5, RowOfFields DEF EarnedRecord, Earned

LEMMA ValidationKept ==
    ASSUME NEW r \in EarnedRecord, NEW result \in Results, Within(AfterValidation(r, result))
    PROVE  /\ AfterValidation(r, result) \in EarnedRecord
           /\ \E outcome \in Outcomes :
                 RowOf(AfterValidation(r, result)) = Validated(RowOf(r), outcome)
<1> DEFINE scored == Scored(r, result)
           target == TargetByScore(scored, result)
           s == AfterValidation(r, result)
           ok == result.reach = "reached"
           left == IF target = "cooldown" THEN CooldownTicks ELSE NoDeadline
           score == StartingScore(r) + ValidationDelta(result)
           won == IF ok THEN More(r.success_count) ELSE r.success_count
           failed == IF ok THEN r.fail_count ELSE More(r.fail_count)
           failures == IF ok THEN 0 ELSE More(r.consecutive_fail_count)
           streak == Streak(failures)
<1>1. r \in Record /\ Earned(r)
  BY DEF EarnedRecord
<1>2. result.reach \in {"unsupported", "unreachable", "reached"}
  BY DEF Results, Unsupported, Unreachable
<1>3. /\ won \in 0..CountCap
      /\ failed \in 0..CountCap
      /\ failures \in 0..CountCap
      /\ IF ok THEN won > 0 ELSE failed > 0
  BY <1>1, MoreCounts, Bounds DEF Record
<1>4. /\ scored = [r EXCEPT !.score = score, !.success_count = won,
                            !.fail_count = failed, !.consecutive_fail_count = failures]
      /\ s = [scored EXCEPT !.pool = target, !.cooldown_left = left]
  BY DEF Scored, AfterValidation
<1>5. streak = IF ok THEN 0 ELSE OneMore(Streak(r.consecutive_fail_count))
  <2>1. r.consecutive_fail_count \in 0..CountCap
    BY <1>1 DEF Record
  <2>2. Streak(0) = 0
    BY Bounds DEF Streak
  <2> QED
    BY <2>1, <2>2, MoreCounts
<1>6. target = CASE result.reach = "unsupported" -> "dead"
                 [] result.reach = "unreachable" ->
                       IF streak >= DeadThreshold THEN "dead" ELSE "cooldown"
                 [] result.reach = "reached" ->
                       IF result.anonymity = "elite" /\ scored.score >= MinElite
                       THEN "elite" ELSE "checked"
  <2>1. scored.consecutive_fail_count = failures
    BY <1>1, <1>4 DEF Record
  <2>2. streak >= DeadThreshold <=> failures >= DeadThreshold
    BY <1>3, MoreCounts
  <2> HIDE DEF scored, failures, streak
  <2> QED
    BY <2>1, <2>2 DEF TargetByScore
<1>7. /\ target \in {"dead", "cooldown", "elite", "checked"}
      /\ target \in {"elite", "checked"} <=> ok
      /\ Until(left) = IF target = "cooldown" THEN "set" ELSE "none"
  <2>1. target \in {"dead", "cooldown", "elite", "checked"}
    BY <1>2, <1>6
  <2>2. target \in {"elite", "checked"} <=> ok
    BY <1>2, <1>6
  <2>3. Until(left) = IF target = "cooldown" THEN "set" ELSE "none"
    BY Bounds DEF Until
  <2> QED
    BY <2>1, <2>2, <2>3
<1> HIDE DEF target, won, failed, failures, score
<1>8. /\ s.pool = target
      /\ s.score = score
      /\ s.success_count = won
      /\ s.fail_count = failed
      /\ s.consecutive_fail_count = failures
      /\ s.cooldown_left = left
  <2> HIDE DEF s, scored, left
  <2>1. /\ DOMAIN scored = {"pool", "score", "success_count", "fail_count",
                            "consecutive_fail_count", "cooldown_left"}
        /\ scored.score = score
        /\ scored.success_count = won
        /\ scored.fail_count = failed
        /\ scored.consecutive_fail_count = failures
    BY <1>1, <1>4 DEF Record
  <2> QED
    BY <1>4, <2>1
<1>9. s \in Record
  <2>1. score \in ScoreMin..ScoreMax
    BY <1>8 DEF Within
  <2>2. target \in Pools /\ left \in {NoDeadline} \cup 0..CooldownTicks
    BY <1>7, Bounds DEF Pools
  <2> HIDE DEF s, scored, left
  <2>3. scored \in Record
    BY <1>1, <1>3, <1>4, <2>1 DEF Record
  <2> QED
    BY <1>4, <2>2, <2>3 DEF Record
<1>10. Earned(s)
  BY <1>3, <1>7, <1>8 DEF Earned, SelectionPools
<1>11. RowOf(s) = AsRow(target, streak, IF target = "cooldown" THEN "set" ELSE "none")
  BY <1>7, <1>8, RowOfFields
<1>12. \E outcome \in Outcomes : RowOf(s) = Validated(RowOf(r), outcome)
  <2> DEFINE outcome == IF ok /\ target = "elite" THEN "elite" ELSE result.reach
  <2>1. outcome \in Outcomes /\ (outcome \in {"unsupported", "unreachable"} <=> ~ok)
    BY <1>2 DEF Outcomes
  <2>2. RowOf(r).consecutive_fail_count = Streak(r.consecutive_fail_count)
    BY RowOfFields DEF AsRow
  <2>3. (IF outcome \in {"unsupported", "unreachable"}
         THEN OneMore(RowOf(r).consecutive_fail_count) ELSE 0) = streak
    BY <1>5, <2>1, <2>2
  <2>4. TargetPool(outcome, streak) = target
    BY <1>2, <1>6, <1>7 DEF TargetPool
  <2> HIDE DEF streak, outcome
  <2>5. Validated(RowOf(r), outcome) =
           AsRow(target, streak, IF target = "cooldown" THEN "set" ELSE "none")
    BY <2>3, <2>4 DEF Validated, AsRow
  <2> QED
    BY <1>11, <2>1, <2>5
<1> QED
  BY <1>9, <1>10, <1>12 DEF EarnedRecord

-----------------------------------------------------------------------------
(* Every step *)

\* PoolLifecycle extends the same rules: its copies say what ProxyRules says.
LEMMA LifeRules ==
    ASSUME NEW p
    PROVE  /\ Life(p)!FreshRow = FreshRow
           /\ Life(p)!Absent = Absent
           /\ Life(p)!Outcomes = Outcomes
           /\ \A row, ok : Life(p)!Reported(row, ok) = Reported(row, ok)
           /\ \A row : Life(p)!Released(row) = Released(row)
           /\ \A row, outcome : Life(p)!Validated(row, outcome) = Validated(row, outcome)
<1>1. \A n : Life(p)!OneMore(n) = OneMore(n)
  BY DEF Life!OneMore, OneMore
<1>2. \A row : Life(p)!ReportedOk(row) = ReportedOk(row)
  BY DEF Life!ReportedOk, ReportedOk
<1>3. \A row : Life(p)!ReportedFailure(row) = ReportedFailure(row)
  BY <1>1, Zenon DEF Life!ReportedFailure, ReportedFailure
<1>4. \A row, ok : Life(p)!Reported(row, ok) = Reported(row, ok)
  BY <1>2, <1>3 DEF Life!Reported, Reported
<1>5. \A outcome, n : Life(p)!TargetPool(outcome, n) = TargetPool(outcome, n)
  BY Zenon DEF Life!TargetPool, TargetPool
<1>6. \A row, outcome : Life(p)!Validated(row, outcome) = Validated(row, outcome)
  BY <1>1, <1>5, Zenon DEF Life!Validated, Validated
<1> QED
  BY <1>4, <1>6 DEF Life!FreshRow, FreshRow, Life!Absent, Absent, Life!Outcomes, Outcomes,
                    Life!Released, Released

\* What a step makes of a record: it keeps the history the pool stands for, and
\* on the row it is one of the steps of PoolLifecycle or leaves the row alone.
Lived(p) ==
    /\ record'[p] \in EarnedRecord \cup {NoRecord}
    /\ Life(p)!Next \/ UNCHANGED RowOf(record[p])

\* Lived, for each of the ways a step can change a record.
LEMMA LivedBy ==
    ASSUME HistoryInv, NEW p \in ProxyId
    PROVE  /\ record'[p] = record[p] => Lived(p)
           /\ record'[p] = FreshRecord => Lived(p)
           /\ record[p] # NoRecord /\ record'[p] = NoRecord => Lived(p)
           /\ \A s \in EarnedRecord :
                 /\ record'[p] = s
                 /\ record[p] # NoRecord
                 /\ \/ RowOf(s) = RowOf(record[p])
                    \/ \E ok \in BOOLEAN : RowOf(s) = Reported(RowOf(record[p]), ok)
                    \/ record[p].pool = "cooldown" /\ RowOf(s) = Released(RowOf(record[p]))
                    \/ /\ record[p].pool = "raw"
                       /\ \E outcome \in Outcomes : RowOf(s) = Validated(RowOf(record[p]), outcome)
                 => Lived(p)
<1> DEFINE before == RowOf(record[p])
           after == RowOf(record'[p])
<1>1. record[p] \in EarnedRecord \cup {NoRecord}
  BY DEF HistoryInv
<1>2. RowOf(record[p])' = after
  BY DEF RowOf
<1>3. before.pool = record[p].pool
  BY DEF RowOf
<1>4. record[p] # NoRecord => before # Absent
  BY <1>1, RecordShape DEF EarnedRecord
<1>5. /\ Life(p)!Feed <=> after = FreshRow
      /\ Life(p)!Stored <=> before # Absent
      /\ Life(p)!Report <=> before # Absent /\ \E ok \in BOOLEAN : after = Reported(before, ok)
      /\ Life(p)!Validate <=>
            before.pool = "raw" /\ \E outcome \in Outcomes : after = Validated(before, outcome)
      /\ Life(p)!Release <=> before.pool = "cooldown" /\ after = Released(before)
      /\ Life(p)!Remove <=> before # Absent /\ after = Absent
  BY <1>2, LifeRules
     DEF Life!Feed, Life!Stored, Life!Report, Life!Validate, Life!Release, Life!Remove
<1> HIDE DEF before, after
<1>6. ASSUME record'[p] = record[p]
      PROVE  Lived(p)
  BY <1>1, <1>2, <1>6 DEF Lived, before, after
<1>7. ASSUME record'[p] = FreshRecord
      PROVE  Lived(p)
  BY <1>5, <1>7, FreshKept DEF Lived, Life!Next, after
<1>8. ASSUME record[p] # NoRecord, record'[p] = NoRecord
      PROVE  Lived(p)
  BY <1>4, <1>5, <1>8, RecordShape DEF Lived, Life!Next, after
<1>9. ASSUME NEW s \in EarnedRecord, record'[p] = s, record[p] # NoRecord,
             \/ RowOf(s) = before
             \/ \E ok \in BOOLEAN : RowOf(s) = Reported(before, ok)
             \/ record[p].pool = "cooldown" /\ RowOf(s) = Released(before)
             \/ /\ record[p].pool = "raw"
                /\ \E outcome \in Outcomes : RowOf(s) = Validated(before, outcome)
      PROVE  Lived(p)
  <2>1. after = RowOf(s)
    BY <1>9 DEF after
  <2>2. Life(p)!Next \/ after = before
    BY <1>3, <1>4, <1>5, <1>9, <2>1 DEF Life!Next
  <2> QED
    BY <1>2, <1>9, <2>2 DEF Lived, before
<1> QED
  BY <1>6, <1>7, <1>8, <1>9 DEF before

LEMMA HistoryStep ==
    ASSUME HistoryInv, Next, NEW p \in ProxyId
    PROVE  Lived(p)
<1>0. record[p] \in EarnedRecord \cup {NoRecord} /\ (record[p] # NoRecord => record[p] \in EarnedRecord)
  BY DEF HistoryInv
<1>1. ASSUME NEW q \in ProxyId, Feed(q) \/ Delete(q)
      PROVE  Lived(p)
  BY <1>1, LivedBy DEF Feed, Delete, HistoryInv
<1>2. ASSUME NEW q \in ProxyId, NEW ok \in BOOLEAN, Report(q, ok)
      PROVE  Lived(p)
  <2>1. CASE p # q
    BY <1>2, <2>1, LivedBy DEF Report, HistoryInv
  <2>2. CASE p = q
    <3> DEFINE s == IF ok THEN ReportSuccess(record[p]) ELSE ReportFailure(record[p])
    <3>1. record[p] # NoRecord /\ Within(s) /\ record'[p] = s
      BY <1>2, <2>2 DEF Report, HistoryInv
    <3>2. record[p] \in EarnedRecord
      BY <1>0, <3>1
    <3>3. s \in EarnedRecord /\ RowOf(s) = Reported(RowOf(record[p]), ok)
      <4>1. CASE ok
        BY <3>1, <3>2, <4>1, SuccessKept DEF Reported
      <4>2. CASE ~ok
        BY <3>1, <3>2, <4>2, FailureKept DEF Reported
      <4> QED
        BY <4>1, <4>2
    <3> HIDE DEF s
    <3> QED
      BY <3>1, <3>3, LivedBy
  <2> QED
    BY <2>1, <2>2
<1>3. CASE Tick
  <2>1. CASE record[p].cooldown_left > 0
    <3> DEFINE s == [record[p] EXCEPT !.cooldown_left = record[p].cooldown_left - 1]
    <3>1. record'[p] = s
      BY <1>3, <2>1 DEF Tick
    <3>2. record[p] # NoRecord
      BY <2>1, Bounds DEF NoRecord
    <3>3. s \in EarnedRecord /\ RowOf(s) = RowOf(record[p])
      BY <1>0, <2>1, <3>2, TickKept
    <3> HIDE DEF s
    <3> QED
      BY <3>1, <3>2, <3>3, LivedBy
  <2>2. CASE ~(record[p].cooldown_left > 0)
    BY <1>3, <2>2, LivedBy DEF Tick
  <2> QED
    BY <2>1, <2>2
<1>4. CASE ReleaseExpired
  <2>1. PICK listed \in Listings("cooldown") :
           record' = [q \in ProxyId |->
                        IF q \in listed /\ Expired(record[q])
                        THEN [record[q] EXCEPT !.pool = "raw", !.cooldown_left = NoDeadline]
                        ELSE record[q]]
    BY <1>4 DEF ReleaseExpired
  <2>2. CASE p \in listed /\ Expired(record[p])
    <3> DEFINE s == [record[p] EXCEPT !.pool = "raw", !.cooldown_left = NoDeadline]
    <3>1. record'[p] = s
      BY <2>1, <2>2
    <3>2. record[p].pool = "cooldown"
      BY <2>2 DEF Listings, InPool
    <3>3. record[p] # NoRecord
      BY <3>2 DEF NoRecord
    <3>4. s \in EarnedRecord /\ RowOf(s) = Released(RowOf(record[p]))
      BY <1>0, <3>3, ReleaseKept
    <3> HIDE DEF s
    <3> QED
      BY <3>1, <3>2, <3>3, <3>4, LivedBy
  <2>3. CASE ~(p \in listed /\ Expired(record[p]))
    BY <2>1, <2>3, LivedBy
  <2> QED
    BY <2>2, <2>3
<1>5. CASE ValidatePool
  <2>1. PICK listed \in Listings("raw") : \E result \in [listed -> Results] :
           /\ \A q \in listed : Within(AfterValidation(record[q], result[q]))
           /\ record' = [q \in ProxyId |->
                            IF q \in listed THEN AfterValidation(record[q], result[q])
                            ELSE record[q]]
    BY <1>5 DEF ValidatePool
  <2>2. PICK result \in [listed -> Results] :
           /\ \A q \in listed : Within(AfterValidation(record[q], result[q]))
           /\ record' = [q \in ProxyId |->
                            IF q \in listed THEN AfterValidation(record[q], result[q])
                            ELSE record[q]]
    BY <2>1
  <2>3. CASE p \in listed
    <3> DEFINE s == AfterValidation(record[p], result[p])
    <3>1. record'[p] = s /\ Within(s) /\ result[p] \in Results
      BY <2>2, <2>3
    <3>2. record[p].pool = "raw"
      BY <2>3 DEF Listings, InPool
    <3>3. record[p] # NoRecord
      BY <3>2 DEF NoRecord
    <3>4. /\ s \in EarnedRecord
          /\ \E outcome \in Outcomes : RowOf(s) = Validated(RowOf(record[p]), outcome)
      BY <1>0, <3>1, <3>3, ValidationKept
    <3> HIDE DEF s
    <3> QED
      BY <3>1, <3>2, <3>3, <3>4, LivedBy
  <2>4. CASE p \notin listed
    BY <2>2, <2>4, LivedBy
  <2> QED
    BY <2>3, <2>4
<1> QED
  BY <1>1, <1>2, <1>3, <1>4, <1>5 DEF Next

LEMMA HistoryInvStep == HistoryInv /\ [Next]_vars => HistoryInv'
<1> SUFFICES ASSUME HistoryInv, [Next]_vars PROVE HistoryInv'
  OBVIOUS
<1>1. CASE Next
  <2>1. \A p \in ProxyId : record'[p] \in EarnedRecord \cup {NoRecord}
    BY <1>1, HistoryStep DEF Lived
  <2>2. record' = [p \in ProxyId |-> record'[p]]
    BY <1>1 DEF Next, Feed, Delete, Report, Tick, ReleaseExpired, ValidatePool, HistoryInv
  <2> QED
    BY <2>1, <2>2 DEF HistoryInv
<1>2. CASE UNCHANGED vars
  BY <1>2 DEF vars, HistoryInv
<1> QED
  BY <1>1, <1>2

LEMMA HistoryInvariant == Spec => []HistoryInv
<1>1. Init => HistoryInv
  BY DEF Init, HistoryInv
<1> QED
  BY <1>1, HistoryInvStep, PTL DEF Spec

\* A proxy that can be handed out has reached the target at least once since
\* its source last delivered it, and one in dead or cooldown has failed at
\* least once, whatever its score, the batches, the reports and the deadlines
\* (apply_validation_score, _target_pool, report_result, release_expired).
THEOREM PoolIsEarned == Spec => []PoolEarned
<1>1. HistoryInv => PoolEarned
  <2> SUFFICES ASSUME HistoryInv, NEW p \in ProxyId
               PROVE  /\ record[p].pool \in SelectionPools => record[p].success_count > 0
                      /\ record[p].pool \in {"dead", "cooldown"} => record[p].fail_count > 0
    BY DEF PoolEarned
  <2>1. CASE record[p] = NoRecord
    BY <2>1 DEF NoRecord, SelectionPools
  <2>2. CASE record[p] \in EarnedRecord
    BY <2>2 DEF EarnedRecord, Earned
  <2> QED
    BY <2>1, <2>2 DEF HistoryInv
<1> QED
  BY <1>1, HistoryInvariant, PTL

\* The refinement: scores, latencies, deadlines and batches only decide which
\* step of PoolLifecycle a proxy takes and when.  Every proxy starts as
\* PoolLifecycle starts, and every step of ProxyHistory is, for each proxy, a
\* step of PoolLifecycle or leaves its row alone.
THEOREM HistoryLives == Spec => Lifecycle
<1>1. Init => \A p \in ProxyId : Life(p)!Init
  <2> SUFFICES ASSUME Init, NEW p \in ProxyId
               PROVE  Life(p)!Init
    OBVIOUS
  <2>1. record[p] = NoRecord
    BY DEF Init
  <2> QED
    BY <2>1, RecordShape, LifeRules DEF Life!Init
<1>2. HistoryInv /\ [Next]_vars =>
         [\A p \in ProxyId : Life(p)!Next \/ UNCHANGED RowOf(record[p])]_vars
  BY HistoryStep DEF Lived
<1> QED
  BY <1>1, <1>2, HistoryInvariant, PTL DEF Spec, Lifecycle
=============================================================================
