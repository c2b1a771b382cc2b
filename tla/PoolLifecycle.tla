---------------------------- MODULE PoolLifecycle ----------------------------
(***************************************************************************)
(* What the pools promise about one proxy, as its row alone shows it: which*)
(* event takes it from which pool to which, and what becomes of its failure*)
(* streak and its deadline.  No scores, no clock, no batches, no other     *)
(* proxies: ProxyHistory adds them and implements this specification.      *)
(***************************************************************************)
EXTENDS ProxyRules

VARIABLE row   \* the proxy's row, Absent when it is not stored

Stored == row # Absent

Init == row = Absent

\* A provider or an import delivers the proxy, known or not.
Feed == row' = FreshRow

Report == Stored /\ \E ok \in BOOLEAN : row' = Reported(row, ok)

Validate == row.pool = "raw" /\ \E outcome \in Outcomes : row' = Validated(row, outcome)

Release == row.pool = "cooldown" /\ row' = Released(row)

Remove == Stored /\ row' = Absent

Next == Feed \/ Report \/ Validate \/ Release \/ Remove

Spec == Init /\ [][Next]_row
=============================================================================
