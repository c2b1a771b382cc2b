----------------------------- MODULE FetchJson -----------------------------
(***************************************************************************)
(* fetchJson of the dashboard's API client: one HTTP call raced against a  *)
(* timer, then the body read with the timer still armed.  A call lives in  *)
(* the slot of the await that holds it.  The network and the server may be *)
(* arbitrarily slow; only the timer is sure to end a call.                 *)
(***************************************************************************)
EXTENDS Naturals, FiniteSets

CONSTANTS
    Slot,          \* the awaits that can hold a call at once
    TimeoutTicks   \* ticks of the page's clock in VITE_API_REQUEST_TIMEOUT_MS

ASSUME FetchAssumption == TimeoutTicks \in Nat \ {0}

VARIABLE calls     \* slot -> the call it holds

NoReply == [status |-> 0]
Free == [phase |-> "free", req |-> [op |-> "none"], cookie |-> 0, reply |-> NoReply, age |-> 0]

\* The await in slot s is over.
Ended(s) == [slot \in {s} |-> Free]

\* `new' with the rest of `old': { ...old, ...new }.
Over(new, old) ==
    [x \in DOMAIN new \cup DOMAIN old |-> IF x \in DOMAIN new THEN new[x] ELSE old[x]]

\* sent: not yet served; replied: the reply is on its way; reading: the race is
\* won and the body is being read; delayed: a mock answer behind its setTimeout.
Phase == {"free", "sent", "replied", "reading", "delayed"}
OnWire == {"sent", "replied", "reading"}

FetchTypeOK == \A s \in Slot : calls[s].phase \in Phase /\ calls[s].age \in 0..TimeoutTicks

Holds(s, op) == calls[s].phase # "free" /\ calls[s].req.op = op
Busy(s) == calls[s].phase # "free"

\* fetch(...) with credentials: the cookie goes with the request.
Fetching(req, jar) ==
    [phase |-> "sent", req |-> req, cookie |-> jar, reply |-> NoReply, age |-> 0]

Delayed(req, answer) ==
    [phase |-> "delayed", req |-> req, cookie |-> 0, reply |-> answer, age |-> 0]

\* Mutant: the timer is cleared when the race is won, before the body is read.
MutArmed(c) == c.phase \in {"sent", "replied"}

\* Whether the abort timer can still fire: it is cleared in the finally, once
\* the body has been read.
Armed(c) == c.phase \in OnWire

\* What the awaited promise may settle with now.  A call under way can lose its
\* connection, time out or answer something that is not JSON: all of these lose
\* the status.  A reply that has been read is the answer, whatever its status.
Outcomes(c) ==
    (IF c.phase \in OnWire THEN {NoReply} ELSE {})
    \cup (IF c.phase \in {"reading", "delayed"} THEN {c.reply} ELSE {})

\* Mutant: the timer fires a tick after it is due.
MutOverdue(c) == Armed(c) /\ c.age > TimeoutTicks

Overdue(c) == Armed(c) /\ c.age >= TimeoutTicks

Aged(c) == IF Armed(c) THEN [c EXCEPT !.age = @ + 1] ELSE c
=============================================================================
