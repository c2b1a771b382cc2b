--------------------------- MODULE SessionAffinity ---------------------------
(***************************************************************************)
(* GET /proxy with a session_id: the session's binding is looked up, used  *)
(* when its proxy is still good, and written anew when it is not.  Each    *)
(* store statement is an action; other calls, the pools and the clock move *)
(* in between, and the process may die.                                    *)
(***************************************************************************)
EXTENDS KvStore, Sequences

CONSTANTS
    Call,       \* calls that can be under way at once
    NoSession

Session == Key
ProxyId == Value
NoProxy == NoValue

ASSUME AffinityAssumption == NoSession \notin Session

VARIABLES
    pool,    \* the pool each proxy is in; every writer of the table moves it
    call,    \* the calls under way
    pin      \* history: what each session was last answered

vars == <<kv, kvDisk, now, pool, call, pin>>

PoolOf == {"elite", "checked", "other"}   \* "other": no row, raw, dead or cooldown
SelectionPools == <<"elite", "checked">>

Good(p) == pool[p] # "other"

Free == [pc |-> "idle", session |-> NoSession, matching |-> {}, time |-> 0,
         proxy |-> NoProxy, seenGood |-> {}, alone |-> "yes"]

\* matching: the proxies that pass the call's filters.  time: when the lookup
\* began, then the end of the binding it uses or writes.  seenGood: history, the proxies that were
\* in a selection pool at some moment of the call.  alone: history, whether no
\* other call of the session overlapped.
Busy == [pc : {"lookup", "deleteExpired", "commitExpired", "pinned", "elite", "checked",
               "bind", "commitBind", "answered"},
         session : Session,
         matching : SUBSET ProxyId,
         time : 0..(MaxTime + Ttl),
         proxy : ProxyId \cup {NoProxy},
         seenGood : SUBSET ProxyId,
         alone : {"yes", "no"}]

NoPin == [proxy |-> NoProxy, until |-> 0, alone |-> "no"]

TypeOK ==
    /\ KvTypeOK
    /\ pool \in [ProxyId -> PoolOf]
    /\ call \in [Call -> Busy \cup {Free}]
    /\ pin \in [Session -> [proxy : ProxyId \cup {NoProxy},
                            until : 0..(MaxTime + Ttl), alone : {"yes", "no"}]]

Init ==
    /\ KvInit
    /\ pool \in [ProxyId -> PoolOf]
    /\ call = [c \in Call |-> Free]
    /\ pin = [s \in Session |-> NoPin]

At(c, pc) == call[c].pc = pc
Goto(c, pc) == call' = [call EXCEPT ![c].pc = pc]

-----------------------------------------------------------------------------
\* ProxyService.get_proxy

\* The call arrives and get_session_proxy_id takes the time.  A pin is off
\* when the new call asks for something the pinned proxy is not.
Start(c, s, matching) ==
    LET others == {d \in Call : call[d].session = s}
        alone == IF others = {} THEN "yes" ELSE "no"
    IN  /\ At(c, "idle")
        /\ call' = [d \in Call |->
                      IF d = c
                      THEN [pc |-> "lookup", session |-> s, matching |-> matching, time |-> now,
                            proxy |-> NoProxy, seenGood |-> {p \in ProxyId : Good(p)},
                            alone |-> alone]
                      ELSE IF d \in others THEN [call[d] EXCEPT !.alone = "no"] ELSE call[d]]
        /\ pin' = [pin EXCEPT ![s] =
                      IF @.proxy \notin matching THEN NoPin
                      ELSE IF alone = "yes" THEN @ ELSE [pin[s] EXCEPT !.alone = "no"]]
        /\ UNCHANGED <<kvVars, pool>>

\* SELECT value, expires_at FROM kv_store
Lookup(c) ==
    LET entry == kv[call[c].session] IN
    /\ At(c, "lookup")
    /\ IF entry = NoEntry THEN Goto(c, "elite")
       ELSE IF PastEnd(entry, call[c].time) THEN Goto(c, "deleteExpired")
       ELSE call' = [call EXCEPT ![c].pc = "pinned", ![c].proxy = entry.value,
                                 ![c].time = entry.expires_at]
    /\ UNCHANGED <<kvVars, pool, pin>>

DeleteExpired(c) ==
    /\ At(c, "deleteExpired")
    /\ DropEntry(call[c].session)
    /\ Goto(c, "commitExpired")
    /\ UNCHANGED <<pool, pin>>

CommitExpired(c) ==
    /\ At(c, "commitExpired")
    /\ CommitEntries
    /\ Goto(c, "elite")
    /\ UNCHANGED <<pool, pin>>

\* Mutant: a bound proxy is answered whatever pool it is in.
MutPinnedUnchecked(c) ==
    /\ At(c, "pinned")
    /\ Goto(c, IF call[c].proxy \in call[c].matching THEN "answered" ELSE "elite")
    /\ UNCHANGED <<kvVars, pool, pin>>

\* get_proxy of the bound id, then its status and the filters.
Pinned(c) ==
    LET p == call[c].proxy IN
    /\ At(c, "pinned")
    /\ Goto(c, IF Good(p) /\ p \in call[c].matching THEN "answered" ELSE "elite")
    /\ UNCHANGED <<kvVars, pool, pin>>

\* get_best_proxy: elite first, then checked; the first of a page of one.
Choose(c, i) ==
    LET found == {p \in call[c].matching : pool[p] = SelectionPools[i]}
    IN  /\ At(c, SelectionPools[i])
        /\ IF found # {}
           THEN \E p \in found : call' = [call EXCEPT ![c].pc = "bind", ![c].proxy = p,
                                                      ![c].time = now + Ttl]
           ELSE IF i < Len(SelectionPools) THEN Goto(c, SelectionPools[i + 1])
           ELSE call' = [call EXCEPT ![c].pc = "answered", ![c].proxy = NoProxy]
        /\ UNCHANGED <<kvVars, pool, pin>>

\* INSERT OR REPLACE INTO kv_store
Bind(c) ==
    /\ At(c, "bind")
    /\ PutEntry(call[c].session, call[c].proxy, call[c].time)
    /\ Goto(c, "commitBind")
    /\ UNCHANGED <<pool, pin>>

\* Mutant: the binding is not committed.
MutCommitBindForgotten(c) ==
    /\ At(c, "commitBind")
    /\ Goto(c, "answered")
    /\ UNCHANGED <<kvVars, pool, pin>>

CommitBind(c) ==
    /\ At(c, "commitBind")
    /\ CommitEntries
    /\ Goto(c, "answered")
    /\ UNCHANGED <<pool, pin>>

\* The response is out: the session counts on the proxy from here.
Answer(c) ==
    LET s == call[c].session  p == call[c].proxy IN
    /\ At(c, "answered")
    /\ call' = [call EXCEPT ![c] = Free]
    /\ pin' = [pin EXCEPT ![s] =
                  IF p = NoProxy \/ ~Good(p) \/ call[c].time < now
                  THEN NoPin
                  ELSE [proxy |-> p, until |-> call[c].time, alone |-> call[c].alone]]
    /\ UNCHANGED <<kvVars, pool>>

-----------------------------------------------------------------------------
\* The surroundings

\* A feed, a job, a report or a delete moves a proxy.
Repool(p, to) ==
    /\ pool[p] # to
    /\ pool' = [pool EXCEPT ![p] = to]
    /\ call' = IF to = "other" THEN call
               ELSE [c \in Call |-> IF At(c, "idle") THEN call[c]
                                    ELSE [call[c] EXCEPT !.seenGood = @ \cup {p}]]
    /\ pin' = IF to # "other" THEN pin
              ELSE [s \in Session |-> IF pin[s].proxy = p THEN NoPin ELSE pin[s]]
    /\ UNCHANGED kvVars

Clock ==
    /\ Tick
    /\ pin' = [s \in Session |-> IF pin[s].until < now + 1 THEN NoPin ELSE pin[s]]
    /\ UNCHANGED <<pool, call>>

OtherCommit == CommitEntries /\ UNCHANGED <<pool, call, pin>>

Crash ==
    /\ LoseUncommitted
    /\ call' = [c \in Call |-> Free]
    /\ UNCHANGED <<pool, pin>>

Next ==
    \/ \E c \in Call, s \in Session, matching \in SUBSET ProxyId : Start(c, s, matching)
    \/ \E c \in Call : Lookup(c) \/ DeleteExpired(c) \/ CommitExpired(c) \/ Pinned(c)
    \/ \E c \in Call, i \in DOMAIN SelectionPools : Choose(c, i)
    \/ \E c \in Call : Bind(c) \/ CommitBind(c) \/ Answer(c)
    \/ \E p \in ProxyId, to \in PoolOf : Repool(p, to)
    \/ Clock
    \/ OtherCommit
    \/ Crash

Spec == Init /\ [][Next]_vars

-----------------------------------------------------------------------------
\* Properties

\* A call answers a proxy that passes its filters and was in a selection pool
\* at some moment of the call, however old the binding (_get_session_proxy).
AnswersGoodProxy ==
    \A c \in Call : At(c, "answered") /\ call[c].proxy # NoProxy =>
        call[c].proxy \in call[c].matching \cap call[c].seenGood

\* A session whose calls do not overlap keeps its proxy, restarts included:
\* while the proxy stays in a selection pool, passes the filters and the time
\* to live of the binding is not over, every answer is that proxy.
SerialCallsSticky ==
    \A c \in Call :
        LET last == pin[call[c].session] IN
        At(c, "answered") /\ call[c].alone = "yes" /\ last.proxy # NoProxy /\ last.alone = "yes"
            => call[c].proxy = last.proxy
=============================================================================
