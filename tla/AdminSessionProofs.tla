------------------------- MODULE AdminSessionProofs -------------------------
(* Theorems about AdminSession for every value of its constants. *)
EXTENDS AdminSession, TLAPS

\* The entry a login writes for its token.
SessionOf(k) == [value |-> User, expires_at |-> deadline[k]]

LoggingIn(r) == req[r].pc \in {"insert", "commitInsert"}

\* A login under way has its token to itself, every other request has a token
\* that was issued, and a logout is asked for before it is answered.
TokensKnown ==
    /\ ended \subseteq leaving
    /\ leaving \subseteq issued
    /\ \A r \in Request :
          /\ LoggingIn(r) => req[r].token \notin issued
          /\ req[r].pc # "idle" /\ ~LoggingIn(r) => req[r].token \in issued
          /\ req[r].late = "yes" => req[r].token \in ended
          /\ \A s \in Request : LoggingIn(r) /\ LoggingIn(s) /\ req[r].token = req[s].token => r = s

\* An entry is what its login wrote, on both sides of the commit.
EntriesKnown ==
    \A k \in Token :
        /\ kv[k] \in {NoEntry, SessionOf(k)}
        /\ kvDisk[k] \in {NoEntry, SessionOf(k)}
        /\ deadline[k] = 0 => k \notin issued /\ kv[k] = NoEntry /\ kvDisk[k] = NoEntry

\* What the program point of a request implies.
Point(r) ==
    /\ LoggingIn(r) => deadline[req[r].token] # 0
    /\ req[r].pc = "insert" => req[r].time = deadline[req[r].token]
    /\ req[r].pc = "commitInsert" => kv[req[r].token] = SessionOf(req[r].token)
    /\ req[r].pc \in {"select", "deleteExpired", "commitExpired"} => req[r].time <= now
    /\ req[r].pc \in {"deleteExpired", "commitExpired"} => deadline[req[r].token] < req[r].time
    /\ req[r].pc \in {"deleteSession", "commitLogout"} => req[r].token \in leaving
    /\ req[r].pc = "commitLogout" => kv[req[r].token] = NoEntry

PointsKnown == \A r \in Request : Point(r)

AdminInv ==
    /\ TypeOK
    /\ TokensKnown
    /\ EntriesKnown
    /\ PointsKnown
    /\ LogoutFinal
    /\ AcceptedHadSession
    /\ LoginHolds

USE KvAssumption, AdminAssumption DEF Token

\* What a login writes is an entry, never the mark of a missing one.
LEMMA EntryTyped ==
    ASSUME TypeOK, NEW k \in Token
    PROVE  SessionOf(k) \in Entry /\ SessionOf(k) # NoEntry /\ SessionOf(k).expires_at = deadline[k]
BY DEF TypeOK, SessionOf, Entry, NoEntry

Points == {"insert", "commitInsert", "select", "deleteExpired", "commitExpired",
           "deleteSession", "commitLogout", "accepted"}

\* What moving on, ending and beginning a request do to all requests.
LEMMA GotoEffect ==
    ASSUME TypeOK, NEW r \in Request, NEW pc \in Points, ~At(r, "idle"), Goto(r, pc)
    PROVE  /\ req' \in [Request -> Busy \cup {Free}]
           /\ req'[r].pc = pc
           /\ req'[r].token = req[r].token
           /\ req'[r].time = req[r].time
           /\ req'[r].late = req[r].late
           /\ \A s \in Request \ {r} : req'[s] = req[s]
<1>1. req[r] \in Busy
  BY DEF TypeOK, At, Free
<1>2. [req[r] EXCEPT !.pc = pc] \in Busy
  BY <1>1 DEF Busy, Points
<1> QED
  BY <1>1, <1>2 DEF TypeOK, Goto, Busy

\* The end of a request frees it and leaves the others alone.
LEMMA FinishEffect ==
    ASSUME TypeOK, NEW r \in Request, Finish(r)
    PROVE  /\ req' \in [Request -> Busy \cup {Free}]
           /\ req'[r] = Free
           /\ \A s \in Request \ {r} : req'[s] = req[s]
BY DEF TypeOK, Finish

\* The start of a request leaves the others alone.
LEMMA BeginEffect ==
    ASSUME TypeOK, NEW r \in Request, NEW b \in Busy, req' = [req EXCEPT ![r] = b]
    PROVE  /\ req' \in [Request -> Busy \cup {Free}]
           /\ req'[r] = b
           /\ \A s \in Request \ {r} : req'[s] = req[s]
BY DEF TypeOK

\* A request that is not idle has a token of its own.
LEMMA BusyTyped ==
    ASSUME TypeOK, NEW r \in Request
    PROVE  /\ req[r].pc # "idle" => req[r] \in Busy /\ req[r].token \in Token
                                      /\ req[r].time \in 0..(MaxTime + Ttl)
           /\ req[r].pc \in Points \cup {"idle"}
           /\ req[r].pc = "idle" => req[r] = Free
BY DEF TypeOK, Busy, Free, Points

\* What the statements on the table do to it.
LEMMA PutEffect ==
    ASSUME KvTypeOK, NEW k \in Key, NEW v \in Value, NEW t \in 0..(MaxTime + Ttl), PutEntry(k, v, t)
    PROVE  /\ KvTypeOK'
           /\ kv'[k] = [value |-> v, expires_at |-> t]
           /\ \A j \in Key \ {k} : kv'[j] = kv[j]
BY DEF KvTypeOK, PutEntry, Entry

\* A deletion leaves the mark of a missing entry and the other keys alone.
LEMMA DropEffect ==
    ASSUME KvTypeOK, NEW k \in Key, DropEntry(k)
    PROVE  /\ KvTypeOK'
           /\ kv'[k] = NoEntry
           /\ \A j \in Key \ {k} : kv'[j] = kv[j]
BY DEF KvTypeOK, DropEntry

\* Every statement of every request keeps the invariant.
LEMMA AdminStep == AdminInv /\ [Next]_vars => AdminInv'
<1> SUFFICES ASSUME AdminInv, [Next]_vars
             PROVE  AdminInv'
  OBVIOUS
<1> USE DEF AdminInv
<1>1. ASSUME NEW r \in Request, NEW k \in Token, Login(r, k)
      PROVE  AdminInv'
  <2>g. req[r].pc = "idle" /\ Fresh(k)
    BY <1>1 DEF Login, At
  <2> DEFINE b == [pc |-> "insert", token |-> k, time |-> now + Ttl, late |-> "no"]
  <2>b. b \in Busy
    BY DEF Busy, TypeOK, KvTypeOK
  <2>a. /\ req' \in [Request -> Busy \cup {Free}]
        /\ req'[r] = b
        /\ \A s \in Request \ {r} : req'[s] = req[s]
    BY <1>1, <2>b, BeginEffect DEF Login
  <2>k. KvTypeOK' /\ UNCHANGED <<kv, kvDisk, now>>
    BY <1>1 DEF Login, kvVars, TypeOK, KvTypeOK
  <2>d. /\ deadline'[k] = now + Ttl /\ now + Ttl # 0
        /\ \A j \in Token \ {k} : deadline'[j] = deadline[j]
        /\ deadline[k] = 0 /\ kv[k] = NoEntry /\ kvDisk[k] = NoEntry /\ k \notin issued
        /\ \A s \in Request : req[s].token # k
    <3>1. deadline' = [deadline EXCEPT ![k] = now + Ttl] /\ now \in Nat
      BY <1>1 DEF Login, TypeOK, KvTypeOK
    <3> QED
      BY <2>g, <3>1 DEF Fresh, TypeOK, EntriesKnown
  <2>h. /\ deadline' = [deadline EXCEPT ![k] = now + Ttl]
        /\ issued' = issued
        /\ leaving' = leaving
        /\ ended' = ended
    BY <1>1 DEF Login
  <2>1. TypeOK'
    BY <2>a, <2>k, <2>h DEF TypeOK, KvTypeOK
  <2>2. TokensKnown'
    <3>1. \A s \in Request \ {r} : req'[s].token # k
      BY <2>a, <2>d
    <3> QED
      BY <2>a, <2>d, <2>h DEF TokensKnown, LoggingIn
  <2>3. EntriesKnown'
    <3>1. ASSUME NEW j \in Token, j # k
          PROVE  /\ kv'[j] \in {NoEntry, SessionOf(j)'} /\ kvDisk'[j] \in {NoEntry, SessionOf(j)'}
                 /\ deadline'[j] = 0 => j \notin issued' /\ kv'[j] = NoEntry /\ kvDisk'[j] = NoEntry
      BY <2>k, <2>h, <3>1 DEF EntriesKnown, SessionOf
    <3> QED
      BY <2>d, <2>k, <3>1 DEF EntriesKnown
  <2>4. PointsKnown'
    <3>1. ASSUME NEW s \in Request, s # r
          PROVE  Point(s)'
      <4>1. CASE req[s].pc = "idle"
        BY <2>a, <3>1, <4>1 DEF Point, LoggingIn
      <4>2. CASE req[s].pc # "idle"
        <5>1. req[s].token \in Token \ {k}
          BY <4>2, <2>d, BusyTyped
        <5>2. UNCHANGED <<req[s], deadline[req[s].token], kv, now>>
          BY <2>a, <2>d, <2>k, <3>1, <5>1
        <5>3. leaving' = leaving
          BY <2>h
        <5> QED
          BY <5>2, <5>3 DEF PointsKnown, Point, LoggingIn, SessionOf
      <4> QED
        BY <4>1, <4>2
    <3>2. Point(r)'
      BY <2>a, <2>d DEF Point
    <3> QED
      BY <3>1, <3>2 DEF PointsKnown
  <2>5. LogoutFinal'
    BY <2>k, <2>h DEF LogoutFinal
  <2>6. AcceptedHadSession'
    <3>1. ASSUME NEW s \in Request, req'[s].pc = "accepted"
          PROVE  req'[s].late = "no" /\ req'[s].time <= deadline'[req'[s].token]
      <4>1. s # r /\ req'[s] = req[s] /\ req[s].pc = "accepted"
        BY <2>a, <3>1
      <4>2. req[s].token \in Token \ {k}
        BY <4>1, <2>d, BusyTyped
      <4> QED
        BY <4>1, <4>2, <2>d DEF AcceptedHadSession, At
    <3> QED
      BY <3>1 DEF AcceptedHadSession, At
  <2>7. LoginHolds'
    <3>1. ASSUME NEW j \in issued \ leaving
          PROVE  j \in Token \ {k}
      BY <2>d DEF TypeOK
    <3> QED
      BY <2>k, <2>h, <3>1 DEF LoginHolds
  <2> QED
    BY <2>1, <2>2, <2>3, <2>4, <2>5, <2>6, <2>7
<1>2. ASSUME NEW r \in Request, Insert(r)
      PROVE  AdminInv'
  <2>g. req[r].pc = "insert"
    BY <1>2 DEF Insert, At
  <2>a. /\ req' \in [Request -> Busy \cup {Free}]
        /\ req'[r].pc = "commitInsert"
        /\ req'[r].token = req[r].token
        /\ req'[r].time = req[r].time
        /\ req'[r].late = req[r].late
        /\ \A s \in Request \ {r} : req'[s] = req[s]
    BY <1>2, GotoEffect DEF Insert, At, Points
  <2>k. /\ KvTypeOK'
        /\ kv'[req[r].token] = [value |-> User, expires_at |-> req[r].time]
        /\ \A j \in Token \ {req[r].token} : kv'[j] = kv[j]
        /\ UNCHANGED <<kvDisk, now>>
    <3>1. PutEntry(req[r].token, User, req[r].time) /\ req[r].pc # "idle"
      BY <1>2 DEF Insert, At
    <3>2. KvTypeOK /\ req[r].token \in Key /\ req[r].time \in 0..(MaxTime + Ttl)
      BY <3>1, BusyTyped DEF TypeOK
    <3>3. UNCHANGED <<kvDisk, now>>
      BY <3>1 DEF PutEntry
    <3> QED
      BY <3>1, <3>2, <3>3, PutEffect
  <2>h. UNCHANGED <<deadline, issued, leaving, ended>>
    BY <1>2 DEF Insert, history
  <2>1. TypeOK'
    BY <2>a, <2>k, <2>h DEF TypeOK
  <2>2. TokensKnown'
    BY <2>g, <2>a, <2>h DEF TokensKnown, LoggingIn
  <2>3. EntriesKnown'
    <3>1. kv'[req[r].token] = SessionOf(req[r].token) /\ deadline[req[r].token] # 0
      BY <2>g, <2>k DEF PointsKnown, Point, LoggingIn, SessionOf
    <3> QED
      BY <2>k, <2>h, <3>1 DEF EntriesKnown, SessionOf
  <2>4. PointsKnown'
    BY <2>g, <2>a, <2>k, <2>h, BusyTyped DEF PointsKnown, Point, TokensKnown, SessionOf, LoggingIn
  <2>5. LogoutFinal'
    BY <2>g, <2>k, <2>h DEF LogoutFinal, TokensKnown, LoggingIn, TypeOK
  <2>6. AcceptedHadSession'
    BY <2>a, <2>h DEF AcceptedHadSession, At
  <2>7. LoginHolds'
    BY <2>g, <2>k, <2>h DEF LoginHolds, PointsKnown, Point, TypeOK
  <2> QED
    BY <2>1, <2>2, <2>3, <2>4, <2>5, <2>6, <2>7
<1>3. ASSUME NEW r \in Request, CommitInsert(r)
      PROVE  AdminInv'
  <2>g. req[r].pc = "commitInsert"
    BY <1>3 DEF CommitInsert, At
  <2>a. /\ req' \in [Request -> Busy \cup {Free}]
        /\ req'[r] = Free
        /\ \A s \in Request \ {r} : req'[s] = req[s]
    BY <1>3, FinishEffect DEF CommitInsert
  <2>k. KvTypeOK' /\ kvDisk' = kv /\ UNCHANGED <<kv, now>>
    BY <1>3 DEF CommitInsert, CommitEntries, TypeOK, KvTypeOK
  <2>h. /\ deadline' = deadline
        /\ issued' = issued \cup {req[r].token}
        /\ leaving' = leaving
        /\ ended' = ended
    BY <1>3 DEF CommitInsert
  <2>1. TypeOK'
    BY <2>g, <2>a, <2>k, <2>h, BusyTyped DEF TypeOK
  <2>2. TokensKnown'
    BY <2>g, <2>a, <2>h DEF TokensKnown, LoggingIn, Free
  <2>3. EntriesKnown'
    <3>1. deadline[req[r].token] # 0
      BY <2>g DEF PointsKnown, Point, LoggingIn
    <3> QED
      BY <2>k, <2>h, <3>1 DEF EntriesKnown, SessionOf
  <2>4. PointsKnown'
    BY <2>a, <2>k, <2>h DEF PointsKnown, Point, SessionOf, LoggingIn, Free
  <2>5. LogoutFinal'
    BY <2>k, <2>h DEF LogoutFinal
  <2>6. AcceptedHadSession'
    BY <2>a, <2>h DEF AcceptedHadSession, Free, At
  <2>7. LoginHolds'
    BY <2>g, <2>k, <2>h DEF LoginHolds, PointsKnown, Point, SessionOf
  <2> QED
    BY <2>1, <2>2, <2>3, <2>4, <2>5, <2>6, <2>7
<1>4. ASSUME NEW r \in Request, NEW k \in Token, Check(r, k)
      PROVE  AdminInv'
  <2>g. req[r].pc = "idle" /\ k \in issued
    BY <1>4 DEF Check, At
  <2> DEFINE b == [pc |-> "select", token |-> k, time |-> now, late |-> IF k \in ended THEN "yes" ELSE "no"]
  <2>b. b \in Busy
    BY DEF Busy, TypeOK, KvTypeOK
  <2>a. /\ req' \in [Request -> Busy \cup {Free}]
        /\ req'[r] = b
        /\ \A s \in Request \ {r} : req'[s] = req[s]
    BY <1>4, <2>b, BeginEffect DEF Check
  <2>k. KvTypeOK' /\ UNCHANGED <<kv, kvDisk, now>>
    BY <1>4 DEF Check, kvVars, TypeOK, KvTypeOK
  <2>h. UNCHANGED <<deadline, issued, leaving, ended>>
    BY <1>4 DEF Check, history
  <2>1. TypeOK'
    BY <2>a, <2>k, <2>h DEF TypeOK
  <2>2. TokensKnown'
    BY <2>g, <2>a, <2>h DEF TokensKnown, LoggingIn
  <2>3. EntriesKnown'
    BY <2>k, <2>h DEF EntriesKnown, SessionOf
  <2>4. PointsKnown'
    <3>1. ASSUME NEW s \in Request, s # r
          PROVE  Point(s)'
      BY <2>a, <2>k, <2>h, <3>1 DEF PointsKnown, Point, LoggingIn, SessionOf
    <3>2. Point(r)'
      BY <2>a, <2>k DEF Point, LoggingIn, KvTypeOK
    <3> QED
      BY <3>1, <3>2 DEF PointsKnown
  <2>5. LogoutFinal'
    BY <2>k, <2>h DEF LogoutFinal
  <2>6. AcceptedHadSession'
    BY <2>a, <2>h DEF AcceptedHadSession, At
  <2>7. LoginHolds'
    BY <2>k, <2>h DEF LoginHolds
  <2> QED
    BY <2>1, <2>2, <2>3, <2>4, <2>5, <2>6, <2>7
<1>5. ASSUME NEW r \in Request, Select(r)
      PROVE  AdminInv'
  <2>g. req[r].pc = "select"
    BY <1>5 DEF Select, At
  <2>a. /\ req' \in [Request -> Busy \cup {Free}]
        /\ \/ kv[req[r].token] = NoEntry /\ req'[r] = Free
           \/ /\ kv[req[r].token] # NoEntry
              /\ req'[r].token = req[r].token
              /\ req'[r].time = req[r].time
              /\ req'[r].late = req[r].late
              /\ \/ req'[r].pc = "deleteExpired" /\ kv[req[r].token].expires_at < req[r].time
                 \/ req'[r].pc = "accepted" /\ ~(kv[req[r].token].expires_at < req[r].time)
        /\ \A s \in Request \ {r} : req'[s] = req[s]
    <3>1. CASE kv[req[r].token] = NoEntry
      BY <1>5, <3>1, FinishEffect DEF Select
    <3>2. CASE kv[req[r].token] # NoEntry /\ PastEnd(kv[req[r].token], req[r].time)
      <4>1. Goto(r, "deleteExpired") /\ ~At(r, "idle")
        BY <1>5, <3>2 DEF Select, At
      <4> QED
        BY <4>1, <3>2, GotoEffect DEF Points, PastEnd
    <3>3. CASE kv[req[r].token] # NoEntry /\ ~PastEnd(kv[req[r].token], req[r].time)
      <4>1. Goto(r, "accepted") /\ ~At(r, "idle")
        BY <1>5, <3>3 DEF Select, At
      <4> QED
        BY <4>1, <3>3, GotoEffect DEF Points, PastEnd
    <3> QED
      BY <3>1, <3>2, <3>3
  <2>k. KvTypeOK' /\ UNCHANGED <<kv, kvDisk, now>>
    BY <1>5 DEF Select, kvVars, TypeOK, KvTypeOK
  <2>h. UNCHANGED <<deadline, issued, leaving, ended>>
    BY <1>5 DEF Select, history
  <2>1. TypeOK'
    BY <2>a, <2>k, <2>h DEF TypeOK
  <2>2. TokensKnown'
    BY <2>g, <2>a, <2>h DEF TokensKnown, LoggingIn, Free
  <2>3. EntriesKnown'
    BY <2>k, <2>h DEF EntriesKnown, SessionOf
  <2>4. PointsKnown'
    BY <2>g, <2>a, <2>k, <2>h, BusyTyped DEF PointsKnown, Point, EntriesKnown, SessionOf, LoggingIn, Free
  <2>5. LogoutFinal'
    BY <2>k, <2>h DEF LogoutFinal
  <2>6. AcceptedHadSession'
    <3>1. ASSUME req'[r].pc = "accepted"
          PROVE  req[r].late = "no" /\ req[r].time <= deadline[req[r].token]
      <4>1. kv[req[r].token] # NoEntry /\ ~(kv[req[r].token].expires_at < req[r].time)
        BY <2>a, <3>1 DEF Free
      <4>2. /\ req[r].token \in Token /\ req[r].time \in Nat
            /\ deadline[req[r].token] \in Nat
            /\ req[r].late \in {"yes", "no"}
        <5>1. req[r] \in Busy
          BY <2>g, BusyTyped
        <5> QED
          BY <5>1 DEF Busy, TypeOK
      <4>3. kv[req[r].token] = SessionOf(req[r].token)
        BY <4>1, <4>2 DEF EntriesKnown
      <4>4. req[r].late # "yes"
        BY <4>1 DEF TokensKnown, LogoutFinal
      <4> QED
        BY <4>1, <4>2, <4>3, <4>4 DEF SessionOf
    <3> QED
      BY <2>a, <2>h, <3>1 DEF AcceptedHadSession, At, Free
  <2>7. LoginHolds'
    BY <2>k, <2>h DEF LoginHolds
  <2> QED
    BY <2>1, <2>2, <2>3, <2>4, <2>5, <2>6, <2>7
<1>6. ASSUME NEW r \in Request, DeleteExpired(r)
      PROVE  AdminInv'
  <2>g. req[r].pc = "deleteExpired"
    BY <1>6 DEF DeleteExpired, At
  <2>a. /\ req' \in [Request -> Busy \cup {Free}]
        /\ req'[r].pc = "commitExpired"
        /\ req'[r].token = req[r].token
        /\ req'[r].time = req[r].time
        /\ req'[r].late = req[r].late
        /\ \A s \in Request \ {r} : req'[s] = req[s]
    BY <1>6, GotoEffect DEF DeleteExpired, At, Points
  <2>k. /\ KvTypeOK'
        /\ kv'[req[r].token] = NoEntry
        /\ \A j \in Token \ {req[r].token} : kv'[j] = kv[j]
        /\ UNCHANGED <<kvDisk, now>>
    <3>1. DropEntry(req[r].token) /\ req[r].pc # "idle"
      BY <1>6 DEF DeleteExpired, At
    <3>2. KvTypeOK /\ req[r].token \in Key
      BY <3>1, BusyTyped DEF TypeOK
    <3>3. UNCHANGED <<kvDisk, now>>
      BY <3>1 DEF DropEntry
    <3> QED
      BY <3>1, <3>2, <3>3, DropEffect
  <2>h. UNCHANGED <<deadline, issued, leaving, ended>>
    BY <1>6 DEF DeleteExpired, history
  <2>1. TypeOK'
    BY <2>a, <2>k, <2>h DEF TypeOK
  <2>2. TokensKnown'
    BY <2>g, <2>a, <2>h DEF TokensKnown, LoggingIn
  <2>3. EntriesKnown'
    BY <2>k, <2>h DEF EntriesKnown, SessionOf
  <2>4. PointsKnown'
    BY <2>g, <2>a, <2>k, <2>h, BusyTyped DEF PointsKnown, Point, TokensKnown, SessionOf, LoggingIn
  <2>5. LogoutFinal'
    BY <2>k, <2>h DEF LogoutFinal, TypeOK
  <2>6. AcceptedHadSession'
    BY <2>a, <2>h DEF AcceptedHadSession, At
  <2>7. LoginHolds'
    <3>1. now \in Nat /\ req[r].time \in Nat /\ deadline[req[r].token] \in Nat
      BY <2>g, BusyTyped DEF TypeOK, KvTypeOK
    <3>2. ~(now <= deadline[req[r].token])
      BY <2>g, <3>1 DEF PointsKnown, Point
    <3> QED
      BY <2>k, <2>h, <3>2 DEF LoginHolds, TypeOK
  <2> QED
    BY <2>1, <2>2, <2>3, <2>4, <2>5, <2>6, <2>7
<1>7. ASSUME NEW r \in Request, CommitExpired(r)
      PROVE  AdminInv'
  <2>g. req[r].pc = "commitExpired"
    BY <1>7 DEF CommitExpired, At
  <2>a. /\ req' \in [Request -> Busy \cup {Free}]
        /\ req'[r] = Free
        /\ \A s \in Request \ {r} : req'[s] = req[s]
    BY <1>7, FinishEffect DEF CommitExpired
  <2>k. KvTypeOK' /\ kvDisk' = kv /\ UNCHANGED <<kv, now>>
    BY <1>7 DEF CommitExpired, CommitEntries, TypeOK, KvTypeOK
  <2>h. UNCHANGED <<deadline, issued, leaving, ended>>
    BY <1>7 DEF CommitExpired, history
  <2>1. TypeOK'
    BY <2>a, <2>k, <2>h DEF TypeOK
  <2>2. TokensKnown'
    BY <2>a, <2>h DEF TokensKnown, LoggingIn, Free
  <2>3. EntriesKnown'
    BY <2>k, <2>h DEF EntriesKnown, SessionOf
  <2>4. PointsKnown'
    BY <2>a, <2>k, <2>h DEF PointsKnown, Point, SessionOf, LoggingIn, Free
  <2>5. LogoutFinal'
    BY <2>k, <2>h DEF LogoutFinal
  <2>6. AcceptedHadSession'
    BY <2>a, <2>h DEF AcceptedHadSession, Free, At
  <2>7. LoginHolds'
    BY <2>k, <2>h DEF LoginHolds
  <2> QED
    BY <2>1, <2>2, <2>3, <2>4, <2>5, <2>6, <2>7
<1>8. ASSUME NEW r \in Request, Served(r)
      PROVE  AdminInv'
  <2>g. req[r].pc = "accepted"
    BY <1>8 DEF Served, At
  <2>a. /\ req' \in [Request -> Busy \cup {Free}]
        /\ req'[r] = Free
        /\ \A s \in Request \ {r} : req'[s] = req[s]
    BY <1>8, FinishEffect DEF Served
  <2>k. KvTypeOK' /\ UNCHANGED <<kv, kvDisk, now>>
    BY <1>8 DEF Served, kvVars, TypeOK, KvTypeOK
  <2>h. UNCHANGED <<deadline, issued, leaving, ended>>
    BY <1>8 DEF Served, history
  <2>1. TypeOK'
    BY <2>a, <2>k, <2>h DEF TypeOK
  <2>2. TokensKnown'
    BY <2>a, <2>h DEF TokensKnown, LoggingIn, Free
  <2>3. EntriesKnown'
    BY <2>k, <2>h DEF EntriesKnown, SessionOf
  <2>4. PointsKnown'
    BY <2>a, <2>k, <2>h DEF PointsKnown, Point, SessionOf, LoggingIn, Free
  <2>5. LogoutFinal'
    BY <2>k, <2>h DEF LogoutFinal
  <2>6. AcceptedHadSession'
    BY <2>a, <2>h DEF AcceptedHadSession, Free, At
  <2>7. LoginHolds'
    BY <2>k, <2>h DEF LoginHolds
  <2> QED
    BY <2>1, <2>2, <2>3, <2>4, <2>5, <2>6, <2>7
<1>9. ASSUME NEW r \in Request, NEW k \in Token, Logout(r, k)
      PROVE  AdminInv'
  <2>g. req[r].pc = "idle" /\ k \in issued
    BY <1>9 DEF Logout, At
  <2> DEFINE b == [pc |-> "deleteSession", token |-> k, time |-> now, late |-> "no"]
  <2>b. b \in Busy
    BY DEF Busy, TypeOK, KvTypeOK
  <2>a. /\ req' \in [Request -> Busy \cup {Free}]
        /\ req'[r] = b
        /\ \A s \in Request \ {r} : req'[s] = req[s]
    BY <1>9, <2>b, BeginEffect DEF Logout
  <2>k. KvTypeOK' /\ UNCHANGED <<kv, kvDisk, now>>
    BY <1>9 DEF Logout, kvVars, TypeOK, KvTypeOK
  <2>h. /\ deadline' = deadline
        /\ issued' = issued
        /\ leaving' = leaving \cup {k}
        /\ ended' = ended
    BY <1>9 DEF Logout
  <2>1. TypeOK'
    BY <2>a, <2>k, <2>h DEF TypeOK
  <2>2. TokensKnown'
    BY <2>g, <2>a, <2>h DEF TokensKnown, LoggingIn
  <2>3. EntriesKnown'
    BY <2>k, <2>h DEF EntriesKnown, SessionOf
  <2>4. PointsKnown'
    BY <2>a, <2>k, <2>h DEF PointsKnown, Point, SessionOf, LoggingIn
  <2>5. LogoutFinal'
    BY <2>k, <2>h DEF LogoutFinal
  <2>6. AcceptedHadSession'
    BY <2>a, <2>h DEF AcceptedHadSession, At
  <2>7. LoginHolds'
    BY <2>k, <2>h DEF LoginHolds
  <2> QED
    BY <2>1, <2>2, <2>3, <2>4, <2>5, <2>6, <2>7
<1>10. ASSUME NEW r \in Request, DeleteSession(r)
      PROVE  AdminInv'
  <2>g. req[r].pc = "deleteSession"
    BY <1>10 DEF DeleteSession, At
  <2>a. /\ req' \in [Request -> Busy \cup {Free}]
        /\ req'[r].pc = "commitLogout"
        /\ req'[r].token = req[r].token
        /\ req'[r].time = req[r].time
        /\ req'[r].late = req[r].late
        /\ \A s \in Request \ {r} : req'[s] = req[s]
    BY <1>10, GotoEffect DEF DeleteSession, At, Points
  <2>k. /\ KvTypeOK'
        /\ kv'[req[r].token] = NoEntry
        /\ \A j \in Token \ {req[r].token} : kv'[j] = kv[j]
        /\ UNCHANGED <<kvDisk, now>>
    <3>1. DropEntry(req[r].token) /\ req[r].pc # "idle"
      BY <1>10 DEF DeleteSession, At
    <3>2. KvTypeOK /\ req[r].token \in Key
      BY <3>1, BusyTyped DEF TypeOK
    <3>3. UNCHANGED <<kvDisk, now>>
      BY <3>1 DEF DropEntry
    <3> QED
      BY <3>1, <3>2, <3>3, DropEffect
  <2>h. UNCHANGED <<deadline, issued, leaving, ended>>
    BY <1>10 DEF DeleteSession, history
  <2>1. TypeOK'
    BY <2>a, <2>k, <2>h DEF TypeOK
  <2>2. TokensKnown'
    BY <2>g, <2>a, <2>h DEF TokensKnown, LoggingIn
  <2>3. EntriesKnown'
    BY <2>k, <2>h DEF EntriesKnown, SessionOf
  <2>4. PointsKnown'
    BY <2>g, <2>a, <2>k, <2>h, BusyTyped DEF PointsKnown, Point, TokensKnown, SessionOf, LoggingIn
  <2>5. LogoutFinal'
    BY <2>k, <2>h DEF LogoutFinal, TypeOK
  <2>6. AcceptedHadSession'
    BY <2>a, <2>h DEF AcceptedHadSession, At
  <2>7. LoginHolds'
    BY <2>g, <2>k, <2>h DEF LoginHolds, PointsKnown, Point, TypeOK
  <2> QED
    BY <2>1, <2>2, <2>3, <2>4, <2>5, <2>6, <2>7
<1>11. ASSUME NEW r \in Request, CommitLogout(r)
      PROVE  AdminInv'
  <2>g. req[r].pc = "commitLogout"
    BY <1>11 DEF CommitLogout, At
  <2>a. /\ req' \in [Request -> Busy \cup {Free}]
        /\ req'[r] = Free
        /\ \A s \in Request \ {r} : req'[s] = req[s]
    BY <1>11, FinishEffect DEF CommitLogout
  <2>k. KvTypeOK' /\ kvDisk' = kv /\ UNCHANGED <<kv, now>>
    BY <1>11 DEF CommitLogout, CommitEntries, TypeOK, KvTypeOK
  <2>h. /\ deadline' = deadline
        /\ issued' = issued
        /\ leaving' = leaving
        /\ ended' = ended \cup {req[r].token}
    BY <1>11 DEF CommitLogout
  <2>1. TypeOK'
    BY <2>g, <2>a, <2>k, <2>h, BusyTyped DEF TypeOK
  <2>2. TokensKnown'
    <3>1. req[r].token \in leaving
      BY <2>g DEF PointsKnown, Point
    <3> QED
      BY <2>a, <2>h, <3>1 DEF TokensKnown, LoggingIn, Free
  <2>3. EntriesKnown'
    BY <2>k, <2>h DEF EntriesKnown, SessionOf
  <2>4. PointsKnown'
    BY <2>a, <2>k, <2>h DEF PointsKnown, Point, SessionOf, LoggingIn, Free
  <2>5. LogoutFinal'
    BY <2>g, <2>k, <2>h DEF LogoutFinal, PointsKnown, Point
  <2>6. AcceptedHadSession'
    BY <2>a, <2>h DEF AcceptedHadSession, Free, At
  <2>7. LoginHolds'
    BY <2>k, <2>h DEF LoginHolds
  <2> QED
    BY <2>1, <2>2, <2>3, <2>4, <2>5, <2>6, <2>7
<1>12. ASSUME OtherCommit
      PROVE  AdminInv'
  <2>a. req' = req
    BY <1>12 DEF OtherCommit
  <2>k. KvTypeOK' /\ kvDisk' = kv /\ UNCHANGED <<kv, now>>
    BY <1>12 DEF OtherCommit, CommitEntries, TypeOK, KvTypeOK
  <2>h. UNCHANGED <<deadline, issued, leaving, ended>>
    BY <1>12 DEF OtherCommit, history
  <2>1. TypeOK'
    BY <2>a, <2>k, <2>h DEF TypeOK
  <2>2. TokensKnown'
    BY <2>a, <2>h DEF TokensKnown, LoggingIn
  <2>3. EntriesKnown'
    BY <2>k, <2>h DEF EntriesKnown, SessionOf
  <2>4. PointsKnown'
    BY <2>a, <2>k, <2>h DEF PointsKnown, Point, SessionOf, LoggingIn
  <2>5. LogoutFinal'
    BY <2>k, <2>h DEF LogoutFinal
  <2>6. AcceptedHadSession'
    BY <2>a, <2>h DEF AcceptedHadSession, At
  <2>7. LoginHolds'
    BY <2>k, <2>h DEF LoginHolds
  <2> QED
    BY <2>1, <2>2, <2>3, <2>4, <2>5, <2>6, <2>7
<1>13. ASSUME Clock
      PROVE  AdminInv'
  <2>a. req' = req
    BY <1>13 DEF Clock
  <2>k. KvTypeOK' /\ now' = now + 1 /\ UNCHANGED <<kv, kvDisk>>
    BY <1>13 DEF Clock, Tick, TypeOK, KvTypeOK
  <2>h. UNCHANGED <<deadline, issued, leaving, ended>>
    BY <1>13 DEF Clock, history
  <2>1. TypeOK'
    BY <2>a, <2>k, <2>h DEF TypeOK
  <2>2. TokensKnown'
    BY <2>a, <2>h DEF TokensKnown, LoggingIn
  <2>3. EntriesKnown'
    BY <2>k, <2>h DEF EntriesKnown, SessionOf
  <2>4. PointsKnown'
    <3>1. ASSUME NEW s \in Request
          PROVE  Point(s)'
      <4>1. Point(s) /\ now \in Nat
        BY DEF PointsKnown, TypeOK, KvTypeOK
      <4>2. req[s].pc # "idle" => req[s].time \in Nat
        BY BusyTyped
      <4> QED
        BY <2>a, <2>k, <2>h, <4>1, <4>2 DEF Point, LoggingIn, SessionOf
    <3> QED
      BY <3>1 DEF PointsKnown
  <2>5. LogoutFinal'
    BY <2>k, <2>h DEF LogoutFinal
  <2>6. AcceptedHadSession'
    BY <2>a, <2>h DEF AcceptedHadSession, At
  <2>7. LoginHolds'
    <3>1. ASSUME NEW j \in issued \ leaving, now' <= deadline[j]
          PROVE  now <= deadline[j]
      BY <2>k, <3>1 DEF TypeOK, KvTypeOK
    <3> QED
      BY <2>k, <2>h, <3>1 DEF LoginHolds
  <2> QED
    BY <2>1, <2>2, <2>3, <2>4, <2>5, <2>6, <2>7
<1>14. ASSUME Crash
      PROVE  AdminInv'
  <2>a. req' = [r \in Request |-> Free]
    BY <1>14 DEF Crash
  <2>k. KvTypeOK' /\ kv' = kvDisk /\ UNCHANGED <<kvDisk, now>>
    BY <1>14 DEF Crash, LoseUncommitted, TypeOK, KvTypeOK
  <2>h. UNCHANGED <<deadline, issued, leaving, ended>>
    BY <1>14 DEF Crash, history
  <2>1. TypeOK'
    BY <2>a, <2>k, <2>h DEF TypeOK
  <2>2. TokensKnown'
    BY <2>a, <2>h DEF TokensKnown, LoggingIn, Free
  <2>3. EntriesKnown'
    BY <2>k, <2>h DEF EntriesKnown, SessionOf
  <2>4. PointsKnown'
    BY <2>a DEF PointsKnown, Point, LoggingIn, Free
  <2>5. LogoutFinal'
    BY <2>k, <2>h DEF LogoutFinal
  <2>6. AcceptedHadSession'
    BY <2>a DEF AcceptedHadSession, Free, At
  <2>7. LoginHolds'
    BY <2>k, <2>h DEF LoginHolds
  <2> QED
    BY <2>1, <2>2, <2>3, <2>4, <2>5, <2>6, <2>7
<1>15. CASE UNCHANGED vars
  BY <1>15 DEF vars, TypeOK, TokensKnown, EntriesKnown, PointsKnown, Point, LogoutFinal, AcceptedHadSession, LoginHolds, LoggingIn, SessionOf, KvTypeOK, At
<1> QED
  BY <1>1, <1>2, <1>3, <1>4, <1>5, <1>6, <1>7, <1>8, <1>9, <1>10, <1>11, <1>12, <1>13, <1>14, <1>15 DEF Next

\* An empty table without requests satisfies it.
LEMMA AdminStart == Init => AdminInv
<1> SUFFICES ASSUME Init
             PROVE  AdminInv
  OBVIOUS
<1> USE DEF Init, KvInit
<1>1. TypeOK
  BY DEF TypeOK, KvTypeOK
<1>2. TokensKnown /\ PointsKnown /\ AcceptedHadSession
  BY DEF TokensKnown, PointsKnown, Point, AcceptedHadSession, LoggingIn, Free, At
<1>3. EntriesKnown /\ LogoutFinal /\ LoginHolds
  BY DEF EntriesKnown, LogoutFinal, LoginHolds
<1> QED
  BY <1>1, <1>2, <1>3 DEF AdminInv

\* So it holds in every reachable state.
LEMMA AdminInvHolds == Spec => []AdminInv
BY AdminStart, AdminStep, PTL DEF Spec
-----------------------------------------------------------------------------
\* The table, the requests under way and the history stay well formed.
THEOREM AdminTyped == Spec => []TypeOK
BY AdminInvHolds, PTL DEF AdminInv

\* No check, no other request and no crash brings back a session whose logout
\* was answered (delete_session, delete_admin_session).
THEOREM LogoutIsFinal == Spec => []LogoutFinal
BY AdminInvHolds, PTL DEF AdminInv

\* Every request let in had a session that was neither logged out nor over
\* when its check began (get_session, get_admin_session).
THEOREM AcceptedSessions == Spec => []AcceptedHadSession
BY AdminInvHolds, PTL DEF AdminInv

\* An answered login survives every other request and every crash, until its
\* time is over or a logout is asked for (create_session, save_admin_session).
THEOREM LoginsHold == Spec => []LoginHolds
BY AdminInvHolds, PTL DEF AdminInv
=============================================================================
