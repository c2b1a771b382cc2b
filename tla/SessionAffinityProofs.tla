------------------------ MODULE SessionAffinityProofs ------------------------
(* Theorems about SessionAffinity for every value of its constants. *)
EXTENDS SessionAffinity, TLAPS

\* The binding a session's proxy stands for.
BindingTo(p, t) == [value |-> p, expires_at |-> t]

\* A busy call has seen every proxy that is good, and what it binds or answers
\* passes its filters and was good.
Answering(c) ==
    /\ \A p \in ProxyId : Good(p) => p \in call[c].seenGood
    /\ call[c].pc \in {"bind", "commitBind", "answered"} =>
          call[c].proxy \in {NoProxy} \cup (call[c].matching \cap call[c].seenGood)
    /\ call[c].pc \in {"pinned", "bind", "commitBind"} => call[c].proxy # NoProxy

AnswersKnown == \A c \in Call : ~At(c, "idle") => Answering(c)

\* A call that is alone is the only one of its session.
AloneIsAlone ==
    \A c \in Call : ~At(c, "idle") /\ call[c].alone = "yes" =>
        \A d \in Call \ {c} : call[d].session # call[c].session

\* What of a session is not on disk yet is about to be committed by a call of it.
UnsavedIsHeld ==
    \A s \in Session : kv[s] # kvDisk[s] =>
        \E c \in Call : call[c].session = s /\ call[c].pc \in {"commitBind", "commitExpired"}

\* A call that is alone follows the binding that is in the table.
FollowsBinding(c) ==
    call[c].pc \in {"pinned", "commitBind"} \/ (At(c, "answered") /\ call[c].proxy # NoProxy)

BindingsFollowed ==
    \A c \in Call : FollowsBinding(c) /\ call[c].alone = "yes" =>
        kv[call[c].session] = BindingTo(call[c].proxy, call[c].time)

\* A session that counts on its proxy has it in the table and on disk, it is good
\* and within its time, and the call of the session finds it.
CountsOn(s) == pin[s].alone = "yes" /\ pin[s].proxy # NoProxy

OnItsWay(c, s) ==
    /\ call[c].alone = "yes"
    /\ pin[s].proxy \in call[c].matching
    /\ call[c].pc \in {"lookup", "pinned", "answered"}
    /\ At(c, "lookup") => call[c].time <= now
    /\ ~At(c, "lookup") => call[c].proxy = pin[s].proxy

PinHolds(s) ==
    /\ kv[s] = BindingTo(pin[s].proxy, pin[s].until)
    /\ kvDisk[s] = kv[s]
    /\ now <= pin[s].until
    /\ Good(pin[s].proxy)
    /\ \A c \in Call : call[c].session = s => OnItsWay(c, s)

PinsHold == \A s \in Session : CountsOn(s) => PinHolds(s)

AffinityInv ==
    /\ TypeOK
    /\ AnswersKnown
    /\ AloneIsAlone
    /\ UnsavedIsHeld
    /\ BindingsFollowed
    /\ PinsHold

USE KvAssumption, AffinityAssumption DEF Session, ProxyId, NoProxy

Points == {"lookup", "deleteExpired", "commitExpired", "pinned", "elite", "checked",
           "bind", "commitBind", "answered"}

Times == 0..(MaxTime + Ttl)

\* A call that is not idle is well formed, an idle one has no session.
LEMMA BusyTyped ==
    ASSUME TypeOK, NEW c \in Call
    PROVE  /\ ~At(c, "idle") => /\ call[c] \in Busy
                                /\ call[c].session \in Session
                                /\ call[c].matching \subseteq ProxyId
                                /\ call[c].seenGood \subseteq ProxyId
                                /\ call[c].proxy \in ProxyId \cup {NoProxy}
                                /\ call[c].time \in Times
                                /\ call[c].alone \in {"yes", "no"}
           /\ call[c].pc \in Points \cup {"idle"}
           /\ At(c, "idle") => call[c] = Free
           /\ call[c].session \in Session <=> ~At(c, "idle")
BY DEF TypeOK, Busy, Free, At, Points, Times

\* The time of a binding written now is in range.
LEMMA TimesTyped ==
    ASSUME TypeOK
    PROVE  now \in Times /\ now + Ttl \in Times /\ now \in Nat
BY DEF TypeOK, KvTypeOK, Times

\* What a step of call c does to the calls: c moves on to pc with proxy p and time t.
Moved(c, pc, p, t) ==
    /\ call' \in [Call -> Busy \cup {Free}]
    /\ call'[c].pc = pc
    /\ call'[c].proxy = p
    /\ call'[c].time = t
    /\ call'[c].session = call[c].session
    /\ call'[c].matching = call[c].matching
    /\ call'[c].seenGood = call[c].seenGood
    /\ call'[c].alone = call[c].alone
    /\ \A d \in Call \ {c} : call'[d] = call[d]

\* A call that moves on keeps all that its step does not name.
LEMMA MoveEffect ==
    ASSUME TypeOK, NEW c \in Call, ~At(c, "idle"), NEW pc \in Points,
           NEW p \in ProxyId \cup {NoProxy}, NEW t \in Times,
           call' = [call EXCEPT ![c].pc = pc, ![c].proxy = p, ![c].time = t]
    PROVE  Moved(c, pc, p, t)
<1>1. call[c] \in Busy
  BY BusyTyped
<1>2. [call[c] EXCEPT !.pc = pc, !.proxy = p, !.time = t] \in Busy
  BY <1>1 DEF Busy, Points, Times
<1>3. call'[c] = [call[c] EXCEPT !.pc = pc, !.proxy = p, !.time = t]
  BY DEF TypeOK
<1> QED
  BY <1>1, <1>2, <1>3 DEF TypeOK, Moved, Busy

\* Goto is such a step: it names the program point only.
LEMMA GotoEffect ==
    ASSUME TypeOK, NEW c \in Call, ~At(c, "idle"), NEW pc \in Points, Goto(c, pc)
    PROVE  Moved(c, pc, call[c].proxy, call[c].time)
<1>1. call[c] \in Busy
  BY BusyTyped
<1>2. [call[c] EXCEPT !.pc = pc] \in Busy
  BY <1>1 DEF Busy, Points
<1>3. call'[c] = [call[c] EXCEPT !.pc = pc]
  BY DEF TypeOK, Goto
<1> QED
  BY <1>1, <1>2, <1>3 DEF TypeOK, Moved, Busy, Goto

\* A step of one call leaves the others as alone as they were, and what it answers
\* is in order when what it chose is.
LEMMA MovedKeeps ==
    ASSUME AffinityInv, NEW c \in Call, ~At(c, "idle"), NEW pc \in Points,
           NEW p \in ProxyId \cup {NoProxy}, NEW t \in Times, Moved(c, pc, p, t),
           UNCHANGED pool,
           pc \in {"bind", "commitBind", "answered"} =>
               p \in {NoProxy} \cup (call[c].matching \cap call[c].seenGood),
           pc \in {"pinned", "bind", "commitBind"} => p # NoProxy
    PROVE  AloneIsAlone' /\ AnswersKnown'
<1> USE DEF AffinityInv
<1>1. pc # "idle"
  BY DEF Points
<1>2. AloneIsAlone'
  BY <1>1 DEF AloneIsAlone, Moved, At
<1>3. AnswersKnown'
  <2> SUFFICES ASSUME NEW d \in Call, ~At(d, "idle")'
               PROVE  Answering(d)'
    BY DEF AnswersKnown
  <2>1. CASE d = c
    <3>1. Answering(c)
      BY DEF AnswersKnown
    <3> QED
      BY <2>1, <3>1 DEF Answering, Moved, Good
  <2>2. CASE d # c
    <3>1. call'[d] = call[d] /\ Answering(d)
      BY <2>2 DEF AnswersKnown, Moved, At
    <3> QED
      BY <3>1 DEF Answering, Good
  <2> QED
    BY <2>1, <2>2
<1> QED
  BY <1>2, <1>3

\* A step that leaves the table alone, or touches only the entry of its own
\* session, keeps what is said of the other calls.
LEMMA MovedFollows ==
    ASSUME AffinityInv, NEW c \in Call, ~At(c, "idle"), NEW pc \in Points,
           NEW p \in ProxyId \cup {NoProxy}, NEW t \in Times, Moved(c, pc, p, t),
           \A s \in Session \ {call[c].session} : kv'[s] = kv[s],
           call[c].alone = "yes" /\ (pc \in {"pinned", "commitBind"} \/ (pc = "answered" /\ p # NoProxy))
               => kv'[call[c].session] = BindingTo(p, t)
    PROVE  BindingsFollowed'
<1> USE DEF AffinityInv
<1> SUFFICES ASSUME NEW d \in Call, FollowsBinding(d)', (call[d].alone = "yes")'
             PROVE  (kv[call[d].session] = BindingTo(call[d].proxy, call[d].time))'
  BY DEF BindingsFollowed
<1>1. CASE d = c
  BY <1>1 DEF FollowsBinding, BindingTo, Moved, At
<1>2. CASE d # c
  <2>1. call'[d] = call[d]
    BY <1>2 DEF Moved
  <2>2. FollowsBinding(d) /\ call[d].alone = "yes" /\ ~At(d, "idle")
    BY <2>1 DEF FollowsBinding, At
  <2>3. call[d].session \in Session \ {call[c].session}
    BY <1>2, <2>2, BusyTyped DEF AloneIsAlone
  <2>4. kv[call[d].session] = BindingTo(call[d].proxy, call[d].time)
    BY <2>2 DEF BindingsFollowed
  <2> QED
    BY <2>1, <2>3, <2>4 DEF BindingTo
<1> QED
  BY <1>1, <1>2

\* A session that counts on its proxy still does, when a step leaves its entry alone
\* and a call of the session stays on its way.
LEMMA MovedHolds ==
    ASSUME AffinityInv, NEW c \in Call, ~At(c, "idle"), NEW pc \in Points,
           NEW p \in ProxyId \cup {NoProxy}, NEW t \in Times, Moved(c, pc, p, t),
           UNCHANGED <<pool, pin, now>>,
           \A s \in Session : CountsOn(s) => kv'[s] = kv[s] /\ kvDisk'[s] = kvDisk[s],
           CountsOn(call[c].session) =>
               pc \in {"pinned", "answered"} /\ p = pin[call[c].session].proxy
    PROVE  PinsHold'
<1> USE DEF AffinityInv
<1> SUFFICES ASSUME NEW s \in Session, CountsOn(s)
             PROVE  PinHolds(s)'
  BY DEF PinsHold, CountsOn
<1>1. PinHolds(s)
  BY DEF PinsHold
<1>2. ASSUME NEW d \in Call, (call[d].session = s)'
      PROVE  OnItsWay(d, s)'
  <2>1. call[d].session = s
    BY <1>2 DEF Moved
  <2>2. OnItsWay(d, s)
    BY <1>1, <2>1 DEF PinHolds
  <2>3. CASE d = c
    BY <2>1, <2>2, <2>3 DEF OnItsWay, Moved, At
  <2>4. CASE d # c
    BY <2>2, <2>4 DEF OnItsWay, Moved, At
  <2> QED
    BY <2>3, <2>4
<1> QED
  BY <1>1, <1>2 DEF PinHolds, BindingTo, Good

\* A call of a session that counts on its proxy is on its way to it.
LEMMA CallsOnTheirWay ==
    ASSUME AffinityInv, NEW c \in Call, CountsOn(call[c].session), ~At(c, "idle")
    PROVE  OnItsWay(c, call[c].session) /\ PinHolds(call[c].session)
BY BusyTyped DEF AffinityInv, PinsHold, PinHolds

\* A step that touches neither the table nor an uncommitted call leaves what is
\* not on disk yet in the same hands.
LEMMA MovedUnsaved ==
    ASSUME AffinityInv, NEW c \in Call, NEW pc \in Points,
           NEW p \in ProxyId \cup {NoProxy}, NEW t \in Times, Moved(c, pc, p, t),
           UNCHANGED kvVars, call[c].pc \notin {"commitBind", "commitExpired"}
    PROVE  UnsavedIsHeld'
BY DEF AffinityInv, UnsavedIsHeld, Moved, kvVars

\* After a commit nothing is unsaved.
LEMMA CommitSaves ==
    ASSUME TypeOK, CommitEntries
    PROVE  UnsavedIsHeld' /\ KvTypeOK'
BY DEF TypeOK, KvTypeOK, CommitEntries, UnsavedIsHeld

\* A written entry, and only it, is not on disk yet; its call commits it next.
LEMMA WrittenIsHeld ==
    ASSUME AffinityInv, NEW c \in Call, ~At(c, "idle"), NEW pc \in {"commitBind", "commitExpired"},
           NEW p \in ProxyId \cup {NoProxy}, NEW t \in Times, Moved(c, pc, p, t),
           call[c].pc \notin {"commitBind", "commitExpired"},
           \A s \in Session \ {call[c].session} : kv'[s] = kv[s], UNCHANGED kvDisk
    PROVE  UnsavedIsHeld'
<1> SUFFICES ASSUME NEW s \in Session, kv'[s] # kvDisk'[s]
             PROVE  \E d \in Call : call'[d].session = s /\ call'[d].pc \in {"commitBind", "commitExpired"}
  BY DEF UnsavedIsHeld
<1>1. CASE s = call[c].session
  BY <1>1 DEF Moved
<1>2. CASE s # call[c].session
  <2>1. PICK d \in Call : call[d].session = s /\ call[d].pc \in {"commitBind", "commitExpired"}
    BY <1>2 DEF AffinityInv, UnsavedIsHeld
  <2> QED
    BY <2>1 DEF Moved
<1> QED
  BY <1>1, <1>2

\* Every statement of every call keeps the invariant.
LEMMA AffinityStep == AffinityInv /\ [Next]_vars => AffinityInv'
<1> SUFFICES ASSUME AffinityInv, [Next]_vars
             PROVE  AffinityInv'
  OBVIOUS
<1> USE DEF AffinityInv
<1>1. ASSUME NEW c \in Call, NEW s \in Session, NEW matching \in SUBSET ProxyId, Start(c, s, matching)
      PROVE  AffinityInv'
  <2> DEFINE others == {d \in Call : call[d].session = s}
             alone == IF others = {} THEN "yes" ELSE "no"
             b == [pc |-> "lookup", session |-> s, matching |-> matching, time |-> now,
                   proxy |-> NoProxy, seenGood |-> {p \in ProxyId : Good(p)}, alone |-> alone]
  <2>g. At(c, "idle") /\ c \notin others /\ UNCHANGED <<kv, kvDisk, now, pool>>
    BY <1>1, BusyTyped DEF Start, kvVars
  <2>b. b \in Busy
    BY TimesTyped DEF Busy, Times
  <2>c. /\ call'[c] = b
        /\ \A d \in others : call'[d] = [call[d] EXCEPT !.alone = "no"]
        /\ \A d \in Call \ {c} : d \notin others => call'[d] = call[d]
        /\ DOMAIN call' = Call
    BY <1>1, <2>g DEF Start
  <2>d. \A d \in others : call'[d] \in Busy /\ ~At(d, "idle")
    BY <2>c, BusyTyped DEF Busy
  <2>f. \A d \in Call \ {c} :
           /\ call'[d].pc = call[d].pc /\ call'[d].session = call[d].session
           /\ call'[d].matching = call[d].matching /\ call'[d].time = call[d].time
           /\ call'[d].proxy = call[d].proxy /\ call'[d].seenGood = call[d].seenGood
           /\ call'[d].alone = IF d \in others THEN "no" ELSE call[d].alone
    BY <2>c, <2>d, BusyTyped DEF Busy
  <2>t. call' \in [Call -> Busy \cup {Free}]
    <3>1. \A d \in Call : call'[d] \in Busy \cup {Free}
      BY <2>b, <2>c, <2>d DEF TypeOK
    <3>2. call' = [d \in Call |-> call'[d]]
      BY <1>1 DEF Start
    <3> HIDE DEF b
    <3> QED
      BY <3>1, <3>2
  <2>k. KvTypeOK' /\ pool' \in [ProxyId -> PoolOf]
    BY <2>g DEF TypeOK, KvTypeOK
  <2>p. /\ pin' \in [Session -> [proxy : ProxyId \cup {NoProxy}, until : Times, alone : {"yes", "no"}]]
        /\ \A r \in Session \ {s} : pin'[r] = pin[r]
        /\ CountsOn(s)' => /\ CountsOn(s) /\ others = {} /\ pin[s].proxy \in matching
                           /\ pin'[s].proxy = pin[s].proxy /\ pin'[s].until = pin[s].until
    <3>1. pin' = [pin EXCEPT ![s] = IF pin[s].proxy \notin matching THEN NoPin
                                    ELSE IF alone = "yes" THEN pin[s] ELSE [pin[s] EXCEPT !.alone = "no"]]
      BY <1>1 DEF Start
    <3>2. NoPin \in [proxy : ProxyId \cup {NoProxy}, until : Times, alone : {"yes", "no"}]
      BY DEF NoPin, Times
    <3>3. pin[s] \in [proxy : ProxyId \cup {NoProxy}, until : Times, alone : {"yes", "no"}]
      BY DEF TypeOK, Times
    <3>4. [pin[s] EXCEPT !.alone = "no"] \in [proxy : ProxyId \cup {NoProxy}, until : Times, alone : {"yes", "no"}]
      BY <3>3
    <3>5. CASE pin[s].proxy \notin matching
      BY <3>1, <3>2, <3>5 DEF TypeOK, CountsOn, NoPin, Times
    <3>6. CASE pin[s].proxy \in matching /\ alone = "yes"
      BY <3>1, <3>3, <3>6 DEF TypeOK, CountsOn, Times
    <3>7. CASE pin[s].proxy \in matching /\ alone # "yes"
      BY <3>1, <3>3, <3>4, <3>7 DEF TypeOK, CountsOn, Times
    <3> QED
      BY <3>5, <3>6, <3>7
  <2>1. AnswersKnown'
    <3> SUFFICES ASSUME NEW d \in Call, ~At(d, "idle")'
                 PROVE  Answering(d)'
      BY DEF AnswersKnown
    <3>1. CASE d = c
      BY <2>c, <2>g, <3>1 DEF Answering, Good
    <3>2. CASE d # c
      BY <2>f, <2>g, <3>2 DEF AnswersKnown, Answering, Good, At
    <3> QED
      BY <3>1, <3>2
  <2>2. AloneIsAlone'
    <3> SUFFICES ASSUME NEW d \in Call, ~At(d, "idle")', (call[d].alone = "yes")',
                        NEW e \in Call \ {d}
                 PROVE  call'[e].session # call'[d].session
      BY DEF AloneIsAlone
    <3>1. CASE d = c
      BY <2>c, <2>f, <3>1
    <3>2. CASE d # c /\ e = c
      BY <2>c, <2>f, <3>2
    <3>3. CASE d # c /\ e # c
      BY <2>f, <3>3 DEF AloneIsAlone, At
    <3> QED
      BY <3>1, <3>2, <3>3
  <2>3. UnsavedIsHeld'
    <3> SUFFICES ASSUME NEW r \in Session, kv[r] # kvDisk[r]
                 PROVE  \E d \in Call : call'[d].session = r /\ call'[d].pc \in {"commitBind", "commitExpired"}
      BY <2>g DEF UnsavedIsHeld
    <3>1. PICK d \in Call : call[d].session = r /\ call[d].pc \in {"commitBind", "commitExpired"}
      BY DEF UnsavedIsHeld
    <3> QED
      BY <2>f, <2>g, <3>1 DEF At
  <2>4. BindingsFollowed'
    <3> SUFFICES ASSUME NEW d \in Call, FollowsBinding(d)', (call[d].alone = "yes")'
                 PROVE  (kv[call[d].session] = BindingTo(call[d].proxy, call[d].time))'
      BY DEF BindingsFollowed
    <3>1. d # c
      BY <2>c DEF FollowsBinding, At
    <3> QED
      BY <2>f, <2>g, <3>1 DEF BindingsFollowed, FollowsBinding, BindingTo, At
  <2>5. PinsHold'
    <3> SUFFICES ASSUME NEW r \in Session, CountsOn(r)'
                 PROVE  PinHolds(r)'
      BY DEF PinsHold
    <3>1. CountsOn(r) /\ PinHolds(r) /\ pin'[r].proxy = pin[r].proxy /\ pin'[r].until = pin[r].until
      BY <2>p DEF PinsHold, CountsOn
    <3>2. ASSUME NEW d \in Call, (call[d].session = r)'
          PROVE  OnItsWay(d, r)'
      <4>1. CASE d = c
        <5>1. r = s
          BY <2>c, <3>2, <4>1
        <5>2. now \in Nat /\ others = {} /\ pin[s].proxy \in matching
          BY <2>p, <5>1, TimesTyped
        <5> QED
          BY <2>c, <2>g, <3>1, <4>1, <5>1, <5>2 DEF OnItsWay, At
      <4>2. CASE d # c
        <5>1. d \notin others
          BY <2>f, <2>p, <3>2, <4>2
        <5>2. OnItsWay(d, r)
          BY <2>f, <3>1, <3>2, <4>2 DEF PinHolds
        <5> QED
          BY <2>f, <2>g, <3>1, <4>2, <5>1, <5>2 DEF OnItsWay, At
      <4> QED
        BY <4>1, <4>2
    <3> QED
      BY <2>g, <3>1, <3>2 DEF PinHolds, BindingTo, Good
  <2> QED
    BY <2>t, <2>k, <2>p, <2>1, <2>2, <2>3, <2>4, <2>5 DEF TypeOK, Times
<1>2. ASSUME NEW c \in Call, Lookup(c)
      PROVE  AffinityInv'
  <2> DEFINE entry == kv[call[c].session]
  <2>g. At(c, "lookup") /\ ~At(c, "idle") /\ UNCHANGED <<kv, kvDisk, now, pool, pin>>
    BY <1>2 DEF Lookup, At, kvVars
  <2>k. KvTypeOK'
    BY <2>g DEF TypeOK, KvTypeOK
  <2>e. entry \in Entry \cup {NoEntry}
    BY <2>g, BusyTyped DEF TypeOK, KvTypeOK
  <2>o. CountsOn(call[c].session) => /\ entry = BindingTo(pin[call[c].session].proxy, pin[call[c].session].until)
                                     /\ entry # NoEntry /\ ~PastEnd(entry, call[c].time)
    <3> SUFFICES ASSUME CountsOn(call[c].session)
                 PROVE  /\ entry = BindingTo(pin[call[c].session].proxy, pin[call[c].session].until)
                        /\ entry # NoEntry /\ ~PastEnd(entry, call[c].time)
      OBVIOUS
    <3>1. OnItsWay(c, call[c].session) /\ PinHolds(call[c].session)
      BY <2>g, CallsOnTheirWay
    <3>2. call[c].time \in Nat /\ now \in Nat /\ pin[call[c].session].until \in Nat
      BY <2>g, BusyTyped DEF TypeOK, KvTypeOK, Times
    <3> QED
      BY <2>g, <3>1, <3>2 DEF OnItsWay, PinHolds, PastEnd, BindingTo, NoEntry, CountsOn
  <2>1. ASSUME NEW pc \in {"elite", "deleteExpired"}, Goto(c, pc), ~CountsOn(call[c].session)
        PROVE  AffinityInv'
    <3>1. Moved(c, pc, call[c].proxy, call[c].time) /\ pc \in Points
      BY <2>1, <2>g, GotoEffect DEF Points
    <3>2. call[c].proxy \in ProxyId \cup {NoProxy} /\ call[c].time \in Times
      BY <2>g, BusyTyped
    <3>3. AloneIsAlone' /\ AnswersKnown'
      BY <2>1, <2>g, <3>1, <3>2, MovedKeeps
    <3>4. BindingsFollowed'
      BY <2>1, <2>g, <3>1, <3>2, MovedFollows
    <3>5. PinsHold'
      BY <2>1, <2>g, <3>1, <3>2, MovedHolds
    <3>6. UnsavedIsHeld'
      BY <2>g, <3>1, <3>2, MovedUnsaved DEF At, kvVars
    <3> QED
      BY <2>k, <2>g, <3>1, <3>3, <3>4, <3>5, <3>6 DEF TypeOK, Moved
  <2>2. CASE entry = NoEntry
    BY <1>2, <2>1, <2>2, <2>o DEF Lookup
  <2>3. CASE entry # NoEntry /\ PastEnd(entry, call[c].time)
    BY <1>2, <2>1, <2>3, <2>o DEF Lookup
  <2>4. CASE entry # NoEntry /\ ~PastEnd(entry, call[c].time)
    <3>0. entry \in Entry /\ entry.value \in ProxyId /\ entry.expires_at \in Times
      BY <2>4, <2>e DEF Entry, Times
    <3>1. Moved(c, "pinned", entry.value, entry.expires_at)
      BY <1>2, <2>4, <2>g, <3>0, MoveEffect DEF Lookup, Points
    <3>2. "pinned" \in Points /\ entry.value # NoProxy
      BY <3>0 DEF Points
    <3>3. AloneIsAlone' /\ AnswersKnown'
      BY <2>g, <3>0, <3>1, <3>2, MovedKeeps
    <3>b. entry = BindingTo(entry.value, entry.expires_at)
      BY <3>0 DEF Entry, BindingTo
    <3>4. BindingsFollowed'
      BY <2>g, <3>0, <3>1, <3>2, <3>b, MovedFollows
    <3>p. CountsOn(call[c].session) => entry.value = pin[call[c].session].proxy
      BY <2>o DEF BindingTo
    <3>5. PinsHold'
      BY <2>g, <3>0, <3>1, <3>2, <3>p, MovedHolds
    <3>6. UnsavedIsHeld'
      BY <2>g, <3>0, <3>1, <3>2, MovedUnsaved DEF At, kvVars
    <3> QED
      BY <2>k, <2>g, <3>1, <3>3, <3>4, <3>5, <3>6 DEF TypeOK, Moved
  <2> QED
    BY <2>2, <2>3, <2>4
<1>3. ASSUME NEW c \in Call, DeleteExpired(c)
      PROVE  AffinityInv'
  <2>g. At(c, "deleteExpired") /\ ~At(c, "idle") /\ UNCHANGED <<kvDisk, now, pool, pin>>
    BY <1>3 DEF DeleteExpired, DropEntry, At
  <2>s. call[c].session \in Session /\ call[c].proxy \in ProxyId \cup {NoProxy} /\ call[c].time \in Times
    BY <2>g, BusyTyped
  <2>k. KvTypeOK' /\ \A s \in Session \ {call[c].session} : kv'[s] = kv[s]
    BY <1>3, <2>s DEF DeleteExpired, DropEntry, TypeOK, KvTypeOK
  <2>o. ~CountsOn(call[c].session)
    BY <2>g, CallsOnTheirWay DEF OnItsWay, At
  <2>1. Moved(c, "commitExpired", call[c].proxy, call[c].time) /\ "commitExpired" \in Points
    BY <1>3, <2>g, GotoEffect DEF DeleteExpired, Points
  <2>2. AloneIsAlone' /\ AnswersKnown'
    BY <2>1, <2>g, <2>s, MovedKeeps
  <2>3. BindingsFollowed'
    BY <2>1, <2>g, <2>s, <2>k, MovedFollows
  <2>4. PinsHold'
    BY <2>1, <2>g, <2>s, <2>k, <2>o, MovedHolds
  <2>5. UnsavedIsHeld'
    BY <2>1, <2>g, <2>s, <2>k, WrittenIsHeld DEF At
  <2> QED
    BY <2>1, <2>g, <2>k, <2>2, <2>3, <2>4, <2>5 DEF TypeOK, Moved
<1>4. ASSUME NEW c \in Call, CommitExpired(c)
      PROVE  AffinityInv'
  <2>g. At(c, "commitExpired") /\ ~At(c, "idle") /\ UNCHANGED <<kv, now, pool, pin>>
    BY <1>4 DEF CommitExpired, CommitEntries, At
  <2>s. call[c].session \in Session /\ call[c].proxy \in ProxyId \cup {NoProxy} /\ call[c].time \in Times
    BY <2>g, BusyTyped
  <2>k. KvTypeOK' /\ UnsavedIsHeld' /\ kvDisk' = kv
    BY <1>4, CommitSaves DEF CommitExpired, CommitEntries
  <2>o. ~CountsOn(call[c].session)
    BY <2>g, CallsOnTheirWay DEF OnItsWay, At
  <2>h. \A s \in Session : CountsOn(s) => kvDisk'[s] = kvDisk[s]
    BY <2>k DEF PinsHold, PinHolds
  <2>1. Moved(c, "elite", call[c].proxy, call[c].time) /\ "elite" \in Points
    BY <1>4, <2>g, GotoEffect DEF CommitExpired, Points
  <2>2. AloneIsAlone' /\ AnswersKnown'
    BY <2>1, <2>g, <2>s, MovedKeeps
  <2>3. BindingsFollowed'
    BY <2>1, <2>g, <2>s, MovedFollows
  <2>4. PinsHold'
    BY <2>1, <2>g, <2>s, <2>h, <2>o, MovedHolds
  <2> QED
    BY <2>1, <2>g, <2>k, <2>2, <2>3, <2>4 DEF TypeOK, Moved
<1>5. ASSUME NEW c \in Call, Pinned(c)
      PROVE  AffinityInv'
  <2> DEFINE p == call[c].proxy
             pc == IF Good(p) /\ p \in call[c].matching THEN "answered" ELSE "elite"
  <2>g. At(c, "pinned") /\ ~At(c, "idle") /\ UNCHANGED <<kv, kvDisk, now, pool, pin>>
    BY <1>5 DEF Pinned, At, kvVars
  <2>s. call[c].session \in Session /\ p \in ProxyId \cup {NoProxy} /\ call[c].time \in Times
    BY <2>g, BusyTyped
  <2>k. KvTypeOK'
    BY <2>g DEF TypeOK, KvTypeOK
  <2>1. Moved(c, pc, p, call[c].time) /\ pc \in Points
    BY <1>5, <2>g, GotoEffect DEF Pinned, Points
  <2>a. p # NoProxy /\ (pc = "answered" => p \in call[c].matching \cap call[c].seenGood)
    BY <2>g, <2>s DEF AnswersKnown, Answering, At
  <2>2. AloneIsAlone' /\ AnswersKnown'
    <3> HIDE DEF p, pc
    <3> QED
      BY <2>1, <2>g, <2>s, <2>a, MovedKeeps DEF p, pc
  <2>f. call[c].alone = "yes" => kv[call[c].session] = BindingTo(p, call[c].time)
    BY <2>g DEF BindingsFollowed, FollowsBinding, At
  <2>3. BindingsFollowed'
    BY <2>1, <2>g, <2>s, <2>f, MovedFollows
  <2>o. CountsOn(call[c].session) => pc = "answered" /\ p = pin[call[c].session].proxy
    BY <2>g, CallsOnTheirWay DEF OnItsWay, PinHolds, At
  <2>4. PinsHold'
    BY <2>1, <2>g, <2>s, <2>o, MovedHolds
  <2>5. UnsavedIsHeld'
    BY <2>1, <2>g, <2>s, MovedUnsaved DEF At, kvVars
  <2> QED
    BY <2>1, <2>g, <2>k, <2>2, <2>3, <2>4, <2>5 DEF TypeOK, Moved
<1>6. ASSUME NEW c \in Call, NEW i \in DOMAIN SelectionPools, Choose(c, i)
      PROVE  AffinityInv'
  <2> DEFINE found == {p \in call[c].matching : pool[p] = SelectionPools[i]}
  <2>i. /\ i \in {1, 2} /\ SelectionPools[i] \in {"elite", "checked"} /\ Len(SelectionPools) = 2
        /\ i < Len(SelectionPools) => SelectionPools[i + 1] = "checked"
    BY DEF SelectionPools
  <2>g. call[c].pc \in {"elite", "checked"} /\ ~At(c, "idle") /\ UNCHANGED <<kv, kvDisk, now, pool, pin>>
    BY <1>6, <2>i DEF Choose, At, kvVars
  <2>s. /\ call[c].session \in Session /\ call[c].proxy \in ProxyId \cup {NoProxy} /\ call[c].time \in Times
        /\ call[c].matching \subseteq ProxyId
    BY <2>g, BusyTyped
  <2>k. KvTypeOK'
    BY <2>g DEF TypeOK, KvTypeOK
  <2>o. ~CountsOn(call[c].session)
    BY <2>g, CallsOnTheirWay DEF OnItsWay
  <2>1. ASSUME NEW pc \in Points, NEW p \in ProxyId \cup {NoProxy}, NEW t \in Times, Moved(c, pc, p, t),
               pc \notin {"pinned", "commitBind"}, pc = "answered" => p = NoProxy,
               pc = "bind" => p \in found
        PROVE  AffinityInv'
    <3>1. pc = "bind" => p \in call[c].matching \cap call[c].seenGood /\ p # NoProxy
      BY <2>1, <2>g, <2>s, <2>i DEF AnswersKnown, Answering, Good
    <3>2. AloneIsAlone' /\ AnswersKnown'
      BY <2>1, <2>g, <3>1, MovedKeeps
    <3>3. BindingsFollowed'
      BY <2>1, <2>g, MovedFollows
    <3>4. PinsHold'
      BY <2>1, <2>g, <2>o, MovedHolds
    <3>5. UnsavedIsHeld'
      BY <2>1, <2>g, MovedUnsaved DEF kvVars
    <3> QED
      BY <2>1, <2>g, <2>k, <3>2, <3>3, <3>4, <3>5 DEF TypeOK, Moved
  <2>2. CASE found # {}
    <3>1. PICK p \in found : call' = [call EXCEPT ![c].pc = "bind", ![c].proxy = p, ![c].time = now + Ttl]
      BY <1>6, <2>2 DEF Choose
    <3>2. "bind" \in Points /\ p \in ProxyId \cup {NoProxy} /\ now + Ttl \in Times
      BY <2>s, TimesTyped DEF Points
    <3>3. Moved(c, "bind", p, now + Ttl)
      BY <2>g, <3>1, <3>2, MoveEffect
    <3> QED
      BY <2>1, <3>2, <3>3
  <2>3. CASE found = {} /\ i < Len(SelectionPools)
    <3>1. Goto(c, "checked") /\ "checked" \in Points
      BY <1>6, <2>3, <2>i DEF Choose, Points
    <3>2. Moved(c, "checked", call[c].proxy, call[c].time)
      BY <2>g, <3>1, GotoEffect
    <3> QED
      BY <2>1, <2>s, <3>1, <3>2
  <2>4. CASE found = {} /\ ~(i < Len(SelectionPools))
    <3>1. call' = [call EXCEPT ![c].pc = "answered", ![c].proxy = NoProxy] /\ "answered" \in Points
      BY <1>6, <2>4 DEF Choose, Points
    <3>2. Moved(c, "answered", NoProxy, call[c].time)
      <4>1. call[c] \in Busy /\ call'[c] = [call[c] EXCEPT !.pc = "answered", !.proxy = NoProxy]
        BY <2>g, <3>1, BusyTyped DEF TypeOK
      <4>2. call'[c] \in Busy
        BY <4>1 DEF Busy
      <4> QED
        BY <3>1, <4>1, <4>2 DEF TypeOK, Moved, Busy
    <3> QED
      BY <2>1, <2>s, <3>1, <3>2
  <2> QED
    BY <2>2, <2>3, <2>4
<1>7. ASSUME NEW c \in Call, Bind(c)
      PROVE  AffinityInv'
  <2> DEFINE p == call[c].proxy  t == call[c].time
  <2>g. At(c, "bind") /\ ~At(c, "idle") /\ UNCHANGED <<kvDisk, now, pool, pin>>
    BY <1>7 DEF Bind, PutEntry, At
  <2>a. p \in call[c].matching \cap call[c].seenGood /\ p # NoProxy
    BY <2>g DEF AnswersKnown, Answering, At
  <2>s. call[c].session \in Session /\ p \in ProxyId /\ t \in Times
    BY <2>g, <2>a, BusyTyped
  <2>k. /\ KvTypeOK'
        /\ \A s \in Session \ {call[c].session} : kv'[s] = kv[s]
        /\ kv'[call[c].session] = BindingTo(p, t)
    BY <1>7, <2>s DEF Bind, PutEntry, TypeOK, KvTypeOK, Entry, BindingTo, Times
  <2>o. ~CountsOn(call[c].session)
    BY <2>g, CallsOnTheirWay DEF OnItsWay, At
  <2>1. Moved(c, "commitBind", p, t) /\ "commitBind" \in Points
    BY <1>7, <2>g, GotoEffect DEF Bind, Points
  <2>2. AloneIsAlone' /\ AnswersKnown'
    BY <2>1, <2>g, <2>s, <2>a, MovedKeeps
  <2>3. BindingsFollowed'
    BY <2>1, <2>g, <2>s, <2>k, MovedFollows
  <2>4. PinsHold'
    BY <2>1, <2>g, <2>s, <2>k, <2>o, MovedHolds
  <2>5. UnsavedIsHeld'
    BY <2>1, <2>g, <2>s, <2>k, WrittenIsHeld DEF At
  <2> QED
    BY <2>1, <2>g, <2>k, <2>2, <2>3, <2>4, <2>5 DEF TypeOK, Moved
<1>8. ASSUME NEW c \in Call, CommitBind(c)
      PROVE  AffinityInv'
  <2> DEFINE p == call[c].proxy  t == call[c].time
  <2>g. At(c, "commitBind") /\ ~At(c, "idle") /\ UNCHANGED <<kv, now, pool, pin>>
    BY <1>8 DEF CommitBind, CommitEntries, At
  <2>s. call[c].session \in Session /\ p \in ProxyId \cup {NoProxy} /\ t \in Times
    BY <2>g, BusyTyped
  <2>a. p \in {NoProxy} \cup (call[c].matching \cap call[c].seenGood)
    BY <2>g DEF AnswersKnown, Answering, At
  <2>k. KvTypeOK' /\ UnsavedIsHeld' /\ kvDisk' = kv
    BY <1>8, CommitSaves DEF CommitBind, CommitEntries
  <2>o. ~CountsOn(call[c].session)
    BY <2>g, CallsOnTheirWay DEF OnItsWay, At
  <2>h. \A s \in Session : CountsOn(s) => kvDisk'[s] = kvDisk[s]
    BY <2>k DEF PinsHold, PinHolds
  <2>1. Moved(c, "answered", p, t) /\ "answered" \in Points
    BY <1>8, <2>g, GotoEffect DEF CommitBind, Points
  <2>2. AloneIsAlone' /\ AnswersKnown'
    BY <2>1, <2>g, <2>s, <2>a, MovedKeeps
  <2>f. call[c].alone = "yes" => kv[call[c].session] = BindingTo(p, t)
    BY <2>g DEF BindingsFollowed, FollowsBinding, At
  <2>3. BindingsFollowed'
    BY <2>1, <2>g, <2>s, <2>f, MovedFollows
  <2>4. PinsHold'
    BY <2>1, <2>g, <2>s, <2>h, <2>o, MovedHolds
  <2> QED
    BY <2>1, <2>g, <2>k, <2>2, <2>3, <2>4 DEF TypeOK, Moved
<1>9. ASSUME NEW c \in Call, Answer(c)
      PROVE  AffinityInv'
  <2> DEFINE s == call[c].session  p == call[c].proxy
             counted == [proxy |-> p, until |-> call[c].time, alone |-> call[c].alone]
             off == p = NoProxy \/ ~Good(p) \/ call[c].time < now
  <2>g. At(c, "answered") /\ ~At(c, "idle") /\ UNCHANGED <<kv, kvDisk, now, pool>>
    BY <1>9 DEF Answer, At, kvVars
  <2>s. s \in Session /\ p \in ProxyId \cup {NoProxy} /\ call[c].time \in Times /\ call[c].alone \in {"yes", "no"}
    BY <2>g, BusyTyped
  <2>c. /\ call' \in [Call -> Busy \cup {Free}]
        /\ call'[c] = Free
        /\ \A d \in Call \ {c} : call'[d] = call[d]
    BY <1>9 DEF Answer, TypeOK
  <2>k. KvTypeOK' /\ pool' \in [ProxyId -> PoolOf]
    BY <2>g DEF TypeOK, KvTypeOK
  <2>p. /\ pin' \in [Session -> [proxy : ProxyId \cup {NoProxy}, until : Times, alone : {"yes", "no"}]]
        /\ \A r \in Session \ {s} : pin'[r] = pin[r]
        /\ pin'[s] = IF off THEN NoPin ELSE counted
    <3>1. pin' = [pin EXCEPT ![s] = IF off THEN NoPin ELSE counted]
      BY <1>9 DEF Answer
    <3>2. NoPin \in [proxy : ProxyId \cup {NoProxy}, until : Times, alone : {"yes", "no"}]
      BY DEF NoPin, Times
    <3>3. counted \in [proxy : ProxyId \cup {NoProxy}, until : Times, alone : {"yes", "no"}]
      BY <2>s
    <3> HIDE DEF counted, off, s, p
    <3> QED
      BY <2>s, <3>1, <3>2, <3>3 DEF TypeOK, Times
  <2>1. AnswersKnown'
    BY <2>c, <2>g DEF AnswersKnown, Answering, Good, At, Free
  <2>2. AloneIsAlone'
    BY <2>c, BusyTyped DEF AloneIsAlone, At, Free
  <2>3. UnsavedIsHeld'
    BY <2>c, <2>g DEF UnsavedIsHeld, At
  <2>4. BindingsFollowed'
    BY <2>c, <2>g DEF BindingsFollowed, FollowsBinding, BindingTo, At, Free
  <2>5. PinsHold'
    <3> SUFFICES ASSUME NEW r \in Session, CountsOn(r)'
                 PROVE  PinHolds(r)'
      BY DEF PinsHold
    <3>1. CASE r # s
      <4>1. PinHolds(r)
        BY <2>p, <3>1 DEF PinsHold, CountsOn
      <4>2. pin'[r] = pin[r]
        BY <2>p, <3>1
      <4>3. ASSUME NEW d \in Call, (call[d].session = r)'
            PROVE  OnItsWay(d, r)'
        <5>1. d # c
          BY <2>c, <4>3 DEF Free
        <5> QED
          BY <2>c, <2>g, <4>1, <4>2, <4>3, <5>1 DEF PinHolds, OnItsWay, At
      <4> QED
        BY <2>g, <4>1, <4>2, <4>3 DEF PinHolds, BindingTo, Good
    <3>2. CASE r = s
      <4>1. ~off /\ call[c].alone = "yes" /\ pin'[s] = counted
        BY <2>p, <3>2 DEF CountsOn, NoPin
      <4>2. kv[s] = BindingTo(p, call[c].time)
        BY <2>g, <4>1 DEF BindingsFollowed, FollowsBinding
      <4>3. \A d \in Call \ {c} : call[d].session # s
        BY <2>g, <4>1 DEF AloneIsAlone
      <4>4. kvDisk[s] = kv[s]
        BY <2>g, <2>s, <4>3 DEF UnsavedIsHeld, At
      <4>5. \A d \in Call : call'[d].session # s
        BY <2>c, <2>s, <4>3 DEF Free
      <4>6. now <= call[c].time
        BY <2>s, <4>1, TimesTyped DEF Times
      <4> QED
        BY <2>g, <3>2, <4>1, <4>2, <4>4, <4>5, <4>6 DEF PinHolds, BindingTo, Good
    <3> QED
      BY <3>1, <3>2
  <2> QED
    BY <2>c, <2>k, <2>p, <2>1, <2>2, <2>3, <2>4, <2>5 DEF TypeOK, Times
<1>10. ASSUME NEW p \in ProxyId, NEW to \in PoolOf, Repool(p, to)
       PROVE  AffinityInv'
  <2>g. UNCHANGED <<kv, kvDisk, now>> /\ pool' = [pool EXCEPT ![p] = to]
    BY <1>10 DEF Repool, kvVars
  <2>k. KvTypeOK' /\ pool' \in [ProxyId -> PoolOf]
    BY <2>g DEF TypeOK, KvTypeOK
  <2>c. /\ call' \in [Call -> Busy \cup {Free}]
        /\ \A d \in Call : /\ call'[d].pc = call[d].pc /\ call'[d].session = call[d].session
                           /\ call'[d].matching = call[d].matching /\ call'[d].time = call[d].time
                           /\ call'[d].proxy = call[d].proxy /\ call'[d].alone = call[d].alone
                           /\ call[d].seenGood \subseteq call'[d].seenGood
                           /\ to # "other" /\ ~At(d, "idle") => p \in call'[d].seenGood
    <3>1. CASE to = "other"
      BY <1>10, <3>1 DEF Repool, TypeOK
    <3>2. CASE to # "other"
      <4>1. /\ DOMAIN call' = Call
            /\ call' = [d \in Call |-> call'[d]]
            /\ \A d \in Call : call'[d] = IF At(d, "idle") THEN call[d]
                                           ELSE [call[d] EXCEPT !.seenGood = call[d].seenGood \cup {p}]
        BY <1>10, <3>2 DEF Repool
      <4>2. \A d \in Call : ~At(d, "idle") => [call[d] EXCEPT !.seenGood = call[d].seenGood \cup {p}] \in Busy
        BY BusyTyped DEF Busy
      <4>3. \A d \in Call : call'[d] \in Busy \cup {Free}
        BY <4>1, <4>2 DEF TypeOK
      <4>4. \A d \in Call : ~At(d, "idle") =>
               /\ call'[d].pc = call[d].pc /\ call'[d].session = call[d].session
               /\ call'[d].matching = call[d].matching /\ call'[d].time = call[d].time
               /\ call'[d].proxy = call[d].proxy /\ call'[d].alone = call[d].alone
               /\ call'[d].seenGood = call[d].seenGood \cup {p}
        BY <4>1, BusyTyped DEF Busy
      <4>5. \A d \in Call : At(d, "idle") => call'[d] = call[d]
        BY <4>1
      <4>6. call' \in [Call -> Busy \cup {Free}]
        BY <4>1, <4>3
      <4> QED
        BY <4>4, <4>5, <4>6
    <3> QED
      BY <3>1, <3>2
  <2>p. /\ pin' \in [Session -> [proxy : ProxyId \cup {NoProxy}, until : Times, alone : {"yes", "no"}]]
        /\ \A r \in Session : CountsOn(r)' => /\ CountsOn(r) /\ pin'[r] = pin[r]
                                              /\ to # "other" \/ pin[r].proxy # p
    <3>1. NoPin \in [proxy : ProxyId \cup {NoProxy}, until : Times, alone : {"yes", "no"}]
      BY DEF NoPin, Times
    <3>2. CASE to # "other"
      BY <1>10, <3>2 DEF Repool, TypeOK, CountsOn, Times
    <3>3. CASE to = "other"
      <4>1. pin' = [r \in Session |-> IF pin[r].proxy = p THEN NoPin ELSE pin[r]]
        BY <1>10, <3>3 DEF Repool
      <4>2. \A r \in Session : CountsOn(r)' => pin'[r] = pin[r] /\ pin[r].proxy # p
        BY <4>1 DEF CountsOn, NoPin
      <4> QED
        BY <3>1, <4>1, <4>2 DEF TypeOK, CountsOn, Times
    <3> QED
      BY <3>2, <3>3
  <2>1. AnswersKnown'
    <3> SUFFICES ASSUME NEW d \in Call, ~At(d, "idle")'
                 PROVE  Answering(d)'
      BY DEF AnswersKnown
    <3>1. ~At(d, "idle") /\ Answering(d)
      BY <2>c DEF AnswersKnown, At
    <3>2. \A q \in ProxyId : Good(q)' => q \in call'[d].seenGood
      BY <2>c, <2>g, <3>1 DEF Answering, Good, TypeOK
    <3> QED
      BY <2>c, <3>1, <3>2 DEF Answering, Good
  <2>2. AloneIsAlone'
    BY <2>c DEF AloneIsAlone, At
  <2>3. UnsavedIsHeld'
    BY <2>c, <2>g DEF UnsavedIsHeld
  <2>4. BindingsFollowed'
    BY <2>c, <2>g DEF BindingsFollowed, FollowsBinding, BindingTo, At
  <2>5. PinsHold'
    <3> SUFFICES ASSUME NEW r \in Session, CountsOn(r)'
                 PROVE  PinHolds(r)'
      BY DEF PinsHold
    <3>1. PinHolds(r) /\ pin'[r] = pin[r] /\ (to # "other" \/ pin[r].proxy # p)
      BY <2>p DEF PinsHold
    <3>2. pin[r].proxy \in ProxyId /\ Good(pin[r].proxy)'
      <4>1. pin[r].proxy \in ProxyId
        BY <2>p DEF TypeOK, CountsOn
      <4> QED
        BY <2>g, <3>1, <4>1 DEF PinHolds, Good, TypeOK
    <3>3. ASSUME NEW d \in Call, (call[d].session = r)'
          PROVE  OnItsWay(d, r)'
      BY <2>c, <2>g, <3>1, <3>3 DEF PinHolds, OnItsWay, At
    <3> QED
      BY <2>g, <3>1, <3>2, <3>3 DEF PinHolds, BindingTo, Good
  <2> QED
    BY <2>c, <2>k, <2>p, <2>1, <2>2, <2>3, <2>4, <2>5 DEF TypeOK, Times
<1>11. ASSUME Clock
       PROVE  AffinityInv'
  <2>g. UNCHANGED <<kv, kvDisk, pool, call>> /\ now' = now + 1 /\ now < MaxTime /\ now \in Nat
    BY <1>11, TimesTyped DEF Clock, Tick
  <2>k. KvTypeOK'
    BY <2>g DEF TypeOK, KvTypeOK
  <2>p. /\ pin' \in [Session -> [proxy : ProxyId \cup {NoProxy}, until : Times, alone : {"yes", "no"}]]
        /\ \A r \in Session : CountsOn(r)' => pin'[r] = pin[r] /\ ~(pin[r].until < now + 1)
    <3>1. pin' = [r \in Session |-> IF pin[r].until < now + 1 THEN NoPin ELSE pin[r]]
      BY <1>11 DEF Clock
    <3>2. NoPin \in [proxy : ProxyId \cup {NoProxy}, until : Times, alone : {"yes", "no"}]
      BY DEF NoPin, Times
    <3>3. \A r \in Session : CountsOn(r)' => pin'[r] = pin[r] /\ ~(pin[r].until < now + 1)
      BY <3>1 DEF CountsOn, NoPin
    <3> QED
      BY <3>1, <3>2, <3>3 DEF TypeOK, Times
  <2>1. AnswersKnown' /\ AloneIsAlone' /\ UnsavedIsHeld' /\ BindingsFollowed'
    BY <2>g DEF AnswersKnown, Answering, AloneIsAlone, UnsavedIsHeld, BindingsFollowed, FollowsBinding,
                BindingTo, Good, At
  <2>2. PinsHold'
    <3> SUFFICES ASSUME NEW r \in Session, CountsOn(r)'
                 PROVE  PinHolds(r)'
      BY DEF PinsHold
    <3>1. PinHolds(r) /\ pin'[r] = pin[r] /\ ~(pin[r].until < now + 1)
      BY <2>p DEF PinsHold, CountsOn
    <3>2. pin[r].until \in Nat
      BY DEF TypeOK, Times
    <3>3. now' <= pin'[r].until
      BY <2>g, <3>1, <3>2
    <3>4. ASSUME NEW d \in Call, (call[d].session = r)'
          PROVE  OnItsWay(d, r)'
      <4>1. OnItsWay(d, r) /\ ~At(d, "idle")
        BY <2>g, <3>1, <3>4 DEF PinHolds, OnItsWay, At
      <4>2. call[d].time \in Nat
        BY <4>1, BusyTyped DEF Times
      <4> QED
        BY <2>g, <3>1, <4>1, <4>2 DEF OnItsWay, At
    <3> QED
      BY <2>g, <3>1, <3>3, <3>4 DEF PinHolds, BindingTo, Good
  <2> QED
    BY <2>g, <2>k, <2>p, <2>1, <2>2 DEF TypeOK, Times
<1>12. ASSUME OtherCommit
       PROVE  AffinityInv'
  <2>g. UNCHANGED <<kv, now, pool, call, pin>> /\ kvDisk' = kv
    BY <1>12 DEF OtherCommit, CommitEntries
  <2>k. UnsavedIsHeld' /\ KvTypeOK'
    BY <1>12, CommitSaves DEF OtherCommit
  <2>1. AnswersKnown' /\ AloneIsAlone' /\ BindingsFollowed'
    BY <2>g DEF AnswersKnown, Answering, AloneIsAlone, BindingsFollowed, FollowsBinding, BindingTo, Good, At
  <2>2. PinsHold'
    BY <2>g DEF PinsHold, PinHolds, OnItsWay, CountsOn, BindingTo, Good, At
  <2> QED
    BY <2>g, <2>k, <2>1, <2>2 DEF TypeOK
<1>13. ASSUME Crash
       PROVE  AffinityInv'
  <2>g. UNCHANGED <<kvDisk, now, pool, pin>> /\ kv' = kvDisk /\ call' = [c \in Call |-> Free]
    BY <1>13 DEF Crash, LoseUncommitted
  <2>k. KvTypeOK' /\ UnsavedIsHeld'
    BY <2>g DEF TypeOK, KvTypeOK, UnsavedIsHeld
  <2>1. AnswersKnown' /\ AloneIsAlone' /\ BindingsFollowed'
    BY <2>g DEF AnswersKnown, AloneIsAlone, BindingsFollowed, FollowsBinding, Free, At
  <2>2. PinsHold'
    <3> SUFFICES ASSUME NEW r \in Session, CountsOn(r)
                 PROVE  PinHolds(r)'
      BY <2>g DEF PinsHold, CountsOn
    <3>1. PinHolds(r)
      BY DEF PinsHold
    <3>2. \A c \in Call : call'[c].session # r
      BY <2>g DEF Free
    <3> QED
      BY <2>g, <3>1, <3>2 DEF PinHolds, BindingTo, Good
  <2> QED
    BY <2>g, <2>k, <2>1, <2>2 DEF TypeOK
<1>14. CASE UNCHANGED vars
  BY <1>14 DEF vars, TypeOK, KvTypeOK, AnswersKnown, Answering, AloneIsAlone, UnsavedIsHeld,
     BindingsFollowed, FollowsBinding, PinsHold, PinHolds, OnItsWay, CountsOn, BindingTo, Good, At
<1> QED
  BY <1>1, <1>2, <1>3, <1>4, <1>5, <1>6, <1>7, <1>8, <1>9, <1>10, <1>11, <1>12, <1>13, <1>14 DEF Next

\* No call is under way in an initial state, and the table is empty.
LEMMA AffinityStart == Init => AffinityInv
<1> SUFFICES ASSUME Init
             PROVE  AffinityInv
  OBVIOUS
<1>1. TypeOK
  BY DEF Init, KvInit, TypeOK, KvTypeOK, NoPin
<1>2. AnswersKnown /\ AloneIsAlone /\ BindingsFollowed
  BY DEF Init, AnswersKnown, AloneIsAlone, BindingsFollowed, FollowsBinding, Free, At
<1>3. UnsavedIsHeld /\ PinsHold
  BY DEF Init, KvInit, UnsavedIsHeld, PinsHold, CountsOn, NoPin
<1> QED
  BY <1>1, <1>2, <1>3 DEF AffinityInv

\* The invariant holds in every reachable state.
LEMMA AffinityInvariant == Spec => []AffinityInv
<1>1. Init => AffinityInv
  BY AffinityStart
<1>2. AffinityInv /\ [Next]_vars => AffinityInv'
  BY AffinityStep
<1> QED
  BY <1>1, <1>2, PTL DEF Spec

\* The bindings, the pools, the calls under way and the history stay well formed.
THEOREM AffinityTyped == Spec => []TypeOK
<1>1. AffinityInv => TypeOK
  BY DEF AffinityInv
<1> QED
  BY <1>1, AffinityInvariant, PTL

\* No call answers a proxy that fails its filters or that was in no selection pool
\* at any moment of the call, whatever binding it found (_get_session_proxy).
THEOREM AnswersGood == Spec => []AnswersGoodProxy
<1>1. AffinityInv => AnswersGoodProxy
  BY DEF AffinityInv, AnswersKnown, Answering, AnswersGoodProxy, At
<1> QED
  BY <1>1, AffinityInvariant, PTL

\* Calls of one session that do not overlap stay on their proxy, crashes included,
\* for any number of sessions, proxies and calls (bind_session_proxy).
THEOREM SerialCallsStick == Spec => []SerialCallsSticky
<1>1. AffinityInv => SerialCallsSticky
  <2> SUFFICES ASSUME AffinityInv, NEW c \in Call, At(c, "answered"),
                      CountsOn(call[c].session)
               PROVE  call[c].proxy = pin[call[c].session].proxy
    BY DEF SerialCallsSticky, CountsOn
  <2>1. OnItsWay(c, call[c].session)
    BY CallsOnTheirWay DEF At
  <2> QED
    BY <2>1 DEF OnItsWay, At
<1> QED
  BY <1>1, AffinityInvariant, PTL
=============================================================================
