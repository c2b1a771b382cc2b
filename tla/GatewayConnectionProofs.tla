----------------------- MODULE GatewayConnectionProofs -----------------------
(* Theorems about GatewayConnection, for any number of chunks. *)
EXTENDS GatewayConnection, TLAPS

\* What the handler's place implies.
Phases ==
    /\ transport["client"] # "none"
    /\ pc \in {"request", "select", "dial"} => transport["upstream"] = "none"
    /\ pc \in {"handshake", "granted", "relay"} => transport["upstream"] # "none"
    /\ pc \notin {"relay", "ended"} => answer = "none" /\ \A s \in Side : pipe[s] = "none"
    /\ pc = "relay" => \A s \in Side : pipe[s] # "none"
    /\ pc = "ended" => \A s \in Side : pipe[s] \in {"none", "done"}
    /\ pc = "ended" /\ answer = "established" => \A s \in Side : pipe[s] = "done"

\* No chunk is read before it came or delivered before it was read, and what
\* is read for a peer that never left reaches it.
Counts ==
    \A s \in Side :
        /\ taken[s] <= fed[s] /\ fed[s] <= sent[s]
        /\ got[Other(s)] <= taken[s]
        /\ peer[Other(s)] = "open" => got[Other(s)] = taken[s]

\* The gateway's view of a side has a reason: the peer, the pipe that writes to
\* it, or the end of the handler.
Reasons ==
    \A s \in Side :
        /\ heard[s] = "error" => peer[s] = "gone"
        /\ heard[s] = "eof" =>
              \/ peer[s] = "gone" \/ (peer[s] = "eof" /\ fed[s] = sent[s])
              \/ pipe[Other(s)] = "done" \/ pc = "ended"
        /\ transport[s] \in {"closing", "closed"} =>
              peer[s] = "gone" \/ pipe[Other(s)] = "done" \/ pc = "ended"
        /\ pipe[s] = "done" => transport[Other(s)] # "open"

\* A pipe has ended: some peer is gone, or one has sent its last chunk and all
\* its chunks were read.
Ended(s) == peer[s] = "gone" \/ (pipe[s] = "done" /\ peer[s] = "eof" /\ taken[s] = sent[s])
FirstCause == (\E s \in Side : pipe[s] = "done") => \E s \in Side : Ended(s)

GatewayInv == TypeOK /\ Phases /\ Counts /\ Reasons /\ FirstCause /\ UpstreamReleased

USE SentAssumption

\* The peers, the streams and the pipes.
LEMMA SidesKeep ==
    ASSUME GatewayInv, NEW side \in Side,
           \/ Send(side) \/ (\E how \in {"eof", "gone"} : Leave(side, how))
           \/ Receive(side) \/ HearEof(side) \/ Lose(side) \/ Closed(side)
           \/ Pump(side) \/ Drained(side) \/ PipeEnd(side)
    PROVE  GatewayInv'
<1>1. ASSUME NEW s \in Side, Send(s)
      PROVE  GatewayInv'
  <2>1. TypeOK'
    BY <1>1 DEF GatewayInv, TypeOK, Send, flowVars
  <2>2. Phases'
    BY <1>1 DEF GatewayInv, Phases, Send
  <2>3. Counts'
    BY <1>1 DEF GatewayInv, TypeOK, Counts, Send, flowVars
  <2>4. Reasons'
    BY <1>1 DEF GatewayInv, Reasons, Send, flowVars
  <2>5. FirstCause'
    BY <1>1 DEF GatewayInv, FirstCause, Ended, Send, flowVars
  <2>6. UpstreamReleased'
    BY <1>1 DEF GatewayInv, UpstreamReleased, Send
  <2> QED
    BY <2>1, <2>2, <2>3, <2>4, <2>5, <2>6 DEF GatewayInv
<1>2. ASSUME NEW s \in Side, NEW how \in {"eof", "gone"}, Leave(s, how)
      PROVE  GatewayInv'
  <2>1. TypeOK'
    BY <1>2 DEF GatewayInv, TypeOK, Leave, flowVars
  <2>2. Phases'
    BY <1>2 DEF GatewayInv, Phases, Leave
  <2>3. Counts'
    BY <1>2 DEF GatewayInv, Counts, Leave, flowVars
  <2>4. Reasons'
    BY <1>2 DEF GatewayInv, Reasons, Leave, flowVars
  <2>5. FirstCause'
    BY <1>2 DEF GatewayInv, FirstCause, Ended, Leave, flowVars
  <2>6. UpstreamReleased'
    BY <1>2 DEF GatewayInv, UpstreamReleased, Leave
  <2> QED
    BY <2>1, <2>2, <2>3, <2>4, <2>5, <2>6 DEF GatewayInv
<1>3. ASSUME NEW s \in Side, Receive(s)
      PROVE  GatewayInv'
  <2>1. TypeOK'
    BY <1>3 DEF GatewayInv, TypeOK, Receive, peerVars
  <2>2. Phases'
    BY <1>3 DEF GatewayInv, Phases, Receive
  <2>3. Counts'
    BY <1>3 DEF GatewayInv, TypeOK, Counts, Receive, peerVars
  <2>4. Reasons'
    BY <1>3 DEF GatewayInv, TypeOK, Reasons, Receive, peerVars
  <2>5. FirstCause'
    BY <1>3 DEF GatewayInv, FirstCause, Ended, Receive, peerVars
  <2>6. UpstreamReleased'
    BY <1>3 DEF GatewayInv, UpstreamReleased, Receive
  <2> QED
    BY <2>1, <2>2, <2>3, <2>4, <2>5, <2>6 DEF GatewayInv
<1>4. ASSUME NEW s \in Side, HearEof(s)
      PROVE  GatewayInv'
  <2>1. TypeOK'
    BY <1>4 DEF GatewayInv, TypeOK, HearEof, peerVars, flowVars
  <2>2. Phases'
    BY <1>4 DEF GatewayInv, Phases, HearEof
  <2>3. Counts'
    BY <1>4 DEF GatewayInv, Counts, HearEof, peerVars, flowVars
  <2>4. Reasons'
    BY <1>4 DEF GatewayInv, Reasons, HearEof, peerVars, flowVars
  <2>5. FirstCause'
    BY <1>4 DEF GatewayInv, FirstCause, Ended, HearEof, peerVars, flowVars
  <2>6. UpstreamReleased'
    BY <1>4 DEF GatewayInv, UpstreamReleased, HearEof
  <2> QED
    BY <2>1, <2>2, <2>3, <2>4, <2>5, <2>6 DEF GatewayInv
<1>5. ASSUME NEW s \in Side, Lose(s)
      PROVE  GatewayInv'
  <2>1. TypeOK'
    BY <1>5 DEF GatewayInv, TypeOK, Lose, peerVars, flowVars
  <2>2. Phases'
    BY <1>5 DEF GatewayInv, Phases, Lose
  <2>3. Counts'
    BY <1>5 DEF GatewayInv, Counts, Lose, peerVars, flowVars
  <2>4. Reasons'
    BY <1>5 DEF GatewayInv, Reasons, Lose, peerVars, flowVars
  <2>5. FirstCause'
    BY <1>5 DEF FirstCause, Ended, Lose, peerVars
  <2>6. UpstreamReleased'
    BY <1>5 DEF GatewayInv, UpstreamReleased, Lose
  <2> QED
    BY <2>1, <2>2, <2>3, <2>4, <2>5, <2>6 DEF GatewayInv
<1>6. ASSUME NEW s \in Side, Pump(s)
      PROVE  GatewayInv'
  <2>1. TypeOK'
    BY <1>6 DEF GatewayInv, TypeOK, Counts, Side, Other, Pump, peerVars
  <2>2. Phases'
    BY <1>6 DEF GatewayInv, Phases, Pump
  <2>3. Counts'
    BY <1>6 DEF GatewayInv, TypeOK, Phases, Counts, Reasons, Side, Other, Pump, peerVars
  <2>4. Reasons'
    BY <1>6 DEF GatewayInv, Reasons, Pump, peerVars
  <2>5. FirstCause'
    BY <1>6 DEF GatewayInv, TypeOK, Phases, Reasons, FirstCause, Ended, Side, Other, Pump, peerVars
  <2>6. UpstreamReleased'
    BY <1>6 DEF GatewayInv, UpstreamReleased, Pump
  <2> QED
    BY <2>1, <2>2, <2>3, <2>4, <2>5, <2>6 DEF GatewayInv
<1>7. ASSUME NEW s \in Side, PipeEnd(s)
      PROVE  GatewayInv'
  <2>1. TypeOK'
    BY <1>7 DEF GatewayInv, TypeOK, PipeEnd, Close, peerVars, flowVars
  <2>2. Phases'
    BY <1>7 DEF GatewayInv, Phases, Side, PipeEnd, Close
  <2>3. Counts'
    BY <1>7 DEF GatewayInv, Counts, PipeEnd, peerVars, flowVars
  <2>4. Reasons'
    BY <1>7 DEF GatewayInv, TypeOK, Reasons, Side, Other, PipeEnd, Close, peerVars, flowVars
  <2>5. FirstCause'
    BY <1>7 DEF GatewayInv, Phases, Reasons, FirstCause, Ended, Side, Other, PipeEnd, AtEnd, peerVars, flowVars
  <2>6. UpstreamReleased'
    BY <1>7 DEF GatewayInv, Phases, UpstreamReleased, PipeEnd
  <2> QED
    BY <2>1, <2>2, <2>3, <2>4, <2>5, <2>6 DEF GatewayInv
<1>8. ASSUME NEW s \in Side, Closed(s)
      PROVE  GatewayInv'
  <2>1. TypeOK'
    BY <1>8 DEF GatewayInv, TypeOK, Closed, peerVars, flowVars
  <2>2. Phases'
    BY <1>8 DEF GatewayInv, Phases, Closed
  <2>3. Counts'
    BY <1>8 DEF GatewayInv, Counts, Closed, peerVars, flowVars
  <2>4. Reasons'
    BY <1>8 DEF GatewayInv, TypeOK, Reasons, Side, Other, Closed, peerVars, flowVars
  <2>5. FirstCause'
    BY <1>8 DEF GatewayInv, TypeOK, Phases, Reasons, FirstCause, Ended, Side, Other, Closed, peerVars, flowVars
  <2>6. UpstreamReleased'
    BY <1>8 DEF GatewayInv, UpstreamReleased, Closed
  <2> QED
    BY <2>1, <2>2, <2>3, <2>4, <2>5, <2>6 DEF GatewayInv
<1>9. ASSUME NEW s \in Side, Drained(s)
      PROVE  GatewayInv'
  <2>1. TypeOK'
    BY <1>9 DEF GatewayInv, TypeOK, Drained, peerVars, flowVars
  <2>2. Phases'
    BY <1>9 DEF GatewayInv, Phases, Drained
  <2>3. Counts'
    BY <1>9 DEF GatewayInv, Counts, Drained, peerVars, flowVars
  <2>4. Reasons'
    BY <1>9 DEF GatewayInv, TypeOK, Reasons, Side, Other, Drained, peerVars, flowVars
  <2>5. FirstCause'
    BY <1>9 DEF GatewayInv, TypeOK, Phases, Reasons, FirstCause, Ended, Side, Other, Drained, peerVars, flowVars
  <2>6. UpstreamReleased'
    BY <1>9 DEF GatewayInv, UpstreamReleased, Drained
  <2> QED
    BY <2>1, <2>2, <2>3, <2>4, <2>5, <2>6 DEF GatewayInv
<1> QED
  BY <1>1, <1>2, <1>3, <1>4, <1>5, <1>6, <1>7, <1>8, <1>9

\* The handler.
LEMMA HandlerKeeps ==
    ASSUME GatewayInv, Handle
    PROVE  GatewayInv'
<1>1. ASSUME Fail
      PROVE  GatewayInv'
  <2>1. TypeOK'
    BY <1>1 DEF GatewayInv, TypeOK, Fail, Close, peerVars, flowVars
  <2>2. Phases'
    BY <1>1 DEF GatewayInv, Phases, Side, Fail, Close
  <2>3. Counts'
    BY <1>1 DEF GatewayInv, Counts, Fail, peerVars, flowVars
  <2>4. Reasons'
    BY <1>1 DEF GatewayInv, Reasons, Side, Other, Fail, Close, peerVars
  <2>5. FirstCause'
    BY <1>1 DEF GatewayInv, Phases, FirstCause, Fail
  <2>6. UpstreamReleased'
    BY <1>1 DEF GatewayInv, Phases, UpstreamReleased, Fail
  <2> QED
    BY <2>1, <2>2, <2>3, <2>4, <2>5, <2>6 DEF GatewayInv
<1>2. ASSUME Refuse
      PROVE  GatewayInv'
  <2>1. TypeOK'
    BY <1>2 DEF GatewayInv, TypeOK, Refuse, Reply, Close, peerVars, flowVars
  <2>2. Phases'
    BY <1>2 DEF GatewayInv, TypeOK, Phases, Refuse, Reply, Close
  <2>3. Counts'
    BY <1>2 DEF GatewayInv, Counts, Refuse, Reply, peerVars, flowVars
  <2>4. Reasons'
    BY <1>2 DEF GatewayInv, Reasons, Side, Other, Refuse, Reply, Close, peerVars
  <2>5. FirstCause'
    BY <1>2 DEF GatewayInv, FirstCause, Ended, Refuse, Reply, peerVars, flowVars
  <2>6. UpstreamReleased'
    BY <1>2 DEF GatewayInv, Phases, UpstreamReleased, Side, Refuse, Reply, Close
  <2> QED
    BY <2>1, <2>2, <2>3, <2>4, <2>5, <2>6 DEF GatewayInv
<1>3. ASSUME Request
      PROVE  GatewayInv'
  <2>1. TypeOK'
    BY <1>3 DEF GatewayInv, TypeOK, Request, peerVars, flowVars
  <2>2. Phases'
    BY <1>3 DEF GatewayInv, Phases, Request
  <2>3. Counts'
    BY <1>3 DEF GatewayInv, Counts, Request, peerVars, flowVars
  <2>4. Reasons'
    BY <1>3 DEF GatewayInv, Reasons, Request, peerVars, flowVars
  <2>5. FirstCause'
    BY <1>3 DEF GatewayInv, FirstCause, Ended, Request, peerVars, flowVars
  <2>6. UpstreamReleased'
    BY <1>3 DEF UpstreamReleased, Request
  <2> QED
    BY <2>1, <2>2, <2>3, <2>4, <2>5, <2>6 DEF GatewayInv
<1>4. ASSUME Select
      PROVE  GatewayInv'
  <2>1. TypeOK'
    BY <1>4 DEF GatewayInv, TypeOK, Select, Reply, Close, peerVars, flowVars
  <2>2. Phases'
    BY <1>4 DEF GatewayInv, TypeOK, Phases, Select, Reply, Close
  <2>3. Counts'
    BY <1>4 DEF GatewayInv, Counts, Select, Reply, peerVars, flowVars
  <2>4. Reasons'
    BY <1>4 DEF GatewayInv, Reasons, Side, Other, Select, Reply, Close, peerVars, flowVars
  <2>5. FirstCause'
    BY <1>4 DEF GatewayInv, FirstCause, Ended, Select, Reply, peerVars, flowVars
  <2>6. UpstreamReleased'
    BY <1>4 DEF GatewayInv, Phases, UpstreamReleased, Side, Select, Reply, Close
  <2> QED
    BY <2>1, <2>2, <2>3, <2>4, <2>5, <2>6 DEF GatewayInv
<1>5. ASSUME Dial
      PROVE  GatewayInv'
  <2>1. TypeOK'
    BY <1>5 DEF GatewayInv, TypeOK, Dial, Reply, Close, peerVars, flowVars
  <2>2. Phases'
    BY <1>5 DEF GatewayInv, TypeOK, Phases, Side, Dial, Reply, Close
  <2>3. Counts'
    BY <1>5 DEF GatewayInv, Counts, Dial, Reply, peerVars, flowVars
  <2>4. Reasons'
    BY <1>5 DEF GatewayInv, TypeOK, Phases, Reasons, Dial, Reply, Close, peerVars, flowVars
  <2>5. FirstCause'
    BY <1>5 DEF GatewayInv, FirstCause, Ended, Dial, Reply, peerVars, flowVars
  <2>6. UpstreamReleased'
    BY <1>5 DEF GatewayInv, Phases, UpstreamReleased, Side, Dial, Reply, Close
  <2> QED
    BY <2>1, <2>2, <2>3, <2>4, <2>5, <2>6 DEF GatewayInv
<1>6. ASSUME Accept
      PROVE  GatewayInv'
  <2>1. TypeOK'
    BY <1>6 DEF GatewayInv, TypeOK, Counts, Side, Accept
  <2>2. Phases'
    BY <1>6 DEF GatewayInv, Phases, Accept
  <2>3. Counts'
    BY <1>6 DEF GatewayInv, TypeOK, Counts, Accept
  <2>4. Reasons'
    BY <1>6 DEF GatewayInv, TypeOK, Reasons, Accept
  <2>5. FirstCause'
    BY <1>6 DEF GatewayInv, Phases, FirstCause, Accept
  <2>6. UpstreamReleased'
    BY <1>6 DEF UpstreamReleased, Accept
  <2> QED
    BY <2>1, <2>2, <2>3, <2>4, <2>5, <2>6 DEF GatewayInv
<1>7. ASSUME Decline
      PROVE  GatewayInv'
  <2>1. TypeOK'
    BY <1>7 DEF GatewayInv, TypeOK, Decline, Reply, Close, peerVars, flowVars
  <2>2. Phases'
    BY <1>7 DEF GatewayInv, Phases, Side, Decline, Reply, Close
  <2>3. Counts'
    BY <1>7 DEF GatewayInv, Counts, Decline, Reply, peerVars, flowVars
  <2>4. Reasons'
    BY <1>7 DEF GatewayInv, Reasons, Side, Other, Decline, Reply, Close, peerVars
  <2>5. FirstCause'
    BY <1>7 DEF GatewayInv, FirstCause, Ended, Decline, Reply, peerVars, flowVars
  <2>6. UpstreamReleased'
    BY <1>7 DEF UpstreamReleased, Side, Decline, Reply, Close
  <2> QED
    BY <2>1, <2>2, <2>3, <2>4, <2>5, <2>6 DEF GatewayInv
<1>8. ASSUME Grant
      PROVE  GatewayInv'
  <2>1. TypeOK'
    BY <1>8 DEF GatewayInv, TypeOK, Grant, peerVars, flowVars
  <2>2. Phases'
    BY <1>8 DEF GatewayInv, Phases, Grant
  <2>3. Counts'
    BY <1>8 DEF GatewayInv, Counts, Grant, peerVars, flowVars
  <2>4. Reasons'
    BY <1>8 DEF GatewayInv, Phases, Reasons, Side, Other, Grant, peerVars, flowVars
  <2>5. FirstCause'
    BY <1>8 DEF GatewayInv, FirstCause, Ended, Grant, peerVars, flowVars
  <2>6. UpstreamReleased'
    BY <1>8 DEF GatewayInv, Phases, UpstreamReleased, Grant
  <2> QED
    BY <2>1, <2>2, <2>3, <2>4, <2>5, <2>6 DEF GatewayInv
<1>9. ASSUME Finish
      PROVE  GatewayInv'
  <2>1. TypeOK'
    BY <1>9 DEF GatewayInv, TypeOK, Finish, Close, peerVars, flowVars
  <2>2. Phases'
    BY <1>9 DEF GatewayInv, TypeOK, Phases, Side, Finish, Close
  <2>3. Counts'
    BY <1>9 DEF GatewayInv, Counts, Finish, peerVars, flowVars
  <2>4. Reasons'
    BY <1>9 DEF GatewayInv, Reasons, Side, Other, Finish, Close, peerVars
  <2>5. FirstCause'
    BY <1>9 DEF GatewayInv, FirstCause, Ended, Finish, peerVars, flowVars
  <2>6. UpstreamReleased'
    BY <1>9 DEF GatewayInv, Reasons, UpstreamReleased, Side, Other, Finish, Close
  <2> QED
    BY <2>1, <2>2, <2>3, <2>4, <2>5, <2>6 DEF GatewayInv
<1> QED
  BY <1>1, <1>2, <1>3, <1>4, <1>5, <1>6, <1>7, <1>8, <1>9 DEF Handle

LEMMA InitHolds == Init => GatewayInv
BY DEF Init, GatewayInv, TypeOK, Phases, Counts, Reasons, FirstCause, UpstreamReleased, Side, Other

LEMMA StutterKeeps ==
    ASSUME GatewayInv, UNCHANGED vars
    PROVE  GatewayInv'
BY DEF GatewayInv, TypeOK, Phases, Counts, Reasons, FirstCause, Ended, UpstreamReleased, vars

LEMMA GatewayInvHolds == Spec => []GatewayInv
<1>1. ASSUME GatewayInv, [Next]_vars
      PROVE  GatewayInv'
  BY <1>1, SidesKeep, HandlerKeeps, StutterKeeps DEF Next
<1> QED
  BY <1>1, InitHolds, PTL DEF Spec

\* When the handler has ended a tunnel, the first cause is the side that left,
\* all it sent was read, and what was read reached the other.
LEMMA InvRelays ==
    ASSUME GatewayInv
    PROVE  RelayComplete
<1> SUFFICES ASSUME pc = "ended", answer = "established", NEW s \in Side,
                    peer[s] = "eof", peer[Other(s)] = "open"
             PROVE  got[Other(s)] = sent[s]
  BY DEF RelayComplete
<1>1. Side = {s, Other(s)}
  BY DEF Side, Other
<1>2. \E side \in Side : Ended(side)
  BY DEF GatewayInv, Phases, FirstCause
<1>3. Ended(s) /\ ~Ended(Other(s))
  BY <1>1, <1>2 DEF Ended
<1>4. taken[s] = sent[s]
  BY <1>3 DEF Ended
<1> QED
  BY <1>4 DEF GatewayInv, Counts

\* Every chunk count and every state of the gateway's handlers stays in its
\* type; no more is delivered than was sent (_pipe writes what it has read).
THEOREM GatewayTyped == Spec => []TypeOK
BY GatewayInvHolds, PTL DEF GatewayInv

\* What the only side that ended had sent has all arrived, however the two
\* pipes, the event loop and the peers interleave (_pipe, _handle_client).
THEOREM RelaysComplete == Spec => []RelayComplete
BY GatewayInvHolds, InvRelays, PTL

\* An answered connection leaves no upstream connection open
\* (_connect_through_proxy, _pipe).
THEOREM UpstreamsReleased == Spec => []UpstreamReleased
BY GatewayInvHolds, PTL DEF GatewayInv
=============================================================================
