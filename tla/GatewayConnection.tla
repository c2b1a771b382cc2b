------------------------- MODULE GatewayConnection -------------------------
(***************************************************************************)
(* One connection of the CONNECT gateway: the request, the answer, the     *)
(* upstream proxy's handshake and the two pipes of the tunnel.  A side has *)
(* a peer, the gateway's transport to it and the StreamReader it fills;    *)
(* the event loop, both peers and the handler's coroutines interleave.     *)
(* Connections share only the rotation index, so one of them is enough.    *)
(* Data are counted in chunks.                                             *)
(***************************************************************************)
EXTENDS Naturals

CONSTANT MaxSent    \* bound: chunks a peer sends

ASSUME SentAssumption == MaxSent \in Nat

VARIABLES
    pc,         \* where _handle_client is
    answer,     \* what the client was answered
    peer,       \* per side: is the peer still sending, is it there at all
    transport,  \* per side: the gateway's transport
    sent,       \* per side: chunks the peer has sent
    fed,        \* per side: chunks that have reached the StreamReader
    taken,      \* per side: chunks the pipe has read from it
    heard,      \* per side: how the StreamReader has ended
    pipe,       \* per side: the _pipe that reads from it
    got         \* per side: chunks the peer has received

vars == <<pc, answer, peer, transport, sent, fed, taken, heard, pipe, got>>
peerVars == <<peer, sent>>
flowVars == <<fed, taken, got>>

Side == {"client", "upstream"}
Other(s) == IF s = "client" THEN "upstream" ELSE "client"

TypeOK ==
    /\ pc \in {"request", "select", "dial", "handshake", "granted", "relay", "ended"}
    /\ answer \in {"none", "refused", "noProxy", "noUpstream", "established"}
    /\ peer \in [Side -> {"open", "eof", "gone"}]
    /\ transport \in [Side -> {"none", "open", "closing", "closed"}]
    /\ sent \in [Side -> 0..MaxSent]
    /\ fed \in [Side -> 0..MaxSent]
    /\ taken \in [Side -> 0..MaxSent]
    /\ heard \in [Side -> {"no", "eof", "error"}]
    /\ pipe \in [Side -> {"none", "running", "draining", "done"}]
    /\ got \in [Side -> 0..MaxSent]

Init ==
    /\ pc = "request"
    /\ answer = "none"
    /\ peer = [s \in Side |-> "open"]
    /\ transport = [s \in Side |-> IF s = "client" THEN "open" ELSE "none"]
    /\ sent = [s \in Side |-> 0]
    /\ fed = [s \in Side |-> 0]
    /\ taken = [s \in Side |-> 0]
    /\ heard = [s \in Side |-> "no"]
    /\ pipe = [s \in Side |-> "none"]
    /\ got = [s \in Side |-> 0]

-----------------------------------------------------------------------------
\* The peers

\* An upstream proxy speaks for the target once the tunnel is accepted.
Send(s) ==
    /\ peer[s] = "open" /\ transport[s] = "open"
    /\ s = "upstream" => pc \in {"granted", "relay"}
    /\ sent[s] < MaxSent
    /\ sent' = [sent EXCEPT ![s] = @ + 1]
    /\ UNCHANGED <<pc, answer, peer, transport, heard, pipe, flowVars>>

\* The peer sends no more but reads on, or is gone: reset, crash, cut link.
Leave(s, how) ==
    /\ transport[s] = "open"
    /\ \/ peer[s] = "open"
       \/ peer[s] = "eof" /\ how = "gone"
    /\ peer' = [peer EXCEPT ![s] = how]
    /\ UNCHANGED <<pc, answer, transport, sent, heard, pipe, flowVars>>

-----------------------------------------------------------------------------
\* The event loop: what the streams of asyncio do between the coroutines' steps

\* close: reading stops at once, what was written is still sent.
Close(S) ==
    transport' = [s \in Side |-> IF s \in S /\ transport[s] = "open" THEN "closing"
                                                               ELSE transport[s]]

\* All that was written is sent: connection_lost, and a waiting reader sees the end.
Closed(s) ==
    /\ transport[s] = "closing"
    /\ transport' = [transport EXCEPT ![s] = "closed"]
    /\ heard' = [heard EXCEPT ![s] = IF @ = "no" THEN "eof" ELSE @]
    /\ UNCHANGED <<pc, answer, peerVars, pipe, flowVars>>

Receive(s) ==
    /\ transport[s] = "open" /\ peer[s] # "gone"
    /\ fed[s] < sent[s]
    /\ fed' = [fed EXCEPT ![s] = @ + 1]
    /\ UNCHANGED <<pc, answer, peerVars, transport, heard, pipe, taken, got>>

\* The end of the peer's data; the transport stays open for writing.
HearEof(s) ==
    /\ transport[s] = "open" /\ peer[s] = "eof" /\ heard[s] = "no"
    /\ fed[s] = sent[s]
    /\ heard' = [heard EXCEPT ![s] = "eof"]
    /\ UNCHANGED <<pc, answer, peerVars, transport, pipe, flowVars>>

\* connection_lost with an error: a later read raises, whatever is buffered.
\* Nothing makes the gateway notice a peer that is gone from an idle connection.
Lose(s) ==
    /\ transport[s] \in {"open", "closing"} /\ peer[s] = "gone"
    /\ transport' = [transport EXCEPT ![s] = "closed"]
    /\ heard' = [heard EXCEPT ![s] = "error"]
    /\ UNCHANGED <<pc, answer, peerVars, pipe, flowVars>>

-----------------------------------------------------------------------------
\* _handle_client

\* Write a status line and close; the answer is lost on a client that is gone.
Reply(status, S) ==
    /\ answer' = IF transport["client"] = "open" /\ peer["client"] # "gone" THEN status ELSE "none"
    /\ pc' = "ended"
    /\ Close(S)
    /\ UNCHANGED <<peerVars, heard, pipe, flowVars>>

\* A timeout, a reset or any other exception: no answer, and the client closed.
Fail ==
    /\ pc \in {"request", "select", "dial", "handshake"}
    /\ pc' = "ended"
    /\ Close({"client"})
    /\ UNCHANGED <<answer, peerVars, heard, pipe, flowVars>>

\* 405 or 400
Refuse ==
    /\ pc = "request" /\ heard["client"] # "error"
    /\ Reply("refused", {"client"})

\* A CONNECT line and its headers.
Request ==
    /\ pc = "request" /\ heard["client"] # "error"
    /\ pc' = "select"
    /\ UNCHANGED <<answer, peerVars, transport, heard, pipe, flowVars>>

Select ==
    /\ pc = "select"
    /\ \/ Reply("noProxy", {"client"})
       \/ /\ pc' = "dial"
          /\ UNCHANGED <<answer, peerVars, transport, heard, pipe, flowVars>>

Dial ==
    /\ pc = "dial"
    /\ \/ Reply("noUpstream", {"client"})
       \/ /\ pc' = "handshake"
          /\ transport' = [transport EXCEPT !["upstream"] = "open"]
          /\ UNCHANGED <<answer, peerVars, heard, pipe, flowVars>>

\* read(10) takes what is there of a SOCKS reply: what it leaves in the reader
\* goes to the client as if the target had sent it.
Accept ==
    /\ pc = "handshake" /\ heard["upstream"] # "error"
    /\ pc' = "granted"
    /\ \E rest \in 0..1 :
          /\ sent["upstream"] + rest <= MaxSent
          /\ sent' = [sent EXCEPT !["upstream"] = @ + rest]
          /\ fed' = [fed EXCEPT !["upstream"] = @ + rest]
    /\ UNCHANGED <<answer, peer, transport, heard, pipe, taken, got>>

\* Mutant: the upstream that declines is not closed.
MutDeclineLeavesOpen ==
    /\ pc = "handshake" /\ heard["upstream"] # "error"
    /\ Reply("noUpstream", {"client"})

\* The upstream proxy declines, or ends before it has answered.
Decline ==
    /\ pc = "handshake" /\ heard["upstream"] # "error"
    /\ Reply("noUpstream", Side)

\* 200, and drain, which raises on a lost client.
Grant ==
    /\ pc = "granted"
    /\ IF transport["client"] = "open"
       THEN /\ pc' = "relay"
            /\ answer' = IF peer["client"] # "gone" THEN "established" ELSE "none"
            /\ pipe' = [s \in Side |-> "running"]
       ELSE /\ pc' = "ended"
            /\ UNCHANGED <<answer, pipe>>
    /\ UNCHANGED <<peerVars, transport, heard, flowVars>>

\* The next read raises or returns nothing.
AtEnd(s) == heard[s] = "error" \/ (heard[s] = "eof" /\ taken[s] = fed[s])

\* Mutant: what is passed on is not taken from the buffer.
MutPumpRereads(s) ==
    /\ pipe[s] = "running"
    /\ heard[s] # "error" /\ taken[s] < fed[s]
    /\ got' = [got EXCEPT ![Other(s)] = @ + fed[s]]
    /\ pipe' = [pipe EXCEPT ![s] = "draining"]
    /\ UNCHANGED <<pc, answer, peerVars, transport, heard, fed, taken>>

\* read returns everything buffered; write, then drain, which raises when the
\* other transport is lost.
Pump(s) ==
    LET o == Other(s) IN
    /\ pipe[s] = "running"
    /\ heard[s] # "error" /\ taken[s] < fed[s]
    /\ taken' = [taken EXCEPT ![s] = fed[s]]
    /\ got' = [got EXCEPT ![o] =
                 IF transport[o] = "open" /\ peer[o] # "gone" THEN @ + (fed[s] - taken[s]) ELSE @]
    /\ pipe' = [pipe EXCEPT ![s] = IF transport[o] = "open" THEN "draining" ELSE "done"]
    /\ UNCHANGED <<pc, answer, peerVars, transport, heard, fed>>

\* drain returns once the peer has taken enough, and raises when it is lost.
Drained(s) ==
    /\ pipe[s] = "draining"
    /\ pipe' = [pipe EXCEPT ![s] = IF transport[Other(s)] = "open" THEN "running" ELSE "done"]
    /\ UNCHANGED <<pc, answer, peerVars, transport, heard, flowVars>>

\* Mutant: the pipe ends on the end of the stream with data still buffered.
MutPipeEndDropsBuffer(s) ==
    /\ pipe[s] = "running"
    /\ heard[s] # "no"
    /\ pipe' = [pipe EXCEPT ![s] = "done"]
    /\ Close({Other(s)})
    /\ UNCHANGED <<pc, answer, peerVars, heard, flowVars>>

\* Mutant: an empty read does not end the loop.
MutPipeEndIgnoresEof(s) ==
    /\ pipe[s] = "running"
    /\ heard[s] = "error"
    /\ pipe' = [pipe EXCEPT ![s] = "done"]
    /\ Close({Other(s)})
    /\ UNCHANGED <<pc, answer, peerVars, heard, flowVars>>

\* An empty read or a raised one; finally: write_eof and close the other side.
PipeEnd(s) ==
    /\ pipe[s] = "running"
    /\ AtEnd(s)
    /\ pipe' = [pipe EXCEPT ![s] = "done"]
    /\ Close({Other(s)})
    /\ UNCHANGED <<pc, answer, peerVars, heard, flowVars>>

\* gather has both pipes; finally: the client's writer is closed.
Finish ==
    /\ pc = "relay"
    /\ \A s \in Side : pipe[s] = "done"
    /\ pc' = "ended"
    /\ Close({"client"})
    /\ UNCHANGED <<answer, peerVars, heard, pipe, flowVars>>

-----------------------------------------------------------------------------
Handle == Fail \/ Refuse \/ Request \/ Select \/ Dial \/ Accept \/ Decline \/ Grant \/ Finish

Next ==
    \/ Handle
    \/ \E s \in Side :
          \/ Send(s) \/ \E how \in {"eof", "gone"} : Leave(s, how)
          \/ Receive(s) \/ HearEof(s) \/ Lose(s) \/ Closed(s)
          \/ Pump(s) \/ Drained(s) \/ PipeEnd(s)

Spec == Init /\ [][Next]_vars

\* The event loop runs what is ready, and no more is assumed: not that the peers
\* of a handshake come to its end (every line of a header has its timeout, the
\* header has none), not that a peer takes what is written to it or that one that
\* is gone is noticed (the relay has no timeout and no keepalive).
Fairness ==
    /\ WF_vars(Finish)
    /\ \A s \in Side :
          /\ WF_vars(Pump(s)) /\ WF_vars(PipeEnd(s))
          /\ WF_vars(Drained(s) /\ transport[Other(s)] = "closed")

FairSpec == Spec /\ Fairness

-----------------------------------------------------------------------------
\* Properties

\* When only one side of a tunnel has ended its data, all of it has reached the
\* other before the gateway closed the connection (_pipe reads to the end and
\* then closes, while the other _pipe may close the side it reads from).
RelayComplete ==
    pc = "ended" /\ answer = "established" =>
        \A s \in Side :
            peer[s] = "eof" /\ peer[Other(s)] = "open" => got[Other(s)] = sent[s]

\* A connection that was answered leaves no upstream connection open; only a
\* handler that an exception has ended may (the handshake's timeouts and a
\* client lost before the 200 reach no upstream_w.close()).
UpstreamReleased ==
    pc = "ended" /\ transport["upstream"] = "open" => answer = "none"

\* No peer is for ever behind with what was written to it.
PeersTake ==
    \A s \in Side :
        /\ []<>(transport[s] # "closing")
        /\ []<>~(pipe[Other(s)] = "draining" /\ transport[s] = "open")

\* Once asyncio has seen one side of a tunnel end, by its data, a reset or the
\* gateway's own close, the handler ends, as long as both peers take what is
\* written to them: no pipe goes on waiting for a side that has nothing to say
\* (gather waits for both).  Of a side whose end is never seen nothing is claimed.
HandlerEnds ==
    PeersTake => \A s \in Side : pc = "relay" /\ heard[s] # "no" ~> pc = "ended"
=============================================================================
