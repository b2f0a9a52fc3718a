----------------------------- MODULE RelayStream -----------------------------
(***************************************************************************)
(* One streamed completion from the provider to the client:                *)
(*                                                                         *)
(*   provider --SSE--> worker (proxyOpenAiSse, serializeWorkerStream)      *)
(*            --SSE + sideband events--> relay (deserializeWorkerStream)   *)
(*            --writeWithBackpressure--> client socket                     *)
(*                                                                         *)
(* Content is a number: the provider's k-th data event is k.  Inference    *)
(* decides what is charged; this module follows the bytes and the events   *)
(* that carry the usage and the end of the stream.                         *)
(***************************************************************************)
EXTENDS Naturals, Sequences

CONSTANTS MaxChunks      \* bound: data events of a provider stream

VARIABLES
    prov,      \* the provider's side: [sent, finish, usage, end]
    eofOk,     \* the adapter's acceptEofAfterFinish option
    worker,    \* the worker's generator: [seen, finish, usage, state]
    wire,      \* events in flight from the worker to the relay, in order
    cut,       \* the connection is gone; what is on the wire still arrives
    relay,     \* the relay's generator: [usage, bound, state]
    writer,    \* writeWithBackpressure: "idle", "waiting"
    sock,      \* the client's socket: [dead, full, closing]
    aborted,   \* the abort signal of the client's disconnect
    listening, \* the listeners a waiting write has installed
    got        \* what was written to the client's socket, in order

streamVars == <<prov, eofOk, worker, wire, cut, relay, writer, sock, aborted, listening, got>>
workerSide == <<prov, eofOk, worker>>
clientSide == <<writer, sock, aborted, listening, got>>

Done == 0  \* the public "data: [DONE]"
Usages == {"none", "u"}
Listeners == {"drain", "close", "error", "abort"}

StreamInit ==
    /\ prov = [sent |-> 0, finish |-> FALSE, usage |-> "none", end |-> "open"]
    /\ eofOk \in BOOLEAN
    /\ worker = [seen |-> 0, finish |-> FALSE, usage |-> "none", state |-> "running"]
    /\ wire = <<>>
    /\ cut = FALSE
    /\ relay = [usage |-> "pending", bound |-> FALSE, state |-> "running"]
    /\ writer = "idle"
    /\ sock = [dead |-> FALSE, full |-> FALSE, closing |-> FALSE]
    /\ aborted = FALSE
    /\ listening = {}
    /\ got = <<>>

-----------------------------------------------------------------------------
(* The provider (external) sends data events, one of them with the finish   *)
(* reason, one with the usage, and ends with [DONE], a clean end of file,   *)
(* or a reset.                                                              *)
ProviderSends(finish, usage) ==
    /\ prov.end = "open" /\ prov.sent < MaxChunks
    /\ prov' = [sent |-> prov.sent + 1, finish |-> prov.finish \/ finish,
                usage |-> IF usage = "none" THEN prov.usage ELSE usage, end |-> "open"]
    /\ UNCHANGED <<eofOk, worker, wire, cut, relay, clientSide>>

ProviderEnds(how) ==
    /\ prov.end = "open"
    /\ prov' = [prov EXCEPT !.end = how]
    /\ UNCHANGED <<eofOk, worker, wire, cut, relay, clientSide>>

-----------------------------------------------------------------------------
(* The worker.  A data event is forwarded as it is read; usage and finish   *)
(* reason are remembered.                                                   *)
WorkerForwards ==
    /\ worker.state = "running" /\ ~cut
    /\ worker.seen < prov.sent
    /\ worker' = [worker EXCEPT !.seen = @ + 1, !.finish = prov.finish, !.usage = prov.usage]
    /\ wire' = Append(wire, [event |-> "data", chunk |-> worker.seen + 1])
    /\ UNCHANGED <<prov, eofOk, cut, relay, clientSide>>

AllRead == worker.seen = prov.sent

\* (mutant) the end of file is taken for the end of the stream
AnyEof == prov.end \in {"done", "eof"}

\* proxyOpenAiSse: [DONE], or an end of file the adapter accepts.
Terminated == prov.end = "done" \/ (prov.end = "eof" /\ eofOk /\ worker.finish)

\* The sidebands that follow the provider's events.  A binding is sent only
\* when the adapter has one.
Sideband(withBinding) ==
    (IF withBinding THEN <<[event |-> "binding"]>> ELSE <<>>)
        \o <<[event |-> "usage", usage |-> worker.usage], [event |-> "terminal"]>>

WorkerCompletes ==
    /\ worker.state = "running" /\ ~cut /\ AllRead /\ prov.end # "open"
    /\ Terminated
    /\ \E b \in BOOLEAN : wire' = wire \o Sideband(b)
    /\ worker' = [worker EXCEPT !.state = "ended"]
    /\ UNCHANGED <<prov, eofOk, cut, relay, clientSide>>

\* provider_stream_incomplete: the partial usage and the error's code follow.
WorkerTruncates ==
    /\ worker.state = "running" /\ ~cut /\ AllRead /\ prov.end = "eof"
    /\ ~Terminated
    /\ wire' = wire \o <<[event |-> "usage", usage |-> worker.usage], [event |-> "stream-error"]>>
    /\ worker' = [worker EXCEPT !.state = "ended"]
    /\ UNCHANGED <<prov, eofOk, cut, relay, clientSide>>

\* Any other failure (a reset provider connection, a crash) ends the
\* worker's response without a sideband.
WorkerThrows ==
    /\ worker.state = "running"
    /\ worker' = [worker EXCEPT !.state = "ended"]
    /\ cut' = TRUE
    /\ UNCHANGED <<prov, eofOk, wire, relay, clientSide>>

\* The connection between worker and relay breaks and loses a suffix.
ConnectionCut ==
    /\ ~cut /\ relay.state = "running"
    /\ cut' = TRUE
    /\ \E n \in 0..Len(wire) : wire' = SubSeq(wire, 1, n)
    /\ UNCHANGED <<prov, eofOk, worker, relay, clientSide>>

-----------------------------------------------------------------------------
\* (mutant) the listeners are installed and nothing is looked at again
NoRecheck(s, a) == [writer |-> "waiting", listening |-> Listeners, ok |-> TRUE]

(* The relay's writes.  `write` of a dead socket or under an aborted signal *)
(* throws; one that leaves the socket's buffer full installs its listeners  *)
(* and then looks at the signal and the socket again, because write() may   *)
(* have closed either.                                                      *)
Recheck(s, a) ==
    IF a \/ s.dead THEN [writer |-> "idle", listening |-> {}, ok |-> FALSE]
    ELSE [writer |-> "waiting", listening |-> Listeners, ok |-> TRUE]

\* One call of writeWithBackpressure with chunk c; the relay's state is
\* `onOk` when it returns or waits, "aborted" when it throws.
WriteChunk(c, onOk) ==
    \/ /\ aborted \/ sock.dead
       /\ relay' = [onOk EXCEPT !.state = "aborted"]
       /\ UNCHANGED clientSide
    \/ /\ ~aborted /\ ~sock.dead
       /\ got' = Append(got, c)
       /\ relay' = onOk
       /\ UNCHANGED <<writer, sock, aborted, listening>>
    \/ /\ ~aborted /\ ~sock.dead
       /\ got' = Append(got, c)
       /\ \E dies, aborts \in BOOLEAN :
             LET s == [dead |-> dies, full |-> TRUE, closing |-> dies]
                 w == Recheck(s, aborts)
             IN  /\ sock' = s /\ aborted' = aborts
                 /\ writer' = w.writer /\ listening' = w.listening
                 /\ relay' = IF w.ok THEN onOk ELSE [onOk EXCEPT !.state = "aborted"]

\* deserializeWorkerStream, one event at a time; a waiting write holds the
\* generator back.
Reading == relay.state = "running" /\ writer = "idle" /\ wire # <<>>

RelayData ==
    /\ Reading /\ Head(wire).event = "data"
    /\ WriteChunk(Head(wire).chunk, relay)
    /\ wire' = Tail(wire)
    /\ UNCHANGED <<workerSide, cut>>

RelayUsage ==
    /\ Reading /\ Head(wire).event = "usage"
    /\ relay' = [relay EXCEPT !.usage = Head(wire).usage]
    /\ wire' = Tail(wire)
    /\ UNCHANGED <<workerSide, cut, clientSide>>

RelayBinding ==
    /\ Reading /\ Head(wire).event = "binding"
    /\ relay' = [relay EXCEPT !.bound = TRUE]
    /\ wire' = Tail(wire)
    /\ UNCHANGED <<workerSide, cut, clientSide>>

\* The terminal event counts only after the usage event.
RelayTerminal ==
    /\ Reading /\ Head(wire).event = "terminal"
    /\ relay' = [relay EXCEPT !.state = IF relay.usage # "pending" THEN "complete" ELSE "worker_stream_incomplete"]
    /\ wire' = Tail(wire)
    /\ UNCHANGED <<workerSide, cut, clientSide>>

RelayError ==
    /\ Reading /\ Head(wire).event = "stream-error"
    /\ relay' = [relay EXCEPT !.state = "provider_stream_incomplete"]
    /\ wire' = Tail(wire)
    /\ UNCHANGED <<workerSide, cut, clientSide>>

\* End of the worker's response before a terminal event, or an abort of it;
\* usage that never came is resolved as undefined.
RelayEof ==
    /\ relay.state = "running" /\ writer = "idle"
    /\ \/ wire = <<>> /\ (cut \/ worker.state = "ended")
       \/ aborted
    /\ relay' = [relay EXCEPT !.state = IF aborted THEN "aborted" ELSE "worker_stream_incomplete",
                              !.usage = IF @ = "pending" THEN "none" ELSE @]
    /\ UNCHANGED <<workerSide, wire, cut, clientSide>>

\* chat.ts: settle, then [DONE] (finalizeThenWriteDone).
FinalizeThenWriteDone ==
    /\ relay.state = "complete" /\ writer = "idle"
    /\ WriteChunk(Done, [relay EXCEPT !.state = "written"])
    /\ UNCHANGED <<workerSide, wire, cut>>

-----------------------------------------------------------------------------
(* The client's socket and its events.  Close is emitted after the socket   *)
(* died; it aborts the signal, whose listeners run at once.                 *)
Wake(outcome) ==
    /\ writer' = "idle" /\ listening' = {}
    /\ relay' = IF outcome = "drain" THEN relay ELSE [relay EXCEPT !.state = "aborted"]

SocketDrains ==
    /\ sock.full /\ ~sock.dead
    /\ sock' = [sock EXCEPT !.full = FALSE]
    /\ IF "drain" \in listening THEN Wake("drain") ELSE UNCHANGED <<writer, listening, relay>>
    /\ UNCHANGED <<workerSide, wire, cut, aborted, got>>

SocketDies ==
    /\ ~sock.dead
    /\ sock' = [sock EXCEPT !.dead = TRUE, !.closing = TRUE]
    /\ \E error \in BOOLEAN :
          IF error /\ "error" \in listening THEN Wake("error") ELSE UNCHANGED <<writer, listening, relay>>
    /\ UNCHANGED <<workerSide, wire, cut, aborted, got>>

SocketCloses ==
    /\ sock.closing
    /\ sock' = [sock EXCEPT !.closing = FALSE]
    /\ aborted' = TRUE
    /\ IF listening \cap {"close", "abort"} # {} THEN Wake("close") ELSE UNCHANGED <<writer, listening, relay>>
    /\ UNCHANGED <<workerSide, wire, cut, got>>

StreamNext ==
    \/ \E f \in BOOLEAN, u \in Usages : ProviderSends(f, u)
    \/ \E how \in {"done", "eof", "reset"} : ProviderEnds(how)
    \/ WorkerForwards \/ WorkerCompletes \/ WorkerTruncates \/ WorkerThrows \/ ConnectionCut
    \/ RelayData \/ RelayUsage \/ RelayBinding \/ RelayTerminal \/ RelayError \/ RelayEof
    \/ FinalizeThenWriteDone
    \/ SocketDrains \/ SocketDies \/ SocketCloses

-----------------------------------------------------------------------------
Numbers(n) == [k \in 1..n |-> k]

(* [DONE] reaches the client only behind every data event of a provider     *)
(* stream that really ended, and the usage the relay settles is then the    *)
(* provider's last word; without [DONE] the client has a prefix.  Neither a *)
(* broken worker connection nor a provider that stops in the middle is      *)
(* taken for the end.                                                       *)
DoneMeansComplete ==
    IF got # <<>> /\ got[Len(got)] = Done
    THEN /\ got = Append(Numbers(prov.sent), Done)
         /\ prov.end = "done" \/ (prov.end = "eof" /\ eofOk /\ prov.finish)
         /\ relay.usage = prov.usage
    ELSE got = Numbers(Len(got))

(* A write that waits for the socket will be woken: it waits only while its *)
(* listeners are installed and neither the abort nor the close they listen  *)
(* for has already passed.                                                  *)
NoLostWakeup ==
    IF writer = "waiting"
    THEN listening = Listeners /\ ~aborted /\ (sock.dead => sock.closing) /\ (~sock.dead => sock.full)
    ELSE listening = {}
=============================================================================
