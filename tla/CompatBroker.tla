---------------------------- MODULE CompatBroker ----------------------------
(***************************************************************************)
(* One request of an OpenAI-compatible client through the compatibility    *)
(* broker (src/compat): the broker mints a ticket per candidate model,     *)
(* forwards the request to the relay's public ingress and, while nothing   *)
(* has reached the client, may go on to the next model.                    *)
(*                                                                         *)
(* The relay's side of a forwarded request is Inference reduced to what    *)
(* the broker depends on: whether the model's reservation is held, charged *)
(* or released, and which answer it sends.  The relay goes on when the     *)
(* broker stops waiting; it then finds its client gone.                    *)
(***************************************************************************)
EXTENDS Naturals, Sequences, FiniteSets, SequencesExt

CONSTANTS
    Bodies,    \* request bodies: [model, models]; "" is no primary model
    Globs      \* model names with a wildcard, allowed as primary only

MaxFallbacks == 4

VARIABLES
    broker,    \* [pc, cands, at]: the handler and the candidate it is at
    tickets,   \* tickets[i]: "none", "minted" or "spent"
    relaySide, \* relaySide[i]: "idle", "working", "streaming", "over"
    hold,      \* hold[i]: the reservation of candidate i: "none", "held", "charged", "released"
    answer,    \* answer[i]: the relay's response, or "none"
    abortLost, \* the candidates whose finalization never reached control
    settleLost, \* the candidates whose settle was applied and whose answer was lost
    client     \* what the client has: "waiting", "error", "head", "json", "complete", "truncated", "gone"

lost == <<abortLost, settleLost>>
relayVars == <<relaySide, hold, answer, lost>>
brokerVars == <<broker, tickets, relayVars, client>>

\* resolveCandidateModels: the primary model, then at most four concrete
\* fallbacks, without repetitions.
CandidateModels(body) ==
    LET primary == IF body.model = "" THEN <<>> ELSE <<body.model>>
        concrete == SelectSeq(body.models, LAMBDA m : m \notin Globs)
        kept == IF Len(concrete) > MaxFallbacks THEN SubSeq(concrete, 1, MaxFallbacks) ELSE concrete
    IN  FoldLeft(LAMBDA seen, m : IF m \in ToSet(seen) THEN seen ELSE Append(seen, m), <<>>, primary \o kept)

Positions == 1..(MaxFallbacks + 1)

\* Codes by what they mean for the next candidate.  "no_route" stands for the
\* codes of CROSS_MODEL_FALLBACK_CODES, "invalid" for a refusal another model
\* would meet as well (credentials, scope, validation, control_rpc_timeout),
\* "relay_unavailable" for a dead or silent relay, "provider_stream_error"
\* for a malformed answer.
MintCodes == {"no_route", "invalid"}

\* (mutant) a silent relay is worth trying another model
AnyPreOutput(code) == code # "invalid"

CrossModelFallbackEligible(code) == code = "no_route"

BrokerInit ==
    /\ \E b \in Bodies : broker = [pc |-> "admit", cands |-> CandidateModels(b), at |-> 1]
    /\ tickets = [i \in Positions |-> "none"]
    /\ relaySide = [i \in Positions |-> "idle"]
    /\ hold = [i \in Positions |-> "none"]
    /\ answer = [i \in Positions |-> "none"]
    /\ abortLost = {} /\ settleLost = {}
    /\ client = "waiting"

-----------------------------------------------------------------------------
(* The handler.                                                             *)
Gone == client = "gone"

\* A thrown error: the next candidate, or the OpenAI-shaped error.
Throw(code) ==
    IF broker.at = Len(broker.cands) \/ Gone \/ ~CrossModelFallbackEligible(code)
    THEN /\ broker' = [broker EXCEPT !.pc = "done"]
         /\ client' = IF Gone THEN client ELSE "error"
    ELSE /\ broker' = [broker EXCEPT !.pc = "mint", !.at = @ + 1]
         /\ UNCHANGED client

\* The kill switch, a caller's ticket, the missing key, a body that is no
\* object or names no model: refused before a ticket is minted.
RefuseCompat ==
    /\ broker.pc = "admit"
    /\ broker' = [broker EXCEPT !.pc = "done"]
    /\ client' = IF Gone THEN client ELSE "error"
    /\ UNCHANGED <<tickets, relayVars>>

AdmitCompat ==
    /\ broker.pc = "admit" /\ broker.cands # <<>>
    /\ broker' = [broker EXCEPT !.pc = "mint"]
    /\ UNCHANGED <<tickets, relayVars, client>>

MintTicket ==
    /\ broker.pc = "mint" /\ ~Gone
    /\ tickets' = [tickets EXCEPT ![broker.at] = "minted"]
    /\ broker' = [broker EXCEPT !.pc = "forward"]
    /\ UNCHANGED <<relayVars, client>>

MintFails ==
    /\ broker.pc = "mint"
    /\ \E code \in MintCodes : Throw(code)
    /\ UNCHANGED <<tickets, relayVars>>

\* forwardToRelay: the request leaves with the ticket and without the
\* caller's credentials.
Forward ==
    /\ broker.pc = "forward" /\ ~Gone
    /\ tickets' = [tickets EXCEPT ![broker.at] = "spent"]
    /\ relaySide' = [relaySide EXCEPT ![broker.at] = "working"]
    /\ broker' = [broker EXCEPT !.pc = "headers"]
    /\ UNCHANGED <<hold, answer, lost, client>>

\* The deadline for response headers, or a connection that fails.
RelayUnavailable ==
    /\ broker.pc \in {"forward", "headers"} /\ ~Gone
    /\ answer[broker.at] = "none"
    /\ Throw("relay_unavailable")
    /\ UNCHANGED <<tickets, relayVars>>

\* The client left: the fetch is aborted and nothing more is sent.
GiveUpCompat ==
    /\ broker.pc \in {"forward", "headers", "body"} /\ Gone
    /\ broker' = [broker EXCEPT !.pc = "done"]
    /\ UNCHANGED <<tickets, relayVars, client>>

ReadError ==
    /\ broker.pc = "headers" /\ ~Gone
    /\ answer[broker.at] \in MintCodes
    /\ Throw(answer[broker.at])
    /\ UNCHANGED <<tickets, relayVars>>

ReadJson ==
    /\ broker.pc = "headers" /\ ~Gone
    /\ answer[broker.at] = "json"
    /\ \/ client' = "json" /\ broker' = [broker EXCEPT !.pc = "done"]
       \/ Throw("provider_stream_error")
    /\ UNCHANGED <<tickets, relayVars>>

\* streamRelayResponse: status and headers are written before the first byte.
ReadHead ==
    /\ broker.pc = "headers" /\ ~Gone
    /\ answer[broker.at] \in {"sse", "sse-complete", "sse-broken"}
    /\ client' = "head"
    /\ broker' = [broker EXCEPT !.pc = "body"]
    /\ UNCHANGED <<tickets, relayVars>>

\* The relay's bytes are passed on; a fault closes the socket and never
\* becomes a [DONE].
ReadBody ==
    /\ broker.pc = "body" /\ ~Gone
    /\ \/ answer[broker.at] = "sse-complete" /\ client' \in {"complete", "truncated"}
       \/ answer[broker.at] \in {"sse", "sse-broken"} /\ client' = "truncated"
    /\ broker' = [broker EXCEPT !.pc = "done"]
    /\ UNCHANGED <<tickets, relayVars>>

ClientLeaves ==
    /\ client \in {"waiting", "head"}
    /\ client' = "gone"
    /\ UNCHANGED <<broker, tickets, relayVars>>

-----------------------------------------------------------------------------
(* The relay.  It sees its caller only while the broker waits for it.       *)
Connected(i) == broker.at = i /\ broker.pc \in {"headers", "body"} /\ ~Gone

Step(i, side, h, a) ==
    /\ relaySide' = [relaySide EXCEPT ![i] = side]
    /\ hold' = [hold EXCEPT ![i] = h]
    /\ answer' = [answer EXCEPT ![i] = a]
    /\ UNCHANGED <<broker, tickets, client>>

LosesFinalization(i) == abortLost' = abortLost \cup {i} /\ UNCHANGED settleLost

\* Redemption and authorization.
RelayTurnsAway(i) ==
    /\ relaySide[i] = "working" /\ hold[i] = "none"
    /\ \E code \in MintCodes : Step(i, "over", "none", code)
    /\ UNCHANGED lost

RelayAuthorizes(i) ==
    /\ relaySide[i] = "working" /\ hold[i] = "none"
    /\ Step(i, "working", "held", "none")
    /\ UNCHANGED lost

\* The reservation was made and the answer to it lost: nothing aborts it.
RelayLosesAuthorization(i) ==
    /\ relaySide[i] = "working" /\ hold[i] = "none"
    /\ Step(i, "over", "held", "invalid")
    /\ LosesFinalization(i)

\* Every attempt failed before output: abort (its failure is ignored), then
\* the error.
RelayFails(i) ==
    /\ relaySide[i] = "working" /\ hold[i] = "held"
    /\ \E code \in MintCodes :
          \/ Step(i, "over", "released", code) /\ UNCHANGED lost
          \/ Step(i, "over", "held", code) /\ LosesFinalization(i)

RelaySettlesJson(i) ==
    /\ relaySide[i] = "working" /\ hold[i] = "held"
    /\ Step(i, "over", "charged", "json")
    /\ UNCHANGED lost

\* The settle was applied and its answer lost: the attempt counts as failed,
\* the plan is walked on to its end, and the abort finds the row charged.
RelayLosesSettleAnswer(i) ==
    /\ relaySide[i] = "working" /\ hold[i] = "held"
    /\ \E code \in MintCodes : Step(i, "over", "charged", code)
    /\ settleLost' = settleLost \cup {i} /\ UNCHANGED abortLost

RelayStreams(i) ==
    /\ relaySide[i] = "working" /\ hold[i] = "held" /\ Connected(i)
    /\ Step(i, "streaming", "held", "sse")
    /\ UNCHANGED lost

\* A stream that breaks is charged or, before its first chunk, released.
RelayEndsStream(i) ==
    /\ relaySide[i] = "streaming"
    /\ \/ Connected(i) /\ Step(i, "over", "charged", "sse-complete") /\ UNCHANGED lost
       \/ \E h \in {"charged", "released"} : Step(i, "over", h, "sse-broken") /\ UNCHANGED lost
       \/ Step(i, "over", "held", "sse-broken") /\ LosesFinalization(i)

\* The caller's socket closed: a fenced hold is captured, another released.
RelayLosesCaller(i) ==
    /\ relaySide[i] \in {"working", "streaming"} /\ hold[i] = "held" /\ ~Connected(i)
    /\ \/ \E h \in {"charged", "released"} : Step(i, "over", h, "none") /\ UNCHANGED lost
       \/ Step(i, "over", "held", "none") /\ LosesFinalization(i)

\* The stale sweep finalizes what a lost call left behind.
SweepHold(i) ==
    /\ i \in abortLost /\ hold[i] = "held"
    /\ \E h \in {"charged", "released"} : Step(i, relaySide[i], h, answer[i])
    /\ UNCHANGED lost

BrokerNext ==
    \/ RefuseCompat \/ AdmitCompat \/ MintTicket \/ MintFails \/ Forward \/ RelayUnavailable
    \/ GiveUpCompat \/ ReadError \/ ReadJson \/ ReadHead \/ ReadBody \/ ClientLeaves
    \/ \E i \in Positions :
          RelayTurnsAway(i) \/ RelayAuthorizes(i) \/ RelayLosesAuthorization(i) \/ RelayFails(i)
          \/ RelaySettlesJson(i) \/ RelayLosesSettleAnswer(i) \/ RelayStreams(i) \/ RelayEndsStream(i)
          \/ RelayLosesCaller(i) \/ SweepHold(i)

-----------------------------------------------------------------------------
(* A client is charged for at most one of its candidate models, and a model *)
(* before the last one tried has sent it nothing; the exceptions are the    *)
(* models whose end was lost between relay and control: a finalization that *)
(* did not arrive, which the sweep may capture later, or the answer to a    *)
(* settle.                                                                  *)
ChargedOnce ==
    /\ \A i, j \in Positions :
          i < j /\ hold[i] = "charged" /\ tickets[j] # "none" => i \in abortLost \cup settleLost
    /\ \A i \in Positions : i < broker.at => answer[i] \notin {"json", "sse", "sse-complete", "sse-broken"}

(* What the broker's comment says of the next candidate: the relay has      *)
(* released the model before it, so that one is not paid for.               *)
PassedOverIsFree ==
    \A i \in Positions : i < broker.at => hold[i] # "charged"
=============================================================================
