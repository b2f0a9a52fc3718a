--------------------------- MODULE VeniceCircuits ---------------------------
(***************************************************************************)
(* The circuit breakers of one credential worker: the provider-wide        *)
(* network breaker, the bounded registry of breakers per operation and     *)
(* model, and the calls of providers/venice.ts that hold one permit of     *)
(* each while they wait for the provider.                                  *)
(***************************************************************************)
EXTENDS CircuitBreaker, SequencesExt

CONSTANTS
    Calls,      \* provider calls; each is made once
    Scopes,     \* operation + catalog model
    MaxScoped,  \* maxScopedBreakers
    MaxClock    \* bound: the clock of the run

ASSUME RegistryAssumption == MaxScoped \in Nat \ {0} /\ MaxClock \in Nat

VARIABLES
    clock,    \* now()
    network,  \* the network breaker
    scoped,   \* scoped[s]: the breaker of scope s, meaningless unless s is in lru
    lru,      \* the keys of scopedBreakers in insertion order
    calls     \* the guard of every call

vars == <<clock, network, scoped, lru, calls>>

NoPermit == [probe |-> FALSE, generation |-> 0]
\* orphan: the registry evicted the scoped breaker this guard holds, so
\* nothing but guards can reach that breaker any more.
Idle(s) == [status |-> "idle", scope |-> s, orphan |-> FALSE,
            network |-> NoPermit, scoped |-> NoPermit]

Init ==
    /\ clock = 0
    /\ network = Fresh
    /\ scoped = [s \in Scopes |-> Fresh]
    /\ lru = <<>>
    /\ \E scopeOf \in [Calls -> Scopes] : calls = [c \in Calls |-> Idle(scopeOf[c])]

Known(s) == \E i \in DOMAIN lru : lru[i] = s
Breaker(s) == IF Known(s) THEN scoped[s] ELSE Fresh
Running(c) == calls[c].status = "running"
----------------------------------------------------------------------------
(* VeniceCircuitBreakerRegistry.scoped                                     *)

\* The scope evicted to make room for a new one.
Evicts(s, old) == ~Known(s) /\ Len(lru) >= MaxScoped /\ old = lru[1]

Position(s) == CHOOSE i \in DOMAIN lru : lru[i] = s

\* Use refreshes the insertion order; a new scope evicts the oldest at the cap.
Touch(s) ==
    Append(IF Known(s) THEN RemoveAt(lru, Position(s))
           ELSE IF Len(lru) >= MaxScoped THEN Tail(lru)
           ELSE lru, s)
----------------------------------------------------------------------------
(* acquireGuard                                                            *)

\* Both breakers admit the call.
Acquire(c) ==
    LET s == calls[c].scope IN
    /\ calls[c].status = "idle"
    /\ Admits(network, clock) /\ Admits(Breaker(s), clock)
    /\ network' = Acquired(network)
    /\ scoped' = [scoped EXCEPT ![s] = Acquired(Breaker(s))]
    /\ lru' = Touch(s)
    /\ calls' = [d \in Calls |->
          IF d = c THEN [status |-> "running", scope |-> s, orphan |-> FALSE,
                         network |-> Permit(network), scoped |-> Permit(Breaker(s))]
          ELSE IF Running(d) /\ Evicts(s, calls[d].scope) THEN [calls[d] EXCEPT !.orphan = TRUE]
          ELSE calls[d]]
    /\ UNCHANGED clock

\* A mutation: a scoped refusal keeps the network permit.
ScopedRefusesKeeping(s) ==
    /\ Admits(network, clock) /\ ~Admits(Breaker(s), clock)
    /\ network' = Acquired(network)
    /\ lru' = Touch(s)
    /\ UNCHANGED <<clock, scoped, calls>>

\* The scoped breaker refuses: the network permit is handed back neutrally.
\* (A refusal by the network breaker touches nothing.)
ScopedRefuses(s) ==
    /\ Admits(network, clock) /\ ~Admits(Breaker(s), clock)
    /\ network' = RecordNeutral(Acquired(network), Permit(network), clock)
    /\ lru' = Touch(s)
    /\ UNCHANGED <<clock, scoped, calls>>
----------------------------------------------------------------------------
(* recordSuccess, recordNeutral and recordFailure of the adapter           *)

\* Hand back both permits; the scoped record of an orphan is unobservable.
Settle(c, networkAfter, scopedAfter) ==
    LET s == calls[c].scope IN
    /\ Running(c)
    /\ network' = networkAfter
    /\ scoped' = IF calls[c].orphan THEN scoped ELSE [scoped EXCEPT ![s] = scopedAfter]
    /\ calls' = [calls EXCEPT ![c].status = "done"]
    /\ UNCHANGED <<clock, lru>>

\* A result, or an ordinary provider 4xx: a completed exchange.
CallSucceeds(c) ==
    Settle(c, RecordSuccess(network, calls[c].network, clock),
              RecordSuccess(scoped[calls[c].scope], calls[c].scoped, clock))

\* The caller cancelled, stopped reading the stream, or the error says nothing
\* about the provider.
CallIsNeutral(c) ==
    Settle(c, RecordNeutral(network, calls[c].network, clock),
              RecordNeutral(scoped[calls[c].scope], calls[c].scoped, clock))

\* operationalFailureScope = "network": a transport failure or a timeout.
CallFailsOnNetwork(c) ==
    Settle(c, RecordFailure(network, calls[c].network, clock),
              RecordNeutral(scoped[calls[c].scope], calls[c].scoped, clock))

\* operationalFailureScope = "scope": 429, 5xx or a malformed body proves that
\* the provider can be reached.
CallFailsInScope(c) ==
    Settle(c, RecordSuccess(network, calls[c].network, clock),
              RecordFailure(scoped[calls[c].scope], calls[c].scoped, clock))

CallEnds(c) ==
    CallSucceeds(c) \/ CallIsNeutral(c) \/ CallFailsOnNetwork(c) \/ CallFailsInScope(c)

Tick ==
    /\ clock < MaxClock
    /\ clock' = clock + 1
    /\ UNCHANGED <<network, scoped, lru, calls>>
----------------------------------------------------------------------------
Next ==
    \/ \E c \in Calls : Acquire(c) \/ CallEnds(c)
    \/ \E s \in Scopes : ScopedRefuses(s)
    \/ Tick

Spec == Init /\ [][Next]_vars

\* Every guarded call ends: fetch deadlines, the runtime's body timeout and the
\* caller's abort signal each reject the promise or the stream it awaits, and
\* the stream monitor settles in a finally block.
Fairness == \A c \in Calls : WF_vars(CallEnds(c))
FairSpec == Spec /\ Fairness
----------------------------------------------------------------------------
Breakers == [state : CircuitStates, consecutive : Nat, recent : Seq(Int),
             openedAt : Int, generation : Nat]

TypeOK ==
    /\ clock \in 0 .. MaxClock
    /\ network \in Breakers
    /\ scoped \in [Scopes -> Breakers]
    /\ lru \in Seq(Scopes) /\ Len(lru) <= MaxScoped
    /\ calls \in [Calls -> [status : {"idle", "running", "done"}, scope : Scopes,
                            orphan : BOOLEAN, network : Permits, scoped : Permits]]

\* The running calls whose network permit is of the current generation, and
\* those whose scoped permit is of the current generation of scope s.
LiveOnNetwork == {c \in Calls : Running(c) /\ calls[c].network.generation = network.generation}
LiveOnScope(s) ==
    {c \in Calls : /\ Running(c) /\ ~calls[c].orphan /\ calls[c].scope = s
                   /\ calls[c].scoped.generation = scoped[s].generation}

\* A half-open breaker has exactly one permit out, its probe, and an open one
\* has none: recovery is decided by a single call, no late result of a call
\* admitted before the outage takes part, and no probe is ever lost, although
\* the two breakers of a call are acquired and refused one after the other.
NetworkProbeIsSole ==
    /\ network.state = "half_open" =>
          \E c \in LiveOnNetwork : LiveOnNetwork = {c} /\ calls[c].network.probe
    /\ network.state = "open" => LiveOnNetwork = {}

\* The same for every scoped breaker, evictions by the registry included.
ScopedProbeIsSole ==
    \A s \in Scopes : Known(s) =>
       /\ scoped[s].state = "half_open" =>
             \E c \in LiveOnScope(s) : LiveOnScope(s) = {c} /\ calls[c].scoped.probe
       /\ scoped[s].state = "open" => LiveOnScope(s) = {}

\* Both: recovery is decided by one call.
ProbesAreSole == NetworkProbeIsSole /\ ScopedProbeIsSole

\* An open network breaker never closes without a probe, and a probe that is
\* due stays due until one is admitted: results of older calls neither end nor
\* prolong an outage.
OpenEndsByProbe ==
    [][network.state = "open" =>
          /\ network'.state # "closed"
          /\ (ProbeDue(network, clock) /\ network'.state = "open") => ProbeDue(network', clock')]_vars

\* No breaker stays half-open: the probe's end, whichever it is, opens or
\* closes it ("instead of holding the breaker half-open forever").
HalfOpenIsLeft ==
    /\ network.state = "half_open" ~> network.state # "half_open"
    /\ \A s \in Scopes : (Known(s) /\ scoped[s].state = "half_open")
                            ~> ~(Known(s) /\ scoped[s].state = "half_open")
============================================================================
