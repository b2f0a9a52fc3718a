--------------------------- MODULE CircuitBreaker ---------------------------
(***************************************************************************)
(* OperationalCircuitBreaker of providers/circuitBreaker.ts as functions   *)
(* of one breaker record.  Each method runs to completion inside one turn  *)
(* of the event loop, so each is atomic; what interleaves is the time      *)
(* between acquire and the record call that settles the permit.            *)
(***************************************************************************)
EXTENDS Integers, Sequences

CONSTANTS
    ConsecutiveThreshold,  \* consecutiveFailureThreshold
    BurstThreshold,        \* burstFailureThreshold
    BurstWindow,           \* burstWindowMs
    OpenDuration           \* openDurationMs

ASSUME ThresholdAssumption ==
    /\ ConsecutiveThreshold \in Nat \ {0} /\ BurstThreshold \in Nat \ {0}
    /\ BurstWindow \in Nat /\ OpenDuration \in Nat \ {0}

CircuitStates == {"closed", "open", "half_open"}
Permits == [probe : BOOLEAN, generation : Nat]

Fresh == [state |-> "closed", consecutive |-> 0, recent |-> <<>>, openedAt |-> 0,
          generation |-> 0]
----------------------------------------------------------------------------
(* acquire                                                                 *)

\* The cool-down of an open breaker is over.
ProbeDue(b, now) == b.state = "open" /\ now - b.openedAt >= OpenDuration
Admits(b, now) == b.state = "closed" \/ ProbeDue(b, now)

\* The breaker after it admitted a call, and the permit of that call.
Acquired(b) == IF b.state = "open" THEN [b EXCEPT !.state = "half_open"] ELSE b
Permit(b) == [probe |-> b.state = "open", generation |-> b.generation]
----------------------------------------------------------------------------
(* recordSuccess, recordOperationalFailure and recordNeutral               *)

InWindow(recent, now) == SelectSeq(recent, LAMBDA at : now - at <= BurstWindow)

\* A mutation: opening keeps the generation.
OpenSameGeneration(b, now) == [b EXCEPT !.state = "open", !.openedAt = now]

Open(b, now) ==
    [state |-> "open", consecutive |-> b.consecutive, recent |-> b.recent,
     openedAt |-> now, generation |-> b.generation + 1]

\* A mutation: a success counts whatever generation its permit is of.
SuccessOfAnyGeneration(b, p, now) == [Fresh EXCEPT !.generation = b.generation]

\* A permit of an earlier generation changes nothing.  A normal success ends a
\* run of failures but keeps the burst window; a recovery clears both.
RecordSuccess(b, p, now) ==
    IF p.generation # b.generation THEN b
    ELSE [Fresh EXCEPT !.generation = b.generation,
                       !.recent = IF p.probe \/ b.state = "half_open" THEN <<>>
                                  ELSE InWindow(b.recent, now)]

RecordFailure(b, p, now) ==
    LET counted == [b EXCEPT !.consecutive = @ + 1,
                             !.recent = Append(InWindow(@, now), now)]
    IN IF p.generation # b.generation THEN b
       ELSE IF p.probe \/ b.state = "half_open" THEN Open(b, now)
       ELSE IF \/ counted.consecutive >= ConsecutiveThreshold
               \/ Len(counted.recent) >= BurstThreshold
            THEN Open(counted, now) ELSE counted

\* A mutation: a cancelled probe leaves the breaker as it is.
NeutralKeepsHalfOpen(b, p, now) == b

\* A cancelled probe makes another one due at once.
RecordNeutral(b, p, now) ==
    IF p.generation = b.generation /\ p.probe /\ b.state = "half_open"
    THEN [b EXCEPT !.state = "open", !.openedAt = now - OpenDuration]
    ELSE b
============================================================================
