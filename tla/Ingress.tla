------------------------------- MODULE Ingress -------------------------------
(***************************************************************************)
(* The relay's public ingress (src/relay/ingress.ts): the process-local    *)
(* flood guard and the onRequest hook that admits a request, redeems its   *)
(* ticket and keeps the guard's leases until the request is over.          *)
(*                                                                         *)
(* The guard counts requests per window and requests in flight, in two     *)
(* namespaces ("ingress" for every protected path, "classifier" for        *)
(* automatic routing) and three scopes each (global, subnet, address).     *)
(***************************************************************************)
EXTENDS Naturals, FiniteSets

CONSTANTS
    Arrivals,      \* requests
    Addresses,     \* client addresses
    Subnet,        \* Subnet[a]: the subnet of address a
    RateLimit,     \* RateLimit[ns][scope]: admissions per window
    ActiveLimit,   \* ActiveLimit[ns][scope]: admissions in flight
    Window,        \* length of a rate window
    MaxEntries,    \* maxBucketEntries
    IngressMaxClock

ASSUME IngressAssumption == IsFiniteSet(Arrivals) /\ MaxEntries \in Nat

Namespaces == {"ingress", "classifier"}
Scopes == {"global", "subnet", "exact"}

\* What a path asks of a request that the guard admitted: a ticket for chat
\* (which may be automatic) or for another operation, nothing for the gateway
\* attestation; a variant of a protected path is refused.
Paths == {"chat", "ticketed", "gateway", "noncanonical"}

VARIABLES
    tick,     \* the process clock
    windows,  \* a function from the keys in use to [count, resetAt]
    active,   \* active[ns][k]: the requests in flight counted under key k
    req       \* req[r]: [pc, addr, automatic, leases, released]

ingressVars == <<tick, windows, active, req>>

\* The bucket key of a scope; addresses are hashed, never stored.
Key(ns, scope, a) ==
    <<ns, scope, IF scope = "global" THEN "all" ELSE IF scope = "subnet" THEN Subnet[a] ELSE a>>
KeysOf(ns, a) == {Key(ns, s, a) : s \in Scopes}
AllKeys == UNION {KeysOf(ns, a) : ns \in Namespaces, a \in Addresses}
ScopeOf(k) == k[2]

IngressInit ==
    /\ tick = 0
    /\ windows = [k \in {} |-> 0]
    /\ active = [k \in AllKeys |-> 0]
    /\ req = [r \in Arrivals |-> [pc |-> "new"]]

-----------------------------------------------------------------------------
Live(w, ks) == {k \in ks \cap DOMAIN w : w[k].resetAt > tick}
Keep(w, ks) == [k \in ks |-> w[k]]

\* activeBucket drops an expired bucket it reads; sweep drops all of them.
AfterRead(ks) == Keep(windows, (DOMAIN windows \ ks) \cup Live(windows, ks))
Swept == Keep(windows, Live(windows, DOMAIN windows))

OverRate(ns, ks) == \E k \in Live(windows, ks) : windows[k].count >= RateLimit[ns][ScopeOf(k)]
OverActive(ns, ks) == \E k \in ks : active[k] >= ActiveLimit[ns][ScopeOf(k)]

\* The buckets an admission counts in: swept only when a new entry would not
\* fit, refused when it still does not.
Room(w, ks) == Cardinality(DOMAIN w \cup ks) <= MaxEntries
Basis(ks) == IF Room(AfterRead(ks), ks) THEN AfterRead(ks) ELSE Swept

Admits(ns, a) ==
    LET ks == KeysOf(ns, a)
    IN  ~OverRate(ns, ks) /\ ~OverActive(ns, ks) /\ Room(Basis(ks), ks)

\* admitScoped after its checks: one more in each rate bucket and one more in
\* flight in each scope.
Counted(ns, a) ==
    LET ks == KeysOf(ns, a)
        w == Basis(ks)
    IN  [k \in DOMAIN w \cup ks |->
            IF k \notin ks THEN w[k]
            ELSE IF k \in DOMAIN w THEN [w[k] EXCEPT !.count = @ + 1]
            ELSE [count |-> 1, resetAt |-> tick + Window]]

Entered(act, ns, a) == [k \in AllKeys |-> act[k] + (IF k \in KeysOf(ns, a) THEN 1 ELSE 0)]

\* The closure an admission returns; each lease is released once.
Left(act, nss, a) ==
    [k \in AllKeys |-> IF act[k] > 0 /\ \E ns \in nss : k \in KeysOf(ns, a) THEN act[k] - 1 ELSE act[k]]

\* What a refused admission leaves behind: the expired buckets it read or
\* swept are gone, nothing is counted.
Refused(ns, a) ==
    LET ks == KeysOf(ns, a)
    IN  IF OverRate(ns, ks) \/ OverActive(ns, ks) THEN AfterRead(ks) ELSE Basis(ks)

-----------------------------------------------------------------------------
\* onRequest up to its first await: the guard, then the path and the ticket
\* header.  A refusal ends the request without a lease.
Arrive(r, a, path) ==
    /\ req[r].pc = "new"
    /\ Admits("ingress", a)
    /\ windows' = Counted("ingress", a)
    /\ active' = Entered(active, "ingress", a)
    /\ \E next \in CASE path = "noncanonical" -> {"failed"}
                     [] path = "gateway" -> {"serving"}
                     [] OTHER -> {"redeeming", "failed"} :
          req' = [req EXCEPT ![r] = [pc |-> next, addr |-> a, automatic |-> path = "chat",
                                     leases |-> {"ingress"}, released |-> FALSE]]
    /\ UNCHANGED tick

RefuseArrival(r, a) ==
    /\ req[r].pc = "new"
    /\ ~Admits("ingress", a)
    /\ windows' = Refused("ingress", a)
    /\ req' = [req EXCEPT ![r] = [pc |-> "refused"]]
    /\ UNCHANGED <<tick, active>>

\* The answer of the redemption: null, another operation's ticket, or a good
\* one.
RedeemFails(r) ==
    /\ req[r].pc = "redeeming"
    /\ req' = [req EXCEPT ![r].pc = "failed"]
    /\ UNCHANGED <<tick, windows, active>>

Redeemed(r) ==
    /\ req[r].pc = "redeeming"
    /\ req' = [req EXCEPT ![r].pc = "serving"]
    /\ UNCHANGED <<tick, windows, active>>

\* (mutant) the lease of a request that is over is kept
KeepLease(r, ns) ==
    /\ req' = [req EXCEPT ![r].pc = "serving", ![r].leases = @ \cup {ns}]
    /\ active' = Entered(active, ns, req[r].addr)

\* addLease: the lease of a request whose leases were already released goes
\* back at once.
AddLease(r, ns) ==
    IF req[r].released
    THEN /\ req' = [req EXCEPT ![r].pc = "serving"]
         /\ active' = Left(Entered(active, ns, req[r].addr), {ns}, req[r].addr)
    ELSE /\ req' = [req EXCEPT ![r].pc = "serving", ![r].leases = @ \cup {ns}]
         /\ active' = Entered(active, ns, req[r].addr)

\* A chat ticket for automatic routing needs a classifier lease as well.
RedeemedAutomatic(r) ==
    /\ req[r].pc = "redeeming" /\ req[r].automatic
    /\ IF Admits("classifier", req[r].addr)
       THEN windows' = Counted("classifier", req[r].addr) /\ AddLease(r, "classifier")
       ELSE /\ windows' = Refused("classifier", req[r].addr)
            /\ req' = [req EXCEPT ![r].pc = "failed"]
            /\ UNCHANGED active
    /\ UNCHANGED tick

\* releaseLeases, by whichever of its callers is first: the client's abort or
\* the closed response while the request is still running, or the hooks when
\* it has answered.
ReleaseLeases(r) ==
    IF req[r].released
    THEN UNCHANGED <<active, windows>> /\ req' = [req EXCEPT ![r].pc = IF @ \in {"failed", "serving"} THEN "done" ELSE @]
    ELSE /\ active' = Left(active, req[r].leases, req[r].addr)
         /\ req' = [req EXCEPT ![r].released = TRUE, ![r].leases = {},
                               ![r].pc = IF @ \in {"failed", "serving"} THEN "done" ELSE @]
         /\ UNCHANGED windows

ClientAborts(r) ==
    /\ req[r].pc = "redeeming" /\ ~req[r].released
    /\ ReleaseLeases(r)
    /\ UNCHANGED tick

Responds(r) ==
    /\ req[r].pc \in {"failed", "serving"}
    /\ ReleaseLeases(r)
    /\ UNCHANGED tick

IngressTick ==
    /\ tick < IngressMaxClock
    /\ tick' = tick + 1
    /\ UNCHANGED <<windows, active, req>>

IngressNext ==
    \/ IngressTick
    \/ \E r \in Arrivals, a \in Addresses :
          RefuseArrival(r, a) \/ \E p \in Paths : Arrive(r, a, p)
    \/ \E r \in Arrivals :
          RedeemFails(r) \/ Redeemed(r) \/ RedeemedAutomatic(r) \/ ClientAborts(r) \/ Responds(r)

-----------------------------------------------------------------------------
InFlight == {r \in Arrivals : req[r].pc \notin {"new", "refused"}}
Holders(k) == {r \in InFlight : \E ns \in req[r].leases : k \in KeysOf(ns, req[r].addr)}

(* The guard's counters are true: each counts exactly the requests that     *)
(* still hold a lease in its scope, a request that is over holds none       *)
(* (however its abort, its redemption and its answer interleaved), and the  *)
(* table of windows stays within its cap.                                   *)
CountersAreTrue ==
    /\ \A k \in AllKeys : active[k] = Cardinality(Holders(k))
    /\ \A r \in InFlight : req[r].pc = "done" \/ req[r].released => req[r].leases = {}
    /\ Cardinality(DOMAIN windows) <= MaxEntries
=============================================================================
