------------------------------ MODULE Tickets ------------------------------
(***************************************************************************)
(* The single-use inference tickets of inference/tickets.ts: a Valkey hash *)
(* per ticket, moved by atomic scripts from issued to redeemed, and from   *)
(* there replaced by the control plane's redemption state under another    *)
(* key.  The control slots that call this are outside the module: they may *)
(* race, repeat or abandon every call.                                     *)
(***************************************************************************)
EXTENDS ValkeyClock

CONSTANTS
    TicketIds,     \* random ids; each is issued once
    Calls,         \* calls of redeemTicket; each is made once
    Destinations,  \* keys of redemption states
    TicketTtl,     \* TICKET_TTL_SECONDS
    RedeemedTtl,   \* REDEEMED_TTL_MS
    StateTtl       \* ttlSeconds of consumeTicketIntoState

ASSUME TicketAssumption == {TicketTtl, RedeemedTtl, StateTtl} \subseteq Nat \ {0}

VARIABLES
    ticket,    \* ticket[t]: [status, expiresAt]; "none" before issue and after DEL
    issuedAt,  \* issuedAt[t]: when t was issued; the clock's start before that
    bound,     \* bound[t]: calls of redeemTicket that returned t's binding
    state,     \* state[d]: [of, expiresAt], the redemption state under key d
    published  \* all <<ticket, destination, time>> at which a state was published

ticketVars == <<clock, ticket, issuedAt, bound, state, published>>

NoTicket == [status |-> "none", expiresAt |-> 0]
NoState == [of |-> "none", expiresAt |-> 0]

TicketsInit ==
    /\ clock = 0
    /\ ticket = [t \in TicketIds |-> NoTicket] /\ issuedAt = [t \in TicketIds |-> 0]
    /\ bound = [t \in TicketIds |-> {}]
    /\ state = [d \in Destinations |-> NoState] /\ published = {}

\* HGET key status: nothing once the key has expired.
Status(t) == IF clock < ticket[t].expiresAt THEN ticket[t].status ELSE "none"
Exists(d) == clock < state[d].expiresAt
----------------------------------------------------------------------------
\* A mutation: EXPIRE is left out.
IssueForGood(t) ==
    /\ ticket[t] = NoTicket /\ bound[t] = {} /\ t \notin {p[1] : p \in published}
    /\ ticket' = [ticket EXCEPT ![t] = [status |-> "issued", expiresAt |-> MaxClock + 1]]
    /\ issuedAt' = [issuedAt EXCEPT ![t] = clock]
    /\ UNCHANGED <<clock, bound, state, published>>

\* issueTicket, with write capacity.  Without, nothing is written.
Issue(t) ==
    /\ ticket[t] = NoTicket /\ bound[t] = {} /\ t \notin {p[1] : p \in published}
    /\ ticket' = [ticket EXCEPT ![t] = [status |-> "issued", expiresAt |-> clock + TicketTtl]]
    /\ issuedAt' = [issuedAt EXCEPT ![t] = clock]
    /\ UNCHANGED <<clock, bound, state, published>>

\* A mutation: a redeemed ticket is redeemed again.
RedeemableTwice(t) == Status(t) \in {"issued", "redeemed"}

Redeemable(t) == Status(t) = "issued"

\* redeemTicket: needs no write capacity.
Redeem(t, c) ==
    /\ Redeemable(t)
    /\ \A u \in TicketIds : c \notin bound[u]
    /\ ticket' = [ticket EXCEPT ![t] = [status |-> "redeemed", expiresAt |-> clock + RedeemedTtl]]
    /\ bound' = [bound EXCEPT ![t] = @ \cup {c}]
    /\ UNCHANGED <<clock, issuedAt, state, published>>

\* consumeTicket: ends a redeemed ticket without a redemption state.
Consume(t) ==
    /\ Status(t) = "redeemed"
    /\ ticket' = [ticket EXCEPT ![t] = NoTicket]
    /\ UNCHANGED <<clock, issuedAt, bound, state, published>>

\* A mutation: the ticket is left behind when its state is published.
PublishKeepingTicket(t, d) ==
    /\ Status(t) = "redeemed"
    /\ ~Exists(d)
    /\ state' = [state EXCEPT ![d] = [of |-> t, expiresAt |-> clock + StateTtl]]
    /\ published' = published \cup {<<t, d, clock>>}
    /\ UNCHANGED <<clock, ticket, issuedAt, bound>>

\* consumeTicketIntoState, with write capacity, into a key that does not exist.
\* Otherwise the script writes nothing and the ticket stays redeemed.
ConsumeIntoState(t, d) ==
    /\ Status(t) = "redeemed"
    /\ ~Exists(d)
    /\ state' = [state EXCEPT ![d] = [of |-> t, expiresAt |-> clock + StateTtl]]
    /\ ticket' = [ticket EXCEPT ![t] = NoTicket]
    /\ published' = published \cup {<<t, d, clock>>}
    /\ UNCHANGED <<clock, issuedAt, bound>>

TicketsTick ==
    /\ Advance
    /\ UNCHANGED <<ticket, issuedAt, bound, state, published>>

TicketsNext ==
    \/ \E t \in TicketIds : Issue(t)
    \/ \E t \in TicketIds, c \in Calls : Redeem(t, c)
    \/ \E t \in TicketIds : Consume(t)
    \/ \E t \in TicketIds, d \in Destinations : ConsumeIntoState(t, d)
    \/ TicketsTick

TicketsSpec == TicketsInit /\ [][TicketsNext]_ticketVars
----------------------------------------------------------------------------
Statuses == {"none", "issued", "redeemed"}

TicketsTypeOK ==
    /\ clock \in Nat
    /\ ticket \in [TicketIds -> [status : Statuses, expiresAt : Nat]]
    /\ issuedAt \in [TicketIds -> Nat]
    /\ bound \in [TicketIds -> SUBSET Calls]
    /\ state \in [Destinations -> [of : TicketIds \cup {"none"}, expiresAt : Nat]]
    /\ published \subseteq TicketIds \X Destinations \X Nat

\* A ticket's binding is handed out once: of all calls that race for or replay a
\* redemption, the first wins and every other fails, whatever became of the
\* ticket since.
RedeemedOnce == \A t \in TicketIds : \A c, e \in bound[t] : c = e

\* A ticket becomes at most one redemption state, however often its caller
\* repeats the consumption.
PublishedOnce == \A p, q \in published : p[1] = q[1] => p = q

\* A ticket is spent once, at each of its two steps.
SpentOnce == RedeemedOnce /\ PublishedOnce

\* A redemption state is never replaced while it exists.
StateIsNotReplaced ==
    [][\A d \in Destinations : Exists(d) => state'[d] = state[d]]_ticketVars

\* A ticket is out of use within its two TTLs: no state is published later, even
\* if redemption and consumption are each as late as they may be.
PublishedInTime == \A p \in published : p[3] < issuedAt[p[1]] + TicketTtl + RedeemedTtl
============================================================================
