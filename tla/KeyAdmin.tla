------------------------------ MODULE KeyAdmin ------------------------------
(***************************************************************************)
(* The credentials of a provider worker: the key set file on its sealed    *)
(* volume (src/providers/veniceKeyStore.ts), the operator's single-use     *)
(* capabilities that change it (src/routes/internal/credentialAdmin.ts,    *)
(* src/providers/credentials/capability.ts), the log of consumed           *)
(* capabilities (src/credentials/consumedCapabilities.ts), the older       *)
(* bearer-authorized routes (src/routes/internal/worker.ts) and the choice *)
(* of a key per dispatch (src/providers/veniceKeys.ts, transport.ts).      *)
(*                                                                         *)
(* Handlers run on one event loop: only an await (the live check of a new  *)
(* secret) lets another handler in.  A crash loses the handlers and what   *)
(* the process remembers; the two files survive, each replaced by a rename.*)
(***************************************************************************)
EXTENDS Naturals, FiniteSets

CONSTANTS
    KeyIds,      \* credential ids
    BootKeys,    \* the ids of the boot key set
    Caps,        \* capabilities; CapInfo[c] is what its signed bytes say
    CapInfo,     \* [action, id, deployment, provider, signer, issuedAt, expiresAt]
    Uses,        \* requests that present a capability
    Deployment, Provider, Signers,
    Grace,       \* RETENTION_GRACE_MS
    MaxLog,      \* MAX_ENTRIES of the log
    AdminMaxClock

None == "none"

ASSUME KeyAssumption ==
    /\ BootKeys \subseteq KeyIds /\ BootKeys # {}
    /\ None \notin Caps /\ Grace \in Nat
    /\ \A c \in Caps : CapInfo[c].id \in KeyIds /\ CapInfo[c].expiresAt \in Nat

VARIABLES
    adminMode,      \* CREDENTIAL_ADMIN_MODE: "capability" or "legacy"
    time,
    file,      \* the overlay file: [present, added, removed]; added[k] is None or the source of the secret
    seenFile,  \* observedOverlay of the running process
    log,       \* the log file: the set of its entries [cap, expiresAt]
    use,       \* use[u]: [pc, cap] of a request
    done,      \* done[c]: how often capability c changed the key set (history)
    revoked,   \* the ids removed and not installed since (history)
    wiped,     \* the overlay was lost and the process restarted since (history)
    rows,      \* control's rows of the worker's keys: [k -> "none"/"enabled"/"disabled"]
    cached     \* VeniceKeySelector's copy: {rows as read}, or {} once stale

adminVars == <<adminMode, time, file, seenFile, log, use, done, revoked, wiped, rows, cached>>

-----------------------------------------------------------------------------
(* The store.                                                               *)
EmptyOverlay == [present |-> FALSE, added |-> [k \in KeyIds |-> None], removed |-> {}]

\* effectiveKeys: boot keys that were not removed, and the added ones.
EffectiveOf(f) == {k \in KeyIds : f.added[k] # None \/ (k \in BootKeys /\ k \notin f.removed)}

\* (mutant) a file that is gone reads as an empty overlay
MissingIsEmpty == TRUE

\* refresh: a missing file is an empty overlay only to a process that has
\* never seen one.
Available == file.present \/ ~seenFile

Effective == EffectiveOf(file)

Persist(f) == file' = [f EXCEPT !.present = TRUE] /\ seenFile' = TRUE

Added(k, source) == [file EXCEPT !.added[k] = source, !.removed = @ \ {k}]
Removed(k) == [file EXCEPT !.added[k] = None, !.removed = IF k \in BootKeys THEN @ \cup {k} ELSE @]
IsLastRemaining(k) == Effective = {k}

-----------------------------------------------------------------------------
(* Capabilities.                                                            *)
Consumed(c) == \E e \in log : e.cap = c

\* verifyCapability, with the action the endpoint performs.
Verifies(c, actions) ==
    LET i == CapInfo[c]
    IN  /\ i.action \in actions
        /\ i.signer \in Signers
        /\ i.deployment = Deployment /\ i.provider = Provider
        /\ i.issuedAt <= time /\ time < i.expiresAt
        /\ ~Consumed(c)

Retained == {e \in log : e.expiresAt + Grace > time}

Consume(c) ==
    /\ Cardinality(Retained) < MaxLog
    /\ log' = Retained \cup {[cap |-> c, expiresAt |-> CapInfo[c].expiresAt]}

\* (mutant) the capability is checked now and recorded with the key
ConsumeLater(c) == UNCHANGED log

RecordCapability(c) == Consume(c)

InstallActions == {"register", "rotate"}

AdminInit ==
    /\ adminMode \in {"capability", "legacy"}
    /\ time = 0
    /\ file = EmptyOverlay
    /\ seenFile = FALSE
    /\ log = {}
    /\ use = [u \in Uses |-> [pc |-> "idle", cap |-> None]]
    /\ done = [c \in Caps |-> 0]
    /\ revoked = {}
    /\ wiped = FALSE
    /\ rows = [k \in KeyIds |-> "none"]
    /\ cached = {}

keyState == <<file, seenFile>>
controlState == <<rows, cached>>

\* A request the worker refuses (closed mode, capability not accepted, log
\* or store unreadable) leaves everything as it is.
RefuseUse(u, c, actions) ==
    /\ use[u].pc = "idle"
    /\ \/ adminMode # "capability" \/ ~Verifies(c, actions) \/ Cardinality(Retained) >= MaxLog
    /\ use' = [use EXCEPT ![u] = [pc |-> "over", cap |-> c]]
    /\ UNCHANGED <<adminMode, time, keyState, log, done, revoked, wiped, controlState>>

\* POST .../secret up to the live check of the secret: the capability is
\* consumed first.
AuthorizeInstall(u, c) ==
    /\ use[u].pc = "idle" /\ adminMode = "capability"
    /\ Verifies(c, InstallActions)
    /\ RecordCapability(c)
    /\ use' = [use EXCEPT ![u] = [pc |-> "probing", cap |-> c]]
    /\ UNCHANGED <<adminMode, time, keyState, done, revoked, wiped, controlState>>

\* The provider refuses the secret or cannot be reached.
ProbeFails(u) ==
    /\ use[u].pc = "probing"
    /\ use' = [use EXCEPT ![u].pc = "over"]
    /\ UNCHANGED <<adminMode, time, keyState, log, done, revoked, wiped, controlState>>

\* addKey, then the catalog sync that carries the manifest to control.
InstallKey(u) ==
    LET c == use[u].cap
        k == CapInfo[c].id
    IN  /\ use[u].pc = "probing" /\ Available
        /\ Persist(Added(k, c))
        /\ done' = [done EXCEPT ![c] = @ + 1]
        /\ revoked' = revoked \ {k}
        /\ use' = [use EXCEPT ![u].pc = "over"]
        /\ UNCHANGED <<adminMode, time, log, wiped, controlState>>

InstallUnavailable(u) ==
    /\ use[u].pc = "probing" /\ ~Available
    /\ use' = [use EXCEPT ![u].pc = "over"]
    /\ UNCHANGED <<adminMode, time, keyState, log, done, revoked, wiped, controlState>>

\* POST .../revoke has no await before the store: capability, last-key test
\* and removal are one step.
RevokeKey(u, c) ==
    LET k == CapInfo[c].id
    IN  /\ use[u].pc = "idle" /\ adminMode = "capability"
        /\ Verifies(c, {"revoke"})
        /\ Consume(c)
        /\ use' = [use EXCEPT ![u] = [pc |-> "over", cap |-> c]]
        /\ IF Available /\ ~IsLastRemaining(k) /\ k \in Effective
           THEN /\ Persist(Removed(k))
                /\ done' = [done EXCEPT ![c] = @ + 1]
                /\ revoked' = revoked \cup {k}
           ELSE UNCHANGED <<keyState, done, revoked>>
        /\ UNCHANGED <<adminMode, time, wiped, controlState>>

\* The bearer-authorized routes, open in legacy mode only.
LegacyAdd(k) ==
    /\ adminMode = "legacy" /\ Available
    /\ Persist(Added(k, "operator"))
    /\ revoked' = revoked \ {k}
    /\ UNCHANGED <<adminMode, time, log, use, done, wiped, controlState>>

LegacyRemove(k) ==
    /\ adminMode = "legacy" /\ Available /\ ~IsLastRemaining(k) /\ k \in Effective
    /\ Persist(Removed(k))
    /\ revoked' = revoked \cup {k}
    /\ UNCHANGED <<adminMode, time, log, use, done, wiped, controlState>>

-----------------------------------------------------------------------------
(* Control's view: the manifest upserts a row for every key the worker      *)
(* holds.  The primary deployment's rows stay when a key is gone; another   *)
(* deployment's manifest also deletes the rows it does not name.            *)
RowOf(k) ==
    IF k \in Effective THEN IF rows[k] = "none" THEN "enabled" ELSE rows[k]
    ELSE IF Deployment = "primary" THEN rows[k] ELSE "none"

UpsertManifest ==
    /\ Available
    /\ rows' = [k \in KeyIds |-> RowOf(k)]
    /\ UNCHANGED <<adminMode, time, keyState, log, use, done, revoked, wiped, cached>>

ToggleKey(k) ==
    /\ rows[k] # "none"
    /\ rows' = [rows EXCEPT ![k] = IF @ = "enabled" THEN "disabled" ELSE "enabled"]
    /\ cached' = {}
    /\ UNCHANGED <<adminMode, time, keyState, log, use, done, revoked, wiped>>

LoadEnabled ==
    /\ cached = {}
    /\ cached' = {rows}
    /\ UNCHANGED <<adminMode, time, keyState, log, use, done, revoked, wiped, rows>>

\* selectKeyId: nothing registered leaves the worker's default key; nothing
\* enabled refuses; the strategy picks among the enabled ids.
Selectable(c) == {k \in KeyIds : c[k] = "enabled"}
Registered(c) == \E k \in KeyIds : c[k] # "none"

\* The key a dispatch is sent with: resolveKey finds the selected id in the
\* live store or finds nothing; it never falls back to another key.
ResolveKey(k) == IF Available THEN {k} \cap Effective ELSE {}
SentKeys ==
    UNION {IF Registered(c) THEN UNION {ResolveKey(k) : k \in Selectable(c)}
           ELSE IF Available THEN Effective ELSE {} : c \in cached}

-----------------------------------------------------------------------------
(* Failures.                                                                *)
CrashWorker ==
    /\ use' = [u \in Uses |-> IF use[u].pc = "probing" THEN [use[u] EXCEPT !.pc = "over"] ELSE use[u]]
    /\ seenFile' = FALSE
    /\ wiped' = (wiped \/ (seenFile /\ ~file.present))
    /\ UNCHANGED <<adminMode, time, file, log, done, revoked, controlState>>

\* The overlay file disappears under the process.
OverlayVanishes ==
    /\ file.present /\ seenFile
    /\ file' = EmptyOverlay
    /\ UNCHANGED <<adminMode, time, seenFile, log, use, done, revoked, wiped, controlState>>

AdminTick ==
    /\ time < AdminMaxClock
    /\ time' = time + 1
    /\ cached' = {}
    /\ UNCHANGED <<adminMode, keyState, log, use, done, revoked, wiped, rows>>

AdminNext ==
    \/ \E u \in Uses, c \in Caps :
          \/ AuthorizeInstall(u, c) \/ RevokeKey(u, c)
          \/ RefuseUse(u, c, InstallActions) \/ RefuseUse(u, c, {"revoke"})
    \/ \E u \in Uses : ProbeFails(u) \/ InstallKey(u) \/ InstallUnavailable(u)
    \/ \E k \in KeyIds : LegacyAdd(k) \/ LegacyRemove(k) \/ ToggleKey(k)
    \/ UpsertManifest \/ LoadEnabled \/ CrashWorker \/ OverlayVanishes \/ AdminTick

-----------------------------------------------------------------------------
(* A capability changes the key set at most once, however often it is       *)
(* presented, and whatever crashes or expires from the log in between.      *)
CapabilityOnce == \A c \in Caps : done[c] <= 1

(* A key the operator removed is never sent to the provider again, not by a *)
(* stale selection of control and not because the file that records the     *)
(* removal is gone; and removals never leave the worker without a key.  (A  *)
(* worker that restarts after losing the file starts from its boot keys.)   *)
RevokedStaysOut ==
    ~wiped => /\ SentKeys \cap revoked = {}
              /\ Available => Effective # {}

\* Both: what an operator authorised once happens once and stays done.
AuthorisationsAreKept == CapabilityOnce /\ RevokedStaysOut
=============================================================================
