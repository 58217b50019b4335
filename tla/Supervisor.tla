------------------------------ MODULE Supervisor ------------------------------
(***************************************************************************)
(* The resident daemon's supervisor (crates/rift-daemon): one loop that    *)
(* owns every registry and consumes commands, timer ticks and the outputs  *)
(* of the tasks it spawned, while those tasks -- inbound admission,        *)
(* outbound dials, pending pairings, sessions -- run beside it.            *)
(*                                                                         *)
(* A connection c of Conns is the connection together with the task that   *)
(* owns it.  Its stage is the place that task has reached:                 *)
(*                                                                         *)
(*   dialing    connect_device_and_bootstrap                               *)
(*   gate       the forget generation is captured, intent not yet settled  *)
(*   admit      intent accepted, SessionManager::admit not yet run         *)
(*   exchanging initiate_pairing / respond_to_pairing, permit held         *)
(*   authorized, verified, failed           outputs of the setup task      *)
(*   pending, deciding, committing, completing   run_pending_pairing       *)
(*   paired, unpaired                       outputs of the pairing task    *)
(*   session    run_session                                                *)
(*   ended      output of the session task                                 *)
(*                                                                         *)
(* An output waits in the JoinSet until the loop joins it, in any order    *)
(* and arbitrarily late; meanwhile trust, sessions and connectivity move   *)
(* on.  The trust journal is the map of decisions and forget generations   *)
(* that TrustStore.tla shows it to be.                                     *)
(***************************************************************************)
EXTENDS Integers, FiniteSets

CONSTANTS
    Peers,               \* remote device ids
    OutboundPreferred,   \* the peers whose id is above the local one
    Conns,               \* task slots: HARD_MAX_OWNED_TASKS
    NoPeer, NoConn,      \* None
    MaxManagedPeers,     \* connectivity::MAX_MANAGED_PEERS
    MaxSessions,         \* config.max_active_sessions
    MaxOutbound,         \* config.max_outbound_connects
    MaxPending,          \* config.max_pending_pairings
    MaxWaiters,          \* MAX_DIAL_WAITERS
    MaxGeneration,       \* bound on forgets of one peer
    MaxRestarts          \* bound on daemon restarts

\* DaemonConfig::validate: no limit is zero.
validate == {MaxSessions, MaxOutbound, MaxPending} \subseteq Nat \ {0}

ASSUME BoundsAssumption ==
    /\ validate
    /\ {MaxManagedPeers, MaxWaiters} \subseteq Nat \ {0}
    /\ {MaxGeneration, MaxRestarts} \subseteq Nat

ASSUME IdsAssumption ==
    /\ IsFiniteSet(Peers) /\ IsFiniteSet(Conns)
    /\ OutboundPreferred \subseteq Peers
    /\ NoPeer \notin Peers /\ NoConn \notin Conns

VARIABLES
    state,         \* RuntimeState of the daemon
    trust,         \* the journal's decision for each peer
    generations,   \* the journal's forget generation of each peer
    conns,         \* every connection and the stage of its task
    sessions,      \* Daemon::sessions, by connection
    pending,       \* Daemon::pending_pairings: the resolving field, by connection
    outbound,      \* Daemon::outbound: the dial in progress of each peer
    connectivity,  \* Scheduler::peers
    routes,        \* peers the endpoint has a reachability hint for
    invalidating,  \* the peer whose revoke/forget is durable but not yet applied
    restarts

vars == <<state, trust, generations, conns, sessions, pending, outbound,
          connectivity, routes, invalidating, restarts>>

-----------------------------------------------------------------------------
(* Connections and registries.                                             *)

Setup == {"dialing", "gate", "admit", "exchanging"}
Candidate == {"authorized", "verified", "failed"}
PairingTask == {"pending", "deciding", "committing", "completing"}
Stages == Setup \cup Candidate \cup PairingTask
          \cup {"free", "paired", "unpaired", "session", "ended"}

\* ConnectivityFailure as far as Peer::failed tells its values apart:
\* Network and Capacity; Unresolved; and every other.
Failures == {"Retryable", "Unresolved", "Fatal"}

\* The values of the registries: a connection carries what its task was given
\* and what its output will say.
RuntimeStates == {"Running", "ShuttingDown", "Stopped", "StartRefused"}
Connections ==
    [stage : Stages, peer : Peers \cup {NoPeer}, origin : {"Inbound", "Outbound"},
     pairing : BOOLEAN, gen : 0..MaxGeneration, open : BOOLEAN,
     answer : {"none", "accept", "reject"}, failure : Failures]
PendingRecords == {"none", "waiting", "accept", "reject"}
OutboundRecords ==
    [conn : Conns \cup {NoConn}, pairing : BOOLEAN, replies : 0..MaxWaiters, cancelled : BOOLEAN]
ConnectivityStates ==
    {"Disconnected", "Connecting", "Connected", "Backoff", "Suspended", "Unresolved", "Blocked"}
ManagedPeers ==
    [state : ConnectivityStates \cup {"Unmanaged"}, session : Conns \cup {NoConn},
     due : BOOLEAN, suspended : BOOLEAN]

Free == [stage |-> "free", peer |-> NoPeer, origin |-> "Inbound", pairing |-> FALSE,
         gen |-> 0, open |-> FALSE, answer |-> "none", failure |-> "Fatal"]

NoDial == [conn |-> NoConn, pairing |-> FALSE, replies |-> 0, cancelled |-> FALSE]

Unmanaged == [state |-> "Unmanaged", session |-> NoConn, due |-> FALSE, suspended |-> FALSE]

Running == state = "Running" /\ invalidating = NoPeer

\* A permit of pending_slots is held from admission until the pairing task returns.
PairingsInFlight ==
    {c \in Conns : conns[c].stage \in {"exchanging", "verified"} \cup PairingTask}
PermitsOfRegistry == MaxPending - Cardinality({c \in Conns : pending[c] # "none"})
Permits == MaxPending - Cardinality(PairingsInFlight)

Dials == {p \in Peers : outbound[p] # NoDial}
Managed(cx) == {p \in Peers : cx[p] # Unmanaged}
canonical_session(p) == {c \in sessions : conns[c].peer = p /\ conns[c].open}
purpose_allowed(p, pairing) == trust[p] = IF pairing THEN "Unknown" ELSE "Trusted"

preferred(p) == IF p \in OutboundPreferred THEN "Outbound" ELSE "Inbound"
ReplacesDuplicate(new, existing, p) == new = preferred(p)
replaces(new, existing, p) == new = preferred(p) /\ existing # preferred(p)

-----------------------------------------------------------------------------
(* Connectivity policy of one peer (connectivity.rs).  A deadline is a     *)
(* flag: when it passes is the environment's choice.                       *)

NewPeer == [state |-> "Disconnected", session |-> NoConn, due |-> TRUE, suspended |-> FALSE]

ConnectedKeepsDeadline(peer, c) == [peer EXCEPT !.session = c, !.state = "Connected"]
connected(peer, c) == [peer EXCEPT !.session = c, !.state = "Connected", !.due = FALSE]

failed(peer, failure) ==
    [peer EXCEPT !.due = (failure = "Retryable"),
                 !.state = CASE failure = "Unresolved" -> "Unresolved"
                             [] failure = "Retryable"  -> "Backoff"
                             [] OTHER                  -> "Blocked"]

LostIgnoresSuspension(peer) == failed([peer EXCEPT !.session = NoConn], "Retryable")
lost(peer) ==
    IF peer.suspended
    THEN [peer EXCEPT !.session = NoConn, !.state = "Suspended", !.due = FALSE]
    ELSE failed([peer EXCEPT !.session = NoConn], "Retryable")

resume(peer) ==
    IF peer.session = NoConn
    THEN [peer EXCEPT !.suspended = FALSE, !.state = "Disconnected", !.due = TRUE]
    ELSE [peer EXCEPT !.suspended = FALSE]

suspend(peer) ==
    [peer EXCEPT !.suspended = TRUE, !.due = FALSE,
                 !.state = IF peer.session = NoConn THEN "Suspended" ELSE @]

connecting(peer) == [peer EXCEPT !.state = "Connecting", !.due = FALSE]

\* What the code does to peers.get_mut(p): nothing when p is not managed.
WithPeer(cx, p, Op(_)) == IF cx[p] = Unmanaged THEN cx ELSE [cx EXCEPT ![p] = Op(@)]

insertable(cx, p) == cx[p] # Unmanaged \/ Cardinality(Managed(cx)) # MaxManagedPeers
insert(cx, p) ==
    IF cx[p] = Unmanaged /\ insertable(cx, p) THEN [cx EXCEPT ![p] = NewPeer] ELSE cx

connectivity_failed(cx, p, failure) == WithPeer(cx, p, LAMBDA peer : failed(peer, failure))

CancelOnlyAnswers(ob, p) == IF ob[p] = NoDial THEN ob ELSE [ob EXCEPT ![p].replies = 0]
cancel_outbound(ob, p) ==
    IF ob[p] = NoDial THEN ob ELSE [ob EXCEPT ![p].cancelled = TRUE, ![p].replies = 0]

-----------------------------------------------------------------------------
(* Daemon::start: the trusted peers of the journal become managed, each    *)
(* with an immediate deadline; too many of them fail the startup.          *)

Trusted == {p \in Peers : trust[p] = "Trusted"}

StartFits == Cardinality(Trusted) <= MaxManagedPeers

FromJournal == [p \in Peers |-> IF p \in Trusted THEN NewPeer ELSE Unmanaged]

Init ==
    /\ state = "Running"
    /\ trust \in [Peers -> {"Unknown", "Trusted", "Revoked"}]
    /\ StartFits
    /\ generations = [p \in Peers |-> 0]
    /\ conns = [c \in Conns |-> Free]
    /\ sessions = {}
    /\ pending = [c \in Conns |-> "none"]
    /\ outbound = [p \in Peers |-> NoDial]
    /\ connectivity = FromJournal
    /\ routes \in SUBSET Peers
    /\ invalidating = NoPeer
    /\ restarts = 0

-----------------------------------------------------------------------------
(* Tasks: admission of a connection in either direction.                   *)

Registries == <<state, sessions, pending, outbound, connectivity, routes, invalidating, restarts>>
TaskStep == UNCHANGED <<Registries, trust, generations>>

Become(c, s) == conns' = [conns EXCEPT ![c].stage = s]
\* The task returns an error; the connection, if any, is closed.
Fail(c, f) == conns' = [conns EXCEPT ![c].stage = "failed", ![c].failure = f, ![c].open = FALSE]

\* accept_and_bootstrap hands the worker a connection of peer p; accept_inbound
\* captures the generation before it reads the peer's purpose.
accept_incoming(c, p) ==
    /\ state = "Running" /\ conns[c] = Free
    /\ \E pairing \in BOOLEAN :
          conns' = [conns EXCEPT ![c] = [Free EXCEPT !.stage = "gate", !.peer = p,
                                            !.pairing = pairing, !.gen = generations[p], !.open = TRUE]]
    /\ TaskStep

\* The peer's purpose is checked against the decision and the answer is sent.
accept_inbound(c) ==
    /\ conns[c].stage = "gate" /\ conns[c].origin = "Inbound"
    /\ IF purpose_allowed(conns[c].peer, conns[c].pairing) THEN Become(c, "admit") ELSE Fail(c, "Fatal")
    /\ TaskStep

\* The dial succeeded: capture the generation, then check the purpose locally.
prepare_outbound(c) ==
    /\ conns[c].stage = "dialing"
    /\ IF purpose_allowed(conns[c].peer, conns[c].pairing)
       THEN conns' = [conns EXCEPT ![c].stage = "gate", ![c].open = TRUE,
                                   ![c].gen = generations[conns[c].peer]]
       ELSE Fail(c, "Fatal")
    /\ TaskStep

\* The remote side answers request_intent.
request_intent(c) ==
    /\ conns[c].stage = "gate" /\ conns[c].origin = "Outbound"
    /\ \/ Become(c, "admit")
       \/ Fail(c, "Fatal")
    /\ TaskStep

\* The generation and the decision are read again after the exchange.
Readmitted(c) ==
    /\ generations[conns[c].peer] = conns[c].gen
    /\ purpose_allowed(conns[c].peer, conns[c].pairing)

admit(c) ==
    /\ conns[c].stage = "admit"
    /\ \/ ~Readmitted(c) /\ Fail(c, "Fatal")
       \/ Readmitted(c) /\ ~conns[c].pairing /\ Become(c, "authorized")
       \/ Readmitted(c) /\ conns[c].pairing /\ Permits > 0 /\ Become(c, "exchanging")
       \/ Readmitted(c) /\ conns[c].pairing /\ Permits = 0 /\ Fail(c, "Retryable")
    /\ TaskStep

\* initiate_pairing / respond_to_pairing reach the verification code.
VerificationReady(c) ==
    /\ conns[c].stage = "exchanging"
    /\ Become(c, "verified")
    /\ TaskStep

\* Timeout, connection error or protocol violation anywhere in the setup; a
\* cancelled dial and a shutdown end here too.
SetupFails(c) ==
    /\ conns[c].stage \in Setup
    /\ \E f \in Failures :
          /\ f = "Unresolved" => conns[c].stage = "dialing"
          /\ Fail(c, f)
    /\ TaskStep

\* The network or the peer closes a connection whose owner has not noticed yet.
ConnectionCloses(c) ==
    /\ conns[c].stage \in {"authorized", "verified", "pending", "paired", "session"}
    /\ conns[c].open
    /\ conns' = [conns EXCEPT ![c].open = FALSE]
    /\ TaskStep

-----------------------------------------------------------------------------
(* Tasks: a registered pairing, up to its PairingEnded output.             *)

\* The task returns any result but Authorized; the connection is dropped and closed.
Unpaired(c) == conns' = [conns EXCEPT ![c].stage = "unpaired", ![c].open = FALSE]

\* run_pending_pairing receives Confirm.
StartConfirm(c) ==
    /\ conns[c].stage = "pending" /\ conns[c].answer # "none"
    /\ Become(c, "deciding")
    /\ TaskStep

PairingFailsOnceConfirmed(c) ==
    /\ conns[c].stage \in {"deciding", "completing"}
    /\ Unpaired(c)
    /\ TaskStep
\* Cancel, the confirmation deadline, a closed connection or a failed exchange.
\* The deadline and the closed connection are watched only until Confirm arrives.
PairingFails(c) ==
    /\ conns[c].stage \in {"pending", "deciding", "completing"}
    /\ Unpaired(c)
    /\ TaskStep

\* Decisions have been exchanged; the remote one is anything.
RemoteDecision(c) ==
    /\ conns[c].stage = "deciding"
    /\ \/ conns[c].answer = "accept" /\ Become(c, "committing")
       \/ Unpaired(c)
    /\ TaskStep

\* trust_if_generation inside PendingPairing::confirm; a persistence error is
\* the same to the pairing as a refused transition.
CommitTrust(c) ==
    /\ conns[c].stage = "committing"
    /\ LET p == conns[c].peer IN
       \/ /\ generations[p] = conns[c].gen /\ trust[p] # "Revoked"
          /\ trust' = [trust EXCEPT ![p] = "Trusted"]
          /\ Become(c, "completing")
       \/ /\ Unpaired(c)
          /\ UNCHANGED trust
    /\ UNCHANGED <<Registries, generations>>

\* Complete was sent and received: the connection is authorized.
CompletePairing(c) ==
    /\ conns[c].stage = "completing"
    /\ Become(c, "paired")
    /\ TaskStep

\* run_session: serve_control returned, cleanly or with an error, or shutdown.
SessionTaskEnds(c) ==
    /\ conns[c].stage = "session"
    /\ \E f \in {"Retryable", "Fatal"} :
          conns' = [conns EXCEPT ![c].stage = "ended", ![c].failure = f, ![c].open = FALSE]
    /\ TaskStep

-----------------------------------------------------------------------------
(* The loop: outbound work (spawn_outbound and start_outbound).            *)

\* spawn_outbound's error path of a session dial.
Refused(p, cx, failure) ==
    connectivity' = IF canonical_session(p) = {} /\ outbound[p] = NoDial
                    THEN connectivity_failed(cx, p, failure) ELSE cx

OutboundBusyUnlessWaiting(p) ==
    outbound[p] # NoDial /\ (outbound[p].cancelled \/ outbound[p].pairing)
OutboundBusy(p) ==
    /\ outbound[p] # NoDial
    /\ outbound[p].cancelled \/ outbound[p].pairing \/ outbound[p].replies >= MaxWaiters

OutboundFull == Cardinality(Dials) >= MaxOutbound \/ {c \in Conns : conns[c] = Free} = {}

Spawn(p, pairing, replies) ==
    \E c \in Conns :
        /\ conns[c] = Free
        /\ conns' = [conns EXCEPT ![c] = [Free EXCEPT !.stage = "dialing", !.peer = p,
                                             !.origin = "Outbound", !.pairing = pairing]]
        /\ outbound' = [outbound EXCEPT ![p] = [conn |-> c, pairing |-> pairing,
                                                replies |-> replies, cancelled |-> FALSE]]

\* start_outbound for a session, with the connectivity cx the caller left.
DialSession(p, cx, manual, known) ==
    LET inserted == insert(cx, p)
        resumed  == IF manual THEN [inserted EXCEPT ![p] = resume(@)] ELSE inserted
        replies  == IF manual THEN 1 ELSE 0
        eligible == purpose_allowed(p, FALSE)
        joining  == outbound[p].cancelled
        healthy  == canonical_session(p) # {}
        open     == eligible /\ insertable(cx, p) /\ (healthy \/ ~OutboundBusy(p))
        fresh    == open /\ ~healthy /\ outbound[p] = NoDial
    IN
    \/ ~eligible /\ Refused(p, cx, "Fatal") /\ UNCHANGED <<conns, outbound>>
    \/ eligible /\ joining /\ ~healthy /\ Refused(p, cx, "Retryable") /\ UNCHANGED <<conns, outbound>>
    \/ /\ eligible /\ (healthy \/ ~joining) /\ ~insertable(cx, p)
       /\ Refused(p, cx, "Retryable") /\ UNCHANGED <<conns, outbound>>
    \/ /\ eligible /\ insertable(cx, p) /\ ~joining /\ ~healthy /\ OutboundBusy(p)
       /\ Refused(p, inserted, "Retryable") /\ UNCHANGED <<conns, outbound>>
    \/ open /\ healthy /\ connectivity' = resumed /\ UNCHANGED <<conns, outbound>>
    \/ /\ open /\ ~healthy /\ outbound[p] # NoDial
       /\ connectivity' = [resumed EXCEPT ![p] = connecting(@)]
       /\ outbound' = [outbound EXCEPT ![p].replies = @ + replies]
       /\ UNCHANGED conns
    \/ fresh /\ OutboundFull /\ Refused(p, resumed, "Retryable") /\ UNCHANGED <<conns, outbound>>
    \/ /\ fresh /\ ~OutboundFull /\ ~known
       /\ Refused(p, resumed, "Unresolved") /\ UNCHANGED <<conns, outbound>>
    \/ /\ fresh /\ ~OutboundFull /\ known
       /\ Spawn(p, FALSE, replies)
       /\ connectivity' = [resumed EXCEPT ![p] = connecting(@)]

\* The endpoint's ephemeral hints; a dial by identity needs one.
remember_peer_addr(p, hinted) == routes' = IF hinted THEN routes \cup {p} ELSE routes
has_route_source(p, hints) == p \in hints

\* The deadline timer of run_until_shutdown: no timer while the dials are full.
take_due(p) ==
    /\ Running
    /\ Cardinality(Dials) < MaxOutbound
    /\ connectivity[p] # Unmanaged /\ connectivity[p].due
    /\ DialSession(p, [connectivity EXCEPT ![p] = connecting(@)], FALSE, has_route_source(p, routes))
    /\ UNCHANGED <<state, trust, generations, sessions, pending, routes, invalidating, restarts>>

\* ConnectPeer by identity, or ConnectAuthenticated with an address to remember first.
ConnectPeer(p, hinted) ==
    /\ Running
    /\ remember_peer_addr(p, hinted)
    /\ DialSession(p, connectivity, TRUE, has_route_source(p, routes'))
    /\ UNCHANGED <<state, trust, generations, sessions, pending, invalidating, restarts>>

\* start_outbound for a pairing; every refusal leaves the daemon as it was.
BeginPairing(p, hinted) ==
    /\ Running
    /\ remember_peer_addr(p, hinted)
    /\ IF /\ purpose_allowed(p, TRUE)
          /\ outbound[p] = NoDial /\ ~OutboundFull
          /\ Permits > 0 /\ ~\E c \in Conns : pending[c] # "none" /\ conns[c].peer = p
          /\ has_route_source(p, routes')
       THEN /\ Spawn(p, TRUE, 1)
            /\ connectivity' = WithPeer(connectivity, p, connecting)
       ELSE UNCHANGED <<conns, outbound, connectivity>>
    /\ UNCHANGED <<state, trust, generations, sessions, pending, invalidating, restarts>>

RememberPeer(p) ==
    /\ Running
    /\ remember_peer_addr(p, TRUE)
    /\ connectivity' = IF connectivity[p].state = "Unresolved" /\ ~connectivity[p].suspended
                       THEN [connectivity EXCEPT ![p] = resume(@)] ELSE connectivity
    /\ UNCHANGED <<state, trust, generations, conns, sessions, pending, outbound, invalidating, restarts>>

-----------------------------------------------------------------------------
(* The loop: local requests on sessions, pairings and trust.               *)

DisconnectSession(c) ==
    /\ Running
    /\ c \in sessions
    /\ LET p == conns[c].peer IN
       /\ connectivity' = WithPeer(connectivity, p, LAMBDA peer : lost(suspend(peer)))
       /\ outbound' = cancel_outbound(outbound, p)
    /\ sessions' = sessions \ {c}
    /\ conns' = [conns EXCEPT ![c].open = FALSE]
    /\ UNCHANGED <<state, trust, generations, pending, routes, invalidating, restarts>>

Resolving == {c \in Conns : pending[c] = "accept"}

\* A refused confirmation (capacity, unknown id, already resolving) changes nothing.
\* When the pairing task has already returned, the command finds no receiver.
confirm_pairing(c, accepted) ==
    /\ Running
    /\ pending[c] = "waiting"
    /\ accepted => Cardinality(Managed(connectivity)) + Cardinality(Resolving) < MaxManagedPeers
    /\ LET answer == IF accepted THEN "accept" ELSE "reject" IN
       IF conns[c].stage = "pending"
       THEN /\ pending' = [pending EXCEPT ![c] = answer]
            /\ conns' = [conns EXCEPT ![c].answer = answer]
       ELSE /\ pending' = [pending EXCEPT ![c] = "none"]
            /\ UNCHANGED conns
    /\ UNCHANGED <<state, trust, generations, sessions, outbound, connectivity, routes,
                   invalidating, restarts>>

\* The journal commit of RevokePeer / ForgetPeer; tasks may run before the
\* loop goes on with invalidate_peer.
RevokePeer(p) ==
    /\ Running
    /\ trust' = [trust EXCEPT ![p] = "Revoked"]
    /\ invalidating' = p
    /\ UNCHANGED <<state, generations, conns, sessions, pending, outbound, connectivity, routes, restarts>>

ForgetPeer(p) ==
    /\ Running
    /\ generations[p] < MaxGeneration
    /\ trust' = [trust EXCEPT ![p] = "Unknown"]
    /\ generations' = [generations EXCEPT ![p] = @ + 1]
    /\ invalidating' = p
    /\ UNCHANGED <<state, conns, sessions, pending, outbound, connectivity, routes, restarts>>

invalidate_peer(p) ==
    LET mine  == {c \in Conns : conns[c].peer = p}
        owned == mine \cap (sessions \cup {c \in Conns : pending[c] # "none"})
    IN
    /\ state = "Running" /\ invalidating = p
    /\ connectivity' = [connectivity EXCEPT ![p] = Unmanaged]
    /\ outbound' = cancel_outbound(outbound, p)
    /\ pending' = [c \in Conns |-> IF c \in mine THEN "none" ELSE pending[c]]
    /\ sessions' = sessions \ mine
    /\ conns' = [c \in Conns |-> IF c \in owned THEN [conns[c] EXCEPT !.open = FALSE] ELSE conns[c]]
    /\ invalidating' = NoPeer
    /\ UNCHANGED <<state, trust, generations, routes, restarts>>

-----------------------------------------------------------------------------
(* The loop: joined task outputs (handle_task_output).                     *)

Drop(c) == conns' = [conns EXCEPT ![c] = Free]

\* register_pending: a candidate that is stale, or over capacity, is dropped.  The
\* limit of owned tasks counts those of local clients too, so it may be met here,
\* and in register_session, whatever the registries hold.
register_pending(c) ==
    LET p == conns[c].peer IN
    \/ /\ trust[p] = "Unknown" /\ generations[p] = conns[c].gen
       /\ Cardinality({d \in Conns : pending[d] # "none"}) < MaxPending
       /\ pending' = [pending EXCEPT ![c] = "waiting"]
       /\ Become(c, "pending")
    \/ Drop(c) /\ UNCHANGED pending

StillTrusted(c) == trust[conns[c].peer] = "Trusted"
StillAuthorized(c) ==
    trust[conns[c].peer] = "Trusted" /\ generations[conns[c].peer] = conns[c].gen

\* register_session, given the dials ob that remain and whether a failure is
\* charged to the connectivity of the peer (the result of a session dial).
register_session(c, ob, charged) ==
    LET p        == conns[c].peer
        origin   == conns[c].origin
        cx       == insert(connectivity, p)
        existing == {s \in sessions : conns[s].peer = p}
        healthy  == \E s \in existing : conns[s].open
        kept     == \E s \in existing : conns[s].open /\ ~replaces(origin, conns[s].origin, p)
        valid    == StillAuthorized(c) /\ conns[c].open /\ insertable(connectivity, p)
        full     == existing = {} /\ Cardinality(sessions) >= MaxSessions
        Reject(base, f) ==
            /\ Drop(c)
            /\ connectivity' = IF charged /\ ~healthy THEN connectivity_failed(base, p, f) ELSE base
            /\ outbound' = ob
            /\ UNCHANGED sessions
    IN
    \/ ~StillAuthorized(c) /\ Reject(connectivity, "Fatal")
    \/ StillAuthorized(c) /\ ~conns[c].open /\ Reject(connectivity, "Retryable")
    \/ StillAuthorized(c) /\ conns[c].open /\ ~valid /\ Reject(connectivity, "Retryable")
    \/ valid /\ ~kept /\ Reject(cx, "Retryable")
    \/ /\ valid /\ kept
       /\ Drop(c) /\ connectivity' = cx /\ outbound' = ob /\ UNCHANGED sessions
    \/ /\ valid /\ ~kept /\ ~full
       /\ sessions' = (sessions \ existing) \cup {c}
       /\ conns' = [s \in Conns |->
                      IF s = c THEN [conns[c] EXCEPT !.stage = "session", !.answer = "none",
                                                     !.pairing = FALSE]
                      ELSE IF s \in existing THEN [conns[s] EXCEPT !.open = FALSE]
                      ELSE conns[s]]
       /\ connectivity' = [cx EXCEPT ![p] = connected(IF existing # {} /\ ~healthy THEN lost(@) ELSE @, c)]
       /\ outbound' = IF origin = "Inbound" /\ p \notin OutboundPreferred
                      THEN cancel_outbound(ob, p) ELSE ob

JoinIncoming(c) ==
    /\ Running
    /\ conns[c].origin = "Inbound"
    /\ \/ conns[c].stage = "authorized" /\ register_session(c, outbound, FALSE) /\ UNCHANGED pending
       \/ /\ conns[c].stage = "verified" /\ register_pending(c)
          /\ UNCHANGED <<sessions, outbound, connectivity>>
       \/ conns[c].stage = "failed" /\ Drop(c) /\ UNCHANGED <<sessions, pending, outbound, connectivity>>
    /\ UNCHANGED <<state, trust, generations, routes, invalidating, restarts>>

\* The record is removed first; a cancelled record discards whatever the dial
\* produced, and its waiters were answered when it was cancelled.
JoinOutbound(c) ==
    /\ Running
    /\ conns[c].origin = "Outbound" /\ conns[c].stage \in Candidate
    /\ LET p      == conns[c].peer
           record == outbound[p]
           rest   == [outbound EXCEPT ![p] = NoDial]
       IN
       /\ record.conn = c
       /\ \/ /\ record.cancelled
             /\ Drop(c) /\ outbound' = rest /\ UNCHANGED <<sessions, pending, connectivity>>
          \/ /\ ~record.cancelled /\ conns[c].stage = "verified"
             /\ register_pending(c)
             /\ outbound' = rest /\ UNCHANGED <<sessions, connectivity>>
          \/ /\ ~record.cancelled /\ conns[c].stage = "authorized"
             /\ register_session(c, rest, TRUE) /\ UNCHANGED pending
          \/ /\ ~record.cancelled /\ conns[c].stage = "failed"
             /\ Drop(c) /\ outbound' = rest
             /\ connectivity' = IF ~record.pairing /\ canonical_session(p) = {}
                                THEN connectivity_failed(connectivity, p, conns[c].failure)
                                ELSE connectivity
             /\ UNCHANGED <<sessions, pending>>
    /\ UNCHANGED <<state, trust, generations, routes, invalidating, restarts>>

finish_pairing(c) ==
    /\ Running
    /\ conns[c].stage \in {"paired", "unpaired"}
    /\ pending' = [pending EXCEPT ![c] = "none"]
    /\ IF conns[c].stage = "paired" /\ pending[c] # "none"
       THEN register_session(c, outbound, FALSE)
       ELSE Drop(c) /\ UNCHANGED <<sessions, outbound, connectivity>>
    /\ UNCHANGED <<state, trust, generations, routes, invalidating, restarts>>

\* SessionEnded of a session that was displaced or removed is ignored.
JoinSession(c) ==
    /\ Running
    /\ conns[c].stage = "ended"
    /\ LET Update(peer) == IF conns[c].failure # "Retryable" /\ ~peer.suspended
                           THEN failed(lost(peer), conns[c].failure) ELSE lost(peer)
       IN connectivity' = IF c \in sessions THEN WithPeer(connectivity, conns[c].peer, Update)
                          ELSE connectivity
    /\ sessions' = sessions \ {c}
    /\ Drop(c)
    /\ UNCHANGED <<state, trust, generations, pending, outbound, routes, invalidating, restarts>>

-----------------------------------------------------------------------------
(* Shutdown and the next start over the same journal.                      *)

CancelAllSilently == [p \in Peers |-> [outbound[p] EXCEPT !.cancelled = outbound[p] # NoDial]]
CancelAll == [p \in Peers |-> cancel_outbound(outbound, p)[p]]

shutdown_runtime ==
    /\ Running
    /\ state' = "ShuttingDown"
    /\ connectivity' = [p \in Peers |-> Unmanaged]
    /\ outbound' = CancelAll
    /\ pending' = [c \in Conns |-> "none"]
    /\ sessions' = {}
    /\ conns' = [c \in Conns |-> [conns[c] EXCEPT !.open = FALSE]]
    /\ UNCHANGED <<trust, generations, routes, invalidating, restarts>>

\* A task is joined, or aborted once shutdown_timeout has passed.
JoinOrAbort(c) ==
    /\ state = "ShuttingDown" /\ conns[c] # Free
    /\ Drop(c)
    /\ TaskStep

ShutdownCompletes ==
    /\ state = "ShuttingDown" /\ \A c \in Conns : conns[c] = Free
    /\ state' = "Stopped"
    /\ UNCHANGED <<trust, generations, conns, sessions, pending, outbound, connectivity,
                   routes, invalidating, restarts>>

start ==
    /\ state = "Stopped" /\ restarts < MaxRestarts
    /\ restarts' = restarts + 1
    /\ IF StartFits
       THEN state' = "Running" /\ connectivity' = FromJournal
       ELSE state' = "StartRefused" /\ UNCHANGED connectivity
    /\ outbound' = [p \in Peers |-> NoDial]
    /\ generations' = [p \in Peers |-> 0]
    /\ routes' \in SUBSET Peers
    /\ UNCHANGED <<trust, conns, sessions, pending, invalidating>>

-----------------------------------------------------------------------------
TaskNext(c) ==
    \/ accept_inbound(c) \/ prepare_outbound(c) \/ request_intent(c) \/ admit(c)
    \/ VerificationReady(c) \/ SetupFails(c) \/ ConnectionCloses(c)
    \/ StartConfirm(c) \/ PairingFails(c) \/ RemoteDecision(c) \/ CommitTrust(c)
    \/ CompletePairing(c) \/ SessionTaskEnds(c)

Join(c) == JoinIncoming(c) \/ JoinOutbound(c) \/ finish_pairing(c) \/ JoinSession(c)

Request(p) ==
    \/ \E hinted \in BOOLEAN : ConnectPeer(p, hinted) \/ BeginPairing(p, hinted)
    \/ RememberPeer(p) \/ RevokePeer(p) \/ ForgetPeer(p)

Next ==
    \/ \E c \in Conns :
          \/ TaskNext(c) \/ Join(c) \/ JoinOrAbort(c) \/ DisconnectSession(c)
          \/ \E accepted \in BOOLEAN : confirm_pairing(c, accepted)
          \/ \E p \in Peers : accept_incoming(c, p)
    \/ \E p \in Peers : take_due(p) \/ Request(p) \/ invalidate_peer(p)
    \/ shutdown_runtime \/ ShutdownCompletes \/ start

Spec == Init /\ [][Next]_vars

\* Every setup and pairing step has a timeout and a closed session is noticed,
\* so a task that can move does; the loop's select! picks among its ready
\* branches at random, so an output or a deadline that is ready again and again
\* is taken.  Local requests and the end of a healthy session are nobody's duty.
TaskMoves(c) ==
    /\ \/ conns[c].stage \in Setup \cup PairingTask
       \/ conns[c].stage = "session" /\ ~conns[c].open
    /\ TaskNext(c)

Fairness ==
    /\ \A c \in Conns : /\ WF_vars(TaskMoves(c)) /\ WF_vars(JoinOrAbort(c))
                        /\ SF_vars(Join(c))
    /\ \A p \in Peers : SF_vars(take_due(p)) /\ WF_vars(invalidate_peer(p))
    /\ WF_vars(ShutdownCompletes)

FairSpec == Spec /\ Fairness
-----------------------------------------------------------------------------
(* Properties.                                                             *)

\* Types of the registries and tasks; the waiters coalesced on one dial stay
\* within MAX_DIAL_WAITERS.
TypeOK ==
    /\ state \in RuntimeStates
    /\ trust \in [Peers -> {"Unknown", "Trusted", "Revoked"}]
    /\ generations \in [Peers -> 0..MaxGeneration]
    /\ conns \in [Conns -> Connections]
    /\ sessions \subseteq Conns
    /\ pending \in [Conns -> PendingRecords]
    /\ outbound \in [Peers -> OutboundRecords]
    /\ connectivity \in [Peers -> ManagedPeers]
    /\ routes \subseteq Peers
    /\ invalidating \in Peers \cup {NoPeer}
    /\ restarts \in 0..MaxRestarts

\* A registered session or pairing was admitted under the forget generation that
\* still holds, and a session's peer is trusted -- whatever revoke, forget and
\* re-pairing happened while its setup was in flight (register_session and
\* register_pending recheck, invalidate_peer removes).
RegistriesAuthorized ==
    \A c \in Conns :
        LET p == conns[c].peer IN
        p # invalidating =>
            /\ c \in sessions => trust[p] = "Trusted" /\ conns[c].gen = generations[p]
            /\ pending[c] # "none" => trust[p] # "Revoked" /\ conns[c].gen = generations[p]

\* Once a revoke or forget has been applied nothing works for the peer any
\* more: no policy entry, no session, and no session dial that is not cancelled.
InvalidatedPeerIsQuiet ==
    \A p \in Peers : trust[p] # "Trusted" /\ p # invalidating =>
        /\ connectivity[p] = Unmanaged
        /\ \A c \in sessions : conns[c].peer # p
        /\ outbound[p] # NoDial => outbound[p].pairing \/ outbound[p].cancelled

\* At most one session per device is registered, and a healthy one is what the
\* connectivity policy shows: Connected with that session and no retry deadline,
\* so that neither a displaced session's end nor a losing dial schedules one.
CanonicalSession ==
    /\ \A c, d \in sessions : conns[c].peer = conns[d].peer => c = d
    /\ \A c \in sessions : conns[c].open /\ conns[c].peer # invalidating =>
          LET peer == connectivity[conns[c].peer] IN
          peer.state = "Connected" /\ peer.session = c /\ ~peer.due

\* DisconnectSession suspends local outbound work until ConnectPeer: a suspended
\* peer has no deadline and no session dial that is not cancelled, whatever
\* inbound sessions come and go and whichever dial results arrive late.
SuspendedStaysQuiet ==
    \A p \in Peers : connectivity[p].suspended =>
        /\ ~connectivity[p].due
        /\ outbound[p] # NoDial => outbound[p].pairing \/ outbound[p].cancelled

\* The configured bounds hold although registry entries, permits and dial
\* records are released at different steps than the tasks they stand for.
BoundsHold ==
    /\ Cardinality(PairingsInFlight) <= MaxPending
    /\ Cardinality(Dials) <= MaxOutbound
    /\ Cardinality({c \in Conns : conns[c].stage \in Setup /\ conns[c].origin = "Outbound"}) <= MaxOutbound

\* A healthy registered session leaves the registry only for a disconnect, a
\* durable revoke or forget, a shutdown, or a session in the preferred direction.
Healthy(c) == c \in sessions /\ conns[c].open
HealthySessionKept ==
    [][\A c \in Conns : Healthy(c) /\ c \notin sessions' =>
          LET p == conns[c].peer IN
          \/ p = invalidating \/ state' = "ShuttingDown" \/ connectivity'[p].suspended
          \/ \E d \in sessions' : /\ conns'[d].peer = p /\ conns'[d].open
                                  /\ conns[c].origin # preferred(p) /\ conns'[d].origin = preferred(p)]_vars

\* A caller waiting on a dial is answered: by its result, by its cancellation,
\* or by shutdown (replies of OutboundRecord).
WaitersAnswered == \A p \in Peers : outbound[p].replies > 0 ~> outbound[p].replies = 0

\* A registered pairing always settles: decided, expired, failed, cancelled or
\* shut down, its registry entry goes away and its slot is free again.
PairingSettles == \A c \in Conns : pending[c] # "none" ~> pending[c] = "none"

\* A lost peer is dialled again, unless it is connected, suspended or blocked
\* by then, has no route, or is no longer managed.
LostPeerRetried ==
    \A p \in Peers :
        connectivity[p].state = "Backoff" ~>
            \/ outbound[p] # NoDial /\ ~outbound[p].pairing /\ ~outbound[p].cancelled
            \/ canonical_session(p) # {}
            \/ connectivity[p].state \in {"Unmanaged", "Suspended", "Blocked", "Unresolved"}
=============================================================================
