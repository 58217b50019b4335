# Verification of rift

rift is a resident daemon that pairs devices under human supervision, keeps a
durable journal of whom it trusts, and holds one authenticated session to each
trusted device, through sleeping laptops, crossed dials and restarts. This
directory holds TLA+ models of the parts of it in which order, failure and
concurrency decide correctness, TLC configurations that check them on small
instances, and TLAPS proofs, for every value of the constants, of all the
invariants and both refinements that the runs check.

Paths below are relative to `src/`.

## 1. The system

| Component | State it keeps | Operations | Talks to |
|---|---|---|---|
| Trust journal, `crates/rift-trust` | append-only file; `decisions`, `generations`, `record_count`, `poisoned` in memory behind one mutex | `open`, `trust_if_generation`, `revoke`, `forget`, reads | called by sessions and the supervisor |
| Supervisor, `crates/rift-daemon/src/lib.rs` | registries `sessions`, `pending_pairings`, `outbound`; a `JoinSet` of tasks; permits; runtime state | IPC commands, timer ticks, joined task outputs, shutdown | every other part |
| Connectivity policy, `crates/rift-daemon/src/connectivity.rs` | per managed peer: state, session, deadline, suspension, backoff | `connected`, `lost`, `failed`, `suspend`, `take_due` ... | owned by the supervisor's loop |
| Session admission and pairing, `crates/rift-session` | `PairingStateMachine`, captured trust generation | purpose gate, admit, commit/reveal, decisions, completion | journal, transport |
| Data directory, `crates/rift-daemon/src/local.rs`, identity, `crates/rift-identity` | OS lock, identity file, journal, socket, `runtime.json` | start, publish, unpublish, cleanup, release, drop | file system, other daemon processes |
| Local IPC, `crates/rift-daemon/src/ipc_server.rs`, `crates/rift-ipc` | per client: outstanding IDs, response futures, bounded queue, broadcast cursor | authenticate, request, event, flush | supervisor |
| Transport, `crates/rift-transport-iroh` | endpoint, intent phase and control stream of a connection, route hints | dial, accept, bootstrap, intent, Ping/Pong service, close | Iroh; used by sessions |
| Transfer engine, `crates/rift-transfer` | `LogicalTransfer`, records on disk, streaming attempts | offer, accept, send, receive, pause, terminal, scan | no caller in the daemon yet |
| Wire protocol, `crates/rift-protocol`; identifiers, `crates/rift-core` | none | codecs and validation | everything |

What makes it hard: one loop owns all registries while accept workers, dials,
pairings, sessions and IPC clients run beside it, so every output is applied
later than the state it was computed from; a journal commit has six awaits, and
a crash, a power loss, an I/O error or the drop of the future may fall on each;
pairing has two humans and two journals and no common clock; the process that
is stopping still runs destructors while its successor starts; a local client
may read slowly or not at all; the two ends of a connection pass their gates at
different moments, and a close may overtake what was sent before it; a file may
be rewritten while it is sent, over sessions that come and go, by workers that
outlive the attempt they were started for. `PROJECT.json` lists these hazards line by line,
with the properties aimed at each.

What each part must get right:

- journal: what was acknowledged survives, what failed stays invisible, memory
  is the replay of the file, a forget outlives the pairings it overtook, a
  revocation stays;
- supervisor: no session without current trust, one canonical session, a
  suspended or invalidated peer stays quiet, bounds hold, everybody waiting is
  answered, a lost peer is dialled again;
- pairing: both humans, both journals, commitments before nonces, an end on
  both sides;
- data directory: one identity for ever, a ready daemon can be found;
- IPC: no event and no answer is lost silently, frames are read whole, shutdown
  waits for nobody;
- bootstrap: nobody is past the gate unchecked, an acceptor provides only what its
  trust allows, a rejection is heard as one, a silent peer is left;
- transfer: the whole file, once, with durable consent, or nothing; one outcome
  for ever, which the peer learns and a restart can read.

## 2. Modules and the code they model

### `TrustStore` (crates/rift-trust/src/lib.rs)

`file` is what the operating system shows, `images` the set of contents a power
loss may leave: every write adds an image, every successful sync collapses the
set to the file. `phase` is the await at which the store is; `op` is the commit
holding the mutex.

| Actions | Code |
|---|---|
| `CreateJournal`, `write_header`, `WriteHeaderFails` | creation in `open`, `write_header` |
| `OpenExisting`, `OpenWithIncompleteTail`, `TrimTail`, `SyncTrimmedTail`, `TrimFails`, `OpenRejected` | `open_existing`, `replay` and its tail recovery |
| `BeginAttempt`, `EndAttempt` | a pairing captures and drops `trust_generation` |
| `trust_if_generation`, `revoke`, `forget` | the guards of `commit` under the mutex |
| `WriteSomeBytes`, `WriteRecord`, `FlushRecord`, `SyncRecord` | `persist_record` |
| `PersistFails`, `TruncateFailedCommit`, `SyncRollback`, `RollbackFails` | the error path of `commit`, `rollback_record`, poisoning |
| `Shutdown`, `DropCommit`, `LateCommit` | the supervisor's shutdown drops a pairing task inside `commit`, while `tokio::fs` may still finish the write |
| `ProcessCrash`, `PowerFails` | environment |

Records are `[op, peer]`; the checksum is the fact that a torn record is
recognised as torn. `replay` applies records from left to right and each one
overwrites its peer's entry, so `Replay` says per peer that the last record
decides. Timestamps, names and paging are left out.

`TrustPolicy` is what the rest of the daemon may believe of the journal: a map
of decisions that is served, and the maps a restart could find instead. One
mutation changes one decision and only legally (a revoked peer is not trusted
without a forget), an attempt that fails is withdrawn, a restart serves one of
the recoverable maps. There are no files, images, awaits or tails in it.
`ImplementsPolicy` (`MCTrustStore`) is the refinement: `served` is what the
store serves, or what it last served while it is closed, and `recoverable` the
replays of the images on disk.

### `Supervisor` (crates/rift-daemon, session admission)

A member of `Conns` is a connection with the task that owns it, and its stage is
the place the task has reached (see the module's header). An output waits in
the `JoinSet` until `Join(c)` applies it with the whole of `handle_task_output`;
`take_due(p)` is the timer branch, `Request(p)` the IPC commands about a peer,
`confirm_pairing`, `DisconnectSession`, `invalidate_peer` the other commands,
`shutdown_runtime`, `ShutdownCompletes` and `start` the end and the next
life. The durable part of revoke and forget precedes `invalidate_peer` as a
step of its own (`invalidating`), because tasks run between the two.
`connectivity` keeps the policy's state; a deadline is a flag, so `take_due` may
fire whenever a deadline exists. `remember_peer_addr` and `has_route_source` are
the endpoint's route hints: a dial without one settles Unresolved, and a new
hint wakes it. `validate` is the check of the configured bounds, an assumption
on the constants. The limit on owned tasks is not counted: `register_pending` and
`register_session` may refuse a candidate for it at any time. The journal is abstracted to decisions and
generations, which is what `MemoryAgreement` and `GenerationFence` justify.

### `Pairing` (crates/rift-session)

Both sides' `PairingStateMachine` with every send and receipt as a step, one
ordered stream per direction, both humans, both journals (with revoke and forget
at any time), timeouts, cancellation and the loss of the connection, after which
messages in flight may or may not be read. Messages carry pairing IDs, nonces
and commitments; a nonce is a value of its side and attempt, a commitment
(`derive`) is an injective term over role, identities, ID and nonce, which is
what the digest is taken for, and the code is the `Transcript` it is computed
from. `Opens` is the check of a revealed nonce against what was committed.
Attempts follow one another on the same journals.

### `DataDirectory` (local.rs, identity, start and end of lib.rs)

Several processes on one directory: the lock, removal of stale artifacts, the
policy that refuses an orphaned journal, the creation of the identity file
(`create_temporary`, `SyncTemporary`, `PromoteIdentity` with its AlreadyExists
path, `RemoveTemporary`, `SyncIdentity`) and its loading (`load`, `decode`: a
whole key, or torn contents that are refused), the journal, socket and descriptor, readiness; then
`unpublish_descriptor`, `cleanup`, `release` and the destructors, in the order
the code and the field order of `Daemon` give them. A removal may fail
(`remove_if_present`): `cleanup` then stops with what is left to the destructors,
which ignore the error, and a shutdown that returns early skips `cleanup` and
`release` (`DropUnfinished`). `Killed` releases the lock
only; `PowerLoss` picks one of the states in `disk` for every entry.

### `IpcServer` (ipc_server.rs, framing of rift-ipc)

One client. The four branches of the `select!` that can break or continue the
loop are actions (`ShutdownBranch`, `WriterBranch`, `EventBranch`,
`CompletedBranch`), the fifth is a read in pieces (`ReadsPiece`, `ReadsFrame`,
`ReadFails`). Any branch that continues resets `reader`: `read_json_frame` is
created anew in each iteration, and what the old future had read is gone.
`WriterBranch` is the end of the writer's task, while serving or flushing: the
client is gone, the write fails, or the message does not encode. A read that starts in the middle of a frame fails, or goes `astray` when the bytes
happen to form a small length. `biased` is not used to exclude behaviours: a
branch may become ready just after it was polled. The `else` branch and
`RecvError::Closed` are unreachable while the daemon lives and have no action.

### `Bootstrap` (crates/rift-transport-iroh, control frames of crates/rift-protocol)

One connection between a dialer and an acceptor, from `dial` and `accept` over
the control stream, the Hello exchange (`validate_hello` by what a Hello is:
valid, of another version, of another identity, oversized), the intent
(`request_intent`, `receive_intent`, `purpose_allowed`, the result) to the
admitted stream: `serve_authorized_control` with its first byte and the timed
rest of a frame, `StartPing` and `ReceivePong`, or the receipt of pairing
messages. A frame travels as a length and a payload, and every reader may stop
between the two. `pc` is the await at which a side is, `outcome` what its caller
is told, in the classes `is_retryable` tells apart; before there are frames a
loss is worth a retry or not by its cause, so both are possible (`Lost`,
`ConnectFails`). A `ConnectionIntent` on the wire is its purpose and a
`ConnectionIntentResult` its accepted bit: `asked` is the purpose the acceptor
has received, `decision` what it made of it, and `request_intent` goes by the bit
it reads. `Drained` is the wait of
`send_intent_result` after a rejection; `Dropped` is the guard of a bootstrap
whose future is dropped; `Hangs` is a peer that stops without closing. An
`unruly` side reads by its script, but whenever it writes it may write any message
instead of its own: another purpose, an acceptance of what it has refused, a
Pong nobody asked for.

### `LogicalTransfer` and `Transfer` (crates/rift-transfer)

`LogicalTransfer` is `state.rs` as functions from a machine to the set of its
successors, empty when the code returns an error, with the markers of
`record.rs` and the scan of `store.rs`. `Transfer` puts one machine on each side
of a session: `PrepareSource`, `HashSource` and `SendPayload` read the source one
chunk at a time while `SourceChanges` rewrites it; `TakeStream`, `SeekStaging`
and `ReceivePayload` extend a staging file that earlier attempts have left;
`Interrupted` is `AttemptControl::step` losing to a cancellation or a stream
error and `LocalIo` a failed read or write of the local file; after either
(`GivesUp`) any part of the buffered writes may be in the file. Digests
are the bytes themselves. `Lose`, `Notice` and `Reconnect` end and replace the
session; the two sides notice at different moments.

The repository has no owner of a transfer yet (nothing in the daemon calls the
crate). What the owner does here, sending and receiving the control messages,
joining workers, writing markers before transitions, publishing, replaying
outcomes, is what the crate's comments and `docs/protocol/v1.md` demand of it;
these definitions are marked external in `PROJECT.json`. The results are
therefore about the crate under an owner that keeps these rules.

`TransferContract` is the promise to the two users, without attempts, streams or
sessions: `Prepare`, `Consent`, `Deliver`, `Reject`, `GiveUp`, `Learn`,
`Settle`. `ImplementsContract` (`MCTransfer`) shows that `Transfer` implements it;
the file, the consent marker, the published output, each side's outcome and the
set of settled sides are read off the detailed state.

`MCTrustStore` and `MCSupervisor` add symmetry sets, `MCTransfer` the files of
its instance; `MCTrustStore` and `MCTransfer` hold the refinement mappings.

The theorems are in modules of their own, one per component: `TrustStoreProofs`,
`SupervisorProofs`, `PairingProofs`, `DataDirectoryProofs`, `IpcServerProofs`,
`BootstrapProofs`, `TransferProofs` (which also has the refinement of
`TransferContract`) and `TrustPolicyProofs` (the refinement of `TrustPolicy`).

## 3. Runs

| Run | Instance | Question and result |
|---|---|---|
| `trust_peers` | 2 peers, 1 attempt, 3 records, 2 crashes, power loss | Does any crash, power loss or I/O error at any await lose an acknowledged mutation, show a failed one, let memory drift from the file, let a pairing outlive a forget, or leave a journal that cannot be replayed? No; and the store implements `TrustPolicy`. |
| `trust_power_loss` | 1 peer, longer history | Violation: a revocation can be undone (section 5). |
| `supervisor_sessions` | 1 peer, 3 connections, 1 forget | Stale candidates, crossed dials, late results, ended and displaced sessions, permits and registries released at different times. Holds. |
| `supervisor_liveness` | 1 peer, 2 connections | Waiting callers and registered pairings. Holds. |
| `supervisor_reconnect` | as above, outbound preferred | Violation: a lost peer may never be dialled again. |
| `pairing` | 2 attempts, 1 forget per side | The same code for both humans, agreement of both decisions and both journals, order of reveals, termination. Holds. |
| `ipc_client` | 2 IDs, 4 frames, 2 outstanding, queue of 2, ring of 1 | Lost events or answers, shutdown. Holds. |
| `ipc_framing` | as above | Violation: a half-read request is lost to an event. |
| `directory_identity` | 2 processes, 2 keys, 2 kills, 1 power loss | One identity, never torn, no orphaned journal. Holds. |
| `directory_drop` | 2 processes, no kills | Violation: a stopping daemon deletes its successor's artifacts. |
| `transfer` | a file of 2 chunks, 2 rewrites, 1 lost session | Wholeness, consent, scan, contract, settlement. Holds. |
| `bootstrap` | every kind of Hello on either side, 2 pings | Admission by Hello and policy, rejections, conforming, lying and silent peers. Holds. |

Why the bounds are enough. In the journal, two records of one peer and a third
give every transition of the decision machine with one step of history before
and after it; two crashes put one crash inside the recovery from another. For the supervisor, three connections are a
registered session, a candidate that displaces it and the end of an earlier one,
all at once; one forget separates two generations; with every capacity at one,
pairings and dials of the one peer compete for permits and records. Two peers
that compete for one slot are not in these instances: with three connections
each the state space is too large to check, and that case rests on the proofs. In pairing the second attempt starts
from every state the first can leave. For IPC, a ring of one event and a queue
of two are full after two and three messages, and three requests after
authentication allow a pending, a repeated and a held-back one. In a transfer two
chunks have an offset strictly inside the file; two rewrites change the source
to a shorter file with another beginning and put it back, the case in which
neither the length nor the final contents betray the change; one lost session
gives a stale worker, a resumed attempt and replayed outcomes, and cancellation
by either user at any step crosses with each. In the bootstrap every wait can be
met by silence, loss and each kind of message; two pings put one after a served
one.

Section 4 removes these bounds, for all peers, attempts, connections, contents,
capacities and numbers of failures at once, from every property in the table
except the liveness properties and the four violations.

`MaxRecords` and `MaxGeneration` are guards named after the limits of the code
(`MAX_RECORDS`) or bounds on the search (generations, crashes, restarts,
frames, events); reaching a search bound only stops that input.
Deadlock checking is off where the modelled part may rest: a journal at its
limits, a supervisor with nothing to do, a closed client, a settled transfer, an
idle session.

Fairness. `Supervisor`: each setup and pairing step of a task is under a timeout
and a closed session is noticed, hence weak fairness of `TaskMoves`; the loop's
`select!` is unbiased, so a ready output or deadline is not passed over for
ever, hence strong fairness of `Join` and `take_due`, which another branch may
disable for a moment; weak fairness for the second half of a revoke and for
shutdown, which run to their end. Nothing is assumed of users, of remote peers
or of how long a healthy session lasts. `Pairing`: weak fairness of `Exchange`,
whose every wait has a timeout; no human has to decide. `IpcServer`: weak
fairness of the timers and of the shutdown branch; the client owes nothing.
`Bootstrap`: weak fairness of each side's own steps and of its timers, which
bound every wait but the idle one; a hung side is exempt and the network may
fail at any time. `Transfer`: weak fairness of each side's owner and worker and
of reconnection, which the supervisor schedules; no user has to decide and
nothing keeps a session up.

## 4. Proofs

Every invariant that a run checks, the action property and the two refinements
are theorems. In each module `InductiveInvariant` is `Spec => []IInv`, and the
others follow from it.

| Module | Theorem | Statement |
|---|---|---|
| `TrustStoreProofs` | `TypeCorrect` | `Spec => []TypeOK` |
| | `Durability` | `Spec => []AcknowledgedSurvives` |
| | `MemoryAgreement` | `Spec => []MemoryMatchesJournal` |
| | `RollbackHides` | `Spec => []FailedCommitInvisible` |
| | `GenerationFence` | `Spec => []ForgottenAttemptNeverCommits` |
| | `Replayability` | `Spec => []JournalStaysReplayable` |
| `TrustPolicyProofs` | `Refinement` | `Spec => ImplementsPolicy` |
| `SupervisorProofs` | `TypeCorrect` | `Spec => []TypeOK` |
| | `Authorization` | `Spec => []RegistriesAuthorized` |
| | `Invalidation` | `Spec => []InvalidatedPeerIsQuiet` |
| | `Suspension` | `Spec => []SuspendedStaysQuiet` |
| | `OneSession` | `Spec => []CanonicalSession` |
| | `Bounds` | `Spec => []BoundsHold` |
| | `Capacity` | sessions, managed peers and pending pairings are bounded |
| | `SessionKept` | `Spec => HealthySessionKept` |
| `PairingProofs` | `TypeCorrect` | `Spec => []TypeOK` |
| | `Consent` | `Spec => []TrustNeedsBothDecisions` |
| | `MutualCompletion` | `Spec => []CompletionIsMutual` |
| | `CommitBeforeReveal` | `Spec => []RevealsAreCommitted` |
| | `Agreement` | `Spec => []ScriptsAgree` |
| `DataDirectoryProofs` | `TypeCorrect` | `Spec => []TypeOK` |
| | `OneIdentity` | `Spec => []IdentityIsForever` |
| | `CrashSafety` | `Spec => []CrashNeverOrphansJournal` |
| | `OneOwner` | at most one process is between acquiring and releasing the lock |
| `IpcServerProofs` | `TypeCorrect` | `Spec => []TypeOK` |
| | `Events` | `Spec => []NoEventSkipped` |
| | `Answers` | `Spec => []AnswersKept` |
| `BootstrapProofs` | `TypeCorrect` | `Spec => []TypeOK` |
| | `Admission` | `Spec => []AdmissionAgrees` |
| | `Rejection` | `Spec => []RejectionIsHeard` |
| | `Conformance` | `Spec => []ConformingPeersAgree` |
| `TransferProofs` | `TypeCorrect` | `Spec => []TypeOK` |
| | `Completion` | `Spec => []CompletedIsWhole` |
| | `RestartSafety` | `Spec => []StoreScans` |
| | `ConsentToPayload` | `Spec => []PayloadNeedsAcceptance` |
| | `Refinement` | `Spec => ImplementsContract` |

They assume of the constants only what the models' `ASSUME`s say, and TLC
evaluates these on every run: bounds are natural numbers, capacities positive
(`ConstantsAssumption`, `BoundsAssumption`, `CapacityAssumption`,
`BootstrapAssumption`, `TransferAssumption`, `MaxAttemptAssumption`), sentinels
are no real values (`SentinelAssumption`, `IdsAssumption`,
`DirectoryAssumption`), peers and connections are finitely many, and the
daemon's configuration passes `validate`.

Each proof has the same layers: lemmas about the operators (replay, queues,
counting, the machine's methods), one lemma per action that it preserves `IInv`,
and the temporal theorems, which combine `InitIInv` and `NextIInv`. None of the
properties is inductive. What has to be added, and why:

**Journal.** That memory equals the replay of the file when the store is idle
depends on how far the file is ahead at each await of the commit before
(`ProgressInv`), which depends on who holds the mutex and when `poisoned` is set
(`LockInv`); that a power loss is harmless depends on every image, not on the
file alone, being a valid history that says what was acknowledged or is in limbo
(`ImagesInv`, with `FileInv` tying the file to the images and `MemoryInv` tying
memory to what callers were told); the fence needs the generation of a forgotten
attempt to be strictly behind (`FenceInv`).

**Trust policy.** The mapping sends the images to the maps a restart could find.
Beside `IInv` it needs one fact, `ServedInv`: a store that serves decisions could
be restarted into the same ones. The interesting step is the sync of a record:
that the mutation was legal when it was admitted must still be known then, and
it is because the file with the record appended is a valid history.

**Supervisor.** `StageInv` says what each stage of a task implies for the
connection and the registries, `DialInv` that a dial being set up is the one in
its peer's record (this gives the bound on dials that really run, by a
one-to-one map), `SessionInv` that registered work is still authorized except
for the peer that is being invalidated, `PolicyInv` that the policy follows
trust, suspension and the healthy session, `CountInv` the capacities, `StateInv`
that a daemon that does not run has given everything back.

**Pairing.** A side is described by how much of its script it has said and read;
`StreamInv` says that what is on its way is exactly the part said and not read,
which makes what was heard (`HeardInv`) what the other side drew. Decisions come
before their messages (`DecisionInv`) and the journal before Complete
(`CommitInv`).

**Data directory.** `LockInv` gives the one process that may write; `DraftInv`
and `ProgressInv` follow the identity through its temporary file and the start;
`ServedInv` says that what a ready daemon relied on has no other version on
disk; `OrphanInv` that without a power loss no journal is older than its
identity.

**IPC.** `AnswerInv` counts: a request that was taken off the wire is pending, in
the writer's queue or answered, and these numbers add up; `FrameInv` bounds the
requests by the frames that were sent, which keeps the counters typed;
`QueueInv` empties the queue outside of service. `NoEventSkipped` says of the
queue, by position, that the events in it continue what the client has read.

**Bootstrap.** `CountInv` and `ContentInv` tie the wire to the two program
counters: what can still be read is what was written and not taken, piece by
piece of the script. `GateInv` and `BadHelloInv` say what each side has verified
by the time it is where it is, `EarlyInv` that nothing of an answer is under way
before there is a decision, `RejectInv` that a rejected dialer is still there
to hear it. `AdmissionAgrees` has two halves of different strength. That an
acceptor past the gate has validated the Hello and provides what its policy allows
holds against any dialer. A dialer has validated the Hello too, but it knows the
decision only from the bit it was sent; that the bit is the decision is a
fact about the wire (`ContentInv`), which holds when both sides write what
the code writes. No more is claimed of a dialer that meets an unruly acceptor,
because the code gives no more.

**Transfer.** `MachineInv` makes both machines speak of the same file,
`MarkerInv` the records on disk follow the machines, `InboxInv` a message say
what its sender still holds; `WorkerInv` says that a receive worker has hashed
what is staged, whatever earlier attempts left, and `FileInv` that only a
verified file is published. The contract also needs `NewsInv`: an
acknowledgement stands for an outcome of the other side, or for a receiver that
has never heard of the transfer and will not, because no offer follows the
sender's outcome in the stream. Without the order of that stream a user could
be asked after the sender had forgotten the transfer.

Only model-checked:

- liveness (`WaitersAnswered`, `PairingSettles`, `AttemptSettles`, `ServerLetsGo`,
  `TransferSettles`, `SilentPeerIsLeft`), which needs fairness and `ENABLED`;
- the four violations of section 5, which are counterexamples;
- nothing is proved about what recursive code computes for inputs of every
  length. That the loop of `replay` computes the last decision is an induction
  over the journal, which the provers at hand cannot do; the specification uses
  the closed form.

## 5. What the runs found

1. **A revocation can be undone by a power loss** (`trust_power_loss`).
   `open_existing` syncs only after trimming a tail. A process dies after writing
   a revoke and before its sync; the next process replays and serves the record
   from the page cache; a power loss then takes it back. ADR 0007 calls
   revocation sticky.
2. **A lost peer may never be dialled again** (`supervisor_reconnect`).
   `take_due` clears the deadline and sets Connecting; if a pairing or a cancelled
   dial still occupies the peer's outbound record, the dial is refused and no
   later event touches the policy. `docs/daemon/runtime.md` promises a reconnect.
3. **A half-read request is lost** (`ipc_framing`). `read_json_frame` is a branch
   of the client task's `select!`; when an event or an answer wins, what it has
   read is dropped with it and the rest of the payload is taken for a length, so
   a well-formed request ends or stalls its connection. `docs/ipc/v1.md` says that
   answers and events coexist.
4. **A stopping daemon deletes its successor's artifacts** (`directory_drop`).
   `Drop for RuntimeArtifacts` removes descriptor and socket by path after the
   lock was released.

Seen while modelling and not stated as runs: a pairing that commits trust and
then fails to complete gives its reserved slot back although the peer stays
trusted, so more peers can become trusted than the next start accepts (ADR 0013
states the reservation); the path of a journal whose rollback failed, which
nothing on disk marks as quarantined (ADR 0008 leaves that to the operator);
`record_count`, which misses appends whose future was dropped, so that a journal
cut off by shutdown at exactly its limit is refused by the next open; a half-open
session, which stays canonical until the QUIC idle timeout while a peer that
reconnects in the same direction is refused; a side whose Hello is refused may see a lost connection, which it retries, because
the refusing side closes at once.

## 6. Not modelled

- Binding and configuring the Iroh endpoint, relay and lookup settings, parsing of
  addresses, the capacity of the hint table: library calls and pure validation.
- The Postcard and JSON encodings and the exact lengths of names and strings: pure
  functions over bytes; the models keep what each validation accepts.
- The arithmetic of `retry_delay`, the stability reset and the 100 ms spacing of
  dials: deadlines are flags, so the properties hold for every delay.
- Two supervisors composed. `Supervisor` meets an arbitrary peer instead, which
  includes another supervisor; that two of them choose the same of two crossed
  connections follows from `replaces` being a function of the two identities.
- The owner of a transfer, its file names, permissions and publication by link;
  progress callbacks. Four consequences: `Publish` is one step, so no crash falls
  between the promotion of a file and its Completed marker; `TakeStream` resets a
  stream that no accepted offer expects, where `docs/protocol/v1.md` makes data
  before acceptance and a second stream violations that end the session; an
  `IdleTimeout` of an attempt whose stream is alive has no action, because
  nothing says whether its owner pauses or fails the transfer; a local error
  while a source is being prepared, before there is a transfer, has none either.
- `ShortPayload` and `ExtraPayload` of `receive_payload`: both sides of `Transfer` run
  the crate, whose sender finishes its stream exactly at the announced length.
- Permissions, symbolic links, logging and event contents; read-only queries.
- `riftd` (argument parsing and signals), `rift-core` (value types), `rift-spike` (a
  superseded experiment) and `xtask`.

## 7. Plan

1. `retry_delay` as an operator with its bounds (the cap, attempt 0, the largest
   jitter sample) as a theorem; the deadlines of the supervisor stay flags.
2. The pairing that commits trust and fails to complete, with the slot it gives
   back, as a property of `Supervisor` over restarts.
3. Action properties of the other modules in the manner of `SessionKept`: what a
   step of the journal, the directory and the two machines may never do.

## 8. Running

    tlc -workers 2 -config TrustStore_peers.cfg MCTrustStore
    for m in *Proofs.tla; do tlapm "$m"; done

`PROJECT.json` lists every run with its module and configuration, the source
lines of every definition, and for each property a mutant of the model, the
kind of slip the code could have, that the property rejects.
