----------------------------- MODULE TrustStore -----------------------------
(***************************************************************************)
(* The durable trust journal of rift-trust (crates/rift-trust/src/lib.rs). *)
(*                                                                         *)
(* One process owns one append-only journal file.  Every mutation (Trust,  *)
(* Revoke, Forget) is appended, flushed and synced before the in-memory    *)
(* decisions change; a failure poisons the instance and rolls the file     *)
(* back.  The file can be lost in the middle of any of those steps, by a   *)
(* process crash or by a power loss, and is replayed by the next open.     *)
(*                                                                         *)
(* Data abstraction.  A record is its mutation; lengths and offsets are    *)
(* counted in records, so file_len and record_count, which the code always *)
(* updates together, are one variable.  Bytes that follow the last         *)
(* complete record are "partial" (too short for the envelope) or "corrupt" *)
(* (complete, wrong checksum).  Peer display metadata is left out.         *)
(***************************************************************************)
EXTENDS Naturals, Sequences

CONSTANTS
    Peers,          \* remote DeviceIds
    Attempts,       \* pairing attempts alive in the owning process
    MaxRecords,     \* MAX_RECORDS: the journal's capacity
    MaxGeneration,  \* bound on forgets per process, below u64 saturation
    MaxCrashes,     \* bound on the times the process is lost
    PowerLoss,      \* TRUE: unsynced bytes may be lost, not only the process
    NoOp,           \* no commit holds the store's mutex
    NoAttempt       \* an unused attempt slot

ASSUME ConstantsAssumption ==
    /\ MaxRecords \in Nat
    /\ MaxGeneration \in Nat
    /\ MaxCrashes \in Nat
    /\ PowerLoss \in BOOLEAN

\* A NoOp or NoAttempt is not one of the records it stands in for.
ASSUME SentinelAssumption ==
    /\ NoOp \notin [op : {"Trust", "Revoke", "Forget"}, peer : Peers, forgotten : BOOLEAN]
    /\ NoAttempt \notin [peer : Peers, generation : 0..MaxGeneration, forgotten : BOOLEAN]

VARIABLES
    file,         \* the file as the operating system shows it
    images,       \* the contents a power loss may leave behind
    phase,        \* what the store is doing: see Phases
    op,           \* the commit that holds the mutex, or NoOp
    decisions,    \* StoreInner.decisions (kept, unread, while the store is down)
    record_count, \* StoreInner.record_count and file_len, in records
    generations,  \* StoreInner.generations: in memory only
    poisoned,     \* StoreInner.poisoned
    stopping,     \* the daemon's shutdown signal has been sent
    attempts,     \* the generation each pairing attempt captured
    crashes,      \* how often the process was lost (bounded)
    acked,        \* history: the decisions acknowledged to callers
    limbo,        \* history: decisions whose outcome no caller was told
    quarantined   \* history: a rollback failed on this path

vars == <<file, images, phase, op, decisions, record_count, generations, poisoned,
          stopping, attempts, crashes, acked, limbo, quarantined>>
history == <<crashes, acked, limbo, quarantined>>
memory == <<decisions, record_count, generations, poisoned>>

-----------------------------------------------------------------------------
(* Journal contents *)

Mutation == [op : {"Trust", "Revoke", "Forget"}, peer : Peers]
State == {"Unknown", "Trusted", "Revoked"}
File == [header : {"absent", "partial", "ok"},
         recs : Seq(Mutation),
         tail : {"none", "partial", "corrupt"}]

\* Variant: a Forget leaves a tombstone instead of removing the decision.
ForgetLeavesTombstone(m) ==
    CASE m.op = "Trust"  -> "Trusted"
      [] m.op = "Revoke" -> "Revoked"
      [] m.op = "Forget" -> "Forgotten"

\* The decision a mutation leaves for its peer: absence is "Unknown".
apply_mutation(m) ==
    CASE m.op = "Trust"  -> "Trusted"
      [] m.op = "Revoke" -> "Revoked"
      [] m.op = "Forget" -> "Unknown"

\* Record i is the last of the first n that names p.
Decides(recs, n, p, i) ==
    /\ recs[i].peer = p
    /\ \A j \in 1..n : recs[j].peer = p => j <= i

\* What replaying the first n records says about p.
DecisionAt(recs, n, p) ==
    IF \E i \in 1..n : Decides(recs, n, p, i)
    THEN apply_mutation(recs[CHOOSE i \in 1..n : Decides(recs, n, p, i)])
    ELSE "Unknown"

Replay(recs) == [p \in Peers |-> DecisionAt(recs, Len(recs), p)]

\* Variant: the sticky-revocation check is missing.
AnyTransition(decision, m) == TRUE

\* A Trust is refused for an identity that stands revoked.
validate_transition(decision, m) == m.op = "Trust" => decision # "Revoked"

\* Every record was admissible where it stands.
ValidHistory(recs) ==
    \A i \in 1..Len(recs) :
        validate_transition(DecisionAt(recs, i - 1, recs[i].peer), recs[i])

validate_header(f) == f.header = "ok"

\* replay succeeds: an incomplete tail is tolerated, anything else is fatal.
replay_ok(f) ==
    /\ validate_header(f)
    /\ f.tail # "corrupt"
    /\ Len(f.recs) <= MaxRecords
    /\ ValidHistory(f.recs)

\* The bytes of a record that is being appended to f.
Torn(f) == {[f EXCEPT !.tail = t] : t \in {"partial", "corrupt"}}
Appended(f, m) ==
    [f EXCEPT !.recs = Append(@, [op |-> m.op, peer |-> m.peer]), !.tail = "none"]
\* Variant: the rollback length is one record short.
TruncatedTooFar(f, n) == [f EXCEPT !.recs = SubSeq(@, 1, n - 1), !.tail = "none"]
Truncated(f, n) == [f EXCEPT !.recs = SubSeq(@, 1, n), !.tail = "none"]

-----------------------------------------------------------------------------
(* Phases of the single StoreInner: no instance; opening; idle; the awaits   *)
(* of persist_record; the awaits of rollback_record.                         *)
Persisting == {"write", "flush", "sync"}
RollingBack == {"truncate", "truncate_sync"}
Opening == {"header", "trim", "trim_sync"}
Phases == {"down", "idle"} \cup Opening \cup Persisting \cup RollingBack

\* forgotten is history: a forget of peer succeeded after the attempt was admitted.
Operation == [op : {"Trust", "Revoke", "Forget"}, peer : Peers, forgotten : BOOLEAN]
Attempt == [peer : Peers, generation : 0..MaxGeneration, forgotten : BOOLEAN]

\* Once f is all a power loss can leave, only the outcomes f shows stay possible.
Settle(outcomes, f) == {o \in outcomes : Replay(f.recs)[o[1]] = o[2]}

\* The outcome of the commit in flight that its caller has not been told.
InFlight == IF op = NoOp THEN {} ELSE {<<op.peer, apply_mutation(op)>>}

Init ==
    /\ file = [header |-> "absent", recs |-> <<>>, tail |-> "none"]
    /\ images = {file}
    /\ phase = "down"
    /\ op = NoOp
    /\ decisions = [p \in Peers |-> "Unknown"]
    /\ record_count = 0
    /\ generations = [p \in Peers |-> 0]
    /\ poisoned = FALSE
    /\ stopping = FALSE
    /\ attempts = [a \in Attempts |-> NoAttempt]
    /\ crashes = 0
    /\ acked = [p \in Peers |-> "Unknown"]
    /\ limbo = {}
    /\ quarantined = FALSE

-----------------------------------------------------------------------------
(* Opening *)

\* from_parts: a fresh instance over the replayed records.
from_parts(recs) ==
    /\ phase' = "idle"
    /\ decisions' = Replay(recs)
    /\ record_count' = Len(recs)
    /\ generations' = [p \in Peers |-> 0]
    /\ poisoned' = FALSE

\* open: create_new succeeded and the header's bytes are on their way.
CreateJournal ==
    /\ phase = "down"
    /\ file.header = "absent"
    /\ file' = [file EXCEPT !.header = "partial"]
    /\ images' = images \cup {file', [file EXCEPT !.header = "ok"]}
    /\ phase' = "header"
    /\ UNCHANGED <<op, memory, stopping, attempts, history>>

\* write_header: written, flushed and synced.
write_header ==
    /\ phase = "header"
    /\ file' = [file EXCEPT !.header = "ok"]
    /\ images' = {file'}
    /\ from_parts(<<>>)
    /\ UNCHANGED <<op, stopping, attempts, history>>

\* A write, flush or sync of the header fails: open returns the error.
WriteHeaderFails ==
    /\ phase = "header"
    /\ file' \in {file, [file EXCEPT !.header = "ok"]}
    /\ phase' = "down"
    /\ UNCHANGED <<images, op, memory, stopping, attempts, history>>

\* Variant: an incomplete tail is ignored instead of truncated.
OpenKeepingTail ==
    /\ phase = "down"
    /\ replay_ok(file)
    /\ from_parts(file.recs)
    /\ UNCHANGED <<file, images, op, stopping, attempts, history>>

\* open_existing on a journal that ends with a complete record.
OpenExisting ==
    /\ phase = "down"
    /\ replay_ok(file)
    /\ file.tail = "none"
    /\ from_parts(file.recs)
    /\ UNCHANGED <<file, images, op, stopping, attempts, history>>

\* open_existing finds an interrupted append and has to truncate it.
OpenWithIncompleteTail ==
    /\ phase = "down"
    /\ replay_ok(file)
    /\ file.tail = "partial"
    /\ phase' = "trim"
    /\ UNCHANGED <<file, images, op, memory, stopping, attempts, history>>

TrimTail ==
    /\ phase = "trim"
    /\ file' = Truncated(file, Len(file.recs))
    /\ images' = images \cup {file'}
    /\ phase' = "trim_sync"
    /\ UNCHANGED <<op, memory, stopping, attempts, history>>

SyncTrimmedTail ==
    /\ phase = "trim_sync"
    /\ images' = {file}
    /\ from_parts(file.recs)
    /\ limbo' = Settle(limbo, file)
    /\ UNCHANGED <<file, op, stopping, attempts, crashes, acked, quarantined>>

\* set_len or sync_data fails during recovery: open returns the error.
TrimFails ==
    /\ phase \in {"trim", "trim_sync"}
    /\ phase' = "down"
    /\ UNCHANGED <<file, images, op, memory, stopping, attempts, history>>

\* Any other damage fails the whole open, and nothing is exposed.
OpenRejected ==
    /\ phase = "down"
    /\ file.header # "absent"
    /\ ~replay_ok(file)
    /\ UNCHANGED vars

-----------------------------------------------------------------------------
(* Commits.  commit takes the mutex, runs its checks and keeps the mutex     *)
(* through every await of persist_record and rollback_record.                *)

\* A pairing attempt captures the peer's generation when it is admitted.
BeginAttempt(a, p) ==
    /\ phase = "idle"
    /\ ~stopping
    /\ attempts[a] = NoAttempt
    /\ attempts' = [attempts EXCEPT ![a] =
                        [peer |-> p, generation |-> generations[p], forgotten |-> FALSE]]
    /\ UNCHANGED <<file, images, phase, op, memory, stopping, history>>

\* Variants: commit without its generation fence, and without validate_transition.
CommitUnfenced(m, expected) ==
    /\ phase = "idle"
    /\ ~poisoned
    /\ validate_transition(decisions[m.peer], m)
    /\ record_count < MaxRecords
CommitUnvalidated(m, expected) ==
    /\ phase = "idle"
    /\ ~poisoned
    /\ expected = generations[m.peer]
    /\ record_count < MaxRecords

\* commit's checks, in the code's order; any of them failing is an early return.
CommitAllowed(m, expected) ==
    /\ phase = "idle"
    /\ ~poisoned
    /\ expected = generations[m.peer]
    /\ validate_transition(decisions[m.peer], m)
    /\ record_count < MaxRecords

commit(m, expected) ==
    /\ CommitAllowed(m, expected)
    /\ op' = m
    /\ phase' = "write"
    /\ UNCHANGED <<file, images, memory, stopping, history>>

TrustBy(a) ==
    [op |-> "Trust", peer |-> attempts[a].peer, forgotten |-> attempts[a].forgotten]

\* The pairing task commits; confirm has consumed the attempt.
trust_if_generation(a) ==
    /\ attempts[a] # NoAttempt
    /\ ~stopping
    /\ commit(TrustBy(a), attempts[a].generation)
    /\ attempts' = [attempts EXCEPT ![a] = NoAttempt]

\* The attempt ends without a commit: refused, rejected or expired.
EndAttempt(a) ==
    /\ attempts[a] # NoAttempt
    /\ attempts' = [attempts EXCEPT ![a] = NoAttempt]
    /\ UNCHANGED <<file, images, phase, op, memory, stopping, history>>

\* The supervisor loop's mutations carry no expected generation.
revoke(p) ==
    /\ ~stopping
    /\ commit([op |-> "Revoke", peer |-> p, forgotten |-> FALSE], generations[p])
    /\ UNCHANGED attempts

forget(p) ==
    /\ ~stopping
    /\ generations[p] < MaxGeneration
    /\ commit([op |-> "Forget", peer |-> p, forgotten |-> FALSE], generations[p])
    /\ UNCHANGED attempts

\* persist_record: some of the record's bytes reach the file.
WriteSomeBytes ==
    /\ phase = "write"
    /\ file.tail = "none"
    /\ file' = [file EXCEPT !.tail = "partial"]
    /\ images' = images \cup Torn(file)
    /\ UNCHANGED <<phase, op, memory, stopping, attempts, history>>

WriteRecord ==
    /\ phase = "write"
    /\ file' = Appended(file, op)
    /\ images' = images \cup Torn(file) \cup {file'}
    /\ phase' = "flush"
    /\ UNCHANGED <<op, memory, stopping, attempts, history>>

FlushRecord ==
    /\ phase = "flush"
    /\ phase' = "sync"
    /\ UNCHANGED <<file, images, op, memory, stopping, attempts, history>>

\* sync_data succeeds, and only now do the decisions change.
SyncRecord ==
    /\ phase = "sync"
    /\ images' = {file}
    /\ phase' = "idle"
    /\ op' = NoOp
    /\ decisions' = [decisions EXCEPT ![op.peer] = apply_mutation(op)]
    /\ generations' = IF op.op = "Forget"
                      THEN [generations EXCEPT ![op.peer] = @ + 1]
                      ELSE generations
    /\ record_count' = record_count + 1
    /\ attempts' = [a \in Attempts |->
                       IF /\ op.op = "Forget"
                          /\ attempts[a] # NoAttempt
                          /\ attempts[a].peer = op.peer
                       THEN [attempts[a] EXCEPT !.forgotten = TRUE]
                       ELSE attempts[a]]
    /\ acked' = [acked EXCEPT ![op.peer] = apply_mutation(op)]
    /\ limbo' = {o \in Settle(limbo, file) : o[1] # op.peer}
    /\ UNCHANGED <<file, poisoned, stopping, crashes, quarantined>>

\* Any step of persist_record fails, with or without effect: poison first.
PersistFails ==
    /\ phase \in Persisting
    /\ poisoned' = TRUE
    /\ phase' = "truncate"
    /\ UNCHANGED <<file, images, op, decisions, record_count, generations, stopping,
                   attempts, history>>

TruncateFailedCommit ==
    /\ phase = "truncate"
    /\ file' = Truncated(file, record_count)
    /\ images' = images \cup {file'}
    /\ phase' = "truncate_sync"
    /\ UNCHANGED <<op, memory, stopping, attempts, history>>

\* Variant: the rollback is not synced.
RollbackNotSynced ==
    /\ phase = "truncate_sync"
    /\ phase' = "idle"
    /\ op' = NoOp
    /\ UNCHANGED <<file, images, memory, stopping, attempts, history>>

\* rollback_record succeeds: commit returns the original failure.
SyncRollback ==
    /\ phase = "truncate_sync"
    /\ images' = {file}
    /\ phase' = "idle"
    /\ op' = NoOp
    /\ limbo' = Settle(limbo, file)
    /\ UNCHANGED <<file, memory, stopping, attempts, crashes, acked, quarantined>>

\* rollback_record fails: commit returns RollbackFailed.
RollbackFails ==
    /\ phase \in RollingBack
    /\ phase' = "idle"
    /\ op' = NoOp
    /\ limbo' = limbo \cup InFlight
    /\ quarantined' = TRUE
    /\ UNCHANGED <<file, images, memory, stopping, attempts, crashes, acked>>

-----------------------------------------------------------------------------
(* The environment *)

\* The supervisor leaves its loop and sends the shutdown signal; a pairing task
\* may be anywhere in its commit.
Shutdown ==
    /\ phase \in {"idle"} \cup Persisting \cup RollingBack
    /\ op # NoOp => op.op = "Trust"
    /\ ~stopping
    /\ stopping' = TRUE
    /\ UNCHANGED <<file, images, phase, op, memory, attempts, history>>

\* resolve_pending_pairing drops the confirm future at one of commit's awaits:
\* the mutex is released with the append neither acknowledged nor rolled back.
DropCommit ==
    /\ stopping
    /\ phase \in Persisting \cup RollingBack
    /\ phase' = "idle"
    /\ op' = NoOp
    /\ limbo' = limbo \cup InFlight
    /\ UNCHANGED <<file, images, memory, stopping, attempts, crashes, acked, quarantined>>

\* A pairing task that was waiting for the mutex is polled once more: it hands its
\* record to the file and is dropped at the next await.
LateCommit(a) ==
    /\ stopping
    /\ attempts[a] # NoAttempt
    /\ CommitAllowed(TrustBy(a), attempts[a].generation)
    /\ file.tail = "none"
    /\ file' \in {[file EXCEPT !.tail = "partial"], Appended(file, TrustBy(a))}
    /\ images' = images \cup Torn(file) \cup {file'}
    /\ attempts' = [attempts EXCEPT ![a] = NoAttempt]
    /\ limbo' = limbo \cup {<<attempts[a].peer, "Trusted">>}
    /\ UNCHANGED <<phase, op, memory, stopping, crashes, acked, quarantined>>

\* What every end of the process does to the state that lived in it.
ProcessGone ==
    /\ crashes < MaxCrashes
    /\ crashes' = crashes + 1
    /\ phase' = "down"
    /\ op' = NoOp
    /\ stopping' = FALSE
    /\ record_count' = 0
    /\ generations' = [p \in Peers |-> 0]
    /\ poisoned' = FALSE
    /\ attempts' = [a \in Attempts |-> NoAttempt]
    /\ UNCHANGED <<decisions, acked, quarantined>>

\* The process exits or is killed: the file keeps what was written.
ProcessCrash ==
    /\ phase # "down"
    /\ ProcessGone
    /\ limbo' = limbo \cup InFlight
    /\ UNCHANGED <<file, images>>

\* Power fails: the file keeps what was synced, and any part of the rest.
PowerFails ==
    /\ PowerLoss
    /\ file' \in images
    /\ images' = {file'}
    /\ ProcessGone
    /\ limbo' = Settle(limbo \cup InFlight, file')

Next ==
    \/ CreateJournal \/ write_header \/ WriteHeaderFails
    \/ OpenExisting \/ OpenWithIncompleteTail \/ OpenRejected
    \/ TrimTail \/ SyncTrimmedTail \/ TrimFails
    \/ \E a \in Attempts : (\E p \in Peers : BeginAttempt(a, p))
                           \/ trust_if_generation(a) \/ EndAttempt(a) \/ LateCommit(a)
    \/ \E p \in Peers : revoke(p) \/ forget(p)
    \/ WriteSomeBytes \/ WriteRecord \/ FlushRecord \/ SyncRecord
    \/ PersistFails \/ TruncateFailedCommit \/ SyncRollback \/ RollbackFails
    \/ Shutdown \/ DropCommit \/ ProcessCrash \/ PowerFails

Spec == Init /\ [][Next]_vars

-----------------------------------------------------------------------------
(* Properties *)

\* Types of every variable of the store.
TypeOK ==
    /\ file \in File
    /\ images \in SUBSET File
    /\ phase \in Phases
    /\ op \in Operation \cup {NoOp}
    /\ decisions \in [Peers -> State]
    /\ record_count \in Nat
    /\ generations \in [Peers -> 0..MaxGeneration]
    /\ poisoned \in BOOLEAN
    /\ stopping \in BOOLEAN
    /\ attempts \in [Attempts -> Attempt \cup {NoAttempt}]
    /\ crashes \in Nat
    /\ acked \in [Peers -> State]
    /\ limbo \in SUBSET (Peers \X State)
    /\ quarantined \in BOOLEAN

\* commit syncs before it acknowledges: whatever a crash or a power loss leaves
\* that can still be replayed says of each peer what its last acknowledged
\* mutation said, or what a mutation nobody was told the outcome of said.
AcknowledgedSurvives ==
    \A f \in images :
        replay_ok(f) =>
            \A p \in Peers :
                \/ Replay(f.recs)[p] = acked[p]
                \/ <<p, Replay(f.recs)[p]>> \in limbo \cup InFlight

\* A serving instance's decisions are those of the journal, record for record:
\* no append, failure or recovery lets memory and file drift apart.
MemoryMatchesJournal ==
    (phase = "idle" /\ ~poisoned /\ ~stopping) =>
        /\ decisions = Replay(file.recs)
        /\ record_count = Len(file.recs)
        /\ file.tail = "none"

\* A commit that failed and was rolled back is invisible: no later open, even
\* after a power loss, can replay it.
FailedCommitInvisible ==
    (phase = "idle" /\ poisoned /\ ~quarantined /\ ~stopping) =>
        \A f \in images : f.tail = "none" /\ Replay(f.recs) = decisions

\* A pairing attempt admitted before a successful forget of its peer never
\* gets its Trust record as far as the file (the generation fence).
ForgottenAttemptNeverCommits == op # NoOp => ~op.forgotten

\* Only a torn append can stop the next open: whatever else a crash or a power
\* loss leaves replays, within the record limit unless pairings were cut off.
JournalStaysReplayable ==
    \A f \in images :
        (f.header = "ok" /\ f.tail # "corrupt") =>
            ValidHistory(f.recs) /\ (Len(f.recs) <= MaxRecords \/ limbo # {})

\* A decision is only exposed as Trusted after Revoked when a Forget came between,
\* through any sequence of failures, crashes and reopens (ADR 0007: sticky).
RevocationIsSticky ==
    [][\A p \in Peers : decisions[p] = "Revoked" => decisions'[p] # "Trusted"]_decisions

-----------------------------------------------------------------------------
(* The inductive invariant behind the properties above. *)

Serving == phase \in {"idle"} \cup Persisting \cup RollingBack

\* The mutex is held exactly during a commit, and poisoned is set before the
\* first await of a rollback.
LockInv ==
    /\ op # NoOp <=> phase \in Persisting \cup RollingBack
    /\ phase \in Persisting => ~poisoned
    /\ phase \in RollingBack => poisoned
    /\ (stopping /\ op # NoOp) => op.op = "Trust"
    /\ stopping => Serving

\* The file is one of the images, and only a complete header has records.
FileInv ==
    /\ file \in images
    /\ \A f \in images : f.header # "ok" => f.recs = <<>> /\ f.tail = "none"
    /\ phase = "header" => file.header = "partial" /\ [file EXCEPT !.header = "ok"] \in images
    /\ phase \notin {"down", "header"} => file.header = "ok"
    /\ phase = "trim_sync" => file.tail = "none"

\* How far the file is ahead of memory at each await of a commit.
ProgressInv ==
    /\ Serving => /\ record_count <= Len(file.recs)
                  /\ Replay(SubSeq(file.recs, 1, record_count)) = decisions
    /\ (phase = "idle" /\ ~poisoned /\ ~stopping) =>
           /\ record_count = Len(file.recs)
           /\ file.tail = "none"
    /\ (phase = "idle" /\ ~poisoned /\ stopping) =>
           \A p \in Peers : Replay(file.recs)[p] \in {decisions[p], "Trusted"}
    /\ phase = "write" =>
           /\ record_count = Len(file.recs)
           /\ record_count < MaxRecords
           /\ validate_transition(decisions[op.peer], op)
    /\ phase \in {"flush", "sync"} =>
           /\ file.tail = "none"
           /\ Len(file.recs) = record_count + 1
           /\ Len(file.recs) <= MaxRecords
           /\ Replay(file.recs) = [decisions EXCEPT ![op.peer] = apply_mutation(op)]
    /\ phase \in RollingBack => record_count < MaxRecords
    /\ phase = "truncate_sync" =>
           /\ file.tail = "none"
           /\ Replay(file.recs) = decisions

\* What memory shows was acknowledged, or recovered with its outcome unknown.
MemoryInv ==
    Serving => \A p \in Peers : decisions[p] = acked[p] \/ <<p, decisions[p]>> \in limbo

\* Every image is a valid history that says what was acknowledged or is in limbo.
ImagesInv ==
    /\ \A f \in images :
          /\ ValidHistory(f.recs)
          /\ \A p \in Peers : \/ Replay(f.recs)[p] = acked[p]
                              \/ <<p, Replay(f.recs)[p]>> \in limbo \cup InFlight
          /\ Len(f.recs) > MaxRecords => \E o \in limbo : Replay(f.recs)[o[1]] = o[2]

\* A forgotten attempt's generation is behind its peer's, and no attempt outlives
\* its process.
FenceInv ==
    /\ \A a \in Attempts :
          attempts[a] # NoAttempt =>
              /\ attempts[a].generation <= generations[attempts[a].peer]
              /\ attempts[a].forgotten =>
                     attempts[a].generation < generations[attempts[a].peer]
    /\ ~Serving => attempts = [a \in Attempts |-> NoAttempt]
    /\ op # NoOp => ~op.forgotten
    /\ (op # NoOp /\ op.op = "Forget") => generations[op.peer] < MaxGeneration

\* The strengthening of the safety properties that every step preserves.
IInv ==
    /\ TypeOK
    /\ LockInv
    /\ FileInv
    /\ ProgressInv
    /\ MemoryInv
    /\ ImagesInv
    /\ FailedCommitInvisible
    /\ FenceInv

=============================================================================
