-------------------------- MODULE TrustPolicyProofs --------------------------
(* The trust store implements TrustPolicy, for every set of peers and all     *)
(* bounds: each await, failure, crash and recovery of the journal is a step   *)
(* of the policy or invisible to it.                                          *)
EXTENDS MCTrustStore, TrustStoreProofs

-----------------------------------------------------------------------------
(* The policy's state, read off the store's *)

\* The decisions that the next open may serve.
Recoverable == {Replay(f.recs) : f \in images}

\* A store that serves decisions could be restarted into the same ones.
ServedInv == Serving => decisions \in Recoverable

\* A step that the policy does not see.
Unseen ==
    /\ decisions' = decisions /\ Recoverable' = Recoverable
    /\ phase' \in {"down"} \cup Opening \/ Serving

\* A step of the policy, or none.
PolicyStep == Policy!Next \/ (decisions' = decisions /\ Recoverable' = Recoverable)

\* New images of the same records recover the same decisions.
LEMMA SameRecords ==
    ASSUME NEW new, images' = images \cup new, file \in images,
           \A g \in new : g.recs = file.recs
    PROVE  Recoverable' = Recoverable
BY DEF Recoverable

\* One image of other records adds its decisions.
LEMMA OneMore ==
    ASSUME NEW new, NEW g, images' = images \cup new \cup {g}, file \in images,
           \A h \in new : h.recs = file.recs
    PROVE  Recoverable' = Recoverable \cup {Replay(g.recs)}
BY DEF Recoverable

\* What the disk settles on.
LEMMA OneImage ==
    ASSUME NEW g, images' = {g}
    PROVE  Recoverable' = {Replay(g.recs)}
BY DEF Recoverable

\* A step nobody sees and the disk does not show is a stutter of the policy.
LEMMA UnseenStep ==
    ASSUME ServedInv, Unseen
    PROVE  PolicyStep /\ ServedInv'
BY DEF Unseen, PolicyStep, ServedInv, Serving, Opening, Persisting, RollingBack

\* Opening serves what the file says.
LEMMA RecoverStep ==
    ASSUME NEW g \in images, decisions' = Replay(g.recs),
           images' = images \/ Recoverable' = {Replay(g.recs)}
    PROVE  PolicyStep /\ ServedInv'
<1>1. decisions' \in Recoverable BY DEF Recoverable
<1>2. Recoverable' = Recoverable \/ Recoverable' = {decisions'} BY DEF Recoverable
<1>3. Policy!Recover BY <1>1, <1>2 DEF Policy!Recover, Recoverable
<1>4. decisions' \in Recoverable' BY <1>1, <1>2
<1> QED BY <1>3, <1>4 DEF PolicyStep, Policy!Next, ServedInv

\* A record that reaches the file is a legal mutation under way.
LEMMA AttemptStep ==
    ASSUME IInv, ServedInv, NEW m \in Operation, decisions' = decisions,
           validate_transition(decisions[m.peer], m), Serving,
           Recoverable' = Recoverable \cup {[Replay(file.recs) EXCEPT ![m.peer] = apply_mutation(m)]}
    PROVE  PolicyStep /\ ServedInv'
<1>1. PICK n : n = [op |-> m.op, peer |-> m.peer] OBVIOUS
<1>2. n \in Policy!Mutations /\ n.op = m.op /\ n.peer = m.peer
  BY <1>1 DEF Policy!Mutations, Operation
<1>3. Policy!Effect(n) = apply_mutation(m) BY <1>2 DEF Policy!Effect, apply_mutation
<1>4. Policy!Legal(n) BY <1>2 DEF Policy!Legal, validate_transition
<1>5. Replay(file.recs) \in Recoverable BY DEF Recoverable, IInv, FileInv
<1>6. Policy!Attempt(n)
  BY <1>2, <1>3, <1>4, <1>5 DEF Policy!Attempt, Recoverable
<1>7. Policy!Next BY <1>2, <1>6 DEF Policy!Next
<1>8. ServedInv' BY DEF ServedInv
<1> QED BY <1>7, <1>8 DEF PolicyStep

-----------------------------------------------------------------------------
(* Each action of the store *)

\* Opens, attempts, flushes, failures and ends of the process that leave the disk
\* and what is served alone.
LEMMA QuietSteps ==
    ASSUME IInv, ServedInv,
           \/ WriteHeaderFails \/ OpenWithIncompleteTail \/ OpenRejected \/ TrimFails
           \/ FlushRecord \/ PersistFails \/ RollbackFails \/ Shutdown \/ DropCommit \/ ProcessCrash
           \/ UNCHANGED vars
    PROVE  PolicyStep /\ ServedInv'
<1>1. images' = images /\ decisions' = decisions
  BY DEF WriteHeaderFails, OpenWithIncompleteTail, OpenRejected, TrimFails, FlushRecord, PersistFails,
         RollbackFails, Shutdown, DropCommit, ProcessCrash, ProcessGone, memory, vars
<1>2. Recoverable' = Recoverable BY <1>1 DEF Recoverable
<1>3. (phase' \in {"down"} \cup Opening) \/ Serving \/ phase' = phase
  BY DEF WriteHeaderFails, OpenWithIncompleteTail, OpenRejected, TrimFails, FlushRecord, PersistFails,
         RollbackFails, Shutdown, DropCommit, ProcessCrash, ProcessGone, vars,
         Serving, Opening, Persisting, RollingBack
<1>4. CASE phase' = phase BY <1>1, <1>2, <1>4 DEF PolicyStep, ServedInv, Serving
<1>5. CASE (phase' \in {"down"} \cup Opening) \/ Serving
  BY <1>1, <1>2, <1>5, UnseenStep DEF Unseen
<1> QED BY <1>3, <1>4, <1>5

\* Starting and ending a pairing attempt, and the guards of a trust, are not visible.
LEMMA AttemptSteps ==
    ASSUME IInv, ServedInv, NEW a \in Attempts,
           (\E p \in Peers : BeginAttempt(a, p)) \/ trust_if_generation(a) \/ EndAttempt(a)
    PROVE  PolicyStep /\ ServedInv'
<1>1. images' = images /\ decisions' = decisions
  BY DEF BeginAttempt, trust_if_generation, EndAttempt, commit, memory
<1>2. Recoverable' = Recoverable BY <1>1 DEF Recoverable
<1>3. Serving \/ phase' = phase
  BY DEF BeginAttempt, trust_if_generation, EndAttempt, commit, CommitAllowed, Serving
<1> QED BY <1>1, <1>2, <1>3 DEF PolicyStep, ServedInv, Serving

\* The guards of revoke and forget are not visible before the record is written.
LEMMA CommitSteps ==
    ASSUME IInv, ServedInv, NEW p \in Peers, revoke(p) \/ forget(p)
    PROVE  PolicyStep /\ ServedInv'
<1>1. images' = images /\ decisions' = decisions /\ Serving
  BY DEF revoke, forget, commit, CommitAllowed, memory, Serving
<1>2. Recoverable' = Recoverable BY <1>1 DEF Recoverable
<1> QED BY <1>1, <1>2, UnseenStep DEF Unseen

\* Creating the file, trimming a tail and tearing a record leave no other record.
LEMMA TornSteps ==
    ASSUME IInv, ServedInv, CreateJournal \/ TrimTail \/ WriteSomeBytes
    PROVE  PolicyStep /\ ServedInv'
<1>1. file \in File /\ file \in images BY DEF IInv, TypeOK, FileInv
<1>2. decisions' = decisions BY DEF CreateJournal, TrimTail, WriteSomeBytes, memory
<1>3. (phase' \in {"down"} \cup Opening) \/ Serving
  BY DEF CreateJournal, TrimTail, WriteSomeBytes, Opening, Serving, Persisting
<1>4. Recoverable' = Recoverable
  <2>1. CASE CreateJournal
    <3>1. PICK new : new = {file', [file EXCEPT !.header = "ok"]} OBVIOUS
    <3>2. images' = images \cup new BY <2>1, <3>1 DEF CreateJournal
    <3>3. \A g \in new : g.recs = file.recs BY <1>1, <2>1, <3>1 DEF CreateJournal, File
    <3> QED BY <1>1, <3>2, <3>3, SameRecords
  <2>2. CASE TrimTail
    <3>1. Len(file.recs) \in 0 .. Len(file.recs) /\ SubSeq(file.recs, 1, Len(file.recs)) = file.recs
      BY <1>1, WholePrefix
    <3>2. file'.recs = file.recs BY <1>1, <2>2, <3>1, TruncatedFacts DEF TrimTail
    <3>3. PICK new : new = {file'} OBVIOUS
    <3>4. images' = images \cup new BY <2>2, <3>3 DEF TrimTail
    <3>5. \A g \in new : g.recs = file.recs BY <3>2, <3>3
    <3> QED BY <1>1, <3>4, <3>5, SameRecords
  <2>3. CASE WriteSomeBytes
    <3>1. images' = images \cup Torn(file) BY <2>3 DEF WriteSomeBytes
    <3>2. \A g \in Torn(file) : g.recs = file.recs BY <1>1, TornFacts
    <3> QED BY <1>1, <3>1, <3>2, SameRecords
  <2> QED BY <2>1, <2>2, <2>3
<1> QED BY <1>2, <1>3, <1>4, UnseenStep DEF Unseen

\* Each way of opening the journal serves one of the recoverable maps.
LEMMA OpenSteps ==
    ASSUME IInv, ServedInv, write_header \/ OpenExisting \/ SyncTrimmedTail
    PROVE  PolicyStep /\ ServedInv'
<1>1. file \in images BY DEF IInv, FileInv
<1>2. CASE write_header
  <2>1. file \in File /\ file.recs = <<>> BY <1>1, <1>2 DEF IInv, TypeOK, FileInv, write_header
  <2>2. file'.recs = <<>> /\ images' = {file'} /\ decisions' = Replay(<<>>)
    BY <1>2, <2>1 DEF write_header, from_parts, File
  <2>3. Recoverable' = {Replay(file.recs)} BY <2>1, <2>2, OneImage
  <2> QED BY <1>1, <2>1, <2>2, <2>3, RecoverStep
<1>3. CASE OpenExisting
  BY <1>1, <1>3, RecoverStep DEF OpenExisting, from_parts
<1>4. CASE SyncTrimmedTail
  <2>1. Recoverable' = {Replay(file.recs)} BY <1>4, OneImage DEF SyncTrimmedTail
  <2> QED BY <1>1, <1>4, <2>1, RecoverStep DEF SyncTrimmedTail, from_parts
<1> QED BY <1>2, <1>3, <1>4

\* Writing the whole record makes the mutation recoverable.
LEMMA WriteRecordRefines ==
    ASSUME IInv, ServedInv, WriteRecord
    PROVE  PolicyStep /\ ServedInv'
<1>1. file \in File /\ file \in images /\ phase = "write" /\ decisions' = decisions
  BY DEF IInv, TypeOK, FileInv, WriteRecord, memory
<1>2. op \in Operation /\ validate_transition(decisions[op.peer], op)
  BY <1>1 DEF IInv, TypeOK, LockInv, ProgressInv, Persisting
<1>3. images' = images \cup Torn(file) \cup {Appended(file, op)} BY DEF WriteRecord
<1>4. \A h \in Torn(file) : h.recs = file.recs BY <1>1, TornFacts
<1>5. Recoverable' = Recoverable \cup {Replay(Appended(file, op).recs)} BY <1>1, <1>3, <1>4, OneMore
<1>6. Replay(Appended(file, op).recs) = [Replay(file.recs) EXCEPT ![op.peer] = apply_mutation(op)]
  BY <1>1, <1>2, AppendedFacts
<1>7. Serving BY <1>1 DEF Serving, Persisting
<1>8. PICK m \in Operation : m = op BY <1>2
<1>9. Recoverable' = Recoverable \cup {[Replay(file.recs) EXCEPT ![m.peer] = apply_mutation(m)]}
  BY <1>5, <1>6, <1>8
<1> QED BY <1>1, <1>2, <1>7, <1>8, <1>9, AttemptStep

\* A commit that shutdown cuts off after its first await.
LEMMA LateCommitRefines ==
    ASSUME IInv, ServedInv, NEW a \in Attempts, LateCommit(a)
    PROVE  PolicyStep /\ ServedInv'
<1>1. file \in File /\ file \in images /\ phase = "idle" /\ decisions' = decisions
  BY DEF IInv, TypeOK, FileInv, LateCommit, CommitAllowed, memory
<1>2. PICK m : m = TrustBy(a) OBVIOUS
<1>3. m \in Operation /\ validate_transition(decisions[m.peer], m)
  BY <1>2 DEF IInv, TypeOK, LateCommit, CommitAllowed, TrustBy, Attempt, Operation
<1>4. \A h \in Torn(file) : h.recs = file.recs BY <1>1, TornFacts
<1>5. images' = images \cup Torn(file) \cup {file'} BY DEF LateCommit
<1>6. Recoverable' = Recoverable \cup {Replay(file'.recs)} BY <1>1, <1>4, <1>5, OneMore
<1>7. Serving BY <1>1 DEF Serving
<1>8. CASE file' = [file EXCEPT !.tail = "partial"]
  <2>1. file'.recs = file.recs BY <1>1, <1>8 DEF File
  <2>2. Recoverable' = Recoverable BY <1>1, <1>6, <2>1 DEF Recoverable
  <2> QED BY <1>1, <1>7, <2>2, UnseenStep DEF Unseen
<1>9. CASE file' = Appended(file, TrustBy(a))
  <2>1. Replay(file'.recs) = [Replay(file.recs) EXCEPT ![m.peer] = apply_mutation(m)]
    BY <1>1, <1>2, <1>3, <1>9, AppendedFacts
  <2> QED BY <1>1, <1>3, <1>6, <1>7, <2>1, AttemptStep
<1> QED BY <1>8, <1>9 DEF LateCommit

\* A Trust that waits for its sync was admissible: its record, which is the last
\* one, is part of a valid history.
LEMMA SyncedIsLegal ==
    ASSUME IInv, phase = "sync"
    PROVE  op.op = "Trust" => decisions[op.peer] # "Revoked"
<1> SUFFICES ASSUME op.op = "Trust" PROVE decisions[op.peer] # "Revoked"
  OBVIOUS
<1>1. /\ file \in File /\ file \in images /\ ValidHistory(file.recs)
  BY DEF IInv, TypeOK, FileInv, ImagesInv
<1>2. op \in Operation /\ op.peer \in Peers /\ apply_mutation(op) = "Trusted"
  BY DEF IInv, TypeOK, LockInv, Operation, Persisting, apply_mutation
<1>3. PICK s \in Seq(Mutation) : s = file.recs BY <1>1 DEF File
<1>4. PICK n \in Nat : n = record_count BY DEF IInv, TypeOK
<1>5. Len(s) = n + 1 /\ Replay(s) = [decisions EXCEPT ![op.peer] = "Trusted"]
      /\ Replay(SubSeq(s, 1, n)) = decisions
  BY <1>2, <1>3, <1>4 DEF IInv, ProgressInv, Serving, Persisting
<1>6. PICK p \in Peers : p = op.peer BY <1>2
<1>7. DecisionAt(s, n, p) = decisions[p]
  <2>1. Len(SubSeq(s, 1, n)) = n /\ DecisionAt(SubSeq(s, 1, n), n, p) = DecisionAt(s, n, p)
    BY <1>5, DecisionSubSeq
  <2> QED BY <1>5, <2>1 DEF Replay
<1>8. DecisionAt(s, n + 1, p) = "Trusted"
  <2>1. decisions \in [Peers -> State] BY DEF IInv, TypeOK
  <2>2. Replay(s)[p] = "Trusted" BY <1>5, <1>6, <2>1
  <2> QED BY <1>5, <2>2 DEF Replay
<1>9. PICK r \in Mutation : r = s[n + 1] BY <1>5, ElementOfSeq
<1>10. CASE r.peer = p
  <2>1. apply_mutation(r) = "Trusted"
    <3>1. n + 1 <= Len(s) BY <1>5
    <3>2. DecisionAt(s, n + 1, p) =
              IF s[n + 1].peer = p THEN apply_mutation(s[n + 1]) ELSE DecisionAt(s, n, p)
      BY <3>1, DecisionLast
    <3> QED BY <1>8, <1>9, <1>10, <3>2
  <2>2. r.op = "Trust" BY <2>1 DEF apply_mutation, Mutation
  <2>3. validate_transition(DecisionAt(s, n, p), r)
    <3>1. n + 1 \in 1 .. Len(s) /\ (n + 1) - 1 = n BY <1>5
    <3>2. validate_transition(DecisionAt(s, (n + 1) - 1, s[n + 1].peer), s[n + 1])
      BY <1>1, <1>3, <3>1 DEF ValidHistory
    <3> QED BY <1>9, <1>10, <3>1, <3>2
  <2> QED BY <1>6, <1>7, <2>2, <2>3 DEF validate_transition
<1>11. CASE r.peer # p
  <2>1. DecisionAt(s, n + 1, p) = DecisionAt(s, n, p) BY <1>5, <1>9, <1>11, DecisionLast
  <2> QED BY <1>6, <1>7, <1>8, <2>1
<1> QED BY <1>10, <1>11

\* Syncing the record commits the mutation that was under way.
LEMMA SyncRecordRefines ==
    ASSUME IInv, ServedInv, SyncRecord
    PROVE  PolicyStep /\ ServedInv'
<1>1. /\ file \in File /\ file \in images /\ phase = "sync"
      /\ images' = {file} /\ decisions' = [decisions EXCEPT ![op.peer] = apply_mutation(op)]
  BY DEF IInv, TypeOK, FileInv, SyncRecord
<1>2. op \in Operation /\ op.peer \in Peers BY <1>1 DEF IInv, TypeOK, LockInv, Operation, Persisting
<1>3. PICK d : d = Replay(file.recs) OBVIOUS
<1>4. d = decisions' BY <1>1, <1>3 DEF IInv, ProgressInv
<1>5. d \in Recoverable /\ Recoverable' = {d} BY <1>1, <1>3, OneImage DEF Recoverable
<1>6. PICK n : n = [op |-> op.op, peer |-> op.peer] OBVIOUS
<1>7. n \in Policy!Mutations /\ n.op = op.op /\ n.peer = op.peer
  BY <1>2, <1>6 DEF Policy!Mutations, Operation
<1>8. Policy!Effect(n) = apply_mutation(op) BY <1>7 DEF Policy!Effect, apply_mutation
<1>9. Policy!Legal(n) BY <1>1, <1>7, SyncedIsLegal DEF Policy!Legal
<1>10. d[n.peer] = Policy!Effect(n)
  <2>1. decisions \in [Peers -> State] BY DEF IInv, TypeOK
  <2> QED BY <1>1, <1>2, <1>4, <1>7, <1>8, <2>1
<1>11. Policy!Decide(n)
  BY <1>1, <1>5, <1>7, <1>8, <1>9, <1>10 DEF Policy!Decide, Recoverable
<1>12. ServedInv' BY <1>4, <1>5 DEF ServedInv
<1> QED BY <1>7, <1>11, <1>12 DEF PolicyStep, Policy!Next

\* A rollback that is synced withdraws the mutation; one that is not adds only
\* what is served.
LEMMA RollbackSteps ==
    ASSUME IInv, ServedInv, TruncateFailedCommit \/ SyncRollback
    PROVE  PolicyStep /\ ServedInv'
<1>1. file \in File /\ file \in images /\ Serving /\ decisions' = decisions
  BY DEF IInv, TypeOK, FileInv, TruncateFailedCommit, SyncRollback, Serving, RollingBack, memory
<1>2. decisions \in Recoverable BY <1>1 DEF ServedInv
<1>3. CASE TruncateFailedCommit
  <2>1. record_count \in 0 .. Len(file.recs) /\ Replay(SubSeq(file.recs, 1, record_count)) = decisions
    <3>1. record_count \in Nat /\ Len(file.recs) \in Nat BY <1>1, WholePrefix DEF IInv, TypeOK
    <3> QED BY <1>1, <3>1 DEF IInv, ProgressInv
  <2>2. Replay(file'.recs) = decisions
    BY <1>1, <1>3, <2>1, TruncatedFacts DEF TruncateFailedCommit
  <2>3. Recoverable' = Recoverable \cup {Replay(file'.recs)}
    BY <1>3 DEF TruncateFailedCommit, Recoverable
  <2>4. Recoverable' = Recoverable BY <1>2, <2>2, <2>3
  <2> QED BY <1>1, <2>4, UnseenStep DEF Unseen
<1>4. CASE SyncRollback
  <2>1. Replay(file.recs) = decisions BY <1>4 DEF IInv, ProgressInv, SyncRollback
  <2>2. Recoverable' = {decisions} BY <1>4, <2>1, OneImage DEF SyncRollback
  <2>3. Policy!Withdraw BY <1>1, <1>2, <2>2 DEF Policy!Withdraw, Recoverable
  <2> QED BY <1>1, <2>2, <2>3 DEF PolicyStep, Policy!Next, ServedInv
<1> QED BY <1>3, <1>4

\* A power loss settles the disk on one of the recoverable maps.
LEMMA PowerFailsRefines ==
    ASSUME IInv, ServedInv, PowerFails
    PROVE  PolicyStep /\ ServedInv'
<1>1. file' \in images /\ images' = {file'} /\ decisions' = decisions /\ phase' = "down"
  BY DEF PowerFails, ProcessGone
<1>2. PICK d : d = Replay(file'.recs) OBVIOUS
<1>3. d \in Recoverable /\ Recoverable' = {d} BY <1>1, <1>2, OneImage DEF Recoverable
<1>4. Policy!Lose BY <1>1, <1>3 DEF Policy!Lose, Recoverable
<1>5. ServedInv' BY <1>1 DEF ServedInv, Serving, Persisting, RollingBack
<1> QED BY <1>4, <1>5 DEF PolicyStep, Policy!Next

-----------------------------------------------------------------------------
(* The refinement *)

\* An absent journal is the empty policy.
LEMMA InitPolicy == Init => Policy!Init /\ ServedInv
<1> SUFFICES ASSUME Init PROVE Policy!Init /\ ServedInv
  OBVIOUS
<1>1. /\ images = {file} /\ file.recs = <<>> /\ phase = "down"
      /\ decisions = [p \in Peers |-> "Unknown"]
  BY DEF Init
<1>2. Recoverable = {Replay(<<>>)} BY <1>1 DEF Recoverable
<1>3. Recoverable = {decisions} BY <1>1, <1>2, ReplayEmpty
<1>4. Policy!Init BY <1>1, <1>3 DEF Policy!Init, Recoverable
<1>5. ServedInv BY <1>1 DEF ServedInv, Serving, Persisting, RollingBack
<1> QED BY <1>4, <1>5

\* Every step of the store is a step or a stutter of the policy.
LEMMA NextPolicy ==
    IInv /\ ServedInv /\ [Next]_vars => [Policy!Next]_(Policy!vars) /\ ServedInv'
<1> SUFFICES ASSUME IInv, ServedInv, [Next]_vars PROVE PolicyStep /\ ServedInv'
  BY DEF PolicyStep, Policy!vars, Recoverable
<1>1. CASE \/ WriteHeaderFails \/ OpenWithIncompleteTail \/ OpenRejected \/ TrimFails
           \/ FlushRecord \/ PersistFails \/ RollbackFails \/ Shutdown \/ DropCommit \/ ProcessCrash
           \/ UNCHANGED vars
  BY <1>1, QuietSteps
<1>2. ASSUME NEW a \in Attempts,
             (\E p \in Peers : BeginAttempt(a, p)) \/ trust_if_generation(a) \/ EndAttempt(a)
      PROVE  PolicyStep /\ ServedInv'
  BY <1>2, AttemptSteps
<1>3. ASSUME NEW a \in Attempts, LateCommit(a) PROVE PolicyStep /\ ServedInv'
  BY <1>3, LateCommitRefines
<1>4. ASSUME NEW p \in Peers, revoke(p) \/ forget(p) PROVE PolicyStep /\ ServedInv'
  BY <1>4, CommitSteps
<1>5. CASE CreateJournal \/ TrimTail \/ WriteSomeBytes BY <1>5, TornSteps
<1>6. CASE write_header \/ OpenExisting \/ SyncTrimmedTail BY <1>6, OpenSteps
<1>7. CASE WriteRecord BY <1>7, WriteRecordRefines
<1>8. CASE SyncRecord BY <1>8, SyncRecordRefines
<1>9. CASE TruncateFailedCommit \/ SyncRollback BY <1>9, RollbackSteps
<1>10. CASE PowerFails BY <1>10, PowerFailsRefines
<1> QED BY <1>1, <1>2, <1>3, <1>4, <1>5, <1>6, <1>7, <1>8, <1>9, <1>10 DEF Next

\* TrustStore implements TrustPolicy: what callers see and what a restart could
\* find change only as the policy allows, at every await of commit, open and
\* rollback and through every crash and power loss.
THEOREM Refinement == Spec => ImplementsPolicy
<1>1. Spec => []IInv BY InductiveInvariant
<1>2. Init => Policy!Init /\ ServedInv BY InitPolicy
<1>3. IInv /\ ServedInv /\ [Next]_vars => [Policy!Next]_(Policy!vars) /\ ServedInv'
  BY NextPolicy
<1> QED BY <1>1, <1>2, <1>3, PTL DEF Spec, ImplementsPolicy, Policy!Spec

=============================================================================
