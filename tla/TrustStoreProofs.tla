-------------------------- MODULE TrustStoreProofs --------------------------
(* Proofs that the trust journal keeps its promises for every set of peers,  *)
(* every capacity and every sequence of failures, crashes and power losses.  *)
EXTENDS TrustStore, SequenceTheorems, TLAPS

-----------------------------------------------------------------------------
(* Facts about replaying a journal *)

\* Replaying any prefix leaves each peer in one of the three trust states.
LEMMA DecisionType ==
    ASSUME NEW recs \in Seq(Mutation), NEW n \in 0..Len(recs), NEW p \in Peers
    PROVE  DecisionAt(recs, n, p) \in State
<1>1. CASE \E i \in 1..n : Decides(recs, n, p, i)
  <2>1. PICK i \in 1..n : i = CHOOSE k \in 1..n : Decides(recs, n, p, k)
    BY <1>1
  <2>2. recs[i] \in Mutation
    BY <2>1
  <2>3. apply_mutation(recs[i]) \in State
    BY <2>2 DEF apply_mutation, Mutation, State
  <2> QED BY <1>1, <2>1, <2>3 DEF DecisionAt
<1>2. CASE ~\E i \in 1..n : Decides(recs, n, p, i)
  BY <1>2 DEF DecisionAt, State
<1> QED BY <1>1, <1>2

\* A decision depends only on the records it replays.
LEMMA DecisionPrefix ==
    ASSUME NEW r \in Seq(Mutation), NEW s \in Seq(Mutation), NEW p,
           NEW n \in Nat, \A i \in 1..n : r[i] = s[i]
    PROVE  DecisionAt(r, n, p) = DecisionAt(s, n, p)
<1>1. \A i \in 1..n : Decides(r, n, p, i) <=> Decides(s, n, p, i)
  BY DEF Decides
<1>2. (CHOOSE i \in 1..n : Decides(r, n, p, i)) = (CHOOSE i \in 1..n : Decides(s, n, p, i))
  BY <1>1
<1>3. CASE \E i \in 1..n : Decides(r, n, p, i)
  <2>1. (CHOOSE i \in 1..n : Decides(r, n, p, i)) \in 1..n
    BY <1>3
  <2> QED BY <1>1, <1>2, <1>3, <2>1 DEF DecisionAt
<1>4. CASE ~\E i \in 1..n : Decides(r, n, p, i)
  BY <1>1, <1>4 DEF DecisionAt
<1> QED BY <1>3, <1>4

\* The last record decides for its own peer and for nobody else.
LEMMA DecisionLast ==
    ASSUME NEW s \in Seq(Mutation), NEW n \in Nat, n + 1 <= Len(s), NEW p
    PROVE  DecisionAt(s, n + 1, p) =
               IF s[n + 1].peer = p THEN apply_mutation(s[n + 1]) ELSE DecisionAt(s, n, p)
<1>1. CASE s[n + 1].peer = p
  <2>1. Decides(s, n + 1, p, n + 1)
    BY <1>1 DEF Decides
  <2>2. \A i \in 1..(n + 1) : Decides(s, n + 1, p, i) => i = n + 1
    BY <1>1 DEF Decides
  <2>3. (CHOOSE i \in 1..(n + 1) : Decides(s, n + 1, p, i)) = n + 1
    BY <2>1, <2>2
  <2>4. \E i \in 1..(n + 1) : Decides(s, n + 1, p, i)
    BY <2>1
  <2>5. DecisionAt(s, n + 1, p) = apply_mutation(s[n + 1])
    BY <2>3, <2>4, Zenon DEF DecisionAt
  <2> QED BY <1>1, <2>5
<1>2. CASE s[n + 1].peer # p
  <2>1. \A i \in 1..n : Decides(s, n + 1, p, i) <=> Decides(s, n, p, i)
    BY <1>2 DEF Decides
  <2>2. ~Decides(s, n + 1, p, n + 1)
    BY <1>2 DEF Decides
  <2>3. CASE \E i \in 1..n : Decides(s, n, p, i)
    <3>1. (CHOOSE i \in 1..(n + 1) : Decides(s, n + 1, p, i))
            = (CHOOSE i \in 1..n : Decides(s, n, p, i))
      <4>1. PICK k \in 1..n : Decides(s, n, p, k)
        BY <2>3
      <4>2. \A i \in 1..n : Decides(s, n, p, i) => i = k
        BY <4>1 DEF Decides
      <4>3. (CHOOSE i \in 1..n : Decides(s, n, p, i)) = k
        BY <4>1, <4>2
      <4>4. \A i \in 1..(n + 1) : Decides(s, n + 1, p, i) => i = k
        BY <2>1, <2>2, <4>2
      <4>5. k \in 1..(n + 1) /\ Decides(s, n + 1, p, k)
        BY <4>1, <2>1
      <4>6. (CHOOSE i \in 1..(n + 1) : Decides(s, n + 1, p, i)) = k
        BY <4>4, <4>5
      <4> QED BY <4>3, <4>6
    <3>2. \E i \in 1..(n + 1) : Decides(s, n + 1, p, i)
      BY <2>1, <2>3
    <3> QED BY <1>2, <2>3, <3>1, <3>2 DEF DecisionAt
  <2>4. CASE ~\E i \in 1..n : Decides(s, n, p, i)
    <3>1. ~\E i \in 1..(n + 1) : Decides(s, n + 1, p, i)
      BY <2>1, <2>2, <2>4
    <3> QED BY <1>2, <2>4, <3>1 DEF DecisionAt
  <2> QED BY <2>3, <2>4
<1> QED BY <1>1, <1>2

\* Replaying one more record is applying its mutation to what was replayed.
LEMMA ReplayAppend ==
    ASSUME NEW s \in Seq(Mutation), NEW m \in Mutation
    PROVE  Replay(Append(s, m)) = [Replay(s) EXCEPT ![m.peer] = apply_mutation(m)]
<1> DEFINE t == Append(s, m)
<1>1. t \in Seq(Mutation) /\ Len(t) = Len(s) + 1 /\ t[Len(s) + 1] = m
      /\ \A i \in 1..Len(s) : t[i] = s[i]
  BY AppendProperties
<1>2. ASSUME NEW p \in Peers
      PROVE  DecisionAt(t, Len(t), p) =
                 IF m.peer = p THEN apply_mutation(m) ELSE DecisionAt(s, Len(s), p)
  <2>1. DecisionAt(t, Len(s), p) = DecisionAt(s, Len(s), p)
    <3>1. Len(s) \in Nat
      BY LenProperties
    <3> QED BY <1>1, <3>1, DecisionPrefix
  <2>2. Len(s) \in Nat /\ Len(s) + 1 <= Len(t)
    BY <1>1, LenProperties
  <2> HIDE DEF t
  <2> QED BY <1>1, <2>1, <2>2, DecisionLast
<1> HIDE DEF t
<1>3. Replay(t) = [Replay(s) EXCEPT ![m.peer] = apply_mutation(m)]
  BY <1>2 DEF Replay, Mutation
<1> QED BY <1>3 DEF t

\* The state after a truncation is the state the shorter journal had.
LEMMA DecisionSubSeq ==
    ASSUME NEW s \in Seq(Mutation), NEW n \in 0..Len(s), NEW k \in 0..n, NEW p
    PROVE  /\ SubSeq(s, 1, n) \in Seq(Mutation)
           /\ Len(SubSeq(s, 1, n)) = n
           /\ DecisionAt(SubSeq(s, 1, n), k, p) = DecisionAt(s, k, p)
<1> DEFINE t == SubSeq(s, 1, n)
<1>1. t \in Seq(Mutation) /\ Len(t) = n /\ \A i \in 1..n : t[i] = s[i]
  <2>1. Len(s) \in Nat
    BY LenProperties
  <2> QED BY <2>1, SubSeqProperties
<1>2. DecisionAt(t, k, p) = DecisionAt(s, k, p)
  <2>1. k \in Nat /\ \A i \in 1..k : t[i] = s[i]
    BY <1>1
  <2> HIDE DEF t
  <2> QED BY <1>1, <2>1, DecisionPrefix
<1> QED BY <1>1, <1>2

\* An admissible record extends a valid history to a valid history.
LEMMA ValidAppend ==
    ASSUME NEW s \in Seq(Mutation), NEW m \in Mutation,
           ValidHistory(s), validate_transition(Replay(s)[m.peer], m)
    PROVE  ValidHistory(Append(s, m))
<1> DEFINE t == Append(s, m)
<1>1. t \in Seq(Mutation) /\ Len(t) = Len(s) + 1 /\ t[Len(s) + 1] = m
      /\ \A i \in 1..Len(s) : t[i] = s[i]
  BY AppendProperties
<1>2. Len(s) \in Nat
  BY LenProperties
<1> HIDE DEF t
<1>3. ASSUME NEW i \in 1..Len(s)
      PROVE  validate_transition(DecisionAt(t, i - 1, t[i].peer), t[i])
  <2>1. DecisionAt(t, i - 1, s[i].peer) = DecisionAt(s, i - 1, s[i].peer)
    BY <1>1, <1>2, DecisionPrefix
  <2> QED BY <1>1, <2>1 DEF ValidHistory
<1>4. validate_transition(DecisionAt(t, Len(s), m.peer), m)
  <2>1. DecisionAt(t, Len(s), m.peer) = DecisionAt(s, Len(s), m.peer)
    BY <1>1, <1>2, DecisionPrefix
  <2>2. m.peer \in Peers
    BY DEF Mutation
  <2> QED BY <2>1, <2>2 DEF Replay
<1>5. ValidHistory(t)
  BY <1>1, <1>2, <1>3, <1>4 DEF ValidHistory
<1> QED BY <1>5 DEF t

\* Truncating a valid history leaves a valid history.
LEMMA ValidSubSeq ==
    ASSUME NEW s \in Seq(Mutation), NEW n \in 0..Len(s), ValidHistory(s)
    PROVE  ValidHistory(SubSeq(s, 1, n))
<1> DEFINE t == SubSeq(s, 1, n)
<1>1. t \in Seq(Mutation) /\ Len(t) = n /\ \A i \in 1..n : t[i] = s[i]
  <2>1. Len(s) \in Nat
    BY LenProperties
  <2> QED BY <2>1, SubSeqProperties
<1>2. Len(s) \in Nat
  BY LenProperties
<1> HIDE DEF t
<1>3. ASSUME NEW i \in 1..n
      PROVE  validate_transition(DecisionAt(t, i - 1, t[i].peer), t[i])
  <2>1. DecisionAt(t, i - 1, s[i].peer) = DecisionAt(s, i - 1, s[i].peer)
    BY <1>1, <1>2, DecisionPrefix
  <2> QED BY <1>1, <1>2, <2>1 DEF ValidHistory
<1>4. ValidHistory(t)
  BY <1>1, <1>3 DEF ValidHistory
<1> QED BY <1>4 DEF t

-----------------------------------------------------------------------------
(* Facts about the file's images *)

\* Replaying a well-typed journal gives every peer a trust state.
LEMMA ReplayType ==
    ASSUME NEW s \in Seq(Mutation)
    PROVE  Replay(s) \in [Peers -> State]
<1>1. Len(s) \in 0..Len(s)
  BY LenProperties
<1> QED BY <1>1, DecisionType DEF Replay

\* A journal without records knows nobody and is valid.
LEMMA ReplayEmpty ==
    /\ <<>> \in Seq(Mutation)
    /\ Replay(<<>>) = [p \in Peers |-> "Unknown"]
    /\ ValidHistory(<<>>)
<1>1. \A p \in Peers : DecisionAt(<<>>, 0, p) = "Unknown"
  BY DEF DecisionAt
<1>2. Len(<<>>) = 0 /\ <<>> \in Seq(Mutation)
  OBVIOUS
<1> QED BY <1>1, <1>2 DEF Replay, ValidHistory

\* A torn append adds no record.
LEMMA TornFacts ==
    ASSUME NEW f \in File, NEW g \in Torn(f)
    PROVE  g \in File /\ g.recs = f.recs /\ g.header = f.header /\ g.tail # "none"
<1>1. PICK t \in {"partial", "corrupt"} : g = [f EXCEPT !.tail = t]
  BY DEF Torn
<1> QED BY <1>1 DEF File

\* An appended record is the last one, and is what replay applies last.
LEMMA AppendedFacts ==
    ASSUME NEW f \in File, NEW m \in Operation
    PROVE  LET g == Appended(f, m) IN
             /\ g \in File /\ g.header = f.header /\ g.tail = "none"
             /\ Len(g.recs) = Len(f.recs) + 1
             /\ \A n \in 0..Len(f.recs) : SubSeq(g.recs, 1, n) = SubSeq(f.recs, 1, n)
             /\ Replay(g.recs) = [Replay(f.recs) EXCEPT ![m.peer] = apply_mutation(m)]
             /\ (ValidHistory(f.recs) /\ validate_transition(Replay(f.recs)[m.peer], m))
                    => ValidHistory(g.recs)
<1> DEFINE r == [op |-> m.op, peer |-> m.peer]
           g == Appended(f, m)
<1>1. r \in Mutation /\ apply_mutation(r) = apply_mutation(m) /\ r.peer = m.peer /\ r.op = m.op
  BY DEF Operation, Mutation, apply_mutation
<1>2. f.recs \in Seq(Mutation) /\ Len(f.recs) \in Nat
  BY LenProperties DEF File
<1>3. g.recs = Append(f.recs, r) /\ g.header = f.header /\ g.tail = "none"
  BY DEF Appended, File
<1>4. g \in File
  BY <1>1, <1>2, AppendProperties DEF Appended, File
<1> HIDE DEF r, g
<1>5. Len(g.recs) = Len(f.recs) + 1 /\ \A i \in 1..Len(f.recs) : g.recs[i] = f.recs[i]
  BY <1>1, <1>2, <1>3, AppendProperties
<1>6. ASSUME NEW n \in 0..Len(f.recs)
      PROVE  SubSeq(g.recs, 1, n) = SubSeq(f.recs, 1, n)
  <2>1. g.recs \in Seq(Mutation)
    BY <1>4 DEF File
  <2>2. /\ SubSeq(g.recs, 1, n) \in Seq(Mutation) /\ SubSeq(f.recs, 1, n) \in Seq(Mutation)
        /\ Len(SubSeq(g.recs, 1, n)) = n /\ Len(SubSeq(f.recs, 1, n)) = n
        /\ \A i \in 1..n : SubSeq(g.recs, 1, n)[i] = g.recs[i]
        /\ \A i \in 1..n : SubSeq(f.recs, 1, n)[i] = f.recs[i]
    BY <1>2, <1>5, <2>1, SubSeqProperties
  <2>3. \A i \in 1..n : g.recs[i] = f.recs[i]
    BY <1>2, <1>5
  <2> QED BY <2>2, <2>3, SeqEqual
<1>7. Replay(g.recs) = [Replay(f.recs) EXCEPT ![m.peer] = apply_mutation(m)]
  BY <1>1, <1>2, <1>3, ReplayAppend
<1>8. ASSUME ValidHistory(f.recs), validate_transition(Replay(f.recs)[m.peer], m)
      PROVE  ValidHistory(g.recs)
  <2>1. validate_transition(Replay(f.recs)[r.peer], r)
    BY <1>1, <1>8 DEF validate_transition
  <2> QED BY <1>1, <1>2, <1>3, <1>8, <2>1, ValidAppend
<1> QED BY <1>3, <1>4, <1>5, <1>6, <1>7, <1>8 DEF g

\* A truncated file replays to what its remaining records say.
LEMMA TruncatedFacts ==
    ASSUME NEW f \in File, NEW n \in 0..Len(f.recs)
    PROVE  LET g == Truncated(f, n) IN
             /\ g \in File /\ g.header = f.header /\ g.tail = "none"
             /\ g.recs = SubSeq(f.recs, 1, n) /\ Len(g.recs) = n
             /\ SubSeq(g.recs, 1, n) = g.recs
             /\ ValidHistory(f.recs) => ValidHistory(g.recs)
<1>1. f.recs \in Seq(Mutation) /\ Len(f.recs) \in Nat
  BY LenProperties DEF File
<1>2. SubSeq(f.recs, 1, n) \in Seq(Mutation) /\ Len(SubSeq(f.recs, 1, n)) = n
  BY <1>1, SubSeqProperties
<1>3. SubSeq(SubSeq(f.recs, 1, n), 1, n) = SubSeq(f.recs, 1, n)
  BY <1>2, SubSeqFull
<1>4. ValidHistory(f.recs) => ValidHistory(SubSeq(f.recs, 1, n))
  BY <1>1, ValidSubSeq
<1> QED BY <1>1, <1>2, <1>3, <1>4 DEF Truncated, File

\* The whole file is its own longest prefix.
LEMMA WholePrefix ==
    ASSUME NEW f \in File
    PROVE  /\ f.recs \in Seq(Mutation) /\ Len(f.recs) \in Nat
           /\ SubSeq(f.recs, 1, Len(f.recs)) = f.recs
<1>1. f.recs \in Seq(Mutation)
  BY DEF File
<1> QED BY <1>1, SubSeqFull, LenProperties

\* The commit in flight has one outcome, a trust state for its peer.
LEMMA InFlightType ==
    ASSUME TypeOK
    PROVE  /\ InFlight \in SUBSET (Peers \X State)
           /\ op # NoOp => op \in Operation /\ apply_mutation(op) \in State
<1>1. ASSUME op # NoOp
      PROVE  op \in Operation /\ op.peer \in Peers /\ apply_mutation(op) \in State
  BY <1>1 DEF TypeOK, Operation, apply_mutation, State
<1> QED BY <1>1 DEF InFlight

-----------------------------------------------------------------------------
(* The inductive invariant: one lemma per action, one step per conjunct *)

USE ConstantsAssumption, SentinelAssumption
USE DEF Opening, Persisting, RollingBack, Serving, memory, history

\* An instance built from replayed records starts well-typed and idle.
LEMMA FromPartsFacts ==
    ASSUME NEW recs \in Seq(Mutation), from_parts(recs)
    PROVE  /\ phase' = "idle" /\ phase' \in Phases
           /\ decisions' = Replay(recs) /\ decisions' \in [Peers -> State]
           /\ record_count' = Len(recs) /\ record_count' \in Nat
           /\ generations' \in [Peers -> 0..MaxGeneration]
           /\ poisoned' = FALSE /\ poisoned' \in BOOLEAN
<1>1. [p \in Peers |-> 0] \in [Peers -> 0..MaxGeneration]
  OBVIOUS
<1> QED BY <1>1, ReplayType, LenProperties DEF from_parts, Phases

\* What lived in the process is gone, and what is left is well-typed.
LEMMA ProcessGoneFacts ==
    ASSUME ProcessGone, crashes \in Nat
    PROVE  /\ phase' = "down" /\ phase' \in Phases
           /\ op' = NoOp /\ op' \in Operation \cup {NoOp}
           /\ record_count' \in Nat /\ crashes' \in Nat
           /\ generations' \in [Peers -> 0..MaxGeneration]
           /\ poisoned' \in BOOLEAN /\ stopping' \in BOOLEAN
           /\ attempts' \in [Attempts -> Attempt \cup {NoAttempt}]
<1>1. [p \in Peers |-> 0] \in [Peers -> 0..MaxGeneration]
  OBVIOUS
<1>2. [a \in Attempts |-> NoAttempt] \in [Attempts -> Attempt \cup {NoAttempt}]
  OBVIOUS
<1>3. crashes' \in Nat /\ record_count' \in Nat
  BY DEF ProcessGone
<1>4. generations' \in [Peers -> 0..MaxGeneration]
  BY <1>1 DEF ProcessGone
<1>5. attempts' \in [Attempts -> Attempt \cup {NoAttempt}]
  BY <1>2 DEF ProcessGone
<1> QED BY <1>3, <1>4, <1>5 DEF ProcessGone, Phases

\* The invariant survives creating the file.
LEMMA CreateJournalStep ==
    ASSUME IInv, CreateJournal
    PROVE  IInv'
<1>a. file' \in File /\ [file EXCEPT !.header = "ok"] \in File
  BY DEF IInv, TypeOK, File, CreateJournal
<1>1. TypeOK'
  BY <1>a DEF IInv, TypeOK, Phases, CreateJournal
<1>2. LockInv'
  BY DEF IInv, LockInv, TypeOK, Phases, Operation, CreateJournal
<1>3. FileInv'
  BY DEF IInv, FileInv, TypeOK, File, LockInv, Phases, CreateJournal
<1>4. ProgressInv'
  BY DEF IInv, ProgressInv, TypeOK, LockInv, FileInv, Phases, CreateJournal
<1>5. MemoryInv'
  BY DEF IInv, MemoryInv, TypeOK, LockInv, Phases, CreateJournal
<1>6. ImagesInv'
  BY DEF IInv, ImagesInv, TypeOK, File, LockInv, FileInv, InFlight, Torn, CreateJournal
<1>7. FailedCommitInvisible'
  BY DEF IInv, FailedCommitInvisible, TypeOK, LockInv, ProgressInv, Phases, CreateJournal
<1>8. FenceInv'
  BY DEF IInv, FenceInv, TypeOK, LockInv, Operation, Attempt, CreateJournal
<1> QED BY <1>1, <1>2, <1>3, <1>4, <1>5, <1>6, <1>7, <1>8 DEF IInv

\* The invariant survives syncing the header.
LEMMA Write_headerStep ==
    ASSUME IInv, write_header
    PROVE  IInv'
<1>a. /\ file' \in File /\ file'.recs = <<>> /\ file'.tail = "none"
      /\ file \in images /\ file.recs = <<>> /\ Replay(<<>>) \in [Peers -> State]
  BY ReplayEmpty, ReplayType DEF IInv, TypeOK, File, FileInv, write_header
<1>1. TypeOK'
  <2>1. <<>> \in Seq(Mutation) /\ from_parts(<<>>)
    BY <1>a, ReplayEmpty DEF write_header, File
  <2> QED BY <1>a, <2>1, FromPartsFacts DEF IInv, TypeOK, write_header
<1>2. LockInv'
  BY DEF IInv, LockInv, TypeOK, Phases, Operation, write_header, from_parts
<1>3. FileInv'
  BY DEF IInv, FileInv, TypeOK, File, LockInv, Phases, write_header, from_parts
<1>4. ProgressInv'
  <2>1. <<>> \in Seq(Mutation) /\ from_parts(<<>>) /\ file'.recs = <<>>
    BY <1>a, ReplayEmpty DEF write_header, File
  <2>2. ~stopping' /\ file'.tail = "none"
    BY <1>a DEF IInv, LockInv, FileInv, write_header
  <2>3. Len(<<>>) \in Nat /\ SubSeq(<<>>, 1, Len(<<>>)) = <<>>
    BY <2>1, SubSeqFull, LenProperties
  <2>4. phase' = "idle" /\ ~poisoned' /\ record_count' = Len(file'.recs)
        /\ decisions' = Replay(file'.recs)
    BY <2>1, FromPartsFacts
  <2>5. SubSeq(file'.recs, 1, record_count') = file'.recs /\ record_count' <= Len(file'.recs)
    BY <2>1, <2>3, <2>4
  <2>6. Replay(SubSeq(file'.recs, 1, record_count')) = decisions'
    BY <2>4, <2>5
  <2> QED BY <2>2, <2>4, <2>5, <2>6 DEF ProgressInv
<1>5. MemoryInv'
  <2>1. \A q \in Peers : Replay(<<>>)[q] = acked[q] \/ <<q, Replay(<<>>)[q]>> \in limbo
    BY <1>a DEF IInv, ImagesInv, LockInv, InFlight, write_header
  <2> QED BY <2>1 DEF MemoryInv, write_header, from_parts
<1>6. ImagesInv'
  BY DEF IInv, ImagesInv, TypeOK, File, LockInv, FileInv, InFlight, Torn, write_header, from_parts
<1>7. FailedCommitInvisible'
  BY DEF IInv, FailedCommitInvisible, TypeOK, LockInv, ProgressInv, Phases, write_header, from_parts
<1>8. FenceInv'
  BY DEF IInv, FenceInv, TypeOK, LockInv, Operation, Attempt, write_header, from_parts
<1> QED BY <1>1, <1>2, <1>3, <1>4, <1>5, <1>6, <1>7, <1>8 DEF IInv

\* The invariant survives failing to write the header.
LEMMA WriteHeaderFailsStep ==
    ASSUME IInv, WriteHeaderFails
    PROVE  IInv'
<1>a. file' \in images /\ file' \in File
  BY DEF IInv, TypeOK, FileInv, WriteHeaderFails
<1>1. TypeOK'
  BY <1>a DEF IInv, TypeOK, Phases, WriteHeaderFails
<1>2. LockInv'
  BY DEF IInv, LockInv, TypeOK, Phases, Operation, WriteHeaderFails
<1>3. FileInv'
  BY <1>a DEF IInv, FileInv, WriteHeaderFails
<1>4. ProgressInv'
  BY DEF IInv, ProgressInv, TypeOK, LockInv, FileInv, Phases, WriteHeaderFails
<1>5. MemoryInv'
  BY DEF IInv, MemoryInv, TypeOK, LockInv, Phases, WriteHeaderFails
<1>6. ImagesInv'
  BY DEF IInv, ImagesInv, TypeOK, File, LockInv, FileInv, InFlight, Torn, WriteHeaderFails
<1>7. FailedCommitInvisible'
  BY DEF IInv, FailedCommitInvisible, TypeOK, LockInv, ProgressInv, Phases, WriteHeaderFails
<1>8. FenceInv'
  BY DEF IInv, FenceInv, TypeOK, LockInv, Operation, Attempt, WriteHeaderFails
<1> QED BY <1>1, <1>2, <1>3, <1>4, <1>5, <1>6, <1>7, <1>8 DEF IInv

\* The invariant survives opening a clean journal.
LEMMA OpenExistingStep ==
    ASSUME IInv, OpenExisting
    PROVE  IInv'
<1>a. file \in File /\ Replay(file.recs) \in [Peers -> State] /\ file.header = "ok"
  BY ReplayType DEF IInv, TypeOK, File, OpenExisting, replay_ok, validate_header
<1>1. TypeOK'
  <2>1. file.recs \in Seq(Mutation) /\ from_parts(file.recs)
    BY <1>a DEF OpenExisting, File
  <2> QED BY <1>a, <2>1, FromPartsFacts DEF IInv, TypeOK, OpenExisting
<1>2. LockInv'
  BY DEF IInv, LockInv, TypeOK, Phases, Operation, OpenExisting, from_parts
<1>3. FileInv'
  BY <1>a DEF IInv, FileInv, OpenExisting, from_parts
<1>4. ProgressInv'
  <2>1. file.recs \in Seq(Mutation) /\ from_parts(file.recs) /\ file'.recs = file.recs
    BY <1>a DEF OpenExisting, File
  <2>2. ~stopping' /\ file'.tail = "none"
    BY <1>a DEF IInv, LockInv, FileInv, OpenExisting
  <2>3. Len(file.recs) \in Nat /\ SubSeq(file.recs, 1, Len(file.recs)) = file.recs
    BY <2>1, SubSeqFull, LenProperties
  <2>4. phase' = "idle" /\ ~poisoned' /\ record_count' = Len(file'.recs)
        /\ decisions' = Replay(file'.recs)
    BY <2>1, FromPartsFacts
  <2>5. SubSeq(file'.recs, 1, record_count') = file'.recs /\ record_count' <= Len(file'.recs)
    BY <2>1, <2>3, <2>4
  <2>6. Replay(SubSeq(file'.recs, 1, record_count')) = decisions'
    BY <2>4, <2>5
  <2> QED BY <2>2, <2>4, <2>5, <2>6 DEF ProgressInv
<1>5. MemoryInv'
  <2>1. \A q \in Peers : \/ Replay(file.recs)[q] = acked[q]
                         \/ <<q, Replay(file.recs)[q]>> \in limbo
    BY DEF IInv, FileInv, ImagesInv, LockInv, InFlight, OpenExisting
  <2> QED BY <2>1 DEF MemoryInv, OpenExisting, from_parts
<1>6. ImagesInv'
  BY DEF IInv, ImagesInv, TypeOK, File, LockInv, FileInv, InFlight, Torn, OpenExisting, from_parts
<1>7. FailedCommitInvisible'
  BY DEF IInv, FailedCommitInvisible, TypeOK, LockInv, ProgressInv, Phases, OpenExisting, from_parts
<1>8. FenceInv'
  BY DEF IInv, FenceInv, TypeOK, LockInv, Operation, Attempt, OpenExisting, from_parts
<1> QED BY <1>1, <1>2, <1>3, <1>4, <1>5, <1>6, <1>7, <1>8 DEF IInv

\* The invariant survives finding an incomplete tail.
LEMMA OpenWithIncompleteTailStep ==
    ASSUME IInv, OpenWithIncompleteTail
    PROVE  IInv'
<1>a. file.header = "ok"
  BY DEF OpenWithIncompleteTail, replay_ok, validate_header
<1>1. TypeOK'
  BY DEF IInv, TypeOK, File, Phases, Operation, Attempt, LockInv, FenceInv, OpenWithIncompleteTail
<1>2. LockInv'
  BY DEF IInv, LockInv, TypeOK, Phases, Operation, OpenWithIncompleteTail
<1>3. FileInv'
  BY <1>a DEF IInv, FileInv, OpenWithIncompleteTail
<1>4. ProgressInv'
  BY DEF IInv, ProgressInv, TypeOK, LockInv, FileInv, Phases, OpenWithIncompleteTail
<1>5. MemoryInv'
  BY DEF IInv, MemoryInv, TypeOK, LockInv, Phases, OpenWithIncompleteTail
<1>6. ImagesInv'
  BY DEF IInv, ImagesInv, TypeOK, File, LockInv, FileInv, InFlight, Torn, OpenWithIncompleteTail
<1>7. FailedCommitInvisible'
  BY DEF IInv, FailedCommitInvisible, TypeOK, LockInv, ProgressInv, Phases, OpenWithIncompleteTail
<1>8. FenceInv'
  BY DEF IInv, FenceInv, TypeOK, LockInv, Operation, Attempt, OpenWithIncompleteTail
<1> QED BY <1>1, <1>2, <1>3, <1>4, <1>5, <1>6, <1>7, <1>8 DEF IInv

\* The invariant survives truncating an incomplete tail.
LEMMA TrimTailStep ==
    ASSUME IInv, TrimTail
    PROVE  IInv'
<1>a. file \in File /\ file \in images /\ Len(file.recs) \in 0..Len(file.recs)
  BY WholePrefix DEF IInv, TypeOK, FileInv
<1>b. file' \in File /\ file'.recs = file.recs /\ file'.header = file.header /\ file'.tail = "none"
  BY <1>a, TruncatedFacts, WholePrefix DEF TrimTail
<1>1. TypeOK'
  BY <1>b DEF IInv, TypeOK, Phases, TrimTail
<1>2. LockInv'
  BY DEF IInv, LockInv, TypeOK, Phases, Operation, TrimTail
<1>3. FileInv'
  BY <1>a, <1>b DEF IInv, FileInv, TrimTail
<1>4. ProgressInv'
  BY DEF IInv, ProgressInv, TypeOK, LockInv, FileInv, Phases, TrimTail
<1>5. MemoryInv'
  BY DEF IInv, MemoryInv, TypeOK, LockInv, Phases, TrimTail
<1>6. ImagesInv'
  BY <1>a, <1>b DEF IInv, ImagesInv, InFlight, TrimTail
<1>7. FailedCommitInvisible'
  BY DEF IInv, FailedCommitInvisible, TypeOK, LockInv, ProgressInv, Phases, TrimTail
<1>8. FenceInv'
  BY DEF IInv, FenceInv, TypeOK, LockInv, Operation, Attempt, TrimTail
<1> QED BY <1>1, <1>2, <1>3, <1>4, <1>5, <1>6, <1>7, <1>8 DEF IInv

\* The invariant survives syncing the truncation.
LEMMA SyncTrimmedTailStep ==
    ASSUME IInv, SyncTrimmedTail
    PROVE  IInv'
<1>a. /\ file \in File /\ file \in images /\ Replay(file.recs) \in [Peers -> State]
      /\ Len(file.recs) \in Nat /\ SubSeq(file.recs, 1, Len(file.recs)) = file.recs
  BY ReplayType, WholePrefix DEF IInv, TypeOK, FileInv
<1>1. TypeOK'
  <2>1. file.recs \in Seq(Mutation) /\ from_parts(file.recs)
    BY <1>a DEF SyncTrimmedTail, File
  <2> QED BY <1>a, <2>1, FromPartsFacts DEF IInv, TypeOK, SyncTrimmedTail, Settle
<1>2. LockInv'
  BY DEF IInv, LockInv, TypeOK, Phases, Operation, SyncTrimmedTail, from_parts
<1>3. FileInv'
  BY DEF IInv, FileInv, TypeOK, File, LockInv, Phases, SyncTrimmedTail, from_parts
<1>4. ProgressInv'
  <2>1. file.recs \in Seq(Mutation) /\ from_parts(file.recs) /\ file'.recs = file.recs
    BY <1>a DEF SyncTrimmedTail, File
  <2>2. ~stopping' /\ file'.tail = "none"
    BY <1>a DEF IInv, LockInv, FileInv, SyncTrimmedTail
  <2>3. Len(file.recs) \in Nat /\ SubSeq(file.recs, 1, Len(file.recs)) = file.recs
    BY <2>1, SubSeqFull, LenProperties
  <2>4. phase' = "idle" /\ ~poisoned' /\ record_count' = Len(file'.recs)
        /\ decisions' = Replay(file'.recs)
    BY <2>1, FromPartsFacts
  <2>5. SubSeq(file'.recs, 1, record_count') = file'.recs /\ record_count' <= Len(file'.recs)
    BY <2>1, <2>3, <2>4
  <2>6. Replay(SubSeq(file'.recs, 1, record_count')) = decisions'
    BY <2>4, <2>5
  <2> QED BY <2>2, <2>4, <2>5, <2>6 DEF ProgressInv
<1>5. MemoryInv'
  <2>1. \A q \in Peers : \/ Replay(file.recs)[q] = acked[q]
                         \/ <<q, Replay(file.recs)[q]>> \in limbo
    BY DEF IInv, FileInv, ImagesInv, LockInv, InFlight, SyncTrimmedTail
  <2> QED BY <2>1 DEF MemoryInv, SyncTrimmedTail, from_parts, Settle
<1>6. ImagesInv'
  BY <1>a DEF IInv, ImagesInv, LockInv, InFlight, SyncTrimmedTail, Settle
<1>7. FailedCommitInvisible'
  BY DEF IInv, FailedCommitInvisible, TypeOK, LockInv, ProgressInv, Phases, SyncTrimmedTail, from_parts
<1>8. FenceInv'
  BY DEF IInv, FenceInv, TypeOK, LockInv, Operation, Attempt, SyncTrimmedTail, from_parts
<1> QED BY <1>1, <1>2, <1>3, <1>4, <1>5, <1>6, <1>7, <1>8 DEF IInv

\* The invariant survives failing to truncate.
LEMMA TrimFailsStep ==
    ASSUME IInv, TrimFails
    PROVE  IInv'
<1>1. TypeOK'
  BY DEF IInv, TypeOK, File, Phases, Operation, Attempt, LockInv, FenceInv, TrimFails
<1>2. LockInv'
  BY DEF IInv, LockInv, TypeOK, Phases, Operation, TrimFails
<1>3. FileInv'
  BY DEF IInv, FileInv, TypeOK, File, LockInv, Phases, TrimFails
<1>4. ProgressInv'
  BY DEF IInv, ProgressInv, TypeOK, LockInv, FileInv, Phases, TrimFails
<1>5. MemoryInv'
  BY DEF IInv, MemoryInv, TypeOK, LockInv, Phases, TrimFails
<1>6. ImagesInv'
  BY DEF IInv, ImagesInv, TypeOK, File, LockInv, FileInv, InFlight, Torn, TrimFails
<1>7. FailedCommitInvisible'
  BY DEF IInv, FailedCommitInvisible, TypeOK, LockInv, ProgressInv, Phases, TrimFails
<1>8. FenceInv'
  BY DEF IInv, FenceInv, TypeOK, LockInv, Operation, Attempt, TrimFails
<1> QED BY <1>1, <1>2, <1>3, <1>4, <1>5, <1>6, <1>7, <1>8 DEF IInv

\* The invariant survives admitting a pairing attempt.
LEMMA BeginAttemptStep ==
    ASSUME IInv, NEW a \in Attempts, NEW p \in Peers, BeginAttempt(a, p)
    PROVE  IInv'
<1>a. [peer |-> p, generation |-> generations[p], forgotten |-> FALSE] \in Attempt
  BY DEF IInv, TypeOK, Attempt
<1>b. Serving /\ attempts' \in [Attempts -> Attempt \cup {NoAttempt}]
  BY <1>a DEF IInv, TypeOK, BeginAttempt
<1>1. TypeOK'
  BY <1>b DEF IInv, TypeOK, BeginAttempt
<1>2. LockInv'
  BY DEF IInv, LockInv, TypeOK, Phases, Operation, BeginAttempt
<1>3. FileInv'
  BY DEF IInv, FileInv, TypeOK, File, LockInv, Phases, BeginAttempt
<1>4. ProgressInv'
  BY DEF IInv, ProgressInv, TypeOK, LockInv, FileInv, Phases, BeginAttempt
<1>5. MemoryInv'
  BY DEF IInv, MemoryInv, TypeOK, LockInv, Phases, BeginAttempt
<1>6. ImagesInv'
  BY DEF IInv, ImagesInv, TypeOK, File, LockInv, FileInv, InFlight, Torn, BeginAttempt
<1>7. FailedCommitInvisible'
  BY DEF IInv, FailedCommitInvisible, TypeOK, LockInv, ProgressInv, Phases, BeginAttempt
<1>8. FenceInv'
  BY DEF IInv, FenceInv, TypeOK, LockInv, Operation, Attempt, BeginAttempt
<1> QED BY <1>1, <1>2, <1>3, <1>4, <1>5, <1>6, <1>7, <1>8 DEF IInv

\* The invariant survives starting a fenced Trust commit.
LEMMA Trust_if_generationStep ==
    ASSUME IInv, NEW a \in Attempts, trust_if_generation(a)
    PROVE  IInv'
<1>1. TypeOK'
  BY DEF IInv, TypeOK, File, Phases, Operation, Attempt, LockInv, FenceInv, trust_if_generation, commit, CommitAllowed, TrustBy
<1>2. LockInv'
  <2>1. op' = TrustBy(a) /\ TrustBy(a) \in Operation
    BY DEF IInv, TypeOK, Attempt, Operation, trust_if_generation, commit, CommitAllowed, TrustBy
  <2>2. op' # NoOp
    BY <2>1 DEF Operation
  <2> QED BY <2>2 DEF IInv, LockInv, trust_if_generation, commit, CommitAllowed, TrustBy
<1>3. FileInv'
  BY DEF IInv, FileInv, TypeOK, File, LockInv, Phases, trust_if_generation, commit, CommitAllowed, TrustBy
<1>4. ProgressInv'
  BY DEF IInv, ProgressInv, TypeOK, LockInv, FileInv, Phases, trust_if_generation, commit, CommitAllowed, TrustBy
<1>5. MemoryInv'
  BY DEF IInv, MemoryInv, TypeOK, LockInv, Phases, trust_if_generation, commit, CommitAllowed, TrustBy
<1>6. ImagesInv'
  BY DEF IInv, ImagesInv, TypeOK, File, LockInv, FileInv, InFlight, Torn, trust_if_generation, commit, CommitAllowed, TrustBy
<1>7. FailedCommitInvisible'
  BY DEF IInv, FailedCommitInvisible, TypeOK, LockInv, ProgressInv, Phases, trust_if_generation, commit, CommitAllowed, TrustBy
<1>8. FenceInv'
  BY DEF IInv, FenceInv, TypeOK, LockInv, Operation, Attempt, trust_if_generation, commit, CommitAllowed, TrustBy
<1> QED BY <1>1, <1>2, <1>3, <1>4, <1>5, <1>6, <1>7, <1>8 DEF IInv

\* The invariant survives ending an attempt.
LEMMA EndAttemptStep ==
    ASSUME IInv, NEW a \in Attempts, EndAttempt(a)
    PROVE  IInv'
<1>1. TypeOK'
  BY DEF IInv, TypeOK, File, Phases, Operation, Attempt, LockInv, FenceInv, EndAttempt
<1>2. LockInv'
  BY DEF IInv, LockInv, TypeOK, Phases, Operation, EndAttempt
<1>3. FileInv'
  BY DEF IInv, FileInv, TypeOK, File, LockInv, Phases, EndAttempt
<1>4. ProgressInv'
  BY DEF IInv, ProgressInv, TypeOK, LockInv, FileInv, Phases, EndAttempt
<1>5. MemoryInv'
  BY DEF IInv, MemoryInv, TypeOK, LockInv, Phases, EndAttempt
<1>6. ImagesInv'
  BY DEF IInv, ImagesInv, TypeOK, File, LockInv, FileInv, InFlight, Torn, EndAttempt
<1>7. FailedCommitInvisible'
  BY DEF IInv, FailedCommitInvisible, TypeOK, LockInv, ProgressInv, Phases, EndAttempt
<1>8. FenceInv'
  BY DEF IInv, FenceInv, TypeOK, LockInv, Operation, Attempt, EndAttempt
<1> QED BY <1>1, <1>2, <1>3, <1>4, <1>5, <1>6, <1>7, <1>8 DEF IInv

\* The invariant survives a Trust record written during shutdown.
LEMMA LateCommitStep ==
    ASSUME IInv, NEW a \in Attempts, LateCommit(a)
    PROVE  IInv'
<1> DEFINE m == TrustBy(a)
           torn == [file EXCEPT !.tail = "partial"]
<1>a. m \in Operation /\ m.op = "Trust" /\ m.peer = attempts[a].peer /\ m.peer \in Peers
      /\ apply_mutation(m) = "Trusted"
  BY DEF IInv, TypeOK, Attempt, Operation, LateCommit, TrustBy, apply_mutation
<1>b. file \in File /\ file \in images /\ file.header = "ok" /\ Len(file.recs) \in Nat
  BY WholePrefix DEF IInv, TypeOK, FileInv, LateCommit, CommitAllowed
<1>c. torn \in Torn(file) /\ torn \in File /\ torn.recs = file.recs
      /\ torn.header = file.header
  BY <1>b, TornFacts DEF Torn
<1> HIDE DEF m, torn
<1>d. file' \in {torn, Appended(file, m)} /\ images' = images \cup Torn(file) \cup {file'}
      /\ limbo' = limbo \cup {<<m.peer, "Trusted">>}
  BY <1>a DEF LateCommit, m, torn
<1>e. /\ file' \in File /\ file'.header = "ok"
      /\ Len(file.recs) <= Len(file'.recs)
      /\ \A n \in 0..Len(file.recs) : SubSeq(file'.recs, 1, n) = SubSeq(file.recs, 1, n)
  <2>1. CASE file' = torn
    BY <1>b, <1>c, <2>1
  <2>2. CASE file' = Appended(file, m)
    <3>1. file' \in File /\ file'.header = "ok" /\ Len(file'.recs) = Len(file.recs) + 1
      BY <1>a, <1>b, <2>2, AppendedFacts
    <3>2. \A n \in 0..Len(file.recs) : SubSeq(file'.recs, 1, n) = SubSeq(file.recs, 1, n)
      BY <1>a, <1>b, <2>2, AppendedFacts
    <3> QED BY <1>b, <3>1, <3>2
  <2> QED BY <1>d, <2>1, <2>2
<1>f. /\ Replay(file.recs) \in [Peers -> State]
      /\ \/ Replay(file'.recs) = Replay(file.recs) /\ file'.recs = file.recs
         \/ Replay(file'.recs) = [Replay(file.recs) EXCEPT ![m.peer] = "Trusted"]
  <2>1. Replay(file.recs) \in [Peers -> State]
    BY <1>b, WholePrefix, ReplayType
  <2>2. CASE file' = torn
    BY <1>c, <2>1, <2>2
  <2>3. CASE file' = Appended(file, m)
    BY <1>a, <1>b, <2>1, <2>3, AppendedFacts
  <2> QED BY <1>d, <2>2, <2>3
<1>g. \A f \in Torn(file) : f \in File /\ f.recs = file.recs /\ f.header = "ok"
  BY <1>b, TornFacts
<1>h. phase = "idle" /\ ~poisoned /\ stopping /\ op = NoOp /\ InFlight = {}
  BY DEF IInv, LockInv, LateCommit, CommitAllowed, InFlight
<1>1. TypeOK'
  <2>1. images' \in SUBSET File
    BY <1>d, <1>e, <1>g DEF IInv, TypeOK
  <2>2. limbo' \in SUBSET (Peers \X State)
    BY <1>a, <1>d DEF IInv, TypeOK, State
  <2>3. attempts' \in [Attempts -> Attempt \cup {NoAttempt}]
    BY DEF IInv, TypeOK, LateCommit
  <2> QED BY <1>e, <2>1, <2>2, <2>3 DEF IInv, TypeOK, LateCommit
<1>2. LockInv'
  BY DEF IInv, LockInv, TypeOK, Phases, Operation, LateCommit, CommitAllowed, TrustBy
<1>3. FileInv'
  BY <1>d, <1>e, <1>g, <1>h DEF IInv, FileInv, LateCommit
<1>4. ProgressInv'
  <2>1. record_count \in 0..Len(file.recs) /\ decisions \in [Peers -> State]
    BY <1>b, <1>h DEF IInv, TypeOK, ProgressInv
  <2>2. SubSeq(file'.recs, 1, record_count) = SubSeq(file.recs, 1, record_count)
    BY <1>e, <2>1
  <2>3. Replay(SubSeq(file'.recs, 1, record_count)) = decisions
    BY <1>h, <2>2 DEF IInv, ProgressInv
  <2>4. record_count <= Len(file'.recs)
    <3>1. Len(file'.recs) \in Nat
      BY <1>e, WholePrefix
    <3> QED BY <1>b, <1>e, <2>1, <3>1
  <2>5. \A q \in Peers : Replay(file'.recs)[q] \in {decisions[q], "Trusted"}
    BY <1>a, <1>f, <1>h DEF IInv, ProgressInv
  <2> QED BY <1>h, <2>3, <2>4, <2>5 DEF ProgressInv, LateCommit
<1>5. MemoryInv'
  BY DEF IInv, MemoryInv, TypeOK, LockInv, Phases, LateCommit, CommitAllowed, TrustBy
<1>6. ImagesInv'
  <2>1. validate_transition(Replay(file.recs)[m.peer], m)
    <3>1. decisions[m.peer] # "Revoked"
      BY <1>a DEF LateCommit, CommitAllowed, validate_transition, m
    <3>2. Replay(file.recs)[m.peer] \in {decisions[m.peer], "Trusted"}
      BY <1>a, <1>h DEF IInv, ProgressInv
    <3> QED BY <3>1, <3>2 DEF validate_transition
  <2>2. ValidHistory(file'.recs)
    BY <1>a, <1>b, <1>c, <1>d, <2>1, AppendedFacts DEF IInv, ImagesInv
  <2>3. InFlight' = {}
    BY <1>h DEF InFlight, LateCommit
  <2>4. \A q \in Peers : \/ Replay(file'.recs)[q] = acked[q]
                         \/ <<q, Replay(file'.recs)[q]>> \in limbo'
    BY <1>a, <1>b, <1>d, <1>f, <1>h DEF IInv, ImagesInv
  <2>5. Len(file'.recs) > MaxRecords => \E l \in limbo' : Replay(file'.recs)[l[1]] = l[2]
    <3>1. CASE file'.recs = file.recs
      BY <1>b, <1>d, <3>1 DEF IInv, ImagesInv
    <3>2. CASE Replay(file'.recs) = [Replay(file.recs) EXCEPT ![m.peer] = "Trusted"]
      <4>1. <<m.peer, "Trusted">> \in limbo' /\ Replay(file'.recs)[m.peer] = "Trusted"
        BY <1>a, <1>d, <1>f, <3>2
      <4> QED BY <4>1
    <3> QED BY <1>f, <3>1, <3>2
  <2>6. acked' = acked /\ limbo \subseteq limbo'
    BY <1>d DEF LateCommit
  <2>7. ASSUME NEW f \in images \cup Torn(file)
        PROVE  /\ ValidHistory(f.recs)
               /\ \A q \in Peers : \/ Replay(f.recs)[q] = acked[q]
                                   \/ <<q, Replay(f.recs)[q]>> \in limbo
               /\ Len(f.recs) > MaxRecords => \E l \in limbo : Replay(f.recs)[l[1]] = l[2]
    BY <1>b, <1>g, <1>h DEF IInv, ImagesInv
  <2> QED BY <1>d, <2>2, <2>3, <2>4, <2>5, <2>6, <2>7 DEF ImagesInv
<1>7. FailedCommitInvisible'
  BY DEF IInv, FailedCommitInvisible, TypeOK, LockInv, ProgressInv, Phases, LateCommit, CommitAllowed, TrustBy
<1>8. FenceInv'
  BY DEF IInv, FenceInv, TypeOK, LockInv, Operation, Attempt, LateCommit, CommitAllowed, TrustBy
<1> QED BY <1>1, <1>2, <1>3, <1>4, <1>5, <1>6, <1>7, <1>8 DEF IInv

\* The invariant survives starting a Revoke commit.
LEMMA RevokeStep ==
    ASSUME IInv, NEW p \in Peers, revoke(p)
    PROVE  IInv'
<1>1. TypeOK'
  BY DEF IInv, TypeOK, File, Phases, Operation, Attempt, LockInv, FenceInv, revoke, commit, CommitAllowed
<1>2. LockInv'
  <2>1. op' = [op |-> "Revoke", peer |-> p, forgotten |-> FALSE] /\ [op |-> "Revoke", peer |-> p, forgotten |-> FALSE] \in Operation
    BY DEF IInv, TypeOK, Attempt, Operation, revoke, commit, CommitAllowed
  <2>2. op' # NoOp
    BY <2>1 DEF Operation
  <2> QED BY <2>2 DEF IInv, LockInv, revoke, commit, CommitAllowed
<1>3. FileInv'
  BY DEF IInv, FileInv, TypeOK, File, LockInv, Phases, revoke, commit, CommitAllowed
<1>4. ProgressInv'
  BY DEF IInv, ProgressInv, TypeOK, LockInv, FileInv, Phases, revoke, commit, CommitAllowed
<1>5. MemoryInv'
  BY DEF IInv, MemoryInv, TypeOK, LockInv, Phases, revoke, commit, CommitAllowed
<1>6. ImagesInv'
  BY DEF IInv, ImagesInv, TypeOK, File, LockInv, FileInv, InFlight, Torn, revoke, commit, CommitAllowed
<1>7. FailedCommitInvisible'
  BY DEF IInv, FailedCommitInvisible, TypeOK, LockInv, ProgressInv, Phases, revoke, commit, CommitAllowed
<1>8. FenceInv'
  BY DEF IInv, FenceInv, TypeOK, LockInv, Operation, Attempt, revoke, commit, CommitAllowed
<1> QED BY <1>1, <1>2, <1>3, <1>4, <1>5, <1>6, <1>7, <1>8 DEF IInv

\* The invariant survives starting a Forget commit.
LEMMA ForgetStep ==
    ASSUME IInv, NEW p \in Peers, forget(p)
    PROVE  IInv'
<1>1. TypeOK'
  BY DEF IInv, TypeOK, File, Phases, Operation, Attempt, LockInv, FenceInv, forget, commit, CommitAllowed
<1>2. LockInv'
  <2>1. op' = [op |-> "Forget", peer |-> p, forgotten |-> FALSE] /\ [op |-> "Forget", peer |-> p, forgotten |-> FALSE] \in Operation
    BY DEF IInv, TypeOK, Attempt, Operation, forget, commit, CommitAllowed
  <2>2. op' # NoOp
    BY <2>1 DEF Operation
  <2> QED BY <2>2 DEF IInv, LockInv, forget, commit, CommitAllowed
<1>3. FileInv'
  BY DEF IInv, FileInv, TypeOK, File, LockInv, Phases, forget, commit, CommitAllowed
<1>4. ProgressInv'
  BY DEF IInv, ProgressInv, TypeOK, LockInv, FileInv, Phases, forget, commit, CommitAllowed
<1>5. MemoryInv'
  BY DEF IInv, MemoryInv, TypeOK, LockInv, Phases, forget, commit, CommitAllowed
<1>6. ImagesInv'
  BY DEF IInv, ImagesInv, TypeOK, File, LockInv, FileInv, InFlight, Torn, forget, commit, CommitAllowed
<1>7. FailedCommitInvisible'
  BY DEF IInv, FailedCommitInvisible, TypeOK, LockInv, ProgressInv, Phases, forget, commit, CommitAllowed
<1>8. FenceInv'
  BY DEF IInv, FenceInv, TypeOK, LockInv, Operation, Attempt, forget, commit, CommitAllowed
<1> QED BY <1>1, <1>2, <1>3, <1>4, <1>5, <1>6, <1>7, <1>8 DEF IInv

\* The invariant survives writing part of a record.
LEMMA WriteSomeBytesStep ==
    ASSUME IInv, WriteSomeBytes
    PROVE  IInv'
<1>a. file \in File /\ file' \in Torn(file)
  BY DEF IInv, TypeOK, WriteSomeBytes, Torn
<1>b. \A f \in Torn(file) : f \in File /\ f.recs = file.recs /\ f.header = file.header
  BY <1>a, TornFacts
<1>1. TypeOK'
  BY <1>a, <1>b DEF IInv, TypeOK, WriteSomeBytes
<1>2. LockInv'
  BY DEF IInv, LockInv, TypeOK, Phases, Operation, WriteSomeBytes
<1>3. FileInv'
  BY <1>a, <1>b DEF IInv, FileInv, WriteSomeBytes
<1>4. ProgressInv'
  BY <1>a, <1>b DEF IInv, ProgressInv, WriteSomeBytes
<1>5. MemoryInv'
  BY DEF IInv, MemoryInv, TypeOK, LockInv, Phases, WriteSomeBytes
<1>6. ImagesInv'
  <2>1. InFlight' = InFlight
    BY DEF InFlight, WriteSomeBytes
  <2> QED BY <1>b, <2>1 DEF IInv, FileInv, ImagesInv, WriteSomeBytes
<1>7. FailedCommitInvisible'
  BY DEF IInv, FailedCommitInvisible, TypeOK, LockInv, ProgressInv, Phases, WriteSomeBytes
<1>8. FenceInv'
  BY DEF IInv, FenceInv, TypeOK, LockInv, Operation, Attempt, WriteSomeBytes
<1> QED BY <1>1, <1>2, <1>3, <1>4, <1>5, <1>6, <1>7, <1>8 DEF IInv

\* The invariant survives writing the record.
LEMMA WriteRecordStep ==
    ASSUME IInv, WriteRecord
    PROVE  IInv'
<1>a. /\ file \in File /\ file \in images /\ op \in Operation /\ op.peer \in Peers
      /\ file.header = "ok" /\ apply_mutation(op) \in State
  BY InFlightType DEF IInv, TypeOK, LockInv, FileInv, WriteRecord, Operation
<1>b. /\ decisions = Replay(file.recs) /\ decisions \in [Peers -> State]
      /\ record_count = Len(file.recs) /\ record_count \in Nat
      /\ record_count < MaxRecords
      /\ validate_transition(Replay(file.recs)[op.peer], op)
  BY <1>a, WholePrefix DEF IInv, TypeOK, ProgressInv, WriteRecord
<1>c. /\ file' \in File /\ file'.header = "ok" /\ file'.tail = "none"
      /\ Len(file'.recs) = record_count + 1
      /\ SubSeq(file'.recs, 1, record_count) = file.recs
      /\ Replay(file'.recs) = [decisions EXCEPT ![op.peer] = apply_mutation(op)]
      /\ ValidHistory(file.recs) => ValidHistory(file'.recs)
  BY <1>a, <1>b, AppendedFacts, WholePrefix DEF WriteRecord
<1>d. \A f \in Torn(file) : f \in File /\ f.recs = file.recs /\ f.header = "ok"
  BY <1>a, TornFacts
<1>1. TypeOK'
  BY <1>c, <1>d DEF IInv, TypeOK, Phases, WriteRecord
<1>2. LockInv'
  BY DEF IInv, LockInv, TypeOK, Phases, Operation, WriteRecord
<1>3. FileInv'
  BY <1>c, <1>d DEF IInv, FileInv, WriteRecord
<1>4. ProgressInv'
  <2>1. phase' = "flush" /\ record_count' = record_count /\ decisions' = decisions /\ op' = op
    BY DEF WriteRecord
  <2>2. record_count <= Len(file'.recs) /\ Len(file'.recs) <= MaxRecords
    BY <1>b, <1>c
  <2>3. Replay(SubSeq(file'.recs, 1, record_count)) = decisions
    BY <1>b, <1>c
  <2> QED BY <1>c, <2>1, <2>2, <2>3 DEF ProgressInv
<1>5. MemoryInv'
  BY DEF IInv, MemoryInv, TypeOK, LockInv, Phases, WriteRecord
<1>6. ImagesInv'
  <2>1. InFlight' = InFlight /\ InFlight = {<<op.peer, apply_mutation(op)>>}
    BY <1>a DEF InFlight, WriteRecord, Operation
  <2>2. ASSUME NEW f \in images \cup Torn(file)
        PROVE  /\ ValidHistory(f.recs)
               /\ \A q \in Peers : \/ Replay(f.recs)[q] = acked[q]
                                   \/ <<q, Replay(f.recs)[q]>> \in limbo \cup InFlight
               /\ Len(f.recs) > MaxRecords => \E l \in limbo : Replay(f.recs)[l[1]] = l[2]
    BY <1>a, <1>d DEF IInv, ImagesInv
  <2>3. \A q \in Peers : \/ Replay(file'.recs)[q] = acked[q]
                         \/ <<q, Replay(file'.recs)[q]>> \in limbo \cup InFlight
    <3>1. \A q \in Peers \ {op.peer} : Replay(file'.recs)[q] = Replay(file.recs)[q]
      BY <1>a, <1>b, <1>c
    <3>2. Replay(file'.recs)[op.peer] = apply_mutation(op)
      BY <1>a, <1>b, <1>c
    <3> QED BY <1>a, <2>1, <2>2, <3>1, <3>2
  <2>4. ValidHistory(file'.recs) /\ ~(Len(file'.recs) > MaxRecords)
    BY <1>a, <1>b, <1>c DEF IInv, ImagesInv
  <2> QED BY <2>1, <2>2, <2>3, <2>4 DEF ImagesInv, WriteRecord
<1>7. FailedCommitInvisible'
  BY DEF IInv, FailedCommitInvisible, TypeOK, LockInv, ProgressInv, Phases, WriteRecord
<1>8. FenceInv'
  BY DEF IInv, FenceInv, TypeOK, LockInv, Operation, Attempt, WriteRecord
<1> QED BY <1>1, <1>2, <1>3, <1>4, <1>5, <1>6, <1>7, <1>8 DEF IInv

\* The invariant survives flushing the record.
LEMMA FlushRecordStep ==
    ASSUME IInv, FlushRecord
    PROVE  IInv'
<1>1. TypeOK'
  BY DEF IInv, TypeOK, File, Phases, Operation, Attempt, LockInv, FenceInv, FlushRecord
<1>2. LockInv'
  BY DEF IInv, LockInv, TypeOK, Phases, Operation, FlushRecord
<1>3. FileInv'
  BY DEF IInv, FileInv, TypeOK, File, LockInv, Phases, FlushRecord
<1>4. ProgressInv'
  BY DEF IInv, ProgressInv, TypeOK, LockInv, FileInv, Phases, FlushRecord
<1>5. MemoryInv'
  BY DEF IInv, MemoryInv, TypeOK, LockInv, Phases, FlushRecord
<1>6. ImagesInv'
  BY DEF IInv, ImagesInv, TypeOK, File, LockInv, FileInv, InFlight, Torn, FlushRecord
<1>7. FailedCommitInvisible'
  BY DEF IInv, FailedCommitInvisible, TypeOK, LockInv, ProgressInv, Phases, FlushRecord
<1>8. FenceInv'
  BY DEF IInv, FenceInv, TypeOK, LockInv, Operation, Attempt, FlushRecord
<1> QED BY <1>1, <1>2, <1>3, <1>4, <1>5, <1>6, <1>7, <1>8 DEF IInv

\* The invariant survives syncing and applying the record.
LEMMA SyncRecordStep ==
    ASSUME IInv, SyncRecord
    PROVE  IInv'
<1>a. /\ file \in File /\ file \in images /\ op \in Operation /\ op.peer \in Peers
      /\ op # NoOp /\ apply_mutation(op) \in State /\ Len(file.recs) \in Nat
  BY InFlightType, WholePrefix DEF IInv, TypeOK, LockInv, FileInv, SyncRecord, Operation
<1>b. /\ Len(file.recs) = record_count + 1 /\ file.tail = "none"
      /\ Len(file.recs) <= MaxRecords
      /\ Replay(file.recs) = decisions'
      /\ decisions' = [decisions EXCEPT ![op.peer] = apply_mutation(op)]
      /\ SubSeq(file.recs, 1, record_count + 1) = file.recs
  BY <1>a, WholePrefix DEF IInv, ProgressInv, SyncRecord
<1>1. TypeOK'
  <2>1. decisions' \in [Peers -> State] /\ acked' \in [Peers -> State]
    BY <1>a DEF IInv, TypeOK, SyncRecord
  <2>2. generations' \in [Peers -> 0..MaxGeneration]
    BY <1>a DEF IInv, TypeOK, FenceInv, SyncRecord
  <2>3. attempts' \in [Attempts -> Attempt \cup {NoAttempt}]
    <3>1. ASSUME NEW a \in Attempts, attempts[a] # NoAttempt
          PROVE  [attempts[a] EXCEPT !.forgotten = TRUE] \in Attempt
      BY <3>1 DEF IInv, TypeOK, Attempt
    <3> QED BY <3>1 DEF IInv, TypeOK, SyncRecord
  <2>4. limbo' \in SUBSET (Peers \X State)
    BY DEF IInv, TypeOK, SyncRecord, Settle
  <2> QED BY <1>a, <2>1, <2>2, <2>3, <2>4 DEF IInv, TypeOK, Phases, SyncRecord
<1>2. LockInv'
  BY DEF IInv, LockInv, TypeOK, Phases, Operation, SyncRecord
<1>3. FileInv'
  BY DEF IInv, FileInv, TypeOK, File, LockInv, Phases, SyncRecord
<1>4. ProgressInv'
  <2>1. phase' = "idle" /\ record_count' = record_count + 1 /\ file' = file
    BY DEF SyncRecord
  <2>2. \A q \in Peers : Replay(file.recs)[q] \in {decisions'[q], "Trusted"}
    BY <1>b
  <2>3. record_count' <= Len(file'.recs) /\ record_count' = Len(file'.recs)
    BY <1>a, <1>b, <2>1
  <2>4. SubSeq(file'.recs, 1, record_count') = file.recs
    BY <1>b, <2>1
  <2>5. Replay(SubSeq(file'.recs, 1, record_count')) = decisions'
    BY <1>b, <2>4
  <2> QED BY <1>b, <2>1, <2>2, <2>3, <2>5 DEF ProgressInv
<1>5. MemoryInv'
  <2>1. ASSUME NEW q \in Peers
        PROVE  decisions'[q] = acked'[q] \/ <<q, decisions'[q]>> \in limbo'
    <3>1. CASE q = op.peer
      BY <1>a, <1>b, <3>1 DEF IInv, TypeOK, SyncRecord
    <3>2. CASE q # op.peer
      <4>1. decisions'[q] = decisions[q] /\ Replay(file.recs)[q] = decisions[q]
        BY <1>a, <1>b, <3>2 DEF IInv, TypeOK
      <4>2. decisions[q] = acked[q] \/ <<q, decisions[q]>> \in limbo
        BY DEF IInv, MemoryInv, SyncRecord
      <4> QED BY <3>2, <4>1, <4>2 DEF IInv, TypeOK, SyncRecord, Settle
    <3> QED BY <3>1, <3>2
  <2> QED BY <2>1 DEF MemoryInv
<1>6. ImagesInv'
  <2>1. InFlight = {<<op.peer, apply_mutation(op)>>} /\ InFlight' = {}
    BY <1>a DEF InFlight, SyncRecord
  <2>2. ASSUME NEW q \in Peers
        PROVE  Replay(file.recs)[q] = acked'[q] \/ <<q, Replay(file.recs)[q]>> \in limbo'
    <3>1. CASE q = op.peer
      BY <1>a, <1>b, <3>1 DEF IInv, TypeOK, SyncRecord
    <3>2. CASE q # op.peer
      <4>1. Replay(file.recs)[q] = acked[q] \/ <<q, Replay(file.recs)[q]>> \in limbo
        BY <1>a, <2>1, <3>2 DEF IInv, ImagesInv
      <4> QED BY <1>a, <3>2, <4>1 DEF IInv, TypeOK, SyncRecord, Settle
    <3> QED BY <3>1, <3>2
  <2>3. ValidHistory(file.recs) /\ ~(Len(file.recs) > MaxRecords)
    BY <1>a, <1>b DEF IInv, ImagesInv
  <2> QED BY <2>1, <2>2, <2>3 DEF ImagesInv, SyncRecord
<1>7. FailedCommitInvisible'
  BY DEF IInv, FailedCommitInvisible, TypeOK, LockInv, ProgressInv, Phases, SyncRecord
<1>8. FenceInv'
  BY DEF IInv, FenceInv, TypeOK, LockInv, Operation, Attempt, SyncRecord
<1> QED BY <1>1, <1>2, <1>3, <1>4, <1>5, <1>6, <1>7, <1>8 DEF IInv

\* The invariant survives a failure while persisting.
LEMMA PersistFailsStep ==
    ASSUME IInv, PersistFails
    PROVE  IInv'
<1>1. TypeOK'
  BY DEF IInv, TypeOK, File, Phases, Operation, Attempt, LockInv, FenceInv, PersistFails
<1>2. LockInv'
  BY DEF IInv, LockInv, TypeOK, Phases, Operation, PersistFails
<1>3. FileInv'
  BY DEF IInv, FileInv, TypeOK, File, LockInv, Phases, PersistFails
<1>4. ProgressInv'
  BY DEF IInv, ProgressInv, TypeOK, LockInv, FileInv, Phases, PersistFails
<1>5. MemoryInv'
  BY DEF IInv, MemoryInv, TypeOK, LockInv, Phases, PersistFails
<1>6. ImagesInv'
  BY DEF IInv, ImagesInv, TypeOK, File, LockInv, FileInv, InFlight, Torn, PersistFails
<1>7. FailedCommitInvisible'
  BY DEF IInv, FailedCommitInvisible, TypeOK, LockInv, ProgressInv, Phases, PersistFails
<1>8. FenceInv'
  BY DEF IInv, FenceInv, TypeOK, LockInv, Operation, Attempt, PersistFails
<1> QED BY <1>1, <1>2, <1>3, <1>4, <1>5, <1>6, <1>7, <1>8 DEF IInv

\* The invariant survives truncating a failed append.
LEMMA TruncateFailedCommitStep ==
    ASSUME IInv, TruncateFailedCommit
    PROVE  IInv'
<1>a. /\ file \in File /\ file \in images /\ record_count \in 0..Len(file.recs)
      /\ Replay(SubSeq(file.recs, 1, record_count)) = decisions
      /\ op # NoOp /\ Len(file.recs) \in Nat
  BY WholePrefix DEF IInv, TypeOK, LockInv, FileInv, ProgressInv, TruncateFailedCommit
<1>b. /\ file' \in File /\ file'.header = file.header /\ file'.tail = "none"
      /\ Len(file'.recs) = record_count
      /\ SubSeq(file'.recs, 1, record_count) = file'.recs
      /\ Replay(file'.recs) = decisions
      /\ ValidHistory(file.recs) => ValidHistory(file'.recs)
  BY <1>a, TruncatedFacts DEF TruncateFailedCommit
<1>1. TypeOK'
  BY <1>b DEF IInv, TypeOK, Phases, TruncateFailedCommit
<1>2. LockInv'
  BY DEF IInv, LockInv, TypeOK, Phases, Operation, TruncateFailedCommit
<1>3. FileInv'
  BY <1>a, <1>b DEF IInv, FileInv, TruncateFailedCommit
<1>4. ProgressInv'
  <2>1. /\ phase' = "truncate_sync" /\ record_count' = record_count /\ decisions' = decisions
        /\ record_count < MaxRecords
    BY DEF IInv, ProgressInv, TruncateFailedCommit
  <2>2. record_count <= Len(file'.recs)
    BY <1>a, <1>b
  <2>3. Replay(SubSeq(file'.recs, 1, record_count)) = decisions
    BY <1>b
  <2> QED BY <1>b, <2>1, <2>2, <2>3 DEF ProgressInv
<1>5. MemoryInv'
  BY DEF IInv, MemoryInv, TypeOK, LockInv, Phases, TruncateFailedCommit
<1>6. ImagesInv'
  <2>1. InFlight' = InFlight
    BY DEF InFlight, TruncateFailedCommit
  <2>2. \A q \in Peers : \/ decisions[q] = acked[q]
                         \/ <<q, decisions[q]>> \in limbo \cup InFlight
    BY DEF IInv, MemoryInv, TruncateFailedCommit
  <2>3. ValidHistory(file'.recs) /\ ~(Len(file'.recs) > MaxRecords)
    BY <1>a, <1>b DEF IInv, ImagesInv, ProgressInv, TruncateFailedCommit
  <2> QED BY <1>b, <2>1, <2>2, <2>3 DEF IInv, ImagesInv, TruncateFailedCommit
<1>7. FailedCommitInvisible'
  BY DEF IInv, FailedCommitInvisible, TypeOK, LockInv, ProgressInv, Phases, TruncateFailedCommit
<1>8. FenceInv'
  BY DEF IInv, FenceInv, TypeOK, LockInv, Operation, Attempt, TruncateFailedCommit
<1> QED BY <1>1, <1>2, <1>3, <1>4, <1>5, <1>6, <1>7, <1>8 DEF IInv

\* The invariant survives syncing the rollback.
LEMMA SyncRollbackStep ==
    ASSUME IInv, SyncRollback
    PROVE  IInv'
<1>a. file \in File /\ file \in images /\ op # NoOp
  BY DEF IInv, TypeOK, LockInv, FileInv, SyncRollback
<1>1. TypeOK'
  BY <1>a DEF IInv, TypeOK, Phases, SyncRollback, Settle
<1>2. LockInv'
  BY DEF IInv, LockInv, TypeOK, Phases, Operation, SyncRollback
<1>3. FileInv'
  BY DEF IInv, FileInv, TypeOK, File, LockInv, Phases, SyncRollback
<1>4. ProgressInv'
  BY DEF IInv, ProgressInv, TypeOK, LockInv, FileInv, Phases, SyncRollback
<1>5. MemoryInv'
  <2>1. Replay(file.recs) = decisions
    BY DEF IInv, ProgressInv, SyncRollback
  <2> QED BY <2>1 DEF IInv, MemoryInv, SyncRollback, Settle
<1>6. ImagesInv'
  <2>1. Replay(file.recs) = decisions /\ InFlight' = {}
    BY DEF IInv, ProgressInv, SyncRollback, InFlight
  <2>2. \A q \in Peers : decisions[q] = acked[q] \/ <<q, decisions[q]>> \in limbo
    BY DEF IInv, MemoryInv, SyncRollback
  <2>3. ValidHistory(file.recs)
        /\ (Len(file.recs) > MaxRecords => \E l \in limbo : Replay(file.recs)[l[1]] = l[2])
    BY <1>a DEF IInv, ImagesInv
  <2> QED BY <2>1, <2>2, <2>3 DEF ImagesInv, SyncRollback, Settle
<1>7. FailedCommitInvisible'
  BY DEF IInv, FailedCommitInvisible, TypeOK, LockInv, ProgressInv, Phases, SyncRollback
<1>8. FenceInv'
  BY DEF IInv, FenceInv, TypeOK, LockInv, Operation, Attempt, SyncRollback
<1> QED BY <1>1, <1>2, <1>3, <1>4, <1>5, <1>6, <1>7, <1>8 DEF IInv

\* The invariant survives a failed rollback.
LEMMA RollbackFailsStep ==
    ASSUME IInv, RollbackFails
    PROVE  IInv'
<1>a. InFlight \in SUBSET (Peers \X State)
  BY InFlightType DEF IInv
<1>1. TypeOK'
  BY <1>a DEF IInv, TypeOK, Phases, RollbackFails
<1>2. LockInv'
  BY DEF IInv, LockInv, TypeOK, Phases, Operation, RollbackFails
<1>3. FileInv'
  BY DEF IInv, FileInv, TypeOK, File, LockInv, Phases, RollbackFails
<1>4. ProgressInv'
  BY DEF IInv, ProgressInv, TypeOK, LockInv, FileInv, Phases, RollbackFails
<1>5. MemoryInv'
  BY DEF IInv, MemoryInv, TypeOK, LockInv, Phases, RollbackFails
<1>6. ImagesInv'
  BY DEF IInv, ImagesInv, TypeOK, File, LockInv, FileInv, InFlight, Torn, RollbackFails
<1>7. FailedCommitInvisible'
  BY DEF IInv, FailedCommitInvisible, TypeOK, LockInv, ProgressInv, Phases, RollbackFails
<1>8. FenceInv'
  BY DEF IInv, FenceInv, TypeOK, LockInv, Operation, Attempt, RollbackFails
<1> QED BY <1>1, <1>2, <1>3, <1>4, <1>5, <1>6, <1>7, <1>8 DEF IInv

\* The invariant survives the shutdown signal.
LEMMA ShutdownStep ==
    ASSUME IInv, Shutdown
    PROVE  IInv'
<1>a. file \in File /\ SubSeq(file.recs, 1, Len(file.recs)) = file.recs
  BY WholePrefix DEF IInv, TypeOK
<1>1. TypeOK'
  BY DEF IInv, TypeOK, File, Phases, Operation, Attempt, LockInv, FenceInv, Shutdown
<1>2. LockInv'
  BY DEF IInv, LockInv, TypeOK, Phases, Operation, Shutdown
<1>3. FileInv'
  BY DEF IInv, FileInv, TypeOK, File, LockInv, Phases, Shutdown
<1>4. ProgressInv'
  BY <1>a DEF IInv, ProgressInv, Shutdown
<1>5. MemoryInv'
  BY DEF IInv, MemoryInv, TypeOK, LockInv, Phases, Shutdown
<1>6. ImagesInv'
  BY DEF IInv, ImagesInv, TypeOK, File, LockInv, FileInv, InFlight, Torn, Shutdown
<1>7. FailedCommitInvisible'
  BY DEF IInv, FailedCommitInvisible, TypeOK, LockInv, ProgressInv, Phases, Shutdown
<1>8. FenceInv'
  BY DEF IInv, FenceInv, TypeOK, LockInv, Operation, Attempt, Shutdown
<1> QED BY <1>1, <1>2, <1>3, <1>4, <1>5, <1>6, <1>7, <1>8 DEF IInv

\* The invariant survives dropping a commit at an await.
LEMMA DropCommitStep ==
    ASSUME IInv, DropCommit
    PROVE  IInv'
<1>a. /\ InFlight \in SUBSET (Peers \X State) /\ file \in File /\ op # NoOp
      /\ SubSeq(file.recs, 1, Len(file.recs)) = file.recs
  BY InFlightType, WholePrefix DEF IInv, TypeOK, LockInv, DropCommit
<1>b. op.op = "Trust" /\ op.peer \in Peers /\ apply_mutation(op) = "Trusted"
  BY <1>a DEF IInv, TypeOK, LockInv, DropCommit, Operation, apply_mutation
<1>1. TypeOK'
  BY <1>a DEF IInv, TypeOK, Phases, DropCommit
<1>2. LockInv'
  BY DEF IInv, LockInv, TypeOK, Phases, Operation, DropCommit
<1>3. FileInv'
  BY DEF IInv, FileInv, TypeOK, File, LockInv, Phases, DropCommit
<1>4. ProgressInv'
  <2>1. CASE phase = "write"
    BY <1>a, <2>1 DEF IInv, ProgressInv, DropCommit
  <2>2. CASE phase \in {"flush", "sync"}
    <3>1. \A q \in Peers : Replay(file.recs)[q] \in {decisions[q], "Trusted"}
      BY <1>b, <2>2 DEF IInv, TypeOK, ProgressInv
    <3> QED BY <2>2, <3>1 DEF IInv, ProgressInv, DropCommit
  <2>3. CASE phase \in RollingBack
    BY <2>3 DEF IInv, LockInv, ProgressInv, DropCommit
  <2> QED BY <2>1, <2>2, <2>3 DEF DropCommit
<1>5. MemoryInv'
  BY DEF IInv, MemoryInv, TypeOK, LockInv, Phases, DropCommit
<1>6. ImagesInv'
  BY DEF IInv, ImagesInv, TypeOK, File, LockInv, FileInv, InFlight, Torn, DropCommit
<1>7. FailedCommitInvisible'
  BY DEF IInv, FailedCommitInvisible, TypeOK, LockInv, ProgressInv, Phases, DropCommit
<1>8. FenceInv'
  BY DEF IInv, FenceInv, TypeOK, LockInv, Operation, Attempt, DropCommit
<1> QED BY <1>1, <1>2, <1>3, <1>4, <1>5, <1>6, <1>7, <1>8 DEF IInv

\* The invariant survives losing the process.
LEMMA ProcessCrashStep ==
    ASSUME IInv, ProcessCrash
    PROVE  IInv'
<1>a. InFlight \in SUBSET (Peers \X State)
  BY InFlightType DEF IInv
<1>1. TypeOK'
  BY <1>a, ProcessGoneFacts DEF IInv, TypeOK, ProcessCrash, ProcessGone
<1>2. LockInv'
  BY DEF IInv, LockInv, TypeOK, Phases, Operation, ProcessCrash, ProcessGone
<1>3. FileInv'
  BY DEF IInv, FileInv, TypeOK, File, LockInv, Phases, ProcessCrash, ProcessGone
<1>4. ProgressInv'
  BY DEF IInv, ProgressInv, TypeOK, LockInv, FileInv, Phases, ProcessCrash, ProcessGone
<1>5. MemoryInv'
  BY DEF IInv, MemoryInv, TypeOK, LockInv, Phases, ProcessCrash, ProcessGone
<1>6. ImagesInv'
  BY DEF IInv, ImagesInv, TypeOK, File, LockInv, FileInv, InFlight, Torn, ProcessCrash, ProcessGone
<1>7. FailedCommitInvisible'
  BY DEF IInv, FailedCommitInvisible, TypeOK, LockInv, ProgressInv, Phases, ProcessCrash, ProcessGone
<1>8. FenceInv'
  BY DEF IInv, FenceInv, TypeOK, LockInv, Operation, Attempt, ProcessCrash, ProcessGone
<1> QED BY <1>1, <1>2, <1>3, <1>4, <1>5, <1>6, <1>7, <1>8 DEF IInv

\* The invariant survives losing power.
LEMMA PowerFailsStep ==
    ASSUME IInv, PowerFails
    PROVE  IInv'
<1>a. InFlight \in SUBSET (Peers \X State) /\ file' \in images /\ file' \in File
  BY InFlightType DEF IInv, TypeOK, PowerFails
<1>b. limbo' \subseteq limbo \cup InFlight /\ InFlight' = {}
  BY DEF PowerFails, ProcessGone, Settle, InFlight
<1>1. TypeOK'
  <2>1. ProcessGone /\ crashes \in Nat
    BY DEF IInv, TypeOK, PowerFails
  <2> QED BY <1>a, <1>b, <2>1, ProcessGoneFacts DEF IInv, TypeOK, PowerFails, ProcessGone
<1>2. LockInv'
  BY DEF IInv, LockInv, TypeOK, Phases, Operation, PowerFails, ProcessGone
<1>3. FileInv'
  BY DEF IInv, FileInv, TypeOK, File, LockInv, Phases, PowerFails, ProcessGone
<1>4. ProgressInv'
  BY DEF IInv, ProgressInv, TypeOK, LockInv, FileInv, Phases, PowerFails, ProcessGone
<1>5. MemoryInv'
  BY DEF IInv, MemoryInv, TypeOK, LockInv, Phases, PowerFails, ProcessGone
<1>6. ImagesInv'
  <2>1. /\ ValidHistory(file'.recs)
        /\ \A q \in Peers : \/ Replay(file'.recs)[q] = acked[q]
                            \/ <<q, Replay(file'.recs)[q]>> \in limbo \cup InFlight
        /\ Len(file'.recs) > MaxRecords => \E l \in limbo : Replay(file'.recs)[l[1]] = l[2]
    BY <1>a DEF IInv, ImagesInv
  <2>2. /\ images' = {file'} /\ acked' = acked
        /\ limbo' = {l \in limbo \cup InFlight : Replay(file'.recs)[l[1]] = l[2]}
    BY DEF PowerFails, ProcessGone, Settle
  <2>3. \A q \in Peers : \/ Replay(file'.recs)[q] = acked[q]
                         \/ <<q, Replay(file'.recs)[q]>> \in limbo'
    BY <2>1, <2>2
  <2> QED BY <1>b, <2>1, <2>2, <2>3 DEF ImagesInv
<1>7. FailedCommitInvisible'
  BY DEF IInv, FailedCommitInvisible, TypeOK, LockInv, ProgressInv, Phases, PowerFails, ProcessGone
<1>8. FenceInv'
  BY DEF IInv, FenceInv, TypeOK, LockInv, Operation, Attempt, PowerFails, ProcessGone
<1> QED BY <1>1, <1>2, <1>3, <1>4, <1>5, <1>6, <1>7, <1>8 DEF IInv

-----------------------------------------------------------------------------
(* The theorems *)

\* A store that has not been created yet satisfies the invariant.
LEMMA InitIInv == Init => IInv
<1> SUFFICES ASSUME Init PROVE IInv
  OBVIOUS
<1>1. file \in File /\ file.recs = <<>> /\ images = {file}
  BY ReplayEmpty DEF Init, File
<1>2. TypeOK
  <2>1. generations \in [Peers -> 0..MaxGeneration]
    BY DEF Init
  <2> QED BY <1>1, <2>1 DEF Init, TypeOK, Phases, State
<1>3. ImagesInv
  <2>1. Len(<<>>) = 0
    OBVIOUS
  <2> QED BY <1>1, <2>1, ReplayEmpty DEF Init, ImagesInv
<1>4. LockInv /\ FileInv /\ ProgressInv /\ MemoryInv
  BY <1>1 DEF Init, LockInv, FileInv, ProgressInv, MemoryInv
<1>5. FailedCommitInvisible /\ FenceInv
  BY DEF Init, FailedCommitInvisible, FenceInv
<1> QED BY <1>2, <1>3, <1>4, <1>5 DEF IInv

\* Every step of the store, its environment's failures included, preserves the
\* invariant.
LEMMA NextIInv == IInv /\ [Next]_vars => IInv'
<1> SUFFICES ASSUME IInv, [Next]_vars PROVE IInv'
  OBVIOUS
<1>1. CASE UNCHANGED vars
  BY <1>1 DEF vars, IInv, TypeOK, LockInv, FileInv, ProgressInv, MemoryInv, ImagesInv,
              FailedCommitInvisible, FenceInv, InFlight
<1>2. CASE CreateJournal \/ write_header \/ WriteHeaderFails
  BY <1>2, CreateJournalStep, Write_headerStep, WriteHeaderFailsStep
<1>3. CASE OpenExisting \/ OpenWithIncompleteTail \/ TrimTail \/ SyncTrimmedTail \/ TrimFails
  BY <1>3, OpenExistingStep, OpenWithIncompleteTailStep, TrimTailStep, SyncTrimmedTailStep,
     TrimFailsStep
<1>4. CASE OpenRejected
  BY <1>1, <1>4 DEF OpenRejected
<1>5. ASSUME NEW a \in Attempts, NEW p \in Peers, BeginAttempt(a, p)
      PROVE  IInv'
  BY <1>5, BeginAttemptStep
<1>6. ASSUME NEW a \in Attempts, trust_if_generation(a) \/ EndAttempt(a) \/ LateCommit(a)
      PROVE  IInv'
  BY <1>6, Trust_if_generationStep, EndAttemptStep, LateCommitStep
<1>7. ASSUME NEW p \in Peers, revoke(p) \/ forget(p)
      PROVE  IInv'
  BY <1>7, RevokeStep, ForgetStep
<1>8. CASE WriteSomeBytes \/ WriteRecord \/ FlushRecord \/ SyncRecord
  BY <1>8, WriteSomeBytesStep, WriteRecordStep, FlushRecordStep, SyncRecordStep
<1>9. CASE PersistFails \/ TruncateFailedCommit \/ SyncRollback \/ RollbackFails
  BY <1>9, PersistFailsStep, TruncateFailedCommitStep, SyncRollbackStep, RollbackFailsStep
<1>10. CASE Shutdown \/ DropCommit \/ ProcessCrash \/ PowerFails
  BY <1>10, ShutdownStep, DropCommitStep, ProcessCrashStep, PowerFailsStep
<1> QED BY <1>1, <1>2, <1>3, <1>4, <1>5, <1>6, <1>7, <1>8, <1>9, <1>10 DEF Next

\* The strengthened invariant holds in every reachable state.
THEOREM InductiveInvariant == Spec => []IInv
BY InitIInv, NextIInv, PTL DEF Spec

\* Every variable of the store keeps its type.
THEOREM TypeCorrect == Spec => []TypeOK
<1>1. IInv => TypeOK
  BY DEF IInv
<1> QED BY <1>1, InductiveInvariant, PTL

\* What was acknowledged survives every crash and power loss that leaves a
\* replayable journal: commit syncs before it applies and returns.
THEOREM Durability == Spec => []AcknowledgedSurvives
<1>1. IInv => AcknowledgedSurvives
  BY DEF IInv, ImagesInv, AcknowledgedSurvives
<1> QED BY <1>1, InductiveInvariant, PTL

\* A serving instance's memory is exactly the replay of its file.
THEOREM MemoryAgreement == Spec => []MemoryMatchesJournal
<1>1. ASSUME IInv PROVE MemoryMatchesJournal
  <2>1. file \in File /\ SubSeq(file.recs, 1, Len(file.recs)) = file.recs
    BY <1>1, WholePrefix DEF IInv, TypeOK
  <2> QED BY <1>1, <2>1 DEF IInv, ProgressInv, MemoryMatchesJournal
<1> QED BY <1>1, InductiveInvariant, PTL

\* A commit that failed and was rolled back can never be replayed.
THEOREM RollbackHides == Spec => []FailedCommitInvisible
<1>1. IInv => FailedCommitInvisible
  BY DEF IInv
<1> QED BY <1>1, InductiveInvariant, PTL

\* The generation fence: no attempt admitted before a forget commits after it.
THEOREM GenerationFence == Spec => []ForgottenAttemptNeverCommits
<1>1. IInv => ForgottenAttemptNeverCommits
  BY DEF IInv, FenceInv, ForgottenAttemptNeverCommits
<1> QED BY <1>1, InductiveInvariant, PTL

\* Whatever is not torn can be replayed by the next open.
THEOREM Replayability == Spec => []JournalStaysReplayable
<1>1. ASSUME IInv PROVE JournalStaysReplayable
  <2>1. \A f \in images : Len(f.recs) \in Nat
    BY <1>1, WholePrefix DEF IInv, TypeOK
  <2> QED BY <1>1, <2>1 DEF IInv, ImagesInv, JournalStaysReplayable
<1> QED BY <1>1, InductiveInvariant, PTL

=============================================================================
