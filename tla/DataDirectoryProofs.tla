------------------------ MODULE DataDirectoryProofs ------------------------
(* Proofs about one data directory, for any number of processes, keys,      *)
(* crashes and power losses.                                                *)
EXTENDS DataDirectory, TLAPS

Drafting == Creating \ {"create", "promoted"}

\* What the entries and the temporary files may hold.
ShapeInv ==
    /\ dir \in [Entries -> Keys \cup Daemons \cup {None, "journal"}]
    /\ disk \in [Entries -> SUBSET (Keys \cup Daemons \cup {None, "journal"})]
    /\ draft \in [Daemons -> [key : Keys \cup {None},
                              bytes : {"none", "created", "written", "synced"}]]

\* A temporary file has a key while it exists, and it is synced before it is linked.
DraftInv ==
    \A d \in Daemons :
        /\ pc[d] \in Drafting => draft[d].key \in Keys
        /\ pc[d] \in {"link", "unlink"} => draft[d].bytes = "synced"

\* The lock covers every step of a daemon's life but the late destructor.
Unlocked == {"off", "released", "dropping"}
LockInv == \A d \in Daemons : pc[d] \notin Unlocked => lock = d

\* A start that has loaded its identity, or opened its journal, finds it there
\* until it is ready.
ProgressInv ==
    \A d \in Daemons :
        /\ pc[d] \in {"trust", "bind", "publish", "published"} => dir["identity"] \in Keys
        /\ pc[d] \in {"bind", "publish", "published"} => dir["journal"] = "journal"

\* What a ready daemon relied on is durable and has no other version.
ServedInv == \A k \in served : disk["identity"] = {k} /\ disk["journal"] = {"journal"}

\* Without a power loss a journal is never older than the identity.
OrphanInv ==
    /\ losses = 0 => (dir["journal"] # None => dir["identity"] # None)
    /\ CrashNeverOrphansJournal

IInv ==
    /\ TypeOK /\ ShapeInv /\ DraftInv /\ LockInv /\ ProgressInv /\ ServedInv /\ OrphanInv

-----------------------------------------------------------------------------
(* Each step preserves the invariant *)

\* A process that takes the free lock.
LEMMA AcquireStep ==
    ASSUME IInv, NEW d \in Daemons, acquire(d)
    PROVE  IInv'
<1> USE DirectoryAssumption DEF IInv, TypeOK, ShapeInv, Entries
<1>1. TypeOK' /\ ShapeInv'
  BY DEF DraftInv, Drafting, Values, NoDraft, Stages, Starting, Creating, Stopping, Refusals,
         acquire, Goto, Keep, Budget
<1>2. DraftInv' /\ LockInv'
  BY DEF DraftInv, Drafting, LockInv, Unlocked, Stages, Starting, Creating, Stopping, Refusals,
         acquire, Goto, Keep, Budget
<1>3. ProgressInv'
  BY DEF ProgressInv, DraftInv, Drafting, Stages, Starting, Creating, Stopping, Refusals,
         acquire, Goto, Keep, Budget
<1>4. ServedInv'
  BY DEF ServedInv, ProgressInv, DraftInv, Drafting, Creating, acquire, Goto, Keep, Budget
<1>5. OrphanInv'
  BY DEF OrphanInv, CrashNeverOrphansJournal, ProgressInv, DraftInv, Drafting, Creating,
         acquire, Goto, Keep, Budget
<1> QED BY <1>1, <1>2, <1>3, <1>4, <1>5

\* Removing a stale descriptor.
LEMMA PrepareDescriptorStep ==
    ASSUME IInv, NEW d \in Daemons, PrepareDescriptor(d)
    PROVE  IInv'
<1> USE DirectoryAssumption DEF IInv, TypeOK, ShapeInv, Entries
<1>1. TypeOK' /\ ShapeInv'
  BY DEF DraftInv, Drafting, Values, NoDraft, Stages, Starting, Creating, Stopping, Refusals,
         PrepareDescriptor, Set, Goto, Budget
<1>2. DraftInv' /\ LockInv'
  BY DEF DraftInv, Drafting, LockInv, Unlocked, Stages, Starting, Creating, Stopping, Refusals,
         PrepareDescriptor, Set, Goto, Budget
<1>3. ProgressInv'
  BY DEF ProgressInv, DraftInv, Drafting, Stages, Starting, Creating, Stopping, Refusals,
         PrepareDescriptor, Set, Goto, Budget
<1>4. ServedInv'
  BY DEF ServedInv, ProgressInv, DraftInv, Drafting, Creating, PrepareDescriptor, Set, Goto,
         Budget
<1>5. OrphanInv'
  BY DEF OrphanInv, CrashNeverOrphansJournal, ProgressInv, DraftInv, Drafting, Creating,
         PrepareDescriptor, Set, Goto, Budget
<1> QED BY <1>1, <1>2, <1>3, <1>4, <1>5

\* Removing a stale socket.
LEMMA PrepareSocketStep ==
    ASSUME IInv, NEW d \in Daemons, PrepareSocket(d)
    PROVE  IInv'
<1> USE DirectoryAssumption DEF IInv, TypeOK, ShapeInv, Entries
<1>1. TypeOK' /\ ShapeInv'
  BY DEF DraftInv, Drafting, Values, NoDraft, Stages, Starting, Creating, Stopping, Refusals,
         PrepareSocket, Set, Goto, Budget
<1>2. DraftInv' /\ LockInv'
  BY DEF DraftInv, Drafting, LockInv, Unlocked, Stages, Starting, Creating, Stopping, Refusals,
         PrepareSocket, Set, Goto, Budget
<1>3. ProgressInv'
  BY DEF ProgressInv, DraftInv, Drafting, Stages, Starting, Creating, Stopping, Refusals,
         PrepareSocket, Set, Goto, Budget
<1>4. ServedInv'
  BY DEF ServedInv, ProgressInv, DraftInv, Drafting, Creating, PrepareSocket, Set, Goto, Budget
<1>5. OrphanInv'
  BY DEF OrphanInv, CrashNeverOrphansJournal, ProgressInv, DraftInv, Drafting, Creating,
         PrepareSocket, Set, Goto, Budget
<1> QED BY <1>1, <1>2, <1>3, <1>4, <1>5

\* A start that cannot clear the directory.
LEMMA PrepareFailsStep ==
    ASSUME IInv, NEW d \in Daemons, PrepareFails(d)
    PROVE  IInv'
<1> USE DirectoryAssumption DEF IInv, TypeOK, ShapeInv, Entries
<1>1. TypeOK' /\ ShapeInv'
  BY DEF DraftInv, Drafting, Values, NoDraft, Stages, Starting, Creating, Stopping, Refusals,
         PrepareFails, Goto, Keep, Budget
<1>2. DraftInv' /\ LockInv'
  BY DEF DraftInv, Drafting, LockInv, Unlocked, Stages, Starting, Creating, Stopping, Refusals,
         PrepareFails, Goto, Keep, Budget
<1>3. ProgressInv'
  BY DEF ProgressInv, DraftInv, Drafting, Stages, Starting, Creating, Stopping, Refusals,
         PrepareFails, Goto, Keep, Budget
<1>4. ServedInv'
  BY DEF ServedInv, ProgressInv, DraftInv, Drafting, Creating, PrepareFails, Goto, Keep, Budget
<1>5. OrphanInv'
  BY DEF OrphanInv, CrashNeverOrphansJournal, ProgressInv, DraftInv, Drafting, Creating,
         PrepareFails, Goto, Keep, Budget
<1> QED BY <1>1, <1>2, <1>3, <1>4, <1>5

\* The presence policy.
LEMMA InspectStateStep ==
    ASSUME IInv, NEW d \in Daemons, InspectState(d)
    PROVE  IInv'
<1> USE DirectoryAssumption DEF IInv, TypeOK, ShapeInv, Entries
<1>1. TypeOK' /\ ShapeInv'
  BY DEF DraftInv, Drafting, Values, NoDraft, Stages, Starting, Creating, Stopping, Refusals,
         InspectState, Goto, AfterInspection, Keep, Budget
<1>2. DraftInv' /\ LockInv'
  BY DEF DraftInv, Drafting, LockInv, Unlocked, Stages, Starting, Creating, Stopping, Refusals,
         InspectState, Goto, AfterInspection, Keep, Budget
<1>3. ProgressInv'
  BY DEF ProgressInv, DraftInv, Drafting, Stages, Starting, Creating, Stopping, Refusals,
         InspectState, Goto, AfterInspection, Keep, Budget
<1>4. ServedInv'
  BY DEF ServedInv, ProgressInv, DraftInv, Drafting, Creating, InspectState, Goto,
         AfterInspection, Keep, Budget
<1>5. OrphanInv'
  BY DEF OrphanInv, CrashNeverOrphansJournal, ProgressInv, DraftInv, Drafting, Creating,
         InspectState, Goto, AfterInspection, Keep, Budget
<1> QED BY <1>1, <1>2, <1>3, <1>4, <1>5

\* A fresh key in a temporary file.
LEMMA Create_temporaryStep ==
    ASSUME IInv, NEW d \in Daemons, create_temporary(d)
    PROVE  IInv'
<1> USE DirectoryAssumption DEF IInv, TypeOK, ShapeInv, Entries
<1>1. TypeOK' /\ ShapeInv'
  BY DEF DraftInv, Drafting, Values, NoDraft, Stages, Starting, Creating, Stopping, Refusals,
         create_temporary, Goto, Keep, Budget
<1>2. DraftInv' /\ LockInv'
  BY DEF DraftInv, Drafting, LockInv, Unlocked, Stages, Starting, Creating, Stopping, Refusals,
         create_temporary, Goto, Keep, Budget
<1>3. ProgressInv'
  BY DEF ProgressInv, DraftInv, Drafting, Stages, Starting, Creating, Stopping, Refusals,
         create_temporary, Goto, Keep, Budget
<1>4. ServedInv'
  BY DEF ServedInv, ProgressInv, DraftInv, Drafting, Creating, create_temporary, Goto, Keep,
         Budget
<1>5. OrphanInv'
  BY DEF OrphanInv, CrashNeverOrphansJournal, ProgressInv, DraftInv, Drafting, Creating,
         create_temporary, Goto, Keep, Budget
<1> QED BY <1>1, <1>2, <1>3, <1>4, <1>5

\* Writing the temporary file.
LEMMA EncodeStep ==
    ASSUME IInv, NEW d \in Daemons, encode(d)
    PROVE  IInv'
<1> USE DirectoryAssumption DEF IInv, TypeOK, ShapeInv, Entries
<1>1. TypeOK' /\ ShapeInv'
  BY DEF DraftInv, Drafting, Values, NoDraft, Stages, Starting, Creating, Stopping, Refusals,
         encode, Goto, Keep, Budget
<1>2. DraftInv' /\ LockInv'
  BY DEF DraftInv, Drafting, LockInv, Unlocked, Stages, Starting, Creating, Stopping, Refusals,
         encode, Goto, Keep, Budget
<1>3. ProgressInv'
  BY DEF ProgressInv, DraftInv, Drafting, Stages, Starting, Creating, Stopping, Refusals,
         encode, Goto, Keep, Budget
<1>4. ServedInv'
  BY DEF ServedInv, ProgressInv, DraftInv, Drafting, Creating, encode, Goto, Keep, Budget
<1>5. OrphanInv'
  BY DEF OrphanInv, CrashNeverOrphansJournal, ProgressInv, DraftInv, Drafting, Creating,
         encode, Goto, Keep, Budget
<1> QED BY <1>1, <1>2, <1>3, <1>4, <1>5

\* Syncing the temporary file.
LEMMA SyncTemporaryStep ==
    ASSUME IInv, NEW d \in Daemons, SyncTemporary(d)
    PROVE  IInv'
<1> USE DirectoryAssumption DEF IInv, TypeOK, ShapeInv, Entries
<1>1. TypeOK' /\ ShapeInv'
  BY DEF DraftInv, Drafting, Values, NoDraft, Stages, Starting, Creating, Stopping, Refusals,
         SyncTemporary, Goto, Keep, Budget
<1>2. DraftInv' /\ LockInv'
  BY DEF DraftInv, Drafting, LockInv, Unlocked, Stages, Starting, Creating, Stopping, Refusals,
         SyncTemporary, Goto, Keep, Budget
<1>3. ProgressInv'
  BY DEF ProgressInv, DraftInv, Drafting, Stages, Starting, Creating, Stopping, Refusals,
         SyncTemporary, Goto, Keep, Budget
<1>4. ServedInv'
  BY DEF ServedInv, ProgressInv, DraftInv, Drafting, Creating, SyncTemporary, Goto, Keep,
         Budget
<1>5. OrphanInv'
  BY DEF OrphanInv, CrashNeverOrphansJournal, ProgressInv, DraftInv, Drafting, Creating,
         SyncTemporary, Goto, Keep, Budget
<1> QED BY <1>1, <1>2, <1>3, <1>4, <1>5

\* Linking the identity: its file is already synced.
LEMMA PromoteIdentityStep ==
    ASSUME IInv, NEW d \in Daemons, PromoteIdentity(d)
    PROVE  IInv'
<1> USE DirectoryAssumption DEF IInv, TypeOK, ShapeInv, Entries
<1>1. TypeOK' /\ ShapeInv'
  BY DEF DraftInv, Drafting, Values, NoDraft, Stages, Starting, Creating, Stopping, Refusals,
         PromoteIdentity, Durable, Goto, Keep, Budget
<1>2. DraftInv' /\ LockInv'
  BY DEF DraftInv, Drafting, LockInv, Unlocked, Stages, Starting, Creating, Stopping, Refusals,
         PromoteIdentity, Durable, Goto, Keep, Budget
<1>3. ProgressInv'
  BY DEF ProgressInv, DraftInv, Drafting, Stages, Starting, Creating, Stopping, Refusals,
         PromoteIdentity, Durable, Goto, Keep, Budget
<1>4. ServedInv'
  BY DEF ServedInv, ProgressInv, DraftInv, Drafting, Creating, PromoteIdentity, Durable, Goto,
         Keep, Budget
<1>5. OrphanInv'
  BY DEF OrphanInv, CrashNeverOrphansJournal, ProgressInv, DraftInv, Drafting, Creating,
         PromoteIdentity, Durable, Goto, Keep, Budget
<1> QED BY <1>1, <1>2, <1>3, <1>4, <1>5

\* Removing the temporary name.
LEMMA RemoveTemporaryStep ==
    ASSUME IInv, NEW d \in Daemons, RemoveTemporary(d)
    PROVE  IInv'
<1> USE DirectoryAssumption DEF IInv, TypeOK, ShapeInv, Entries
<1>1. TypeOK' /\ ShapeInv'
  BY DEF DraftInv, Drafting, Values, NoDraft, Stages, Starting, Creating, Stopping, Refusals,
         RemoveTemporary, Goto, Keep, Budget
<1>2. DraftInv' /\ LockInv'
  BY DEF DraftInv, Drafting, LockInv, Unlocked, Stages, Starting, Creating, Stopping, Refusals,
         RemoveTemporary, Goto, Keep, Budget
<1>3. ProgressInv'
  BY DEF ProgressInv, DraftInv, Drafting, Stages, Starting, Creating, Stopping, Refusals,
         RemoveTemporary, Goto, Keep, Budget
<1>4. ServedInv'
  BY DEF ServedInv, ProgressInv, DraftInv, Drafting, Creating, RemoveTemporary, Goto, Keep,
         Budget
<1>5. OrphanInv'
  BY DEF OrphanInv, CrashNeverOrphansJournal, ProgressInv, DraftInv, Drafting, Creating,
         RemoveTemporary, Goto, Keep, Budget
<1> QED BY <1>1, <1>2, <1>3, <1>4, <1>5

\* Syncing the directory after the identity.
LEMMA SyncIdentityStep ==
    ASSUME IInv, NEW d \in Daemons, SyncIdentity(d)
    PROVE  IInv'
<1> USE DirectoryAssumption DEF IInv, TypeOK, ShapeInv, Entries
<1>1. TypeOK' /\ ShapeInv'
  BY DEF DraftInv, Drafting, Values, NoDraft, Stages, Starting, Creating, Stopping, Refusals,
         SyncIdentity, Synced, Goto, Budget
<1>2. DraftInv' /\ LockInv'
  BY DEF DraftInv, Drafting, LockInv, Unlocked, Stages, Starting, Creating, Stopping, Refusals,
         SyncIdentity, Synced, Goto, Budget
<1>3. ProgressInv'
  BY DEF ProgressInv, DraftInv, Drafting, Stages, Starting, Creating, Stopping, Refusals,
         SyncIdentity, Synced, Goto, Budget
<1>4. ServedInv'
  BY DEF ServedInv, ProgressInv, DraftInv, Drafting, Creating, SyncIdentity, Synced, Goto,
         Budget
<1>5. OrphanInv'
  BY DEF OrphanInv, CrashNeverOrphansJournal, ProgressInv, DraftInv, Drafting, Creating,
         SyncIdentity, Synced, Goto, Budget
<1> QED BY <1>1, <1>2, <1>3, <1>4, <1>5

\* Decoding the identity.
LEMMA LoadStep ==
    ASSUME IInv, NEW d \in Daemons, load(d)
    PROVE  IInv'
<1> USE DirectoryAssumption DEF IInv, TypeOK, ShapeInv, Entries
<1>1. TypeOK' /\ ShapeInv'
  BY DEF DraftInv, Drafting, Values, NoDraft, Stages, Starting, Creating, Stopping, Refusals,
         load, Goto, decode, Keep, Budget
<1>2. DraftInv' /\ LockInv'
  BY DEF DraftInv, Drafting, LockInv, Unlocked, Stages, Starting, Creating, Stopping, Refusals,
         load, Goto, decode, Keep, Budget
<1>3. ProgressInv'
  BY DEF ProgressInv, DraftInv, Drafting, Stages, Starting, Creating, Stopping, Refusals, load,
         Goto, decode, Keep, Budget
<1>4. ServedInv'
  BY DEF ServedInv, ProgressInv, DraftInv, Drafting, Creating, load, Goto, decode, Keep, Budget
<1>5. OrphanInv'
  BY DEF OrphanInv, CrashNeverOrphansJournal, ProgressInv, DraftInv, Drafting, Creating, load,
         Goto, decode, Keep, Budget
<1> QED BY <1>1, <1>2, <1>3, <1>4, <1>5

\* Opening the journal: the identity is there before it.
LEMMA OpenTrustStep ==
    ASSUME IInv, NEW d \in Daemons, OpenTrust(d)
    PROVE  IInv'
<1> USE DirectoryAssumption DEF IInv, TypeOK, ShapeInv, Entries
<1>1. TypeOK' /\ ShapeInv'
  BY DEF DraftInv, Drafting, Values, NoDraft, Stages, Starting, Creating, Stopping, Refusals,
         OpenTrust, Set, Goto, Budget
<1>2. DraftInv' /\ LockInv'
  BY DEF DraftInv, Drafting, LockInv, Unlocked, Stages, Starting, Creating, Stopping, Refusals,
         OpenTrust, Set, Goto, Budget
<1>3. ProgressInv'
  BY DEF ProgressInv, DraftInv, Drafting, Stages, Starting, Creating, Stopping, Refusals,
         OpenTrust, Set, Goto, Budget
<1>4. ServedInv'
  BY DEF ServedInv, ProgressInv, DraftInv, Drafting, Creating, OpenTrust, Set, Goto, Budget
<1>5. OrphanInv'
  BY DEF OrphanInv, CrashNeverOrphansJournal, ProgressInv, DraftInv, Drafting, Creating,
         OpenTrust, Set, Goto, Budget
<1> QED BY <1>1, <1>2, <1>3, <1>4, <1>5

\* Binding the socket.
LEMMA BindSocketStep ==
    ASSUME IInv, NEW d \in Daemons, BindSocket(d)
    PROVE  IInv'
<1> USE DirectoryAssumption DEF IInv, TypeOK, ShapeInv, Entries
<1>1. TypeOK' /\ ShapeInv'
  BY DEF DraftInv, Drafting, Values, NoDraft, Stages, Starting, Creating, Stopping, Refusals,
         BindSocket, Set, Goto, Budget
<1>2. DraftInv' /\ LockInv'
  BY DEF DraftInv, Drafting, LockInv, Unlocked, Stages, Starting, Creating, Stopping, Refusals,
         BindSocket, Set, Goto, Budget
<1>3. ProgressInv'
  BY DEF ProgressInv, DraftInv, Drafting, Stages, Starting, Creating, Stopping, Refusals,
         BindSocket, Set, Goto, Budget
<1>4. ServedInv'
  BY DEF ServedInv, ProgressInv, DraftInv, Drafting, Creating, BindSocket, Set, Goto, Budget
<1>5. OrphanInv'
  BY DEF OrphanInv, CrashNeverOrphansJournal, ProgressInv, DraftInv, Drafting, Creating,
         BindSocket, Set, Goto, Budget
<1> QED BY <1>1, <1>2, <1>3, <1>4, <1>5

\* Publishing the descriptor.
LEMMA RenameDescriptorStep ==
    ASSUME IInv, NEW d \in Daemons, RenameDescriptor(d)
    PROVE  IInv'
<1> USE DirectoryAssumption DEF IInv, TypeOK, ShapeInv, Entries
<1>1. TypeOK' /\ ShapeInv'
  BY DEF DraftInv, Drafting, Values, NoDraft, Stages, Starting, Creating, Stopping, Refusals,
         RenameDescriptor, Set, Goto, Budget
<1>2. DraftInv' /\ LockInv'
  BY DEF DraftInv, Drafting, LockInv, Unlocked, Stages, Starting, Creating, Stopping, Refusals,
         RenameDescriptor, Set, Goto, Budget
<1>3. ProgressInv'
  BY DEF ProgressInv, DraftInv, Drafting, Stages, Starting, Creating, Stopping, Refusals,
         RenameDescriptor, Set, Goto, Budget
<1>4. ServedInv'
  BY DEF ServedInv, ProgressInv, DraftInv, Drafting, Creating, RenameDescriptor, Set, Goto,
         Budget
<1>5. OrphanInv'
  BY DEF OrphanInv, CrashNeverOrphansJournal, ProgressInv, DraftInv, Drafting, Creating,
         RenameDescriptor, Set, Goto, Budget
<1> QED BY <1>1, <1>2, <1>3, <1>4, <1>5

\* Syncing the directory makes identity and journal durable together.
LEMMA BecomeReadyStep ==
    ASSUME IInv, NEW d \in Daemons, BecomeReady(d)
    PROVE  IInv'
<1> USE DirectoryAssumption DEF IInv, TypeOK, ShapeInv, Entries
<1>1. TypeOK' /\ ShapeInv'
  BY DEF DraftInv, Drafting, ProgressInv, Values, NoDraft, Stages, Starting, Creating,
         Stopping, Refusals, BecomeReady, SyncPublished, Goto, Budget, Synced
<1>2. DraftInv' /\ LockInv'
  BY DEF DraftInv, Drafting, LockInv, Unlocked, Stages, Starting, Creating, Stopping, Refusals,
         BecomeReady, SyncPublished, Goto, Budget, Synced
<1>3. ProgressInv'
  BY DEF ProgressInv, DraftInv, Drafting, Stages, Starting, Creating, Stopping, Refusals,
         BecomeReady, SyncPublished, Goto, Budget, Synced
<1>4. ServedInv'
  BY DEF ServedInv, ProgressInv, DraftInv, Drafting, Creating, BecomeReady, SyncPublished,
         Goto, Budget, Synced
<1>5. OrphanInv'
  BY DEF OrphanInv, CrashNeverOrphansJournal, ProgressInv, DraftInv, Drafting, Creating,
         BecomeReady, SyncPublished, Goto, Budget, Synced
<1> QED BY <1>1, <1>2, <1>3, <1>4, <1>5

\* A start that fails drops its artifacts.
LEMMA StartFailsStep ==
    ASSUME IInv, NEW d \in Daemons, StartFails(d)
    PROVE  IInv'
<1> USE DirectoryAssumption DEF IInv, TypeOK, ShapeInv, Entries
<1>1. TypeOK' /\ ShapeInv'
  BY DEF DraftInv, Drafting, Values, NoDraft, Stages, Starting, Creating, Stopping, Refusals,
         StartFails, Failing, remove_if_present, Set, Keep, Goto, Budget
<1>2. DraftInv' /\ LockInv'
  BY DEF DraftInv, Drafting, LockInv, Unlocked, Stages, Starting, Creating, Stopping, Refusals,
         StartFails, Failing, remove_if_present, Set, Keep, Goto, Budget
<1>3. ProgressInv'
  BY DEF ProgressInv, DraftInv, Drafting, Stages, Starting, Creating, Stopping, Refusals,
         StartFails, Failing, remove_if_present, Set, Keep, Goto, Budget
<1>4. ServedInv'
  BY DEF ServedInv, ProgressInv, DraftInv, Drafting, Creating, StartFails, Failing,
         remove_if_present, Set, Keep, Goto, Budget
<1>5. OrphanInv'
  BY DEF OrphanInv, CrashNeverOrphansJournal, ProgressInv, DraftInv, Drafting, Creating,
         StartFails, Failing, remove_if_present, Set, Keep, Goto, Budget
<1> QED BY <1>1, <1>2, <1>3, <1>4, <1>5

\* The lock is released after the socket is gone.
LEMMA DiscardStartStep ==
    ASSUME IInv, NEW d \in Daemons, DiscardStart(d)
    PROVE  IInv'
<1> USE DirectoryAssumption DEF IInv, TypeOK, ShapeInv, Entries
<1>1. TypeOK' /\ ShapeInv'
  BY DEF DraftInv, Drafting, Values, NoDraft, Stages, Starting, Creating, Stopping, Refusals,
         DiscardStart, remove_if_present, Set, Keep, Goto, Budget
<1>2. DraftInv' /\ LockInv'
  BY DEF DraftInv, Drafting, LockInv, Unlocked, Stages, Starting, Creating, Stopping, Refusals,
         DiscardStart, remove_if_present, Set, Keep, Goto, Budget
<1>3. ProgressInv'
  BY DEF ProgressInv, DraftInv, Drafting, Stages, Starting, Creating, Stopping, Refusals,
         DiscardStart, remove_if_present, Set, Keep, Goto, Budget
<1>4. ServedInv'
  BY DEF ServedInv, ProgressInv, DraftInv, Drafting, Creating, DiscardStart, remove_if_present,
         Set, Keep, Goto, Budget
<1>5. OrphanInv'
  BY DEF OrphanInv, CrashNeverOrphansJournal, ProgressInv, DraftInv, Drafting, Creating,
         DiscardStart, remove_if_present, Set, Keep, Goto, Budget
<1> QED BY <1>1, <1>2, <1>3, <1>4, <1>5

\* The first step of a shutdown.
LEMMA Unpublish_descriptorStep ==
    ASSUME IInv, NEW d \in Daemons, unpublish_descriptor(d)
    PROVE  IInv'
<1> USE DirectoryAssumption DEF IInv, TypeOK, ShapeInv, Entries
<1>1. TypeOK' /\ ShapeInv'
  BY DEF DraftInv, Drafting, Values, NoDraft, Stages, Starting, Creating, Stopping, Refusals,
         unpublish_descriptor, remove_if_present, Set, Keep, Goto, Budget
<1>2. DraftInv' /\ LockInv'
  BY DEF DraftInv, Drafting, LockInv, Unlocked, Stages, Starting, Creating, Stopping, Refusals,
         unpublish_descriptor, remove_if_present, Set, Keep, Goto, Budget
<1>3. ProgressInv'
  BY DEF ProgressInv, DraftInv, Drafting, Stages, Starting, Creating, Stopping, Refusals,
         unpublish_descriptor, remove_if_present, Set, Keep, Goto, Budget
<1>4. ServedInv'
  BY DEF ServedInv, ProgressInv, DraftInv, Drafting, Creating, unpublish_descriptor,
         remove_if_present, Set, Keep, Goto, Budget
<1>5. OrphanInv'
  BY DEF OrphanInv, CrashNeverOrphansJournal, ProgressInv, DraftInv, Drafting, Creating,
         unpublish_descriptor, remove_if_present, Set, Keep, Goto, Budget
<1> QED BY <1>1, <1>2, <1>3, <1>4, <1>5

\* Removing the artifacts of a shutdown.
LEMMA CleanupStep ==
    ASSUME IInv, NEW d \in Daemons, cleanup(d)
    PROVE  IInv'
<1> USE DirectoryAssumption DEF IInv, TypeOK, ShapeInv, Entries
<1>1. TypeOK' /\ ShapeInv'
  BY DEF DraftInv, Drafting, Values, NoDraft, Stages, Starting, Creating, Stopping, Refusals,
         cleanup, Goto, Budget
<1>2. DraftInv' /\ LockInv'
  BY DEF DraftInv, Drafting, LockInv, Unlocked, Stages, Starting, Creating, Stopping, Refusals,
         cleanup, Goto, Budget
<1>3. ProgressInv'
  BY DEF ProgressInv, DraftInv, Drafting, Stages, Starting, Creating, Stopping, Refusals,
         cleanup, Goto, Budget
<1>4. ServedInv'
  BY DEF ServedInv, ProgressInv, DraftInv, Drafting, Creating, cleanup, Goto, Budget
<1>5. OrphanInv'
  BY DEF OrphanInv, CrashNeverOrphansJournal, ProgressInv, DraftInv, Drafting, Creating,
         cleanup, Goto, Budget
<1> QED BY <1>1, <1>2, <1>3, <1>4, <1>5

\* Releasing the lock.
LEMMA ReleaseStep ==
    ASSUME IInv, NEW d \in Daemons, release(d)
    PROVE  IInv'
<1> USE DirectoryAssumption DEF IInv, TypeOK, ShapeInv, Entries
<1>1. TypeOK' /\ ShapeInv'
  BY DEF DraftInv, Drafting, Values, NoDraft, Stages, Starting, Creating, Stopping, Refusals,
         release, Goto, Keep, Budget
<1>2. DraftInv' /\ LockInv'
  BY DEF DraftInv, Drafting, LockInv, Unlocked, Stages, Starting, Creating, Stopping, Refusals,
         release, Goto, Keep, Budget
<1>3. ProgressInv'
  BY DEF ProgressInv, DraftInv, Drafting, Stages, Starting, Creating, Stopping, Refusals,
         release, Goto, Keep, Budget
<1>4. ServedInv'
  BY DEF ServedInv, ProgressInv, DraftInv, Drafting, Creating, release, Goto, Keep, Budget
<1>5. OrphanInv'
  BY DEF OrphanInv, CrashNeverOrphansJournal, ProgressInv, DraftInv, Drafting, Creating,
         release, Goto, Keep, Budget
<1> QED BY <1>1, <1>2, <1>3, <1>4, <1>5

\* A daemon dropped without shutdown.
LEMMA DropUnfinishedStep ==
    ASSUME IInv, NEW d \in Daemons, DropUnfinished(d)
    PROVE  IInv'
<1> USE DirectoryAssumption DEF IInv, TypeOK, ShapeInv, Entries
<1>1. TypeOK' /\ ShapeInv'
  BY DEF DraftInv, Drafting, Values, NoDraft, Stages, Starting, Creating, Stopping, Refusals,
         DropUnfinished, Goto, Keep, Budget
<1>2. DraftInv' /\ LockInv'
  BY DEF DraftInv, Drafting, LockInv, Unlocked, Stages, Starting, Creating, Stopping, Refusals,
         DropUnfinished, Goto, Keep, Budget
<1>3. ProgressInv'
  BY DEF ProgressInv, DraftInv, Drafting, Stages, Starting, Creating, Stopping, Refusals,
         DropUnfinished, Goto, Keep, Budget
<1>4. ServedInv'
  BY DEF ServedInv, ProgressInv, DraftInv, Drafting, Creating, DropUnfinished, Goto, Keep,
         Budget
<1>5. OrphanInv'
  BY DEF OrphanInv, CrashNeverOrphansJournal, ProgressInv, DraftInv, Drafting, Creating,
         DropUnfinished, Goto, Keep, Budget
<1> QED BY <1>1, <1>2, <1>3, <1>4, <1>5

\* The late destructor's descriptor.
LEMMA DropDescriptorStep ==
    ASSUME IInv, NEW d \in Daemons, DropDescriptor(d)
    PROVE  IInv'
<1> USE DirectoryAssumption DEF IInv, TypeOK, ShapeInv, Entries
<1>1. TypeOK' /\ ShapeInv'
  BY DEF DraftInv, Drafting, Values, NoDraft, Stages, Starting, Creating, Stopping, Refusals,
         DropDescriptor, remove_if_present, Set, Keep, Goto, Budget
<1>2. DraftInv' /\ LockInv'
  BY DEF DraftInv, Drafting, LockInv, Unlocked, Stages, Starting, Creating, Stopping, Refusals,
         DropDescriptor, remove_if_present, Set, Keep, Goto, Budget
<1>3. ProgressInv'
  BY DEF ProgressInv, DraftInv, Drafting, Stages, Starting, Creating, Stopping, Refusals,
         DropDescriptor, remove_if_present, Set, Keep, Goto, Budget
<1>4. ServedInv'
  BY DEF ServedInv, ProgressInv, DraftInv, Drafting, Creating, DropDescriptor,
         remove_if_present, Set, Keep, Goto, Budget
<1>5. OrphanInv'
  BY DEF OrphanInv, CrashNeverOrphansJournal, ProgressInv, DraftInv, Drafting, Creating,
         DropDescriptor, remove_if_present, Set, Keep, Goto, Budget
<1> QED BY <1>1, <1>2, <1>3, <1>4, <1>5

\* The late destructor's socket.
LEMMA DropSocketStep ==
    ASSUME IInv, NEW d \in Daemons, DropSocket(d)
    PROVE  IInv'
<1> USE DirectoryAssumption DEF IInv, TypeOK, ShapeInv, Entries
<1>1. TypeOK' /\ ShapeInv'
  BY DEF DraftInv, Drafting, Values, NoDraft, Stages, Starting, Creating, Stopping, Refusals,
         DropSocket, remove_if_present, Set, Keep, Goto, Budget
<1>2. DraftInv' /\ LockInv'
  BY DEF DraftInv, Drafting, LockInv, Unlocked, Stages, Starting, Creating, Stopping, Refusals,
         DropSocket, remove_if_present, Set, Keep, Goto, Budget
<1>3. ProgressInv'
  BY DEF ProgressInv, DraftInv, Drafting, Stages, Starting, Creating, Stopping, Refusals,
         DropSocket, remove_if_present, Set, Keep, Goto, Budget
<1>4. ServedInv'
  BY DEF ServedInv, ProgressInv, DraftInv, Drafting, Creating, DropSocket, remove_if_present,
         Set, Keep, Goto, Budget
<1>5. OrphanInv'
  BY DEF OrphanInv, CrashNeverOrphansJournal, ProgressInv, DraftInv, Drafting, Creating,
         DropSocket, remove_if_present, Set, Keep, Goto, Budget
<1> QED BY <1>1, <1>2, <1>3, <1>4, <1>5

\* A killed process loses its lock and its temporary file.
LEMMA KilledStep ==
    ASSUME IInv, NEW d \in Daemons, Killed(d)
    PROVE  IInv'
<1> USE DirectoryAssumption DEF IInv, TypeOK, ShapeInv, Entries
<1>1. TypeOK' /\ ShapeInv'
  BY DEF DraftInv, Drafting, Values, NoDraft, Stages, Starting, Creating, Stopping, Refusals,
         Killed, Goto, Keep
<1>2. DraftInv' /\ LockInv'
  BY DEF DraftInv, Drafting, LockInv, Unlocked, Stages, Starting, Creating, Stopping, Refusals,
         Killed, Goto, Keep
<1>3. ProgressInv'
  BY DEF ProgressInv, DraftInv, Drafting, Stages, Starting, Creating, Stopping, Refusals,
         Killed, Goto, Keep
<1>4. ServedInv'
  BY DEF ServedInv, ProgressInv, DraftInv, Drafting, Creating, Killed, Goto, Keep
<1>5. OrphanInv'
  BY DEF OrphanInv, CrashNeverOrphansJournal, ProgressInv, DraftInv, Drafting, Creating,
         Killed, Goto, Keep
<1> QED BY <1>1, <1>2, <1>3, <1>4, <1>5

\* A power loss keeps one durable version of each entry.
LEMMA PowerLossStep ==
    ASSUME IInv, PowerLoss
    PROVE  IInv'
<1> USE DirectoryAssumption DEF IInv, TypeOK, ShapeInv, Entries
<1>1. TypeOK' /\ ShapeInv'
  BY DEF DraftInv, Drafting, Values, NoDraft, Stages, Starting, Creating, Stopping, Refusals,
         PowerLoss
<1>2. DraftInv' /\ LockInv'
  BY DEF DraftInv, Drafting, LockInv, Unlocked, Stages, Starting, Creating, Stopping, Refusals,
         PowerLoss
<1>3. ProgressInv'
  BY DEF ProgressInv, DraftInv, Drafting, Stages, Starting, Creating, Stopping, Refusals,
         PowerLoss
<1>4. ServedInv'
  BY DEF ServedInv, ProgressInv, DraftInv, Drafting, Creating, PowerLoss
<1>5. OrphanInv'
  BY DEF OrphanInv, CrashNeverOrphansJournal, ProgressInv, DraftInv, Drafting, Creating,
         PowerLoss
<1> QED BY <1>1, <1>2, <1>3, <1>4, <1>5

-----------------------------------------------------------------------------
(* The theorems *)

\* An empty directory satisfies the invariant.
LEMMA InitIInv == Init => IInv
<1> SUFFICES ASSUME Init PROVE IInv
  OBVIOUS
<1>1. TypeOK /\ ShapeInv
  BY DirectoryAssumption DEF Init, TypeOK, ShapeInv, Entries, Values, NoDraft, Stages, Creating
<1>2. DraftInv /\ LockInv /\ ProgressInv
  BY DEF Init, DraftInv, LockInv, ProgressInv, Drafting, Creating, Unlocked
<1>3. ServedInv /\ OrphanInv
  BY DEF Init, ServedInv, OrphanInv, CrashNeverOrphansJournal, Entries
<1> QED BY <1>1, <1>2, <1>3 DEF IInv

\* Every step of every process, and every failure of the machine, preserves the
\* invariant.
LEMMA NextIInv == IInv /\ [Next]_vars => IInv'
<1> SUFFICES ASSUME IInv, [Next]_vars PROVE IInv'
  OBVIOUS
<1>1. CASE UNCHANGED vars
  BY <1>1 DEF vars, IInv, TypeOK, ShapeInv, DraftInv, LockInv, ProgressInv, ServedInv,
              OrphanInv, CrashNeverOrphansJournal
<1>2. CASE PowerLoss
  BY <1>2, PowerLossStep
<1>3. ASSUME NEW d \in Daemons,
             acquire(d) \/ PrepareDescriptor(d) \/ PrepareSocket(d) \/ PrepareFails(d)
             \/ InspectState(d)
      PROVE  IInv'
  BY <1>3, AcquireStep, PrepareDescriptorStep, PrepareSocketStep, PrepareFailsStep,
     InspectStateStep
<1>4. ASSUME NEW d \in Daemons,
             create_temporary(d) \/ encode(d) \/ SyncTemporary(d) \/ PromoteIdentity(d)
             \/ RemoveTemporary(d) \/ SyncIdentity(d) \/ load(d)
      PROVE  IInv'
  BY <1>4, Create_temporaryStep, EncodeStep, SyncTemporaryStep, PromoteIdentityStep,
     RemoveTemporaryStep, SyncIdentityStep, LoadStep
<1>5. ASSUME NEW d \in Daemons,
             OpenTrust(d) \/ BindSocket(d) \/ RenameDescriptor(d) \/ BecomeReady(d)
             \/ StartFails(d) \/ DiscardStart(d)
      PROVE  IInv'
  BY <1>5, OpenTrustStep, BindSocketStep, RenameDescriptorStep, BecomeReadyStep,
     StartFailsStep, DiscardStartStep
<1>6. ASSUME NEW d \in Daemons,
             unpublish_descriptor(d) \/ cleanup(d) \/ release(d) \/ DropUnfinished(d)
             \/ DropDescriptor(d) \/ DropSocket(d) \/ Killed(d)
      PROVE  IInv'
  BY <1>6, Unpublish_descriptorStep, CleanupStep, ReleaseStep, DropUnfinishedStep,
     DropDescriptorStep, DropSocketStep, KilledStep
<1> QED BY <1>1, <1>2, <1>3, <1>4, <1>5, <1>6 DEF Next

\* The strengthened invariant holds in every reachable state.
THEOREM InductiveInvariant == Spec => []IInv
BY InitIInv, NextIInv, PTL DEF Spec

\* Every entry keeps its type and is among its durable versions, and a name that
\* RuntimeLock, load_or_create or write_atomic_private gave is whole.
THEOREM TypeCorrect == Spec => []TypeOK
<1>1. IInv => TypeOK
  BY DEF IInv
<1> QED BY <1>1, InductiveInvariant, PTL

\* A directory whose daemon was ready once has that identity and a journal for
\* ever, whatever crashes and power losses follow.
THEOREM OneIdentity == Spec => []IdentityIsForever
<1>1. ASSUME IInv PROVE IdentityIsForever
  <2>1. \A k \in served : dir["identity"] = k /\ dir["journal"] = "journal"
    BY <1>1 DEF IInv, TypeOK, ServedInv, Entries
  <2> QED BY <2>1, DirectoryAssumption DEF IdentityIsForever
<1> QED BY <1>1, InductiveInvariant, PTL

\* A killed process never leaves a journal without an identity: start refuses
\* such a directory only after a power loss.
THEOREM CrashSafety == Spec => []CrashNeverOrphansJournal
<1>1. IInv => CrashNeverOrphansJournal
  BY DEF IInv, OrphanInv
<1> QED BY <1>1, InductiveInvariant, PTL

\* Two processes are never both between RuntimeLock::acquire and the release of
\* the lock; only the late destructor of RuntimeArtifacts runs beside another.
Exclusive ==
    \A c, d \in Daemons : pc[c] \notin Unlocked /\ pc[d] \notin Unlocked => c = d

\* The runtime lock gives one process at a time the directory.
THEOREM OneOwner == Spec => []Exclusive
<1>1. IInv => Exclusive
  BY DEF IInv, LockInv, Exclusive
<1> QED BY <1>1, InductiveInvariant, PTL

=============================================================================
