---------------------------- MODULE DataDirectory ----------------------------
(***************************************************************************)
(* One daemon data directory and the processes that start, run, stop and   *)
(* crash over it: the runtime lock, the identity file, the existence of    *)
(* the trust journal, the runtime descriptor and the IPC socket            *)
(* (rift-daemon local.rs and Daemon::start, rift-identity).                *)
(*                                                                         *)
(* A directory entry is durable once the directory has been synced after   *)
(* it changed; before that a power loss keeps either its old or its new    *)
(* state, each entry for itself.  A killed process loses its lock and      *)
(* leaves the entries as they are.  The contents of a file that was not    *)
(* synced may be torn by a power loss.                                     *)
(***************************************************************************)
EXTENDS Integers

CONSTANTS
    Daemons,         \* processes that may be started on the directory
    Keys,            \* identities a process may generate
    None,            \* an absent entry, a free lock
    MaxCrashes,      \* bound on killed processes
    MaxPowerLosses   \* bound on power losses

ASSUME DirectoryAssumption ==
    /\ MaxCrashes \in Nat /\ MaxPowerLosses \in Nat
    /\ None \notin Daemons \cup Keys \cup {"journal"}

VARIABLES
    pc,          \* where each process is
    lock,        \* holder of the OS lock on runtime.lock
    dir,         \* the directory as processes see it
    disk,        \* for each entry, the states a power loss may leave
    draft,       \* each process's temporary identity file
    served,      \* history: identities of daemons that became ready
    crashes, losses

vars == <<pc, lock, dir, disk, draft, served, crashes, losses>>

Entries == {"identity", "journal", "descriptor", "socket"}
Values(e) == {None} \cup (CASE e = "identity" -> Keys
                            [] e = "journal" -> {"journal"}
                            [] OTHER -> Daemons)

Creating == {"create", "write", "sync", "link", "unlink", "promoted"}
Starting == Creating \cup {"prepare", "unsocket", "inspect", "load", "trust", "bind", "publish",
                          "published"}
Stopping == {"unpublished", "cleaned", "released", "dropping"}
Refusals == {"identity_missing", "identity_invalid", "discard"}
Stages == {"off", "ready"} \cup Starting \cup Stopping \cup Refusals

\* The identity file before it has its name: the key it encodes, and whether its
\* bytes are only created, written or synced.
NoDraft == [key |-> None, bytes |-> "none"]

Init ==
    /\ pc = [d \in Daemons |-> "off"]
    /\ lock = None
    /\ dir = [e \in Entries |-> None]
    /\ disk = [e \in Entries |-> {None}]
    /\ draft = [d \in Daemons |-> NoDraft]
    /\ served = {}
    /\ crashes = 0 /\ losses = 0

-----------------------------------------------------------------------------
Goto(d, next) == pc' = [pc EXCEPT ![d] = next]

Set(e, v) ==
    /\ dir' = [dir EXCEPT ![e] = v]
    /\ disk' = [disk EXCEPT ![e] = @ \cup {v}]

Keep == UNCHANGED <<dir, disk>>

\* remove_if_present: the entry is gone, or its removal has failed.
remove_if_present(e) == Set(e, None) \/ Keep

Budget == <<crashes, losses>>

\* sync_parent: every entry of the directory is durable as it stands.
Synced == [e \in Entries |-> {dir[e]}]

-----------------------------------------------------------------------------
(* Daemon::start.                                                          *)

\* RuntimeLock::acquire; a held lock is AlreadyRunning and changes nothing.
acquire(d) ==
    /\ pc[d] = "off" /\ lock = None
    /\ lock' = d
    /\ Goto(d, "prepare")
    /\ Keep /\ UNCHANGED <<draft, served, Budget>>

\* RuntimeArtifacts::prepare removes what a crash left behind.
PrepareDescriptor(d) ==
    /\ pc[d] = "prepare"
    /\ Set("descriptor", None)
    /\ Goto(d, "unsocket")
    /\ UNCHANGED <<lock, draft, served, Budget>>

PrepareSocket(d) ==
    /\ pc[d] = "unsocket"
    /\ Set("socket", None)
    /\ Goto(d, "inspect")
    /\ UNCHANGED <<lock, draft, served, Budget>>

\* An entry that cannot be removed fails the start before there are artifacts to drop.
PrepareFails(d) ==
    /\ pc[d] \in {"prepare", "unsocket"}
    /\ lock' = None
    /\ Goto(d, "off")
    /\ Keep /\ UNCHANGED <<draft, served, Budget>>

\* The presence policy, then load_or_create's own look at the path.
AfterInspection ==
    CASE dir["journal"] # None /\ dir["identity"] = None -> "identity_missing"
      [] dir["identity"] = None -> "create"
      [] OTHER -> "load"

InspectState(d) ==
    /\ pc[d] = "inspect"
    /\ Goto(d, AfterInspection)
    /\ Keep /\ UNCHANGED <<lock, draft, served, Budget>>

\* create: a fresh key, and a temporary file under a name nobody else uses.
create_temporary(d) ==
    /\ pc[d] = "create"
    /\ \E k \in Keys : draft' = [draft EXCEPT ![d] = [key |-> k, bytes |-> "created"]]
    /\ Goto(d, "write")
    /\ Keep /\ UNCHANGED <<lock, served, Budget>>

encode(d) ==
    /\ pc[d] = "write"
    /\ draft' = [draft EXCEPT ![d].bytes = "written"]
    /\ Goto(d, "sync")
    /\ Keep /\ UNCHANGED <<lock, served, Budget>>

WithoutSync(d) ==
    /\ pc[d] = "sync"
    /\ Goto(d, "link")
    /\ Keep /\ UNCHANGED <<lock, draft, served, Budget>>

SyncTemporary(d) ==
    /\ pc[d] = "sync"
    /\ draft' = [draft EXCEPT ![d].bytes = "synced"]
    /\ Goto(d, "link")
    /\ Keep /\ UNCHANGED <<lock, served, Budget>>

\* What a power loss may leave of a file that has its name.
Durable(file) == IF file.bytes = "synced" THEN {file.key} ELSE {file.key, "torn"}

\* hard_link gives the file its name, unless the name is taken; then what is
\* there is loaded.
PromoteIdentity(d) ==
    /\ pc[d] = "link"
    /\ IF dir["identity"] = None
       THEN /\ dir' = [dir EXCEPT !["identity"] = draft[d].key]
            /\ disk' = [disk EXCEPT !["identity"] = @ \cup Durable(draft[d])]
            /\ Goto(d, "unlink")
            /\ UNCHANGED draft
       ELSE /\ Keep
            /\ Goto(d, "load")
            /\ draft' = [draft EXCEPT ![d] = NoDraft]
    /\ UNCHANGED <<lock, served, Budget>>

RemoveTemporary(d) ==
    /\ pc[d] = "unlink"
    /\ draft' = [draft EXCEPT ![d] = NoDraft]
    /\ Goto(d, "promoted")
    /\ Keep /\ UNCHANGED <<lock, served, Budget>>

SyncIdentity(d) ==
    /\ pc[d] = "promoted"
    /\ disk' = Synced
    /\ Goto(d, "load")
    /\ UNCHANGED <<dir, lock, draft, served, Budget>>

\* decode: length, magic, version and checksum tell a whole identity from a torn one.
decode(bytes) == bytes \in Keys

load(d) ==
    /\ pc[d] = "load"
    /\ Goto(d, IF decode(dir["identity"]) THEN "trust" ELSE "identity_invalid")
    /\ Keep /\ UNCHANGED <<lock, draft, served, Budget>>

\* TrustStore::open; the directory is not synced here.
OpenTrust(d) ==
    /\ pc[d] = "trust"
    /\ Set("journal", "journal")
    /\ Goto(d, "bind")
    /\ UNCHANGED <<lock, draft, served, Budget>>

BindSocket(d) ==
    /\ pc[d] = "bind" /\ dir["socket"] = None
    /\ Set("socket", d)
    /\ Goto(d, "publish")
    /\ UNCHANGED <<lock, draft, served, Budget>>

\* write_atomic_private: rename into place, then sync the directory.
RenameDescriptor(d) ==
    /\ pc[d] = "publish"
    /\ Set("descriptor", d)
    /\ Goto(d, "published")
    /\ UNCHANGED <<lock, draft, served, Budget>>

DescriptorOnly == [disk EXCEPT !["descriptor"] = {dir["descriptor"]}]
SyncPublished == Synced

BecomeReady(d) ==
    /\ pc[d] = "published"
    /\ disk' = SyncPublished
    /\ served' = served \cup {dir["identity"]}
    /\ Goto(d, "ready")
    /\ UNCHANGED <<dir, lock, draft, Budget>>

Failing == (Starting \ {"prepare", "unsocket"}) \cup {"identity_missing", "identity_invalid"}

StartFailsRemovingIdentity(d) ==
    /\ pc[d] \in Failing
    /\ Set("identity", None)
    /\ draft' = [draft EXCEPT ![d] = NoDraft]
    /\ Goto(d, "discard")
    /\ UNCHANGED <<lock, served, Budget>>

\* Any step of start may return an error; locals drop in reverse order, the
\* temporary file first and the artifacts before the lock.
StartFails(d) ==
    /\ pc[d] \in Failing
    /\ remove_if_present("descriptor")
    /\ draft' = [draft EXCEPT ![d] = NoDraft]
    /\ Goto(d, "discard")
    /\ UNCHANGED <<lock, served, Budget>>

DiscardStart(d) ==
    /\ pc[d] = "discard"
    /\ remove_if_present("socket")
    /\ lock' = None
    /\ Goto(d, "off")
    /\ UNCHANGED <<draft, served, Budget>>

-----------------------------------------------------------------------------
(* shutdown_runtime, and the destructors that run when the daemon value    *)
(* goes out of scope after it.                                             *)

unpublish_descriptor(d) ==
    /\ pc[d] = "ready"
    /\ remove_if_present("descriptor")
    /\ Goto(d, "unpublished")
    /\ UNCHANGED <<lock, draft, served, Budget>>

\* artifacts.cleanup() once every task is joined or aborted; it stops at a
\* removal that fails, and the shutdown goes on.
cleanup(d) ==
    /\ pc[d] = "unpublished"
    /\ \E gone \in {{}, {"descriptor"}, {"descriptor", "socket"}} :
          /\ dir' = [e \in Entries |-> IF e \in gone THEN None ELSE dir[e]]
          /\ disk' = [e \in Entries |-> IF e \in gone THEN disk[e] \cup {None} ELSE disk[e]]
    /\ Goto(d, "cleaned")
    /\ UNCHANGED <<lock, draft, served, Budget>>

release(d) ==
    /\ pc[d] = "cleaned"
    /\ lock' = None
    /\ Goto(d, "released")
    /\ Keep /\ UNCHANGED <<draft, served, Budget>>

\* A daemon value dropped without shutdown, or by a shutdown that returns early
\* because a task it aborted had panicked: the fields drop in declaration order,
\* the lock before the artifacts.
DropUnfinished(d) ==
    /\ pc[d] \in {"ready", "unpublished"}
    /\ lock' = None
    /\ Goto(d, "released")
    /\ Keep /\ UNCHANGED <<draft, served, Budget>>

\* Drop for RuntimeArtifacts: the same paths once more, without the lock.
DropDescriptor(d) ==
    /\ pc[d] = "released"
    /\ remove_if_present("descriptor")
    /\ Goto(d, "dropping")
    /\ UNCHANGED <<lock, draft, served, Budget>>

DropSocket(d) ==
    /\ pc[d] = "dropping"
    /\ remove_if_present("socket")
    /\ Goto(d, "off")
    /\ UNCHANGED <<lock, draft, served, Budget>>

-----------------------------------------------------------------------------
(* Failures of the machine.                                                *)

\* A temporary file that is left behind is never opened again.
Killed(d) ==
    /\ pc[d] # "off" /\ crashes < MaxCrashes
    /\ crashes' = crashes + 1
    /\ lock' = IF lock = d THEN None ELSE lock
    /\ Goto(d, "off")
    /\ draft' = [draft EXCEPT ![d] = NoDraft]
    /\ Keep /\ UNCHANGED <<served, losses>>

PowerLoss ==
    /\ losses < MaxPowerLosses
    /\ losses' = losses + 1
    /\ \E left \in [Entries -> UNION {disk[e] : e \in Entries}] :
          /\ \A e \in Entries : left[e] \in disk[e]
          /\ dir' = left
          /\ disk' = [e \in Entries |-> {left[e]}]
    /\ pc' = [d \in Daemons |-> "off"]
    /\ draft' = [d \in Daemons |-> NoDraft]
    /\ lock' = None
    /\ UNCHANGED <<served, crashes>>

Next ==
    \/ \E d \in Daemons :
          \/ acquire(d) \/ PrepareDescriptor(d) \/ PrepareSocket(d) \/ PrepareFails(d)
          \/ InspectState(d) \/ create_temporary(d) \/ encode(d) \/ SyncTemporary(d)
          \/ PromoteIdentity(d) \/ RemoveTemporary(d) \/ SyncIdentity(d) \/ load(d) \/ OpenTrust(d) \/ BindSocket(d)
          \/ RenameDescriptor(d) \/ BecomeReady(d) \/ StartFails(d) \/ DiscardStart(d)
          \/ unpublish_descriptor(d) \/ cleanup(d) \/ release(d) \/ DropUnfinished(d)
          \/ DropDescriptor(d) \/ DropSocket(d) \/ Killed(d)
    \/ PowerLoss

Spec == Init /\ [][Next]_vars

-----------------------------------------------------------------------------
(* Properties.                                                             *)

\* Types of the directory; its entries as seen are among those that may be on
\* disk, and an identity file is only ever a complete identity.
TypeOK ==
    /\ pc \in [Daemons -> Stages]
    /\ lock \in Daemons \cup {None}
    /\ \A d \in Daemons : (draft[d] # NoDraft) = (pc[d] \in Creating \ {"create", "promoted"})
    /\ \A e \in Entries : dir[e] \in disk[e] /\ disk[e] \subseteq Values(e)
    /\ served \subseteq Keys
    /\ crashes \in 0..MaxCrashes /\ losses \in 0..MaxPowerLosses

\* The daemons of a directory have one identity for ever, and once one of them
\* was ready its identity and its journal survive every crash and power loss.
IdentityIsForever ==
    \A k \in served : dir["identity"] = k /\ dir["journal"] # None

\* No crash of a process, however timed, leaves a directory the next start
\* refuses with IdentityMissingWithExistingState.
CrashNeverOrphansJournal ==
    \A d \in Daemons : pc[d] = "identity_missing" => losses > 0

\* A daemon that is ready can be found: the descriptor and the socket in the
\* directory are its own, as long as it has not begun to shut down.
ReadyDaemonIsDiscoverable ==
    \A d \in Daemons : pc[d] = "ready" => dir["descriptor"] = d /\ dir["socket"] = d
=============================================================================
