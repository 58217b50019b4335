---------------------------- MODULE TrustPolicy ----------------------------
(***************************************************************************)
(* What the trust store promises, without journal, mutex or awaits: the    *)
(* decisions it serves, and the decisions a restart could bring back.      *)
(* crates/rift-trust/src/lib.rs states the promise in TrustStore's public  *)
(* methods; TrustStore implements it (ImplementsPolicy in MCTrustStore).   *)
(***************************************************************************)
CONSTANT Peers

VARIABLES
    served,       \* the decision of every peer, as callers see it
    recoverable   \* the decisions the next open may serve

vars == <<served, recoverable>>

Mutations == [op : {"Trust", "Revoke", "Forget"}, peer : Peers]
Effect(m) == CASE m.op = "Trust" -> "Trusted" [] m.op = "Revoke" -> "Revoked"
               [] m.op = "Forget" -> "Unknown"

\* Trust is never served over a revocation: the peer must be forgotten first.
Legal(m) == m.op = "Trust" => served[m.peer] # "Revoked"

Init ==
    /\ served = [p \in Peers |-> "Unknown"]
    /\ recoverable = {served}

\* A mutation is under way: from now on a restart may find it done.
Attempt(m) ==
    /\ Legal(m)
    /\ UNCHANGED served
    /\ \E d \in recoverable : recoverable' = recoverable \cup {[d EXCEPT ![m.peer] = Effect(m)]}

\* It is acknowledged: served, and what every restart will find.
Decide(m) ==
    /\ Legal(m)
    /\ served' = [served EXCEPT ![m.peer] = Effect(m)]
    /\ \E d \in recoverable : d[m.peer] = Effect(m) /\ recoverable' = {d}

\* It failed: no restart will find it.
Withdraw == UNCHANGED served /\ served \in recoverable /\ recoverable' = {served}

\* A restart serves something recoverable and may settle on it.
Recover ==
    /\ served' \in recoverable
    /\ recoverable' \in {recoverable, {served'}}

\* A power loss settles what the next restart finds.
Lose == UNCHANGED served /\ \E d \in recoverable : recoverable' = {d}

Next == Recover \/ Withdraw \/ Lose \/ \E m \in Mutations : Attempt(m) \/ Decide(m)

Spec == Init /\ [][Next]_vars

=============================================================================
