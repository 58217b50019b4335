---------------------------- MODULE MCTrustStore ----------------------------
(* Instances of TrustStore for TLC, and the policy that it implements.       *)
EXTENDS TrustStore, TLC

Symmetry == Permutations(Peers) \cup Permutations(Attempts)

\* The store implements TrustPolicy: callers see its decisions, and a restart
\* finds the replay of what is on the disk.
Policy == INSTANCE TrustPolicy WITH
    served <- decisions, recoverable <- {Replay(f.recs) : f \in images}

\* Seen from outside, the awaits of commit, its failures, crashes, recoveries
\* and shutdowns are the steps of TrustPolicy: what is served changes only by a
\* legal mutation that is durable by then, or by a restart into something that
\* was legally attempted, and a failed mutation is withdrawn for good.
ImplementsPolicy == Policy!Spec

=============================================================================
