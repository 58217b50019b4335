----------------------------- MODULE MCTransfer -----------------------------
(* Instances of Transfer for TLC: a file of two chunks that is replaced by a *)
(* shorter one with another beginning, and put back.                         *)
EXTENDS Transfer

TwoChunks == <<0, 0>>
Rewritten == {TwoChunks, <<1>>}

Outcome(s) == IF HasEnded(s) THEN xfer[s].status ELSE "open"
Contract == INSTANCE TransferContract WITH
    Files <- Seq({0, 1}),
    offered <- IF Known("sender") THEN Sender.metadata ELSE Nothing,
    accepted <- markers["receiver"].accepted,
    delivered <- output,
    outcome <- [s \in Sides |-> Outcome(s)],
    settled <- {s \in Sides : xfer[s].state = "Settled"}

\* Seen by the two users, attempts, lost sessions, repeated offers, late workers
\* and crossing outcomes are the steps of TransferContract: one file, delivered
\* whole and once and only with consent; an outcome that never changes, that is
\* the peer's unless this side decided first, and that is not forgotten before
\* the other side has one.
ImplementsContract == Contract!Spec

=============================================================================
