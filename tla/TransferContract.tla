-------------------------- MODULE TransferContract --------------------------
(***************************************************************************)
(* What one logical transfer promises its two users, without attempts,     *)
(* streams, retries or losses.  Transfer implements it (ImplementsContract *)
(* in MCTransfer).                                                         *)
(***************************************************************************)
CONSTANTS
    Files,     \* the contents the prepared file may have
    Nothing    \* no file

VARIABLES
    offered,   \* the one file this transfer is about, once it is prepared
    accepted,  \* has the receiver's user consented
    delivered, \* what the receiver's user got
    outcome,   \* how the transfer ended for each user, or "open"
    settled    \* users that may forget it

vars == <<offered, accepted, delivered, outcome, settled>>

Users == {"sender", "receiver"}
Peer(u) == IF u = "sender" THEN "receiver" ELSE "sender"
Open(u) == outcome[u] = "open"

Init ==
    /\ offered = Nothing /\ accepted = FALSE /\ delivered = Nothing
    /\ outcome = [u \in Users |-> "open"]
    /\ settled = {}

Prepare ==
    /\ offered = Nothing
    /\ offered' \in Files
    /\ UNCHANGED <<accepted, delivered, outcome, settled>>

Consent ==
    /\ Open("receiver") /\ offered # Nothing /\ "sender" \notin settled
    /\ accepted' = TRUE
    /\ UNCHANGED <<offered, delivered, outcome, settled>>

\* The whole file arrives, and only with consent.
Deliver ==
    /\ Open("receiver") /\ accepted
    /\ delivered' = offered
    /\ outcome' = [outcome EXCEPT !["receiver"] = "Completed"]
    /\ UNCHANGED <<offered, accepted, settled>>

Reject ==
    /\ Open("receiver") /\ ~accepted
    /\ outcome' = [outcome EXCEPT !["receiver"] = "Rejected"]
    /\ UNCHANGED <<offered, accepted, delivered, settled>>

\* Either user may cancel, and either side may fail, at any time.
GiveUp(u) ==
    /\ Open(u)
    /\ \E status \in {"Cancelled", "Failed"} : outcome' = [outcome EXCEPT ![u] = status]
    /\ UNCHANGED <<offered, accepted, delivered, settled>>

\* A user who has no outcome yet learns the other's, and need not be told again.
Learn(u) ==
    /\ Open(u) /\ ~Open(Peer(u))
    /\ outcome' = [outcome EXCEPT ![u] = outcome[Peer(u)]]
    /\ settled' = settled \cup {u}
    /\ UNCHANGED <<offered, accepted, delivered>>

\* A user may forget an outcome once the other has one too, or was never asked.
Settle(u) ==
    /\ ~Open(u)
    /\ ~Open(Peer(u)) \/ (u = "sender" /\ ~accepted)
    /\ settled' = settled \cup {u}
    /\ UNCHANGED <<offered, accepted, delivered, outcome>>

Next ==
    \/ Prepare \/ Consent \/ Deliver \/ Reject
    \/ \E u \in Users : GiveUp(u) \/ Learn(u) \/ Settle(u)

Spec == Init /\ [][Next]_vars

=============================================================================
