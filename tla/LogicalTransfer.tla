--------------------------- MODULE LogicalTransfer ---------------------------
(***************************************************************************)
(* LogicalTransfer (crates/rift-transfer/src/state.rs), one side's view of *)
(* one immutable file, and the private records that outlive it (record.rs, *)
(* store.rs).  A method is an operator from the machine to the set of what *)
(* it may become: {} is Err, and then the machine is unchanged.            *)
(***************************************************************************)
EXTENDS Integers, Sequences

CONSTANT MaxAttempt      \* u64::MAX: worker generations never wrap

ASSUME MaxAttemptAssumption == MaxAttempt \in Nat

Directions == {"Outgoing", "Incoming"}
Statuses == {"Completed", "Rejected", "Cancelled", "Failed"}

\* Sending, Receiving, Completing and WaitingForTerminal belong to an attempt.
Active == {"Sending", "Receiving", "Completing", "WaitingForTerminal"}
Terminal == {"TerminalAwaitingAck", "Settled"}
States == {"Queued", "Offered", "PendingOffer", "Accepted", "Paused"} \cup Active \cup Terminal

Ok(condition, next) == IF condition THEN {next} ELSE {}

\* The variants of TransferState, with the data each of them carries.
Plain(x, state) == [x EXCEPT !.state = state, !.offset = 0, !.attempt = 0, !.status = "none"]
Accepted(x, offset) == [Plain(x, "Accepted") EXCEPT !.offset = offset]
Owned(x, state, attempt) == [Plain(x, state) EXCEPT !.attempt = attempt]
Ended(x, state, status) == [Plain(x, state) EXCEPT !.status = status]

new(direction, metadata) ==
    [direction |-> direction, metadata |-> metadata, next |-> 0, offset |-> 0, attempt |-> 0,
     status |-> "none",
     state |-> IF direction = "Outgoing" THEN "Queued" ELSE "PendingOffer"]

-----------------------------------------------------------------------------
(* Offers and acceptance.                                                  *)

\* TransferMetadata::byte_len; the metadata is the content its digest stands for.
byte_len(x) == Len(x.metadata)

check_offset(x, offset) == offset <= byte_len(x)

offer_sent(x) ==
    Ok(x.direction = "Outgoing" /\ x.state \in {"Queued", "Paused", "Offered"},
       Plain(x, "Offered"))

accept_received(x, offset) ==
    Ok(x.direction = "Outgoing" /\ check_offset(x, offset) /\ x.state = "Offered",
       Accepted(x, offset))

acceptance_persisted(x, offset) ==
    Ok(/\ x.direction = "Incoming" /\ check_offset(x, offset)
       /\ \/ x.state = "PendingOffer" /\ offset = 0
          \/ x.state \in {"Paused", "Accepted"},
       Accepted(x, offset))

ReplayAccepts(x, metadata, durable) ==
    CASE x.direction # "Incoming" \/ metadata # x.metadata -> {}
      [] x.state \in Terminal -> {[kind |-> "Terminal", status |-> x.status]}
      [] OTHER -> Ok(check_offset(x, durable), [kind |-> "Accept", offset |-> durable])

\* The answer to a repeated offer; the machine itself does not change.
replay_offer(x, metadata, durable) ==
    CASE x.direction # "Incoming" \/ metadata # x.metadata -> {}
      [] x.state = "PendingOffer" -> {[kind |-> "Pending"]}
      [] x.state \in Terminal -> {[kind |-> "Terminal", status |-> x.status]}
      [] x.state \in {"Accepted", "Paused", "Receiving", "Completing"} ->
            Ok(check_offset(x, durable), [kind |-> "Accept", offset |-> durable])
      [] OTHER -> {}

-----------------------------------------------------------------------------
(* Attempts.                                                               *)

AllocateCurrent(x) == Ok(x.next < MaxAttempt, x.next)

allocate_attempt(x) == Ok(x.next < MaxAttempt, x.next + 1)

\* start_send and start_receive take the generation they allocate.
Started(x, state) ==
    {[Owned(x, state, a) EXCEPT !.next = a] : a \in allocate_attempt(x)}

start_send(x) ==
    IF x.direction = "Outgoing" /\ x.state = "Accepted" THEN Started(x, "Sending") ELSE {}

\* DataStreamHeader::validate
validate(header, total) ==
    /\ header.offset <= total
    /\ header.remaining = total - header.offset

start_receive(x, header) ==
    IF /\ x.direction = "Incoming"
       /\ validate(header, byte_len(x))
       /\ x.state = "Accepted" /\ x.offset = header.offset
    THEN Started(x, "Receiving") ELSE {}

SendFinishedUnfenced(x, attempt) ==
    Ok(x.direction = "Outgoing" /\ x.state \notin Terminal,
       Owned(x, "WaitingForTerminal", attempt))

send_finished(x, attempt) ==
    Ok(x.direction = "Outgoing" /\ x.state = "Sending" /\ x.attempt = attempt,
       Owned(x, "WaitingForTerminal", attempt))

payload_verified(x, attempt) ==
    Ok(x.direction = "Incoming" /\ x.state = "Receiving" /\ x.attempt = attempt,
       Owned(x, "Completing", attempt))

\* A lost connection invalidates the attempt; decisions still pending survive.
pause(x) ==
    IF x.state \in Active \cup {"Offered", "Accepted"} THEN Plain(x, "Paused") ELSE x

-----------------------------------------------------------------------------
(* Terminal outcomes.  worker is the attempt that reports the outcome, and *)
(* 0 for a local decision of the user.                                     *)

RejectAnytime(x, status, worker) ==
    IF x.state \in Terminal THEN Ok(x.status = status, x)
    ELSE Ok(status = "Completed" =>
               x.direction = "Incoming" /\ x.state = "Completing" /\ x.attempt = worker,
            Ended(x, "TerminalAwaitingAck", status))

terminal_persisted(x, status, worker) ==
    IF x.state \in Terminal THEN Ok(x.status = status, x)
    ELSE Ok(/\ worker # 0 => x.state \in Active /\ x.attempt = worker
            /\ status = "Completed" =>
                  x.direction = "Incoming" /\ x.state = "Completing" /\ worker # 0
            /\ status = "Rejected" => x.direction = "Incoming" /\ x.state = "PendingOffer",
            Ended(x, "TerminalAwaitingAck", status))

PeerOverrules(x, status) == {Ended(x, "Settled", status)}

peer_terminal_persisted(x, status) ==
    IF x.state \in Terminal THEN {x}
    ELSE Ok(status \in {"Completed", "Rejected"} => x.direction = "Outgoing",
            Ended(x, "Settled", status))

terminal_ack_received(x) == Ok(x.state \in Terminal, Ended(x, "Settled", x.status))

-----------------------------------------------------------------------------
(* The records on disk: a manifest, and the markers that bind to it.       *)

NoMarker == [status |-> "none", origin |-> "none"]
Unaccepted == [accepted |-> FALSE, terminal |-> NoMarker]

\* TransferRecord::validate_marker: only the receiver accepts, completes or
\* rejects; either side may cancel or fail.
validate_marker(direction, marker) ==
    /\ marker.accepted => direction = "Incoming"
    /\ marker.terminal.status \in {"Completed", "Rejected"} =>
          ((direction = "Incoming") = (marker.terminal.origin = "Local"))

\* One state directory passes the startup scan.
scan_record(direction, marker) ==
    /\ validate_marker(direction, marker)
    /\ direction = "Incoming" =>
          /\ marker.terminal.status = "Completed" => marker.accepted
          /\ marker.terminal.status = "Rejected" => ~marker.accepted

=============================================================================
