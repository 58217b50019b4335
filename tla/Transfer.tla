------------------------------ MODULE Transfer ------------------------------
(***************************************************************************)
(* One file sent from one device to another (crates/rift-transfer): the    *)
(* two logical machines, the worker that streams on each side, the source  *)
(* that may be rewritten at any time, the receiver's staging file and the  *)
(* markers of both sides.  A session carries an ordered control stream     *)
(* each way and the payload stream of the attempt; it may be lost at any   *)
(* step, and the two sides notice at different moments.                    *)
(*                                                                         *)
(* The owner of a transfer is not written yet.  Its part here is what the  *)
(* crate's comments and docs/protocol/v1.md require of it: a marker is on  *)
(* disk before the transition it stands for, a worker is cancelled and     *)
(* joined before its files are used again, staging is reconciled at the    *)
(* join, and outcomes are replayed on every session until acknowledged.    *)
(***************************************************************************)
EXTENDS LogicalTransfer, SequencesExt

CONSTANTS
    Original,       \* what the source file holds at first
    Contents,       \* what it may hold
    MaxChanges,     \* bound on rewrites of the source
    MaxLosses       \* bound on lost sessions

ASSUME TransferAssumption ==
    /\ Original \in Contents /\ Contents \subseteq Seq({0, 1})
    /\ MaxChanges \in Nat /\ MaxLosses \in Nat

VARIABLES
    source,      \* the sender's file
    xfer,        \* the machine of each side, or NoTransfer
    worker,      \* the worker of each side, or NoWorker
    inbox,       \* control messages on their way to each side
    stream,      \* the payload stream, or NoStream
    session,     \* is the session up
    unaware,     \* sides that have not noticed the loss of the last one
    staging,     \* the receiver's partial file
    output,      \* what the receiver has published
    markers,     \* the marker files of each side
    changes, losses

vars == <<source, xfer, worker, inbox, stream, session, unaware, staging, output, markers,
          changes, losses>>
bounds == <<changes, losses>>

Sides == {"sender", "receiver"}
Other(s) == IF s = "sender" THEN "receiver" ELSE "sender"
DirectionOf(s) == IF s = "sender" THEN "Outgoing" ELSE "Incoming"

NoTransfer == [state |-> "none"]
NoWorker == [step |-> "none"]
NoStream == [open |-> FALSE]
Nothing == <<2>>                  \* nothing is published; no file holds a 2

Known(s) == xfer[s] # NoTransfer
HasEnded(s) == xfer[s].state \in Terminal

\* A worker: the attempt it belongs to, where its loop stands, and the bytes
\* it has fed to its hasher.
Worker(attempt, offset, step) ==
    [attempt |-> attempt, offset |-> offset, step |-> step, hashed |-> <<>>,
     cancelled |-> FALSE, result |-> "none"]
Running(s) == worker[s] # NoWorker /\ worker[s].step # "joinable"

Init ==
    /\ source = Original
    /\ xfer = [s \in Sides |-> NoTransfer]
    /\ worker = [s \in Sides |-> IF s = "sender" THEN Worker(0, Len(Original), "prepare")
                                 ELSE NoWorker]
    /\ inbox = [s \in Sides |-> <<>>]
    /\ stream = NoStream
    /\ session = TRUE
    /\ unaware = {}
    /\ staging = <<>>
    /\ output = Nothing
    /\ markers = [s \in Sides |-> Unaccepted]
    /\ changes = 0 /\ losses = 0

-----------------------------------------------------------------------------
(* Control messages, and what ends a transfer.                             *)

Post(s, m) == IF session THEN [inbox EXCEPT ![Other(s)] = Append(@, m)] ELSE inbox
Send(s, m) == inbox' = Post(s, m)
Rest(s) == [inbox EXCEPT ![s] = Tail(@)]
Answer(s, m) == inbox' = [Rest(s) EXCEPT ![Other(s)] = Append(@, m)]
Receives(s, kind) == inbox[s] # <<>> /\ Head(inbox[s]).kind = kind

Move(s, x) == xfer' = [xfer EXCEPT ![s] = x]

\* The worker is told to stop; it is joined later.
Cancelled(s) == IF worker[s] = NoWorker THEN worker ELSE [worker EXCEPT ![s].cancelled = TRUE]

\* The partial file of an ended transfer is deleted once nobody writes it.
Discarded(x, w) ==
    IF x.state \in Terminal /\ x.status # "Completed" /\ w = NoWorker THEN <<>> ELSE staging

Marked(s, status, origin) ==
    IF HasEnded(s) THEN markers     \* never rewritten
    ELSE [markers EXCEPT ![s].terminal = [status |-> status, origin |-> origin]]

\* The marker exists before the transition; the peer is told when it can be.
EndLocally(s, status, attempt) ==
    \E x \in terminal_persisted(xfer[s], status, attempt) :
        /\ Move(s, x)
        /\ markers' = Marked(s, status, "Local")
        /\ inbox' = IF HasEnded(s) THEN inbox
                    ELSE Post(s, [kind |-> "Terminal", status |-> status])

Reset == IF stream.open THEN [stream EXCEPT !.reset = TRUE] ELSE stream

\* The user cancels; the machine knows whether it is too late.
Cancel(s) ==
    /\ Known(s)
    /\ EndLocally(s, "Cancelled", 0)
    /\ worker' = Cancelled(s)
    /\ stream' = Reset
    /\ staging' = IF s = "receiver" THEN Discarded(xfer'[s], worker'[s]) ELSE staging
    /\ UNCHANGED <<source, session, unaware, output, bounds>>

\* An unknown transfer's outcome is acknowledged and otherwise ignored.
ReceiveTerminal(s) ==
    /\ Receives(s, "Terminal")
    /\ IF Known(s)
       THEN \E x \in peer_terminal_persisted(xfer[s], Head(inbox[s]).status) :
               /\ Move(s, x)
               /\ markers' = Marked(s, Head(inbox[s]).status, "Peer")
               /\ staging' = IF s = "receiver" THEN Discarded(x, worker[s]) ELSE staging
       ELSE UNCHANGED <<xfer, markers, staging>>
    /\ worker' = Cancelled(s)
    /\ Answer(s, [kind |-> "TerminalAck"])
    /\ UNCHANGED <<source, stream, session, unaware, output, bounds>>

ReceiveAck(s) ==
    /\ Receives(s, "TerminalAck")
    /\ \E x \in terminal_ack_received(xfer[s]) : Move(s, x)
    /\ inbox' = Rest(s)
    /\ UNCHANGED <<source, worker, stream, session, unaware, staging, output, markers, bounds>>

-----------------------------------------------------------------------------
(* The sender.                                                             *)

Sender == xfer["sender"]
SendWorker == worker["sender"]
SetSendWorker(w) == worker' = [worker EXCEPT !["sender"] = w]

ReadNext(w, content) == [w EXCEPT !.hashed = Append(@, content[Len(@) + 1])]
Ends(w, result) == [w EXCEPT !.step = "joinable", !.result = result, !.hashed = <<>>]

\* hash_prefix and require_source_eof: the loop stops at the declared length,
\* and a source that is shorter or longer by then has changed.
CanRead(w, total) == Len(w.hashed) < total /\ Len(w.hashed) < Len(source)
AtEof(w, total) == Len(w.hashed) = total /\ Len(source) = total

\* prepare_source: the metadata is what the pass over the file has read.  A
\* source that changed its length meanwhile is prepared again.
PrepareSource ==
    /\ SendWorker.step = "prepare"
    /\ LET total == SendWorker.offset IN
       \/ /\ CanRead(SendWorker, total)
          /\ SetSendWorker(ReadNext(SendWorker, source))
          /\ UNCHANGED xfer
       \/ /\ AtEof(SendWorker, total)
          /\ Move("sender", new("Outgoing", SendWorker.hashed))
          /\ SetSendWorker(NoWorker)
       \/ /\ ~CanRead(SendWorker, total) /\ ~AtEof(SendWorker, total)
          /\ SetSendWorker(Worker(0, Len(source), "prepare"))
          /\ UNCHANGED xfer
    /\ UNCHANGED <<source, inbox, stream, session, unaware, staging, output, markers, bounds>>

Offer == [kind |-> "Offer", metadata |-> Sender.metadata]

SendOffer ==
    /\ Known("sender") /\ session
    /\ Sender.state # "Offered"
    /\ \E x \in offer_sent(Sender) : Move("sender", x)
    /\ Send("sender", Offer)
    /\ UNCHANGED <<source, worker, stream, session, unaware, staging, output, markers, bounds>>

\* An offer that was read but not answered yet may be sent again.
RepeatOffer ==
    /\ Known("sender") /\ session
    /\ Sender.state = "Offered" /\ \A s \in Sides : inbox[s] = <<>>
    /\ Send("sender", Offer)
    /\ UNCHANGED <<source, xfer, worker, stream, session, unaware, staging, output, markers,
                   bounds>>

\* An Accept that the machine refuses is dropped.
ReceiveAccept ==
    /\ Receives("sender", "Accept")
    /\ LET next == accept_received(Sender, Head(inbox["sender"]).offset) IN
       IF next = {} THEN UNCHANGED xfer ELSE \E x \in next : Move("sender", x)
    /\ inbox' = Rest("sender")
    /\ UNCHANGED <<source, worker, stream, session, unaware, staging, output, markers, bounds>>

StartSend ==
    /\ Known("sender") /\ session /\ SendWorker = NoWorker
    /\ \E x \in start_send(Sender) :
          /\ Move("sender", x)
          /\ SetSendWorker(Worker(x.attempt, Sender.offset, "hash"))
    /\ stream' = [open |-> TRUE, data |-> <<>>, fin |-> FALSE, reset |-> FALSE, taken |-> FALSE,
                  header |-> [offset |-> Sender.offset,
                              remaining |-> byte_len(Sender) - Sender.offset]]
    /\ UNCHANGED <<source, inbox, session, unaware, staging, output, markers, bounds>>

Writable == session /\ stream.open /\ ~stream.reset

\* send_payload, its first pass: the whole file is hashed before a byte is sent.
HashSource ==
    /\ SendWorker.step = "hash" /\ ~SendWorker.cancelled
    /\ LET total == byte_len(Sender) IN
       SetSendWorker(
           IF CanRead(SendWorker, total) THEN ReadNext(SendWorker, source)
           ELSE IF AtEof(SendWorker, total) /\ SendWorker.hashed = Sender.metadata
                THEN [SendWorker EXCEPT !.step = "copy", !.hashed = <<>>]
                ELSE Ends(SendWorker, "Failed"))
    /\ UNCHANGED <<source, xfer, inbox, stream, session, unaware, staging, output, markers,
                   bounds>>

\* Its second pass hashes the accepted prefix again and sends the suffix; the
\* outcome is known only when the file has been read to its end.
SuffixSent(total) == AtEof(SendWorker, total) /\ SendWorker.hashed = Sender.metadata

SendPayload ==
    /\ SendWorker.step = "copy" /\ ~SendWorker.cancelled
    /\ LET total == byte_len(Sender)
           w     == ReadNext(SendWorker, source)
       IN  \/ /\ CanRead(SendWorker, total)
              /\ \/ /\ Len(w.hashed) <= SendWorker.offset
                    /\ UNCHANGED stream
                 \/ /\ Len(w.hashed) > SendWorker.offset /\ Writable
                    /\ stream' = [stream EXCEPT !.data = Append(@, Last(w.hashed))]
              /\ SetSendWorker(w)
           \/ /\ ~CanRead(SendWorker, total)
              /\ SetSendWorker(Ends(SendWorker, IF SuffixSent(total) THEN "Ok" ELSE "Failed"))
              /\ UNCHANGED stream
    /\ UNCHANGED <<source, xfer, inbox, session, unaware, staging, output, markers, bounds>>

\* A worker gives up; what a receiver had only buffered may not be in the file.
GivesUp(s, result) ==
    /\ worker' = [worker EXCEPT ![s] = Ends(@, result)]
    /\ IF s = "receiver"
       THEN \E n \in worker[s].offset .. Len(staging) : staging' = SubSeq(staging, 1, n)
       ELSE UNCHANGED staging
    /\ UNCHANGED <<source, xfer, inbox, stream, session, unaware, output, markers, bounds>>

\* AttemptControl::step: cancellation wins over progress, and a stream that is
\* gone is an error.
NeedsStream(s) ==
    /\ worker[s].step = "copy"
    /\ Len(worker[s].hashed) >= worker[s].offset
    /\ s = "sender" => Len(worker[s].hashed) < byte_len(Sender)

Interrupted(s) ==
    /\ Running(s) /\ worker[s].step # "prepare"
    /\ worker[s].cancelled \/ (NeedsStream(s) /\ ~Writable)
    /\ GivesUp(s, "Interrupted")

\* local_io: the source or the staging file fails an operation.
LocalIo(s) ==
    /\ Running(s) /\ worker[s].step # "prepare" /\ ~worker[s].cancelled
    /\ GivesUp(s, "Failed")

Owns(s) == xfer[s].state \in Active /\ xfer[s].attempt = worker[s].attempt
FailureCounts(s) == terminal_persisted(xfer[s], "Failed", worker[s].attempt) # {}

\* The owner joins the worker and reports its result; the machine refuses that
\* of an attempt which is no longer current.  Only a joined success ends the
\* stream cleanly.
JoinSend ==
    /\ SendWorker.step = "joinable"
    /\ LET result == SendWorker.result
           next   == send_finished(Sender, SendWorker.attempt)
       IN  \/ /\ result = "Ok" /\ next # {}
              /\ \E x \in next : Move("sender", x)
              /\ stream' = IF stream.open THEN [stream EXCEPT !.fin = TRUE] ELSE stream
              /\ UNCHANGED <<inbox, markers>>
           \/ /\ result = "Failed" /\ FailureCounts("sender")
              /\ EndLocally("sender", "Failed", SendWorker.attempt)
              /\ stream' = Reset
           \/ /\ result = "Interrupted" /\ Owns("sender")
              /\ Move("sender", pause(Sender))
              /\ UNCHANGED <<stream, inbox, markers>>
           \/ /\ CASE result = "Ok" -> next = {}
                   [] result = "Failed" -> ~FailureCounts("sender")
                   [] OTHER -> ~Owns("sender")
              /\ UNCHANGED <<xfer, stream, inbox, markers>>
    /\ SetSendWorker(NoWorker)
    /\ UNCHANGED <<source, session, unaware, staging, output, bounds>>

-----------------------------------------------------------------------------
(* The receiver.                                                           *)

Receiver == xfer["receiver"]
ReceiveWorker == worker["receiver"]
SetReceiveWorker(w) == worker' = [worker EXCEPT !["receiver"] = w]

\* A first offer makes a pending record.  A repeated one is answered from the
\* state; the worker of a paused transfer is joined before its staging counts.
ReceiveOffer ==
    /\ Receives("receiver", "Offer")
    /\ LET metadata == Head(inbox["receiver"]).metadata IN
       \/ /\ ~Known("receiver")
          /\ Move("receiver", new("Incoming", metadata))
          /\ inbox' = Rest("receiver")
       \/ /\ Known("receiver")
          /\ \E replay \in replay_offer(Receiver, metadata, Len(staging)) :
                \/ /\ replay.kind = "Pending"
                   /\ inbox' = Rest("receiver")
                   /\ UNCHANGED xfer
                \/ /\ replay.kind = "Terminal"
                   /\ Answer("receiver", [kind |-> "Terminal", status |-> replay.status])
                   /\ UNCHANGED xfer
                \/ /\ replay.kind = "Accept"
                   /\ \/ /\ Receiver.state \in {"Receiving", "Completing"}
                         /\ UNCHANGED xfer
                      \/ /\ ReceiveWorker = NoWorker
                         /\ \E x \in acceptance_persisted(Receiver, replay.offset) :
                               Move("receiver", x)
                   /\ Answer("receiver", replay)
    /\ UNCHANGED <<source, worker, stream, session, unaware, staging, output, markers, bounds>>

\* The user's decision: its marker is durable before the peer hears of it.
AcceptOffer ==
    /\ Known("receiver") /\ Receiver.state = "PendingOffer"
    /\ \E x \in acceptance_persisted(Receiver, 0) : Move("receiver", x)
    /\ markers' = [markers EXCEPT !["receiver"].accepted = TRUE]
    /\ Send("receiver", [kind |-> "Accept", offset |-> 0])
    /\ UNCHANGED <<source, worker, stream, session, unaware, staging, output, bounds>>

RejectOffer ==
    /\ Known("receiver")
    /\ EndLocally("receiver", "Rejected", 0)
    /\ UNCHANGED <<source, worker, stream, session, unaware, staging, output, bounds>>

\* The stream's header is read; a stream the machine does not expect is stopped.
TakeStream ==
    /\ stream.open /\ ~stream.taken /\ session
    /\ LET next == IF Known("receiver") /\ ReceiveWorker = NoWorker
                   THEN start_receive(Receiver, stream.header) ELSE {}
       IN  \/ /\ \E x \in next :
                    /\ Move("receiver", x)
                    /\ SetReceiveWorker(Worker(x.attempt, stream.header.offset, "seek"))
              /\ stream' = [stream EXCEPT !.taken = TRUE]
           \/ /\ next = {}
              /\ stream' = [Reset EXCEPT !.taken = TRUE]
              /\ UNCHANGED <<xfer, worker>>
    /\ UNCHANGED <<source, inbox, session, unaware, staging, output, markers, bounds>>

\* receive_payload begins with the file it is to extend.
SeekStaging ==
    /\ ReceiveWorker.step = "seek" /\ ~ReceiveWorker.cancelled
    /\ SetReceiveWorker(IF Len(staging) = ReceiveWorker.offset
                        THEN [ReceiveWorker EXCEPT !.step = "copy"]
                        ELSE Ends(ReceiveWorker, "Failed"))
    /\ UNCHANGED <<source, xfer, inbox, stream, session, unaware, staging, output, markers,
                   bounds>>

\* The staged prefix is hashed from the file, whatever an earlier attempt knew.
PrefixTrusted(w) == [w EXCEPT !.hashed = Append(@, Receiver.metadata[Len(@) + 1])]

HashStaged(w) == ReadNext(w, staging)

\* Then the suffix is appended as it arrives, up to the declared length and a
\* clean end of the stream; the digest covers the whole file.
ReceivePayload ==
    /\ ReceiveWorker.step = "copy" /\ ~ReceiveWorker.cancelled
    /\ LET w == ReceiveWorker  read == Len(w.hashed)  total == byte_len(Receiver) IN
       \/ /\ read < w.offset
          /\ SetReceiveWorker(HashStaged(w))
          /\ UNCHANGED <<stream, staging>>
       \/ /\ w.offset <= read /\ read < total /\ Writable /\ stream.data # <<>>
          /\ SetReceiveWorker([w EXCEPT !.hashed = Append(@, Head(stream.data))])
          /\ staging' = Append(staging, Head(stream.data))
          /\ stream' = [stream EXCEPT !.data = Tail(@)]
       \/ /\ read = total /\ Writable /\ stream.fin
          /\ SetReceiveWorker(Ends(w, IF w.hashed = Receiver.metadata THEN "Ok" ELSE "Failed"))
          /\ UNCHANGED <<stream, staging>>
    /\ UNCHANGED <<source, xfer, inbox, session, unaware, output, markers, bounds>>

JoinReceive ==
    /\ ReceiveWorker.step = "joinable"
    /\ LET result == ReceiveWorker.result
           next   == payload_verified(Receiver, ReceiveWorker.attempt)
       IN  \/ /\ result = "Ok" /\ next # {}
              /\ \E x \in next : Move("receiver", x)
              /\ UNCHANGED <<stream, inbox, markers>>
           \/ /\ result = "Failed" /\ FailureCounts("receiver")
              /\ EndLocally("receiver", "Failed", ReceiveWorker.attempt)
              /\ stream' = Reset
           \/ /\ result = "Interrupted" /\ Owns("receiver")
              /\ Move("receiver", pause(Receiver))
              /\ UNCHANGED <<stream, inbox, markers>>
           \/ /\ CASE result = "Ok" -> next = {}
                   [] result = "Failed" -> ~FailureCounts("receiver")
                   [] OTHER -> ~Owns("receiver")
              /\ UNCHANGED <<xfer, stream, inbox, markers>>
    /\ SetReceiveWorker(NoWorker)
    /\ staging' = Discarded(xfer'["receiver"], NoWorker)
    /\ UNCHANGED <<source, session, unaware, output, bounds>>

\* The verified file is synced and published, then the outcome is persisted and
\* sent.  The owner does this in one go, between two notices.
Publish ==
    /\ Known("receiver") /\ Receiver.state = "Completing"
    /\ output' = staging
    /\ staging' = <<>>
    /\ EndLocally("receiver", "Completed", Receiver.attempt)
    /\ UNCHANGED <<source, worker, stream, session, unaware, bounds>>

-----------------------------------------------------------------------------
(* Sessions and the source.                                                *)

Lose ==
    /\ session /\ losses < MaxLosses
    /\ \E s \in Sides : xfer[s].state # "Settled"
    /\ session' = FALSE
    /\ losses' = losses + 1
    /\ inbox' = [s \in Sides |-> <<>>]
    /\ stream' = NoStream
    /\ unaware' = Sides
    /\ UNCHANGED <<source, xfer, worker, staging, output, markers, changes>>

\* The supervisor reports the loss: connection-bound work is invalid at once.
Notice(s) ==
    /\ s \in unaware
    /\ unaware' = unaware \ {s}
    /\ IF Known(s) THEN Move(s, pause(xfer[s])) /\ worker' = Cancelled(s)
       ELSE UNCHANGED <<xfer, worker>>
    /\ UNCHANGED <<source, inbox, stream, session, staging, output, markers, bounds>>

Replays(s) ==
    IF Known(s) /\ xfer[s].state = "TerminalAwaitingAck"
    THEN <<[kind |-> "Terminal", status |-> xfer[s].status]>> ELSE <<>>

Reconnect ==
    /\ ~session /\ unaware = {}
    /\ session' = TRUE
    /\ inbox' = [s \in Sides |-> Replays(Other(s))]
    /\ UNCHANGED <<source, xfer, worker, stream, unaware, staging, output, markers, bounds>>

\* Only a running worker reads the source, so a change at any other time is one
\* before its first read.
SourceChanges ==
    /\ changes < MaxChanges
    /\ Running("sender") /\ ~SendWorker.cancelled
    /\ changes' = changes + 1
    /\ source' \in Contents \ {source}
    /\ UNCHANGED <<xfer, worker, inbox, stream, session, unaware, staging, output, markers,
                   losses>>

-----------------------------------------------------------------------------
\* The next start of a side's process reads the record of every transfer it has.
scan_transfer_state(s) == Known(s) => scan_record(DirectionOf(s), markers[s])

SenderWorks ==
    \/ PrepareSource \/ SendOffer \/ ReceiveAccept \/ StartSend \/ HashSource \/ SendPayload
    \/ JoinSend \/ Interrupted("sender") \/ Notice("sender")
    \/ ReceiveTerminal("sender") \/ ReceiveAck("sender")

ReceiverWorks ==
    \/ ReceiveOffer \/ TakeStream \/ SeekStaging \/ ReceivePayload \/ JoinReceive \/ Publish
    \/ Interrupted("receiver") \/ Notice("receiver")
    \/ ReceiveTerminal("receiver") \/ ReceiveAck("receiver")

\* What nobody is bound to do: the users, the network, the disk and whoever
\* edits the file.
Environment ==
    \/ RepeatOffer \/ AcceptOffer \/ RejectOffer \/ Lose \/ SourceChanges
    \/ \E s \in Sides : Cancel(s) \/ LocalIo(s)

Next == SenderWorks \/ ReceiverWorks \/ Reconnect \/ Environment

Spec == Init /\ [][Next]_vars

FairSpec ==
    Spec /\ WF_vars(SenderWorks) /\ WF_vars(ReceiverWorks) /\ WF_vars(Reconnect)

-----------------------------------------------------------------------------
(* Properties.                                                             *)

Machines ==
    [direction : Directions, metadata : Seq({0, 1}), next : 0..MaxAttempt, offset : Nat,
     attempt : 0..MaxAttempt, status : Statuses \cup {"none"}, state : States]

TypeOK ==
    /\ source \in Contents
    /\ \A s \in Sides :
          /\ Known(s) => xfer[s] \in Machines /\ xfer[s].direction = DirectionOf(s)
          /\ Known(s) => /\ (xfer[s].state \in Terminal) = (xfer[s].status # "none")
                         /\ (xfer[s].state \in Active) = (xfer[s].attempt # 0)
                         /\ xfer[s].offset <= byte_len(xfer[s])
          /\ worker[s] # NoWorker => Known(s) \/ worker[s].step = "prepare"
    /\ session \in BOOLEAN /\ unaware \subseteq Sides
    /\ staging \in Seq({0, 1}) /\ output \in Seq({0, 1}) \cup {Nothing}
    /\ changes \in 0..MaxChanges /\ losses \in 0..MaxLosses

\* Whoever believes in Completed, the receiver has published exactly the file
\* the sender offered, although the source was rewritten while it was sent and
\* earlier attempts left a prefix behind (streaming.rs: both digests).
CompletedIsWhole ==
    /\ \A s \in Sides : xfer[s].state \in Terminal /\ xfer[s].status = "Completed" =>
          output = Sender.metadata
    /\ output # Nothing => Receiver.state \in Terminal /\ Receiver.status = "Completed"

\* Whenever the process dies, the startup scan accepts what is on disk, and it
\* holds the outcome the machine had and no other (store.rs: scan_record).
StoreScans ==
    /\ \A s \in Sides : scan_transfer_state(s)
    /\ \A s \in Sides : Known(s) => markers[s].terminal.status = xfer[s].status

\* Nothing of a payload is written, read from a stream or published before the
\* user's acceptance is durable, and a rejected or cancelled transfer leaves
\* nothing behind once its worker is joined (state.rs: start_receive, pause).
PayloadNeedsAcceptance ==
    /\ staging # <<>> \/ output # Nothing \/ ReceiveWorker # NoWorker =>
          markers["receiver"].accepted
    /\ Known("receiver") /\ HasEnded("receiver") /\ ReceiveWorker = NoWorker => staging = <<>>

\* An accepted or ended transfer is settled on both sides, whatever is lost on
\* the way, once sessions come back (state.rs: pause, replay_offer, Terminal).
TransferSettles ==
    (markers["receiver"].accepted \/ \E s \in Sides : xfer[s].state \in Terminal)
        ~> (\A s \in Sides : Known(s) => xfer[s].state = "Settled")

=============================================================================
