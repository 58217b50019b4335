--------------------------- MODULE TransferProofs ---------------------------
(* Proofs about one logical transfer, for any content of the source, any     *)
(* number of rewrites, attempts and lost sessions.  The argument follows the *)
(* file: what the sender prepared is what it offers and what the receiver    *)
(* records; what the receive worker has hashed is what it has staged; and    *)
(* only what was verified like that is published.                            *)
EXTENDS MCTransfer, SequenceTheorems, TLAPS

-----------------------------------------------------------------------------
(* The shape of the state *)

Bytes == Seq({0, 1})
Results == {"none", "Ok", "Failed", "Interrupted"}
Workers ==
    [attempt : 0..MaxAttempt, offset : Nat, step : {"prepare", "hash", "seek", "copy", "joinable"},
     hashed : Bytes, cancelled : BOOLEAN, result : Results]
Messages ==
    [kind : {"Offer"}, metadata : Bytes] \cup [kind : {"Accept"}, offset : Nat]
        \cup [kind : {"Terminal"}, status : Statuses] \cup [kind : {"TerminalAck"}]
Streams ==
    [open : {TRUE}, data : Bytes, fin : BOOLEAN, reset : BOOLEAN, taken : BOOLEAN,
     header : [offset : Nat, remaining : Int]]
Markers ==
    [accepted : BOOLEAN,
     terminal : [status : Statuses \cup {"none"}, origin : {"none", "Local", "Peer"}]]

ShapeInv ==
    /\ source \in Contents
    /\ xfer \in [Sides -> Machines \cup {NoTransfer}]
    /\ worker \in [Sides -> Workers \cup {NoWorker}]
    /\ inbox \in [Sides -> Seq(Messages)]
    /\ stream \in Streams \cup {NoStream}
    /\ session \in BOOLEAN /\ unaware \subseteq Sides
    /\ staging \in Bytes /\ output \in Bytes \cup {Nothing}
    /\ markers \in [Sides -> Markers]
    /\ changes \in 0..MaxChanges /\ losses \in 0..MaxLosses

-----------------------------------------------------------------------------
(* The inductive invariant *)

\* A machine carries the data of its variant of TransferState and no other.
Sound(x) ==
    /\ x \in Machines
    /\ (x.state \in Terminal) = (x.status # "none")
    /\ (x.state \in Active) = (x.attempt # 0)
    /\ x.offset <= Len(x.metadata)

\* What a method may make of a machine: the metadata stays, an outcome too.
Follows(x, y) ==
    /\ Sound(y) /\ y.metadata = x.metadata /\ y.direction = x.direction
    /\ x.state \in Terminal => y.state \in Terminal /\ y.status = x.status

Finished(s) == xfer[s].state \in Terminal /\ xfer[s].status = "Completed"

\* The receiver records what the sender prepared.
MachineInv ==
    /\ \A s \in Sides : Known(s) => Sound(xfer[s]) /\ xfer[s].direction = DirectionOf(s)
    /\ Known("receiver") => Known("sender") /\ Receiver.metadata = Sender.metadata
    /\ Known("sender") = (SendWorker.step # "prepare")

\* The records on disk say what the machines say.
MarkerInv ==
    /\ \A s \in Sides : ~Known(s) => markers[s] = Unaccepted
    /\ \A s \in Sides : Known(s) => markers[s].terminal.status = xfer[s].status
    /\ markers["sender"].accepted = FALSE
    /\ markers["sender"].terminal.status \in {"Completed", "Rejected"} =>
          markers["sender"].terminal.origin # "Local"
    /\ markers["receiver"].terminal.status \in {"Completed", "Rejected"} =>
          markers["receiver"].terminal.origin = "Local"
    /\ markers["receiver"].terminal.status = "Completed" => markers["receiver"].accepted
    /\ markers["receiver"].terminal.status = "Rejected" => ~markers["receiver"].accepted
    /\ Known("receiver") /\ ~HasEnded("receiver") =>
          (markers["receiver"].accepted = (Receiver.state # "PendingOffer"))

\* A message says what its sender still holds.
Fits(s, m) ==
    /\ m.kind = "Offer" =>
          s = "receiver" /\ Known("sender") /\ m.metadata = Sender.metadata
    /\ m.kind = "Accept" => Known("sender")
    /\ m.kind = "Terminal" => HasEnded(Other(s)) /\ m.status = xfer[Other(s)].status

Mail(q) == {q[i] : i \in 1 .. Len(q)}
InboxInv == \A s \in Sides : \A m \in Mail(inbox[s]) : Fits(s, m)

\* A receive worker has hashed what is staged, once it is past the old prefix.
Hashes(w) ==
    /\ w.offset <= Len(staging) /\ Len(w.hashed) <= Len(staging)
    /\ Len(w.hashed) < w.offset => Len(staging) = w.offset
    /\ Len(w.hashed) >= w.offset => Len(staging) = Len(w.hashed)
    /\ \A i \in 1 .. Len(w.hashed) : w.hashed[i] = staging[i]

WorkerInv ==
    ReceiveWorker # NoWorker =>
        /\ Known("receiver") /\ markers["receiver"].accepted
        /\ ReceiveWorker.step \in {"seek", "copy", "joinable"}
        /\ Receiver.state \notin {"PendingOffer", "Completing"} /\ ~Finished("receiver")
        /\ ReceiveWorker.offset <= Len(Receiver.metadata)
        /\ ReceiveWorker.step = "seek" => ReceiveWorker.hashed = <<>>
        /\ ReceiveWorker.step = "copy" => Hashes(ReceiveWorker)
        /\ ReceiveWorker.step = "joinable" /\ ReceiveWorker.result = "Ok" =>
              staging = Receiver.metadata

\* What is staged was accepted, what is about to be published was verified, and
\* what is published is what was offered.
FileInv ==
    /\ staging # <<>> => markers["receiver"].accepted
    /\ Receiver.state = "Completing" => staging = Receiver.metadata
    /\ HasEnded("receiver") /\ ReceiveWorker = NoWorker => staging = <<>>
    /\ Finished("receiver") => output = Receiver.metadata
    /\ output # Nothing => Finished("receiver")
    /\ Finished("sender") => Finished("receiver")

IInv == ShapeInv /\ MachineInv /\ MarkerInv /\ InboxInv /\ WorkerInv /\ FileInv

-----------------------------------------------------------------------------
(* What the methods of the machine return *)

\* The variants of TransferState, field by field.
LEMMA PlainFacts ==
    ASSUME NEW x \in Machines, NEW state \in States
    PROVE  /\ Plain(x, state) \in Machines /\ Plain(x, state).state = state
           /\ Plain(x, state).offset = 0 /\ Plain(x, state).attempt = 0
           /\ Plain(x, state).status = "none" /\ Plain(x, state).metadata = x.metadata
           /\ Plain(x, state).direction = x.direction
<1>1. 0 \in 0..MaxAttempt /\ "none" \in Statuses \cup {"none"} /\ 0 \in Nat
  BY MaxAttemptAssumption
<1> QED BY <1>1 DEF Plain, Machines

\* An accepted machine carries its offset.
LEMMA AcceptedFacts ==
    ASSUME NEW x \in Machines, NEW n \in Nat
    PROVE  /\ Accepted(x, n) \in Machines /\ Accepted(x, n).state = "Accepted"
           /\ Accepted(x, n).offset = n /\ Accepted(x, n).attempt = 0
           /\ Accepted(x, n).status = "none" /\ Accepted(x, n).metadata = x.metadata
           /\ Accepted(x, n).direction = x.direction
<1>1. "Accepted" \in States
  BY DEF States
<1>2. /\ Plain(x, "Accepted") \in Machines /\ Plain(x, "Accepted").state = "Accepted"
      /\ Plain(x, "Accepted").attempt = 0 /\ Plain(x, "Accepted").status = "none"
      /\ Plain(x, "Accepted").metadata = x.metadata
      /\ Plain(x, "Accepted").direction = x.direction
  BY <1>1, PlainFacts
<1> QED BY <1>2 DEF Accepted, Machines

\* A machine with a worker carries its attempt.
LEMMA OwnedFacts ==
    ASSUME NEW x \in Machines, NEW state \in States, NEW a \in 0..MaxAttempt
    PROVE  /\ Owned(x, state, a) \in Machines /\ Owned(x, state, a).state = state
           /\ Owned(x, state, a).offset = 0 /\ Owned(x, state, a).attempt = a
           /\ Owned(x, state, a).status = "none" /\ Owned(x, state, a).metadata = x.metadata
           /\ Owned(x, state, a).direction = x.direction
BY PlainFacts DEF Owned, Machines

\* An ended machine carries its outcome.
LEMMA EndedFacts ==
    ASSUME NEW x \in Machines, NEW state \in States, NEW status \in Statuses
    PROVE  /\ Ended(x, state, status) \in Machines /\ Ended(x, state, status).state = state
           /\ Ended(x, state, status).offset = 0 /\ Ended(x, state, status).attempt = 0
           /\ Ended(x, state, status).status = status
           /\ Ended(x, state, status).metadata = x.metadata
           /\ Ended(x, state, status).direction = x.direction
BY PlainFacts, SMTT(30) DEF Ended, Machines

\* The kinds of states.
LEMMA StateFacts ==
    /\ Terminal \subseteq States /\ Active \subseteq States
    /\ Active = {"Sending", "Receiving", "Completing", "WaitingForTerminal"}
    /\ Terminal = {"TerminalAwaitingAck", "Settled"}
    /\ {"Queued", "Offered", "PendingOffer", "Accepted", "Paused"} \subseteq States
    /\ "none" \notin States /\ "none" \notin Statuses /\ NoTransfer.state = "none"
BY DEF States, Active, Terminal, NoTransfer, Statuses

\* The fields of a machine.
LEMMA MachineFacts ==
    ASSUME NEW x \in Machines
    PROVE  /\ x # NoTransfer /\ x.state \in States /\ Len(x.metadata) \in Nat
           /\ x.metadata \in Bytes /\ x.offset \in Nat
           /\ x.attempt \in 0..MaxAttempt /\ x.next \in 0..MaxAttempt
           /\ x.status \in Statuses \cup {"none"}
<1>1. /\ x.state \in States /\ x.metadata \in Bytes /\ x.offset \in Nat
      /\ x.attempt \in 0..MaxAttempt /\ x.next \in 0..MaxAttempt
      /\ x.status \in Statuses \cup {"none"}
  BY DEF Machines, Bytes
<1>2. Len(x.metadata) \in Nat
  BY <1>1, LenProperties DEF Bytes
<1>3. x # NoTransfer
  BY <1>1, StateFacts
<1> QED BY <1>1, <1>2, <1>3

\* A machine without a transition follows itself.
LEMMA FollowsSelf ==
    ASSUME NEW x, Sound(x)
    PROVE  Follows(x, x)
BY DEF Follows

\* Offers, acceptance and attempts.
LEMMA ProgressFacts ==
    ASSUME NEW x, Sound(x), NEW offset \in Nat, NEW header, NEW attempt
    PROVE  /\ \A y \in offer_sent(x) : Follows(x, y) /\ y.status = "none" /\ x.state \notin Terminal
           /\ \A y \in accept_received(x, offset) :
                 Follows(x, y) /\ y.status = "none" /\ x.state \notin Terminal
           /\ \A y \in acceptance_persisted(x, offset) :
                 /\ Follows(x, y) /\ y.status = "none" /\ y.state = "Accepted"
                 /\ x.state \in {"PendingOffer", "Paused", "Accepted"}
           /\ \A y \in start_send(x) :
                 Follows(x, y) /\ y.status = "none" /\ x.state = "Accepted"
           /\ \A y \in start_receive(x, header) :
                 /\ Follows(x, y) /\ y.status = "none" /\ x.state = "Accepted"
                 /\ y.state = "Receiving" /\ header.offset = x.offset
           /\ \A y \in send_finished(x, attempt) :
                 Follows(x, y) /\ y.status = "none" /\ x.state = "Sending"
           /\ \A y \in payload_verified(x, attempt) :
                 /\ Follows(x, y) /\ y.status = "none" /\ x.state = "Receiving"
                 /\ y.state = "Completing"
           /\ Follows(x, pause(x)) /\ pause(x).status = x.status
           /\ pause(x).state \in {"Paused", x.state}
           /\ pause(x).state # "Completing"
           /\ pause(x).state = "Paused" => x.state \notin Terminal \cup {"PendingOffer"}
<1>1. /\ x \in Machines /\ x.attempt \in 0..MaxAttempt /\ x.next \in 0..MaxAttempt
      /\ x.offset \in Nat /\ Len(x.metadata) \in Nat /\ x.state \in States
  BY MachineFacts DEF Sound
<1>2. \A y \in offer_sent(x) : Follows(x, y) /\ y.status = "none" /\ x.state \notin Terminal
  <2>1. /\ Plain(x, "Offered") \in Machines /\ Plain(x, "Offered").state = "Offered"
        /\ Plain(x, "Offered").offset = 0 /\ Plain(x, "Offered").attempt = 0
        /\ Plain(x, "Offered").status = "none" /\ Plain(x, "Offered").metadata = x.metadata
        /\ Plain(x, "Offered").direction = x.direction
    <3>1. "Offered" \in States
      BY StateFacts
    <3> QED BY <1>1, <3>1, PlainFacts
  <2> QED BY <1>1, <2>1, StateFacts DEF offer_sent, Ok, Follows, Sound
<1>3. \A y \in accept_received(x, offset) :
         Follows(x, y) /\ y.status = "none" /\ x.state \notin Terminal
  <2>1. /\ Accepted(x, offset) \in Machines /\ Accepted(x, offset).state = "Accepted"
        /\ Accepted(x, offset).offset = offset /\ Accepted(x, offset).attempt = 0
        /\ Accepted(x, offset).status = "none" /\ Accepted(x, offset).metadata = x.metadata
        /\ Accepted(x, offset).direction = x.direction
    BY <1>1, AcceptedFacts
  <2> QED BY <1>1, <2>1, StateFacts DEF accept_received, Ok, Follows, Sound, check_offset, byte_len
<1>4. \A y \in acceptance_persisted(x, offset) :
         /\ Follows(x, y) /\ y.status = "none" /\ y.state = "Accepted"
         /\ x.state \in {"PendingOffer", "Paused", "Accepted"}
  <2>1. /\ Accepted(x, offset) \in Machines /\ Accepted(x, offset).state = "Accepted"
        /\ Accepted(x, offset).offset = offset /\ Accepted(x, offset).attempt = 0
        /\ Accepted(x, offset).status = "none" /\ Accepted(x, offset).metadata = x.metadata
        /\ Accepted(x, offset).direction = x.direction
    BY <1>1, AcceptedFacts
  <2> QED BY <1>1, <2>1, StateFacts DEF acceptance_persisted, Ok, Follows, Sound, check_offset,
         byte_len
<1>5. ASSUME NEW state \in Active, NEW y \in Started(x, state), x.state = "Accepted"
      PROVE  Follows(x, y) /\ y.status = "none" /\ y.state = state
  <2>1. PICK a \in allocate_attempt(x) : y = [Owned(x, state, a) EXCEPT !.next = a]
    BY <1>5 DEF Started
  <2>2. a \in 0..MaxAttempt /\ a # 0
    BY <1>1, <2>1, MaxAttemptAssumption DEF allocate_attempt, Ok
  <2>3. /\ Owned(x, state, a) \in Machines /\ Owned(x, state, a).state = state
        /\ Owned(x, state, a).offset = 0 /\ Owned(x, state, a).attempt = a
        /\ Owned(x, state, a).status = "none" /\ Owned(x, state, a).metadata = x.metadata
        /\ Owned(x, state, a).direction = x.direction
    <3>1. state \in States
      BY StateFacts
    <3> QED BY <1>1, <2>2, <3>1, OwnedFacts
  <2>4. /\ y \in Machines /\ y.state = state /\ y.offset = 0 /\ y.attempt = a
        /\ y.status = "none" /\ y.metadata = x.metadata /\ y.direction = x.direction
    BY <2>1, <2>2, <2>3 DEF Machines
  <2> QED BY <1>1, <1>5, <2>2, <2>4, StateFacts DEF Follows, Sound
<1>6. \A y \in start_send(x) : Follows(x, y) /\ y.status = "none" /\ x.state = "Accepted"
  BY <1>5, StateFacts DEF start_send
<1>7. \A y \in start_receive(x, header) :
         /\ Follows(x, y) /\ y.status = "none" /\ x.state = "Accepted"
         /\ y.state = "Receiving" /\ header.offset = x.offset
  BY <1>5, StateFacts DEF start_receive
<1>8. \A y \in send_finished(x, attempt) :
         Follows(x, y) /\ y.status = "none" /\ x.state = "Sending"
  <2>1. /\ Owned(x, "WaitingForTerminal", x.attempt) \in Machines /\ Owned(x, "WaitingForTerminal", x.attempt).state = "WaitingForTerminal"
        /\ Owned(x, "WaitingForTerminal", x.attempt).offset = 0 /\ Owned(x, "WaitingForTerminal", x.attempt).attempt = x.attempt
        /\ Owned(x, "WaitingForTerminal", x.attempt).status = "none" /\ Owned(x, "WaitingForTerminal", x.attempt).metadata = x.metadata
        /\ Owned(x, "WaitingForTerminal", x.attempt).direction = x.direction
    <3>1. "WaitingForTerminal" \in States
      BY StateFacts
    <3> QED BY <1>1, <3>1, OwnedFacts
  <2> QED BY <1>1, <2>1, StateFacts DEF send_finished, Ok, Follows, Sound
<1>9. \A y \in payload_verified(x, attempt) :
         /\ Follows(x, y) /\ y.status = "none" /\ x.state = "Receiving"
         /\ y.state = "Completing"
  <2>1. /\ Owned(x, "Completing", x.attempt) \in Machines /\ Owned(x, "Completing", x.attempt).state = "Completing"
        /\ Owned(x, "Completing", x.attempt).offset = 0 /\ Owned(x, "Completing", x.attempt).attempt = x.attempt
        /\ Owned(x, "Completing", x.attempt).status = "none" /\ Owned(x, "Completing", x.attempt).metadata = x.metadata
        /\ Owned(x, "Completing", x.attempt).direction = x.direction
    <3>1. "Completing" \in States
      BY StateFacts
    <3> QED BY <1>1, <3>1, OwnedFacts
  <2> QED BY <1>1, <2>1, StateFacts DEF payload_verified, Ok, Follows, Sound
<1>10. /\ Follows(x, pause(x)) /\ pause(x).status = x.status
       /\ pause(x).state \in {"Paused", x.state}
       /\ pause(x).state # "Completing"
       /\ pause(x).state = "Paused" => x.state \notin Terminal \cup {"PendingOffer"}
  <2>1. /\ Plain(x, "Paused") \in Machines /\ Plain(x, "Paused").state = "Paused"
        /\ Plain(x, "Paused").offset = 0 /\ Plain(x, "Paused").attempt = 0
        /\ Plain(x, "Paused").status = "none" /\ Plain(x, "Paused").metadata = x.metadata
        /\ Plain(x, "Paused").direction = x.direction
    <3>1. "Paused" \in States
      BY StateFacts
    <3> QED BY <1>1, <3>1, PlainFacts
  <2> QED BY <1>1, <2>1, StateFacts DEF pause, Follows, Sound
<1> QED BY <1>2, <1>3, <1>4, <1>6, <1>7, <1>8, <1>9, <1>10

\* Outcomes: a machine that has one keeps it.
LEMMA OutcomeFacts ==
    ASSUME NEW x, Sound(x), NEW status \in Statuses, NEW attempt \in 0..MaxAttempt
    PROVE  /\ \A y \in terminal_persisted(x, status, attempt) :
                 /\ Follows(x, y) /\ y.state \in Terminal /\ y.status = status
                 /\ x.state \in Terminal => y = x
                 /\ x.state \notin Terminal /\ status = "Completed" =>
                       x.direction = "Incoming" /\ x.state = "Completing"
                 /\ x.state \notin Terminal /\ status = "Rejected" =>
                       x.direction = "Incoming" /\ x.state = "PendingOffer"
           /\ \A y \in peer_terminal_persisted(x, status) :
                 /\ Follows(x, y) /\ y.state \in Terminal
                 /\ x.state \in Terminal => y = x
                 /\ x.state \notin Terminal => y.status = status
                 /\ x.state \notin Terminal /\ status \in {"Completed", "Rejected"} =>
                       x.direction = "Outgoing"
           /\ \A y \in terminal_ack_received(x) :
                 Follows(x, y) /\ x.state \in Terminal /\ y.status = x.status /\ y.state \in Terminal
<1> USE StateFacts
<1>1. x \in Machines /\ Len(x.metadata) \in Nat /\ x.status \in Statuses \cup {"none"}
  BY MachineFacts DEF Sound
<1>2. \A st \in Terminal, r \in Statuses :
         /\ Ended(x, st, r) \in Machines /\ Ended(x, st, r).state = st
         /\ Ended(x, st, r).offset = 0 /\ Ended(x, st, r).attempt = 0
         /\ Ended(x, st, r).status = r /\ Ended(x, st, r).metadata = x.metadata
         /\ Ended(x, st, r).direction = x.direction
  <2>1. Terminal \subseteq States
    BY StateFacts
  <2> HIDE StateFacts
  <2> QED BY <1>1, <2>1, EndedFacts
<1>3. \A st \in Terminal, r \in Statuses :
         (x.state \in Terminal => r = x.status) => Follows(x, Ended(x, st, r))
  BY <1>1, <1>2 DEF Follows, Sound
<1>4. Follows(x, x)
  BY FollowsSelf
<1>5. \A y \in terminal_persisted(x, status, attempt) :
         /\ Follows(x, y) /\ y.state \in Terminal /\ y.status = status
         /\ x.state \in Terminal => y = x
         /\ x.state \notin Terminal /\ status = "Completed" =>
               x.direction = "Incoming" /\ x.state = "Completing"
         /\ x.state \notin Terminal /\ status = "Rejected" =>
               x.direction = "Incoming" /\ x.state = "PendingOffer"
  BY <1>2, <1>3, <1>4 DEF terminal_persisted, Ok
<1>6. \A y \in peer_terminal_persisted(x, status) :
         /\ Follows(x, y) /\ y.state \in Terminal
         /\ x.state \in Terminal => y = x
         /\ x.state \notin Terminal => y.status = status
         /\ x.state \notin Terminal /\ status \in {"Completed", "Rejected"} =>
               x.direction = "Outgoing"
  BY <1>2, <1>3, <1>4 DEF peer_terminal_persisted, Ok
<1>7. \A y \in terminal_ack_received(x) :
         Follows(x, y) /\ x.state \in Terminal /\ y.status = x.status /\ y.state \in Terminal
  <2>1. x.state \in Terminal => x.status \in Statuses
    BY <1>1 DEF Sound
  <2> QED BY <1>2, <1>3, <2>1 DEF terminal_ack_received, Ok
<1> QED BY <1>5, <1>6, <1>7

\* A new machine.
LEMMA NewFacts ==
    ASSUME NEW d \in Directions, NEW m \in Bytes
    PROVE  /\ Sound(new(d, m)) /\ new(d, m).direction = d /\ new(d, m).metadata = m
           /\ new(d, m).state = IF d = "Outgoing" THEN "Queued" ELSE "PendingOffer"
           /\ new(d, m).status = "none"
<1>1. Len(m) \in Nat /\ 0 \in 0..MaxAttempt
  BY LenProperties, MaxAttemptAssumption DEF Bytes
<1>2. new(d, m) \in Machines
  BY <1>1, StateFacts DEF new, Machines, Bytes
<1> QED BY <1>1, <1>2, StateFacts DEF new, Sound

-----------------------------------------------------------------------------
(* Messages, markers and workers *)

\* The other side of a side.
LEMMA SideFacts ==
    /\ Sides = {"sender", "receiver"} /\ Other("sender") = "receiver" /\ Other("receiver") = "sender"
    /\ \A s \in Sides : Other(s) \in Sides /\ Other(s) # s /\ Sides = {s, Other(s)}
BY DEF Sides, Other

\* A queue grows by the message that is sent.
LEMMA AppendMail ==
    ASSUME NEW q \in Seq(Messages), NEW m \in Messages
    PROVE  Append(q, m) \in Seq(Messages) /\ Mail(Append(q, m)) \subseteq Mail(q) \cup {m}
<1>1. /\ Append(q, m) \in Seq(Messages) /\ Len(Append(q, m)) = Len(q) + 1 /\ Len(q) \in Nat
      /\ Append(q, m)[Len(q) + 1] = m /\ \A i \in 1 .. Len(q) : Append(q, m)[i] = q[i]
  BY AppendProperties, LenProperties
<1>2. ASSUME NEW i \in 1 .. Len(Append(q, m)) PROVE Append(q, m)[i] \in Mail(q) \cup {m}
  <2>1. CASE i = Len(q) + 1
    BY <1>1, <2>1
  <2>2. CASE i \in 1 .. Len(q)
    BY <1>1, <2>2 DEF Mail
  <2> QED BY <1>1, <2>1, <2>2
<1> QED BY <1>1, <1>2 DEF Mail

\* A queue loses the message that is read.
LEMMA TailMail ==
    ASSUME NEW q \in Seq(Messages), q # <<>>
    PROVE  /\ Tail(q) \in Seq(Messages) /\ Mail(Tail(q)) \subseteq Mail(q)
           /\ Head(q) \in Mail(q) /\ Head(q) \in Messages
<1>1. Len(q) \in Nat /\ Len(q) # 0
  BY LenProperties, EmptySeq
<1>2. /\ Tail(q) \in Seq(Messages) /\ Len(Tail(q)) = Len(q) - 1 /\ Head(q) = q[1]
      /\ Head(q) \in Messages /\ \A i \in 1 .. Len(Tail(q)) : Tail(q)[i] = q[i + 1]
  BY HeadTailProperties
<1>3. ASSUME NEW i \in 1 .. Len(Tail(q)) PROVE Tail(q)[i] \in Mail(q)
  <2>1. i + 1 \in 1 .. Len(q)
    BY <1>1, <1>2
  <2> QED BY <1>2, <2>1 DEF Mail
<1>4. Head(q) \in Mail(q)
  BY <1>1, <1>2 DEF Mail
<1> QED BY <1>2, <1>3, <1>4 DEF Mail

\* An empty queue, and a queue of one message.
LEMMA ShortMail ==
    ASSUME NEW m \in Messages
    PROVE  /\ <<>> \in Seq(Messages) /\ Mail(<<>>) = {}
           /\ <<m>> \in Seq(Messages) /\ Mail(<<m>>) = {m}
<1>1. <<>> \in Seq(Messages) /\ Len(<<>>) = 0
  BY EmptySeq
<1>2. Mail(<<>>) = {}
  BY <1>1 DEF Mail
<1>3. <<m>> \in Seq(Messages) /\ Len(<<m>>) = 1 /\ <<m>>[1] = m
  OBVIOUS
<1>4. Mail(<<m>>) = {m}
  BY <1>3 DEF Mail
<1> QED BY <1>1, <1>2, <1>3, <1>4

\* Messages are of the kinds that the protocol has.
LEMMA MessageFacts ==
    /\ \A st \in Statuses : [kind |-> "Terminal", status |-> st] \in Messages
    /\ \A n \in Nat : [kind |-> "Accept", offset |-> n] \in Messages
    /\ \A b \in Bytes : [kind |-> "Offer", metadata |-> b] \in Messages
    /\ [kind |-> "TerminalAck"] \in Messages
    /\ \A m \in Messages : /\ m.kind = "Terminal" => m.status \in Statuses
                           /\ m.kind = "Accept" => m.offset \in Nat
                           /\ m.kind = "Offer" => m.metadata \in Bytes
BY DEF Messages

\* What a side posts reaches the other side, if the session is up.
LEMMA PostFacts ==
    ASSUME ShapeInv, NEW s \in Sides, NEW m \in Messages
    PROVE  /\ Post(s, m) \in [Sides -> Seq(Messages)]
           /\ \A t \in Sides : Mail(Post(s, m)[t]) \subseteq
                                  Mail(inbox[t]) \cup IF t = Other(s) THEN {m} ELSE {}
<1>1. inbox \in [Sides -> Seq(Messages)]
  BY DEF ShapeInv
<1>2. CASE session
  <2>1. Post(s, m) = [inbox EXCEPT ![Other(s)] = Append(@, m)]
    BY <1>2 DEF Post
  <2>2. /\ Append(inbox[Other(s)], m) \in Seq(Messages)
        /\ Mail(Append(inbox[Other(s)], m)) \subseteq Mail(inbox[Other(s)]) \cup {m}
    BY <1>1, SideFacts, AppendMail
  <2> QED BY <1>1, <2>1, <2>2, SideFacts
<1>3. CASE ~session
  BY <1>1, <1>3 DEF Post
<1> QED BY <1>2, <1>3

\* A side reads its first message, and may answer it.
LEMMA RestFacts ==
    ASSUME ShapeInv, NEW s \in Sides, inbox[s] # <<>>
    PROVE  /\ Rest(s) \in [Sides -> Seq(Messages)]
           /\ \A t \in Sides : Mail(Rest(s)[t]) \subseteq Mail(inbox[t])
           /\ Head(inbox[s]) \in Messages /\ Head(inbox[s]) \in Mail(inbox[s])
<1>1. inbox \in [Sides -> Seq(Messages)]
  BY DEF ShapeInv
<1>2. /\ Tail(inbox[s]) \in Seq(Messages) /\ Mail(Tail(inbox[s])) \subseteq Mail(inbox[s])
      /\ Head(inbox[s]) \in Mail(inbox[s]) /\ Head(inbox[s]) \in Messages
  BY <1>1, TailMail
<1> QED BY <1>1, <1>2 DEF Rest

\* The answer is behind everything that was under way.
LEMMA AnswerFacts ==
    ASSUME ShapeInv, NEW s \in Sides, NEW m \in Messages, inbox[s] # <<>>, Answer(s, m)
    PROVE  /\ inbox' \in [Sides -> Seq(Messages)]
           /\ \A t \in Sides : Mail(inbox'[t]) \subseteq
                                  Mail(inbox[t]) \cup IF t = Other(s) THEN {m} ELSE {}
<1>1. /\ Rest(s) \in [Sides -> Seq(Messages)]
      /\ \A t \in Sides : Mail(Rest(s)[t]) \subseteq Mail(inbox[t])
  BY RestFacts
<1> DEFINE r == Rest(s)
<1>2. inbox' = [r EXCEPT ![Other(s)] = Append(@, m)]
  BY DEF Answer
<1> HIDE DEF r
<1>3. r \in [Sides -> Seq(Messages)] /\ \A t \in Sides : Mail(r[t]) \subseteq Mail(inbox[t])
  BY <1>1 DEF r
<1>4. /\ Append(r[Other(s)], m) \in Seq(Messages)
      /\ Mail(Append(r[Other(s)], m)) \subseteq Mail(r[Other(s)]) \cup {m}
  BY <1>3, SideFacts, AppendMail
<1> QED BY <1>2, <1>3, <1>4, SideFacts

\* A side that has begun has a machine.
LEMMA KnownFacts ==
    ASSUME IInv, NEW s \in Sides
    PROVE  /\ xfer[s] \in Machines \cup {NoTransfer}
           /\ Known(s) => xfer[s] \in Machines /\ Sound(xfer[s]) /\ xfer[s].direction = DirectionOf(s)
           /\ ~Known(s) => xfer[s] = NoTransfer /\ xfer[s].state = "none"
           /\ xfer[s].state \in States => Known(s)
           /\ HasEnded(s) => Known(s)
<1>1. xfer[s] \in Machines \cup {NoTransfer}
  BY DEF IInv, ShapeInv
<1>2. /\ Known(s) => Sound(xfer[s]) /\ xfer[s].direction = DirectionOf(s)
      /\ ~Known(s) => xfer[s] = NoTransfer
  BY DEF IInv, MachineInv, Known
<1> QED BY <1>1, <1>2, StateFacts DEF HasEnded, Known

\* No message becomes wrong while it is under way.
LEMMA FitsStays ==
    ASSUME IInv, NEW s \in Sides, NEW m, Fits(s, m),
           \A t \in Sides : Known(t) => Follows(xfer[t], xfer'[t])
    PROVE  Fits(s, m)'
<1>1. "sender" \in Sides /\ Other(s) \in Sides
  BY SideFacts
<1>2. ASSUME NEW t \in Sides, Known(t)
      PROVE  Known(t)' /\ Follows(xfer[t], xfer'[t])
  <2>1. Follows(xfer[t], xfer'[t]) /\ xfer'[t] \in Machines
    BY <1>2 DEF Follows, Sound
  <2> QED BY <2>1, MachineFacts DEF Known
<1>3. HasEnded(Other(s)) => Known(Other(s))
  BY <1>1, KnownFacts
<1>4. m.kind = "Offer" => s = "receiver" /\ Known("sender")' /\ m.metadata = Sender.metadata'
  BY <1>1, <1>2 DEF Fits, Sender, Follows
<1>5. m.kind = "Accept" => Known("sender")'
  BY <1>1, <1>2 DEF Fits
<1>6. m.kind = "Terminal" => HasEnded(Other(s))' /\ m.status = xfer'[Other(s)].status
  BY <1>1, <1>2, <1>3 DEF Fits, Follows, HasEnded
<1> QED BY <1>4, <1>5, <1>6 DEF Fits

\* The parts of the invariant that hold whenever the machines follow themselves.
LEMMA Assemble ==
    ASSUME IInv, ShapeInv',
           \A t \in Sides : Known(t) => Follows(xfer[t], xfer'[t]),
           \A t \in Sides : ~Known(t) => xfer'[t] = xfer[t],
           (SendWorker.step = "prepare")' = (SendWorker.step = "prepare"),
           \A t \in Sides : \A m \in Mail(inbox'[t]) : m \in Mail(inbox[t]) \/ Fits(t, m)',
           MarkerInv', WorkerInv', FileInv'
    PROVE  IInv'
<1>1. \A t \in Sides : Known(t)' = Known(t)
  <2>1. ASSUME NEW t \in Sides, Known(t) PROVE Known(t)'
    <3>1. xfer'[t] \in Machines
      BY <2>1 DEF Follows, Sound
    <3> QED BY <3>1, MachineFacts DEF Known
  <2>2. ASSUME NEW t \in Sides, ~Known(t) PROVE ~Known(t)'
    BY <2>2 DEF Known
  <2>3. \A t \in Sides : Known(t) \in BOOLEAN /\ Known(t)' \in BOOLEAN
    BY DEF Known
  <2> QED BY <2>1, <2>2, <2>3
<1>2. MachineInv'
  <2>1. \A t \in Sides : Known(t)' => Sound(xfer'[t]) /\ xfer'[t].direction = DirectionOf(t)
    BY <1>1 DEF IInv, MachineInv, Follows
  <2>2. Known("receiver")' => Known("sender")' /\ Receiver.metadata' = Sender.metadata'
    BY <1>1, SideFacts DEF IInv, MachineInv, Follows, Sender, Receiver
  <2>3. Known("sender")' = (SendWorker.step # "prepare")'
    BY <1>1, SideFacts DEF IInv, MachineInv
  <2> QED BY <2>1, <2>2, <2>3 DEF MachineInv, Sound, DirectionOf
<1>3. InboxInv'
  <2> SUFFICES ASSUME NEW t \in Sides, NEW m \in Mail(inbox'[t]) PROVE Fits(t, m)'
    BY DEF InboxInv, Mail
  <2>1. CASE m \in Mail(inbox[t])
    <3>1. Fits(t, m)
      BY <2>1 DEF IInv, InboxInv
    <3> QED BY <3>1, FitsStays
  <2>2. CASE Fits(t, m)'
    BY <2>2
  <2> QED BY <2>1, <2>2
<1> QED BY <1>2, <1>3 DEF IInv

\* A worker that is told to stop is otherwise the same.
LEMMA CancelledFacts ==
    ASSUME ShapeInv, NEW s \in Sides
    PROVE  /\ Cancelled(s) \in [Sides -> Workers \cup {NoWorker}]
           /\ \A t \in Sides : t # s => Cancelled(s)[t] = worker[t]
           /\ (Cancelled(s)[s] = NoWorker) = (worker[s] = NoWorker)
           /\ Cancelled(s)[s].step = worker[s].step
           /\ worker[s] # NoWorker =>
                 /\ Cancelled(s)[s].hashed = worker[s].hashed
                 /\ Cancelled(s)[s].offset = worker[s].offset
                 /\ Cancelled(s)[s].result = worker[s].result
<1>1. worker \in [Sides -> Workers \cup {NoWorker}]
  BY DEF ShapeInv
<1>2. CASE worker[s] = NoWorker
  BY <1>1, <1>2 DEF Cancelled
<1>3. CASE worker[s] # NoWorker
  <2>1. Cancelled(s) = [worker EXCEPT ![s] = [worker[s] EXCEPT !.cancelled = TRUE]]
    BY <1>1, <1>3 DEF Cancelled
  <2>2. worker[s] \in Workers
    BY <1>1, <1>3
  <2> DEFINE w == [worker[s] EXCEPT !.cancelled = TRUE]
  <2>3. /\ w \in Workers /\ w.step = worker[s].step /\ w.hashed = worker[s].hashed
        /\ w.offset = worker[s].offset /\ w.result = worker[s].result
    BY <2>2 DEF Workers
  <2>4. w.step # "none" /\ NoWorker.step = "none"
    BY <2>3 DEF Workers, NoWorker
  <2> HIDE DEF w
  <2>5. Cancelled(s)[s] = w /\ Cancelled(s) = [worker EXCEPT ![s] = w]
    BY <1>1, <2>1 DEF w
  <2> QED BY <1>1, <1>3, <2>3, <2>4, <2>5
<1> QED BY <1>2, <1>3

\* A stream that is reset is otherwise the same.
LEMMA ResetFacts ==
    ASSUME ShapeInv
    PROVE  Reset \in Streams \cup {NoStream}
<1>1. CASE stream = NoStream
  BY <1>1 DEF Reset, NoStream
<1>2. CASE stream \in Streams
  BY <1>2 DEF Reset, Streams
<1> QED BY <1>1, <1>2 DEF ShapeInv

\* The marker of an outcome is written once.
LEMMA MarkedFacts ==
    ASSUME ShapeInv, NEW s \in Sides, NEW status \in Statuses, NEW origin \in {"Local", "Peer"}
    PROVE  /\ Marked(s, status, origin) \in [Sides -> Markers]
           /\ \A t \in Sides : t # s => Marked(s, status, origin)[t] = markers[t]
           /\ Marked(s, status, origin)[s].accepted = markers[s].accepted
           /\ HasEnded(s) => Marked(s, status, origin)[s] = markers[s]
           /\ ~HasEnded(s) => /\ Marked(s, status, origin)[s].terminal.status = status
                              /\ Marked(s, status, origin)[s].terminal.origin = origin
<1>1. markers \in [Sides -> Markers]
  BY DEF ShapeInv
<1>2. CASE HasEnded(s)
  BY <1>1, <1>2 DEF Marked
<1>3. CASE ~HasEnded(s)
  <2> DEFINE m == [markers[s] EXCEPT !.terminal = [status |-> status, origin |-> origin]]
  <2>1. Marked(s, status, origin) = [markers EXCEPT ![s] = m]
    BY <1>1, <1>3 DEF Marked
  <2>2. /\ m \in Markers /\ m.accepted = markers[s].accepted
        /\ m.terminal.status = status /\ m.terminal.origin = origin
    BY <1>1 DEF Markers
  <2> HIDE DEF m
  <2> QED BY <1>1, <1>3, <2>1, <2>2
<1> QED BY <1>2, <1>3

\* Markers that stay, while no outcome is reached and no offer is decided.
LEMMA MarkersKept ==
    ASSUME IInv, markers' = markers,
           \A t \in Sides : Known(t) => Follows(xfer[t], xfer'[t]) /\ xfer'[t].status = xfer[t].status,
           \A t \in Sides : ~Known(t) => xfer'[t] = xfer[t],
           Known("receiver") =>
              (Receiver.state = "PendingOffer")' = (Receiver.state = "PendingOffer")
    PROVE  MarkerInv'
<1>1. \A t \in Sides : Known(t)' => Known(t)
  BY DEF Known
<1>2. Known("receiver") /\ HasEnded("receiver") => HasEnded("receiver")'
  BY SideFacts DEF HasEnded, Follows
<1>3. \A t \in Sides : ~Known(t)' => ~Known(t)
  <2>1. ASSUME NEW t \in Sides, Known(t) PROVE Known(t)'
    <3>1. xfer'[t] \in Machines
      BY <2>1 DEF Follows, Sound
    <3> QED BY <3>1, MachineFacts DEF Known
  <2> QED BY <2>1
<1>4. /\ \A t \in Sides : ~Known(t)' => markers'[t] = Unaccepted
      /\ \A t \in Sides : Known(t)' => markers'[t].terminal.status = xfer'[t].status
  BY <1>1, <1>3 DEF IInv, MarkerInv
<1>5. Known("receiver")' /\ ~HasEnded("receiver")' =>
         (markers'["receiver"].accepted = (Receiver.state # "PendingOffer")')
  BY <1>1, <1>2, SideFacts DEF IInv, MarkerInv
<1> QED BY <1>4, <1>5 DEF IInv, MarkerInv

\* The marker of an outcome, written with the transition it stands for.
LEMMA MarkersEnd ==
    ASSUME IInv, NEW s \in Sides, Known(s), NEW status \in Statuses, NEW origin \in {"Local", "Peer"},
           markers' = Marked(s, status, origin),
           Follows(xfer[s], xfer'[s]), xfer'[Other(s)] = xfer[Other(s)], HasEnded(s)',
           ~HasEnded(s) => xfer'[s].status = status,
           ~HasEnded(s) /\ status \in {"Completed", "Rejected"} => (s = "receiver") = (origin = "Local"),
           ~HasEnded(s) /\ s = "receiver" /\ status = "Completed" => Receiver.state = "Completing",
           ~HasEnded(s) /\ s = "receiver" /\ status = "Rejected" => Receiver.state = "PendingOffer"
    PROVE  MarkerInv'
<1> USE SideFacts
<1> DEFINE o == Other(s)
<1>1. /\ markers'[o] = markers[o] /\ markers'[s].accepted = markers[s].accepted
      /\ HasEnded(s) => markers'[s] = markers[s]
      /\ ~HasEnded(s) => markers'[s].terminal.status = status /\ markers'[s].terminal.origin = origin
  BY MarkedFacts DEF IInv
<1>2. Known(s)' /\ Known(o)' = Known(o)
  <2>1. xfer'[s] \in Machines
    BY DEF Follows, Sound
  <2> QED BY <2>1, MachineFacts DEF Known
<1>3. HasEnded(s) => xfer'[s].status = xfer[s].status
  BY DEF HasEnded, Follows
<1>4. \A t \in Sides : ~Known(t)' => markers'[t] = Unaccepted
  BY <1>1, <1>2 DEF IInv, MarkerInv
<1>5. \A t \in Sides : Known(t)' => markers'[t].terminal.status = xfer'[t].status
  BY <1>1, <1>2, <1>3 DEF IInv, MarkerInv
<1>6. CASE s = "sender"
  <2>1. /\ markers'["receiver"] = markers["receiver"] /\ Known("receiver")' = Known("receiver")
        /\ xfer'["receiver"] = xfer["receiver"]
    BY <1>1, <1>2, <1>6
  <2>2. Known("receiver")' /\ ~HasEnded("receiver")' =>
           (markers'["receiver"].accepted = (Receiver.state # "PendingOffer")')
    BY <2>1 DEF IInv, MarkerInv, HasEnded, Receiver
  <2>3. /\ markers'["sender"].accepted = FALSE
        /\ markers'["sender"].terminal.status \in {"Completed", "Rejected"} =>
              markers'["sender"].terminal.origin # "Local"
    BY <1>1, <1>6 DEF IInv, MarkerInv
  <2> QED BY <1>4, <1>5, <2>1, <2>2, <2>3 DEF IInv, MarkerInv
<1>7. CASE s = "receiver"
  <2>1. markers'["sender"] = markers["sender"]
    BY <1>1, <1>7
  <2>2. HasEnded("receiver")'
    BY <1>7
  <2>3. ~HasEnded("receiver") =>
           (markers["receiver"].accepted = (Receiver.state # "PendingOffer"))
    BY <1>7 DEF IInv, MarkerInv
  <2>4. /\ markers'["receiver"].terminal.status \in {"Completed", "Rejected"} =>
              markers'["receiver"].terminal.origin = "Local"
        /\ markers'["receiver"].terminal.status = "Completed" => markers'["receiver"].accepted
        /\ markers'["receiver"].terminal.status = "Rejected" => ~markers'["receiver"].accepted
    <3>1. CASE HasEnded(s)
      BY <1>1, <1>7, <3>1 DEF IInv, MarkerInv
    <3>2. CASE ~HasEnded(s)
      BY <1>1, <1>7, <2>3, <3>2
    <3> QED BY <3>1, <3>2
  <2> QED BY <1>4, <1>5, <2>1, <2>2, <2>4 DEF IInv, MarkerInv
<1> QED BY <1>6, <1>7

\* A step that leaves the receiver's machine, worker, marker and files alone.
LEMMA ReceiverUntouched ==
    ASSUME IInv, xfer'["receiver"] = xfer["receiver"], worker'["receiver"] = worker["receiver"],
           markers'["receiver"] = markers["receiver"], staging' = staging, output' = output,
           Finished("sender")' => Finished("receiver")
    PROVE  WorkerInv' /\ FileInv'
<1>1. Receiver' = Receiver /\ ReceiveWorker' = ReceiveWorker
  BY DEF Receiver, ReceiveWorker
<1>2. /\ Known("receiver")' = Known("receiver") /\ Finished("receiver")' = Finished("receiver")
      /\ HasEnded("receiver")' = HasEnded("receiver")
  BY DEF Known, Finished, HasEnded
<1>3. Hashes(ReceiveWorker)' = Hashes(ReceiveWorker)
  BY <1>1 DEF Hashes
<1>4. WorkerInv'
  BY <1>1, <1>2, <1>3 DEF IInv, WorkerInv
<1>5. FileInv'
  BY <1>1, <1>2 DEF IInv, FileInv
<1> QED BY <1>4, <1>5
-----------------------------------------------------------------------------
(* Workers, and steps that end a transfer *)

\* A new worker.
LEMMA WorkerFacts ==
    ASSUME NEW a \in 0..MaxAttempt, NEW o \in Nat,
           NEW step \in {"prepare", "hash", "seek", "copy", "joinable"}
    PROVE  /\ Worker(a, o, step) \in Workers /\ Worker(a, o, step).step = step
           /\ Worker(a, o, step).offset = o /\ Worker(a, o, step).hashed = <<>>
<1>1. <<>> \in Bytes
  BY EmptySeq DEF Bytes
<1> QED BY <1>1 DEF Worker, Workers, Results

\* A worker is not the absence of one.
LEMMA WorkerKinds ==
    ASSUME ShapeInv, NEW s \in Sides
    PROVE  /\ worker[s].step # "none" => worker[s] \in Workers
           /\ worker[s] # NoWorker => worker[s] \in Workers
           /\ worker[s] \in Workers => /\ worker[s].step # "none" /\ worker[s] # NoWorker
                                       /\ worker[s].hashed \in Bytes /\ worker[s].offset \in Nat
                                       /\ Len(worker[s].hashed) \in Nat
                                       /\ worker[s].attempt \in 0..MaxAttempt
                                       /\ worker[s].result \in Results
           /\ NoWorker.step = "none"
<1>1. worker[s] \in Workers \cup {NoWorker}
  BY DEF ShapeInv
<1>2. NoWorker.step = "none"
  BY DEF NoWorker
<1>3. worker[s] \in Workers => /\ worker[s].step # "none" /\ worker[s].hashed \in Bytes
                               /\ worker[s].offset \in Nat /\ worker[s].attempt \in 0..MaxAttempt
                               /\ worker[s].result \in Results
  BY DEF Workers
<1>4. worker[s] \in Workers => Len(worker[s].hashed) \in Nat
  BY <1>3, LenProperties DEF Bytes
<1> QED BY <1>1, <1>2, <1>3, <1>4

\* A worker that returns.
LEMMA EndsFacts ==
    ASSUME NEW w \in Workers, NEW r \in Results
    PROVE  /\ Ends(w, r) \in Workers /\ Ends(w, r).step = "joinable" /\ Ends(w, r).result = r
           /\ Ends(w, r).offset = w.offset
<1>1. <<>> \in Bytes
  BY EmptySeq DEF Bytes
<1> QED BY <1>1 DEF Ends, Workers

\* A worker that has read one byte more.
LEMMA ReadFacts ==
    ASSUME NEW w \in Workers, NEW b \in {0, 1}, NEW v, v = [w EXCEPT !.hashed = Append(@, b)]
    PROVE  /\ v \in Workers /\ v.step = w.step /\ v.offset = w.offset
           /\ Len(v.hashed) = Len(w.hashed) + 1 /\ v.hashed[Len(w.hashed) + 1] = b
           /\ \A i \in 1 .. Len(w.hashed) : v.hashed[i] = w.hashed[i]
           /\ v.hashed \in Bytes
<1>1. w.hashed \in Bytes
  BY DEF Workers
<1>2. /\ Append(w.hashed, b) \in Bytes /\ Len(Append(w.hashed, b)) = Len(w.hashed) + 1
      /\ Append(w.hashed, b)[Len(w.hashed) + 1] = b
      /\ \A i \in 1 .. Len(w.hashed) : Append(w.hashed, b)[i] = w.hashed[i]
  BY <1>1, AppendProperties DEF Bytes
<1>3. v \in Workers /\ v.step = w.step /\ v.offset = w.offset /\ v.hashed = Append(w.hashed, b)
  BY <1>2 DEF Workers
<1> QED BY <1>2, <1>3

\* What ReadNext takes from a file that is long enough.
LEMMA ReadNextFacts ==
    ASSUME NEW w \in Workers, NEW f \in Bytes, Len(w.hashed) < Len(f)
    PROVE  /\ f[Len(w.hashed) + 1] \in {0, 1}
           /\ ReadNext(w, f) = [w EXCEPT !.hashed = Append(@, f[Len(w.hashed) + 1])]
<1>1. w.hashed \in Bytes
  BY DEF Workers
<1>2. Len(w.hashed) \in Nat /\ Len(f) \in Nat
  BY <1>1, LenProperties DEF Bytes
<1>3. Len(w.hashed) + 1 \in 1 .. Len(f)
  BY <1>2
<1>4. f[Len(w.hashed) + 1] \in {0, 1}
  BY <1>3, ElementOfSeq DEF Bytes
<1> QED BY <1>4 DEF ReadNext

\* A transfer that ends by a local decision: machine, marker and message agree.
LEMMA EndFacts ==
    ASSUME IInv, NEW s \in Sides, Known(s), NEW status \in Statuses, NEW attempt \in 0..MaxAttempt,
           EndLocally(s, status, attempt)
    PROVE  /\ xfer' \in [Sides -> Machines \cup {NoTransfer}]
           /\ xfer'[Other(s)] = xfer[Other(s)] /\ Follows(xfer[s], xfer'[s]) /\ HasEnded(s)'
           /\ xfer'[s].status = status /\ (HasEnded(s) => xfer'[s] = xfer[s])
           /\ markers' \in [Sides -> Markers] /\ markers'[Other(s)] = markers[Other(s)]
           /\ markers'[s].accepted = markers[s].accepted /\ MarkerInv'
           /\ inbox' \in [Sides -> Seq(Messages)]
           /\ \A t \in Sides : \A m \in Mail(inbox'[t]) : m \in Mail(inbox[t]) \/ Fits(t, m)'
           /\ ~HasEnded(s) /\ status = "Completed" => s = "receiver" /\ Receiver.state = "Completing"
           /\ ~HasEnded(s) /\ status = "Rejected" => s = "receiver" /\ Receiver.state = "PendingOffer"
<1>1. Sound(xfer[s]) /\ xfer[s].direction = DirectionOf(s) /\ ShapeInv
  BY KnownFacts DEF IInv
<1>2. PICK x \in terminal_persisted(xfer[s], status, attempt) :
         /\ Move(s, x) /\ markers' = Marked(s, status, "Local")
         /\ inbox' = IF HasEnded(s) THEN inbox
                     ELSE Post(s, [kind |-> "Terminal", status |-> status])
  BY DEF EndLocally
<1>3. /\ Follows(xfer[s], x) /\ x.state \in Terminal /\ x.status = status
      /\ xfer[s].state \in Terminal => x = xfer[s]
      /\ xfer[s].state \notin Terminal /\ status = "Completed" =>
            xfer[s].direction = "Incoming" /\ xfer[s].state = "Completing"
      /\ xfer[s].state \notin Terminal /\ status = "Rejected" =>
            xfer[s].direction = "Incoming" /\ xfer[s].state = "PendingOffer"
  BY <1>1, OutcomeFacts
<1>4. /\ xfer' \in [Sides -> Machines \cup {NoTransfer}] /\ xfer'[s] = x
      /\ xfer'[Other(s)] = xfer[Other(s)]
  BY <1>1, <1>2, <1>3, SideFacts DEF Move, ShapeInv, Follows, Sound
<1>5. s = "receiver" <=> DirectionOf(s) = "Incoming"
  BY SideFacts DEF DirectionOf
<1>6. HasEnded(s)' /\ (HasEnded(s) = (xfer[s].state \in Terminal))
  BY <1>3, <1>4 DEF HasEnded
<1>7. /\ ~HasEnded(s) /\ status = "Completed" => s = "receiver" /\ Receiver.state = "Completing"
      /\ ~HasEnded(s) /\ status = "Rejected" => s = "receiver" /\ Receiver.state = "PendingOffer"
  BY <1>1, <1>3, <1>5, <1>6 DEF Receiver
<1>8. /\ markers' \in [Sides -> Markers] /\ markers'[Other(s)] = markers[Other(s)]
      /\ markers'[s].accepted = markers[s].accepted
  BY <1>1, <1>2, SideFacts, MarkedFacts
<1>9. MarkerInv'
  BY <1>2, <1>3, <1>4, <1>6, <1>7, MarkersEnd
<1> DEFINE m0 == [kind |-> "Terminal", status |-> status]
<1>10. m0 \in Messages
  BY MessageFacts
<1>11. Fits(Other(s), m0)'
  <2>1. Other(Other(s)) = s
    BY SideFacts
  <2>2. m0.kind = "Terminal" /\ m0.status = status
    OBVIOUS
  <2> HIDE DEF m0
  <2> QED BY <1>3, <1>4, <1>6, <2>1, <2>2 DEF Fits
<1>12. /\ inbox' \in [Sides -> Seq(Messages)]
       /\ \A t \in Sides : \A m \in Mail(inbox'[t]) : m \in Mail(inbox[t]) \/ Fits(t, m)'
  <2>1. CASE HasEnded(s)
    BY <1>1, <1>2, <2>1 DEF ShapeInv
  <2>2. CASE ~HasEnded(s)
    <3>1. inbox' = Post(s, m0)
      BY <1>2, <2>2
    <3> HIDE DEF m0
    <3>2. /\ inbox' \in [Sides -> Seq(Messages)]
          /\ \A t \in Sides : Mail(inbox'[t]) \subseteq
                                 Mail(inbox[t]) \cup IF t = Other(s) THEN {m0} ELSE {}
      BY <1>1, <1>10, <3>1, PostFacts
    <3> QED BY <1>11, <3>2
  <2> QED BY <2>1, <2>2
<1> QED BY <1>3, <1>4, <1>6, <1>7, <1>8, <1>9, <1>12

\* A step of the sender that reaches no outcome.
LEMMA SenderMoves ==
    ASSUME IInv, ShapeInv',
           Known("sender") =>
               Follows(Sender, xfer'["sender"]) /\ xfer'["sender"].status = Sender.status,
           ~Known("sender") => xfer'["sender"] = xfer["sender"],
           xfer'["receiver"] = xfer["receiver"], worker'["receiver"] = worker["receiver"],
           (SendWorker.step = "prepare")' = (SendWorker.step = "prepare"),
           markers' = markers, staging' = staging, output' = output,
           \A t \in Sides : \A m \in Mail(inbox'[t]) : m \in Mail(inbox[t]) \/ Fits(t, m)'
    PROVE  IInv'
<1>1. \A t \in Sides : Known(t) => Sound(xfer[t])
  BY KnownFacts
<1>2. \A t \in Sides :
         /\ Known(t) => Follows(xfer[t], xfer'[t]) /\ xfer'[t].status = xfer[t].status
         /\ ~Known(t) => xfer'[t] = xfer[t]
  BY <1>1, SideFacts, FollowsSelf DEF Sender
<1>3. MarkerInv'
  BY <1>2, SideFacts, MarkersKept DEF Receiver
<1>4. Finished("sender")' => Finished("receiver")
  <2> SUFFICES ASSUME Finished("sender")' PROVE Finished("sender")
    BY DEF IInv, FileInv
  <2>1. Known("sender")
    BY <1>2, SideFacts, StateFacts DEF Finished, Known
  <2>2. Sender.status = "Completed" /\ Sound(Sender)
    BY <1>1, <1>2, <2>1, SideFacts DEF Finished, Sender
  <2> QED BY <2>2 DEF Sound, Finished, Sender
<1>5. WorkerInv' /\ FileInv'
  BY <1>4, ReceiverUntouched
<1> QED BY <1>2, <1>3, <1>5, Assemble
-----------------------------------------------------------------------------
(* The sender's steps *)

\* The queues, when they stay or lose a message.
LEMMA MailStays ==
    ASSUME ShapeInv, inbox' = inbox
    PROVE  /\ inbox' \in [Sides -> Seq(Messages)]
           /\ \A t \in Sides : \A m \in Mail(inbox'[t]) : m \in Mail(inbox[t]) \/ Fits(t, m)'
BY DEF ShapeInv

\* A message that is read.
LEMMA MailRead ==
    ASSUME ShapeInv, NEW s \in Sides, inbox[s] # <<>>, inbox' = Rest(s)
    PROVE  /\ inbox' \in [Sides -> Seq(Messages)]
           /\ \A t \in Sides : \A m \in Mail(inbox'[t]) : m \in Mail(inbox[t]) \/ Fits(t, m)'
BY RestFacts

\* The offer that the sender repeats is that of the source it has prepared.
LEMMA OfferFacts ==
    ASSUME IInv, Known("sender"), Send("sender", Offer), NEW y, xfer'["sender"] = y,
           Follows(Sender, y)
    PROVE  /\ inbox' \in [Sides -> Seq(Messages)]
           /\ \A t \in Sides : \A m \in Mail(inbox'[t]) : m \in Mail(inbox[t]) \/ Fits(t, m)'
<1>1. ShapeInv /\ Sender.metadata \in Bytes
  BY KnownFacts, SideFacts, MachineFacts DEF IInv, Sender
<1>2. Offer \in Messages /\ Offer.kind = "Offer" /\ Offer.metadata = Sender.metadata
  BY <1>1, MessageFacts DEF Offer
<1>3. y \in Machines /\ y.metadata = Sender.metadata
  BY DEF Follows, Sound
<1>4. Known("sender")' /\ Sender'.metadata = Sender.metadata
  BY <1>3, MachineFacts DEF Known, Sender
<1>5. PICK o \in Messages :
         o.kind = "Offer" /\ o.metadata = Sender.metadata /\ inbox' = Post("sender", o)
  BY <1>2 DEF Send
<1>6. Fits("receiver", o)'
  BY <1>4, <1>5 DEF Fits
<1>7. /\ inbox' \in [Sides -> Seq(Messages)]
      /\ \A t \in Sides : Mail(inbox'[t]) \subseteq
                             Mail(inbox[t]) \cup IF t = "receiver" THEN {o} ELSE {}
  BY <1>1, <1>5, SideFacts, PostFacts
<1> QED BY <1>6, <1>7

\* The first offer, and one on a new session.
LEMMA SendOfferStep ==
    ASSUME IInv, SendOffer
    PROVE  IInv'
<1> USE SideFacts
<1>1. Sound(Sender) /\ Known("sender") /\ ShapeInv
  BY KnownFacts DEF IInv, SendOffer, Sender
<1>2. PICK x \in offer_sent(Sender) : Move("sender", x)
  BY DEF SendOffer
<1>3. Follows(Sender, x) /\ x.status = "none" /\ Sender.state \notin Terminal
  BY <1>1, <1>2, ProgressFacts
<1>4. Sender.status = "none"
  BY <1>1, <1>3 DEF Sound
<1>5. /\ xfer' \in [Sides -> Machines \cup {NoTransfer}] /\ xfer'["sender"] = x
      /\ xfer'["receiver"] = xfer["receiver"]
  BY <1>1, <1>2, <1>3 DEF Move, ShapeInv, Follows, Sound
<1>6. /\ inbox' \in [Sides -> Seq(Messages)]
      /\ \A t \in Sides : \A m \in Mail(inbox'[t]) : m \in Mail(inbox[t]) \/ Fits(t, m)'
  BY <1>1, <1>3, <1>5, OfferFacts DEF SendOffer
<1>7. ShapeInv'
  BY <1>1, <1>5, <1>6 DEF SendOffer, ShapeInv, bounds
<1>8. /\ worker' = worker /\ markers' = markers /\ staging' = staging /\ output' = output
  BY DEF SendOffer
<1> QED BY <1>1, <1>3, <1>4, <1>5, <1>6, <1>7, <1>8, SenderMoves DEF SendWorker

\* An offer that is repeated.
LEMMA RepeatOfferStep ==
    ASSUME IInv, RepeatOffer
    PROVE  IInv'
<1> USE SideFacts
<1>1. Sound(Sender) /\ Known("sender") /\ ShapeInv
  BY KnownFacts DEF IInv, RepeatOffer, Sender
<1>2. xfer' = xfer /\ worker' = worker /\ markers' = markers /\ staging' = staging /\ output' = output
  BY DEF RepeatOffer
<1>3. Follows(Sender, Sender)
  BY <1>1, FollowsSelf
<1>4. /\ inbox' \in [Sides -> Seq(Messages)]
      /\ \A t \in Sides : \A m \in Mail(inbox'[t]) : m \in Mail(inbox[t]) \/ Fits(t, m)'
  BY <1>1, <1>2, <1>3, OfferFacts DEF RepeatOffer, Sender
<1>5. ShapeInv'
  BY <1>1, <1>2, <1>4 DEF RepeatOffer, ShapeInv, bounds
<1> QED BY <1>1, <1>2, <1>3, <1>4, <1>5, SenderMoves DEF SendWorker, Sender

\* The peer's acceptance, or one that comes too late.
LEMMA ReceiveAcceptStep ==
    ASSUME IInv, ReceiveAccept
    PROVE  IInv'
<1> USE SideFacts
<1> DEFINE m0 == Head(inbox["sender"])
<1>1. ShapeInv /\ inbox["sender"] # <<>> /\ m0.kind = "Accept"
  BY DEF IInv, ReceiveAccept, Receives
<1>2. m0 \in Messages /\ m0 \in Mail(inbox["sender"])
  BY <1>1, RestFacts
<1>3. Fits("sender", m0)
  <2> HIDE DEF m0
  <2> QED BY <1>2 DEF IInv, InboxInv
<1>4. Known("sender") /\ m0.offset \in Nat
  <2> HIDE DEF m0
  <2> QED BY <1>1, <1>2, <1>3, MessageFacts DEF Fits
<1>5. Sound(Sender)
  BY <1>4, KnownFacts DEF Sender
<1>6. /\ Follows(Sender, xfer'["sender"]) /\ xfer'["sender"].status = Sender.status
      /\ xfer' \in [Sides -> Machines \cup {NoTransfer}]
      /\ xfer'["receiver"] = xfer["receiver"]
  <2>1. CASE UNCHANGED xfer
    BY <1>1, <1>5, <2>1, FollowsSelf DEF ShapeInv, Sender
  <2>2. CASE \E x \in accept_received(Sender, m0.offset) : Move("sender", x)
    <3>1. PICK x \in accept_received(Sender, m0.offset) : Move("sender", x)
      BY <2>2
    <3>2. Follows(Sender, x) /\ x.status = "none" /\ Sender.state \notin Terminal
      <4> HIDE DEF m0
      <4> QED BY <1>4, <1>5, <3>1, ProgressFacts
    <3>3. Sender.status = "none"
      BY <1>5, <3>2 DEF Sound
    <3> QED BY <1>1, <3>1, <3>2, <3>3 DEF Move, ShapeInv, Follows, Sound
  <2> QED BY <2>1, <2>2 DEF ReceiveAccept
<1>7. /\ inbox' \in [Sides -> Seq(Messages)]
      /\ \A t \in Sides : \A m \in Mail(inbox'[t]) : m \in Mail(inbox[t]) \/ Fits(t, m)'
  BY <1>1, MailRead DEF ReceiveAccept
<1>8. ShapeInv'
  BY <1>1, <1>6, <1>7 DEF ReceiveAccept, ShapeInv, bounds
<1>9. worker' = worker /\ markers' = markers /\ staging' = staging /\ output' = output
  BY DEF ReceiveAccept
<1> QED BY <1>4, <1>6, <1>7, <1>8, <1>9, SenderMoves DEF SendWorker

\* The worker of a new attempt.
LEMMA StartSendStep ==
    ASSUME IInv, StartSend
    PROVE  IInv'
<1> USE SideFacts
<1>1. Sound(Sender) /\ Known("sender") /\ ShapeInv
  BY KnownFacts DEF IInv, StartSend, Sender
<1>2. PICK x \in start_send(Sender) :
         Move("sender", x) /\ SetSendWorker(Worker(x.attempt, Sender.offset, "hash"))
  BY DEF StartSend
<1>3. Follows(Sender, x) /\ x.status = "none" /\ Sender.state = "Accepted"
  BY <1>1, <1>2, ProgressFacts
<1>4. Sender.status = "none"
  BY <1>1, <1>3, StateFacts DEF Sound
<1>5. x \in Machines /\ x.attempt \in 0..MaxAttempt
  BY <1>3, MachineFacts DEF Follows, Sound
<1>6. Sender.offset \in Nat /\ Len(Sender.metadata) \in Nat
  BY <1>1, MachineFacts DEF Sound
<1> DEFINE w == Worker(x.attempt, Sender.offset, "hash")
<1>7. w \in Workers /\ w.step = "hash"
  BY <1>5, <1>6, WorkerFacts
<1>8. worker' = [worker EXCEPT !["sender"] = w]
  BY <1>2 DEF SetSendWorker
<1> HIDE DEF w
<1>9. /\ worker' \in [Sides -> Workers \cup {NoWorker}] /\ worker'["sender"] = w
      /\ worker'["receiver"] = worker["receiver"]
  BY <1>1, <1>7, <1>8 DEF ShapeInv
<1>10. /\ xfer' \in [Sides -> Machines \cup {NoTransfer}] /\ xfer'["sender"] = x
       /\ xfer'["receiver"] = xfer["receiver"]
  BY <1>1, <1>2, <1>5 DEF Move, ShapeInv
<1>11. stream' \in Streams
  <2>1. <<>> \in Bytes
    BY EmptySeq DEF Bytes
  <2>2. byte_len(Sender) - Sender.offset \in Int
    BY <1>6 DEF byte_len
  <2> QED BY <1>6, <2>1, <2>2 DEF StartSend, Streams
<1>12. UNCHANGED <<source, inbox, session, unaware, staging, output, markers, bounds>>
  BY DEF StartSend
<1>13. ShapeInv'
  BY <1>1, <1>9, <1>10, <1>11, <1>12 DEF ShapeInv, bounds
<1>14. \A t \in Sides : \A m \in Mail(inbox'[t]) : m \in Mail(inbox[t]) \/ Fits(t, m)'
  BY <1>1, <1>12, MailStays
<1>15. SendWorker.step # "prepare" /\ SendWorker'.step # "prepare"
  BY <1>1, <1>7, <1>9 DEF IInv, MachineInv, SendWorker
<1> QED BY <1>1, <1>3, <1>4, <1>9, <1>10, <1>12, <1>13, <1>14, <1>15, SenderMoves

\* A step of the send worker alone.
LEMMA SendWorkerStep ==
    ASSUME IInv, NEW w \in Workers \cup {NoWorker}, SetSendWorker(w),
           stream' \in Streams \cup {NoStream},
           (w.step = "prepare") = (SendWorker.step = "prepare"),
           UNCHANGED <<source, xfer, inbox, session, unaware, staging, output, markers, bounds>>
    PROVE  IInv'
<1> USE SideFacts
<1>1. ShapeInv
  BY DEF IInv
<1>2. /\ worker' \in [Sides -> Workers \cup {NoWorker}] /\ worker'["sender"] = w
      /\ worker'["receiver"] = worker["receiver"]
  BY <1>1 DEF ShapeInv, SetSendWorker
<1>3. ShapeInv'
  BY <1>1, <1>2 DEF ShapeInv, bounds
<1>4. \A t \in Sides : \A m \in Mail(inbox'[t]) : m \in Mail(inbox[t]) \/ Fits(t, m)'
  BY <1>1, MailStays
<1>5. Known("sender") => Follows(Sender, Sender)
  BY KnownFacts, FollowsSelf DEF Sender
<1> QED BY <1>2, <1>3, <1>4, <1>5, SenderMoves DEF SendWorker, Sender

\* The pass before the first byte.
LEMMA HashSourceStep ==
    ASSUME IInv, HashSource
    PROVE  IInv'
<1> USE SideFacts
<1>1. ShapeInv /\ SendWorker.step = "hash" /\ source \in Bytes
  BY TransferAssumption DEF IInv, ShapeInv, HashSource, Bytes
<1>2. SendWorker \in Workers
  BY <1>1, WorkerKinds DEF SendWorker
<1> DEFINE total == byte_len(Sender)
           a == ReadNext(SendWorker, source)
           b == [SendWorker EXCEPT !.step = "copy", !.hashed = <<>>]
           c == Ends(SendWorker, "Failed")
<1>3. CanRead(SendWorker, total) => a \in Workers /\ a.step = "hash"
  <2> SUFFICES ASSUME Len(SendWorker.hashed) < Len(source) PROVE a \in Workers /\ a.step = "hash"
    BY DEF CanRead
  <2>1. /\ source[Len(SendWorker.hashed) + 1] \in {0, 1}
        /\ a = [SendWorker EXCEPT !.hashed = Append(@, source[Len(SendWorker.hashed) + 1])]
    BY <1>1, <1>2, ReadNextFacts
  <2> HIDE DEF a
  <2> QED BY <1>1, <1>2, <2>1, ReadFacts
<1>4. b \in Workers /\ b.step = "copy"
  <2>1. <<>> \in Bytes
    BY EmptySeq DEF Bytes
  <2> QED BY <1>2, <2>1 DEF Workers
<1>5. c \in Workers /\ c.step = "joinable"
  BY <1>2, EndsFacts DEF Results
<1>6. PICK w : SetSendWorker(w) /\ w \in Workers /\ w.step # "prepare"
  <2>1. SetSendWorker(IF CanRead(SendWorker, total) THEN a
                      ELSE IF AtEof(SendWorker, total) /\ SendWorker.hashed = Sender.metadata
                           THEN b ELSE c)
    BY DEF HashSource
  <2> HIDE DEF a, b, c, total
  <2> QED BY <1>3, <1>4, <1>5, <2>1
<1>7. UNCHANGED <<source, xfer, inbox, session, unaware, staging, output, markers, bounds>> /\ stream' = stream
  BY DEF HashSource
<1> QED BY <1>1, <1>6, <1>7, SendWorkerStep DEF ShapeInv

\* The pass that sends the suffix.
LEMMA SendPayloadStep ==
    ASSUME IInv, SendPayload
    PROVE  IInv'
<1> USE SideFacts
<1>1. ShapeInv /\ SendWorker.step = "copy" /\ source \in Bytes /\ stream \in Streams \cup {NoStream}
  BY TransferAssumption DEF IInv, ShapeInv, SendPayload, Bytes
<1>2. SendWorker \in Workers
  BY <1>1, WorkerKinds DEF SendWorker
<1> DEFINE total == byte_len(Sender)
           a == ReadNext(SendWorker, source)
<1>3. UNCHANGED <<source, xfer, inbox, session, unaware, staging, output, markers, bounds>>
  BY DEF SendPayload
<1>4. CASE CanRead(SendWorker, total) /\ SetSendWorker(a)
           /\ (UNCHANGED stream \/ (Writable /\ stream' = [stream EXCEPT !.data = Append(@, Last(a.hashed))]))
  <2>1. Len(SendWorker.hashed) < Len(source)
    BY <1>4 DEF CanRead
  <2>2. /\ source[Len(SendWorker.hashed) + 1] \in {0, 1}
        /\ a = [SendWorker EXCEPT !.hashed = Append(@, source[Len(SendWorker.hashed) + 1])]
    BY <1>1, <1>2, <2>1, ReadNextFacts
  <2>3. /\ a \in Workers /\ a.step = "copy" /\ a.hashed \in Bytes
        /\ Len(a.hashed) = Len(SendWorker.hashed) + 1
        /\ a.hashed[Len(SendWorker.hashed) + 1] = source[Len(SendWorker.hashed) + 1]
    <3> HIDE DEF a
    <3> QED BY <1>1, <1>2, <2>2, ReadFacts
  <2>4. Last(a.hashed) \in {0, 1}
    <3> HIDE DEF a
    <3> QED BY <2>2, <2>3 DEF Last
  <2>5. stream' \in Streams \cup {NoStream}
    <3>1. CASE UNCHANGED stream
      BY <1>1, <3>1
    <3>2. CASE Writable /\ stream' = [stream EXCEPT !.data = Append(@, Last(a.hashed))]
      <4> DEFINE b == Last(a.hashed)
      <4>1. b \in {0, 1} /\ stream' = [stream EXCEPT !.data = Append(@, b)]
        BY <2>4, <3>2
      <4> HIDE DEF b
      <4>2. stream \in Streams
        BY <1>1, <3>2 DEF Writable, NoStream
      <4>3. stream.data \in Bytes
        BY <4>2 DEF Streams
      <4>4. Append(stream.data, b) \in Bytes
        BY <4>1, <4>3, AppendProperties DEF Bytes
      <4> QED BY <4>1, <4>2, <4>4 DEF Streams
    <3> QED BY <1>4, <3>1, <3>2
  <2> HIDE DEF a
  <2> QED BY <1>1, <1>3, <1>4, <2>3, <2>5, SendWorkerStep
<1>5. CASE SetSendWorker(Ends(SendWorker, IF SuffixSent(total) THEN "Ok" ELSE "Failed"))
           /\ UNCHANGED stream
  <2> DEFINE r == IF SuffixSent(total) THEN "Ok" ELSE "Failed"
  <2>1. r \in Results
    BY DEF Results
  <2> HIDE DEF r
  <2>2. Ends(SendWorker, r) \in Workers /\ Ends(SendWorker, r).step = "joinable"
    BY <1>2, <2>1, EndsFacts
  <2>3. SetSendWorker(Ends(SendWorker, r))
    BY <1>5 DEF r
  <2> QED BY <1>1, <1>3, <1>5, <2>2, <2>3, SendWorkerStep
<1>6. \/ CanRead(SendWorker, total) /\ SetSendWorker(a)
           /\ (UNCHANGED stream \/ (Writable /\ stream' = [stream EXCEPT !.data = Append(@, Last(a.hashed))]))
      \/ SetSendWorker(Ends(SendWorker, IF SuffixSent(total) THEN "Ok" ELSE "Failed"))
           /\ UNCHANGED stream
  BY DEF SendPayload
<1> HIDE DEF total, a
<1> QED BY <1>4, <1>5, <1>6
\* The sender ends the transfer by itself: it cancels, or its attempt fails.
LEMMA SenderEnds ==
    ASSUME IInv, Known("sender"), NEW status \in Statuses, NEW attempt \in 0..MaxAttempt,
           EndLocally("sender", status, attempt), worker' \in [Sides -> Workers \cup {NoWorker}],
           worker'["receiver"] = worker["receiver"], worker'["sender"].step # "prepare",
           stream' \in Streams \cup {NoStream},
           UNCHANGED <<source, session, unaware, staging, output, bounds>>
    PROVE  IInv'
<1> USE SideFacts
<1>1. ShapeInv /\ SendWorker.step # "prepare"
  BY DEF IInv, MachineInv
<1>2. /\ xfer' \in [Sides -> Machines \cup {NoTransfer}]
      /\ xfer'["receiver"] = xfer["receiver"] /\ Follows(Sender, xfer'["sender"])
      /\ xfer'["sender"].status = status /\ (HasEnded("sender") => xfer'["sender"] = xfer["sender"])
      /\ markers' \in [Sides -> Markers] /\ markers'["receiver"] = markers["receiver"]
      /\ MarkerInv' /\ inbox' \in [Sides -> Seq(Messages)]
      /\ \A t \in Sides : \A m \in Mail(inbox'[t]) : m \in Mail(inbox[t]) \/ Fits(t, m)'
      /\ HasEnded("sender") \/ status # "Completed"
  BY EndFacts DEF Sender
<1>3. ShapeInv'
  BY <1>1, <1>2 DEF ShapeInv, bounds
<1>4. Finished("sender")' => Finished("receiver")
  BY <1>2 DEF IInv, FileInv, Finished
<1>5. WorkerInv' /\ FileInv'
  BY <1>2, <1>4, ReceiverUntouched
<1>6. \A t \in Sides :
         /\ Known(t) => Follows(xfer[t], xfer'[t])
         /\ ~Known(t) => xfer'[t] = xfer[t]
  BY <1>2, KnownFacts, FollowsSelf DEF Sender
<1> QED BY <1>1, <1>2, <1>3, <1>5, <1>6, Assemble DEF SendWorker

\* The owner joins the send worker.
LEMMA JoinSendStep ==
    ASSUME IInv, JoinSend
    PROVE  IInv'
<1> USE SideFacts
<1>1. ShapeInv /\ SendWorker.step = "joinable" /\ Known("sender")
  BY DEF IInv, MachineInv, JoinSend
<1>2. SendWorker \in Workers /\ SendWorker.attempt \in 0..MaxAttempt
  BY <1>1, WorkerKinds DEF SendWorker
<1>3. Sound(Sender)
  BY <1>1, KnownFacts DEF Sender
<1>4. SetSendWorker(NoWorker) /\ UNCHANGED <<source, session, unaware, staging, output, bounds>>
  BY DEF JoinSend
<1>5. /\ worker' \in [Sides -> Workers \cup {NoWorker}] /\ worker'["receiver"] = worker["receiver"]
      /\ worker'["sender"].step # "prepare"
  BY <1>1, <1>4 DEF ShapeInv, SetSendWorker, NoWorker
<1>6. ASSUME NEW x, Move("sender", x), Follows(Sender, x), x.status = Sender.status,
             stream' \in Streams \cup {NoStream}, UNCHANGED <<inbox, markers>>
      PROVE  IInv'
  <2>1. /\ xfer' \in [Sides -> Machines \cup {NoTransfer}] /\ xfer'["sender"] = x
        /\ xfer'["receiver"] = xfer["receiver"]
    BY <1>1, <1>6 DEF Move, ShapeInv, Follows, Sound
  <2>2. ShapeInv'
    BY <1>1, <1>4, <1>5, <1>6, <2>1 DEF ShapeInv, bounds
  <2>3. \A t \in Sides : \A m \in Mail(inbox'[t]) : m \in Mail(inbox[t]) \/ Fits(t, m)'
    BY <1>1, <1>6, MailStays
  <2> QED BY <1>1, <1>4, <1>5, <1>6, <2>1, <2>2, <2>3, SenderMoves DEF SendWorker
<1>7. CASE /\ \E x \in send_finished(Sender, SendWorker.attempt) : Move("sender", x)
           /\ stream' = IF stream.open THEN [stream EXCEPT !.fin = TRUE] ELSE stream
           /\ UNCHANGED <<inbox, markers>>
  <2>1. PICK x \in send_finished(Sender, SendWorker.attempt) : Move("sender", x)
    BY <1>7
  <2>2. Follows(Sender, x) /\ x.status = "none" /\ Sender.state = "Sending"
    BY <1>3, <2>1, ProgressFacts
  <2>3. x.status = Sender.status
    BY <1>3, <2>2, StateFacts DEF Sound
  <2>4. stream' \in Streams \cup {NoStream}
    <3>1. CASE stream = NoStream
      BY <1>7, <3>1 DEF NoStream
    <3>2. CASE stream \in Streams
      BY <1>7, <3>2 DEF Streams
    <3> QED BY <1>1, <3>1, <3>2 DEF ShapeInv
  <2> QED BY <1>6, <1>7, <2>1, <2>2, <2>3, <2>4
<1>8. CASE EndLocally("sender", "Failed", SendWorker.attempt) /\ stream' = Reset
  <2>1. stream' \in Streams \cup {NoStream}
    BY <1>1, <1>8, ResetFacts
  <2>2. "Failed" \in Statuses
    BY DEF Statuses
  <2> QED BY <1>1, <1>2, <1>4, <1>5, <1>8, <2>1, <2>2, SenderEnds
<1>9. CASE Move("sender", pause(Sender)) /\ UNCHANGED <<stream, inbox, markers>>
  <2>1. Follows(Sender, pause(Sender)) /\ pause(Sender).status = Sender.status
    BY <1>3, ProgressFacts
  <2> QED BY <1>1, <1>6, <1>9, <2>1 DEF ShapeInv
<1>10. CASE UNCHANGED <<xfer, stream, inbox, markers>>
  <2>1. Move("sender", Sender)
    BY <1>1, <1>10 DEF Move, ShapeInv, Sender
  <2>2. Follows(Sender, Sender)
    BY <1>3, FollowsSelf
  <2> QED BY <1>1, <1>6, <1>10, <2>1, <2>2 DEF ShapeInv
<1> QED BY <1>7, <1>8, <1>9, <1>10 DEF JoinSend

\* The sender's attempt is cut short.
LEMMA SenderGivesUp ==
    ASSUME IInv, Interrupted("sender") \/ LocalIo("sender")
    PROVE  IInv'
<1> USE SideFacts
<1>1. ShapeInv /\ SendWorker # NoWorker /\ SendWorker.step # "prepare"
  BY DEF IInv, Interrupted, LocalIo, Running, SendWorker
<1>2. SendWorker \in Workers
  BY <1>1, WorkerKinds DEF SendWorker
<1>0. PICK r \in {"Interrupted", "Failed"} : GivesUp("sender", r)
  BY DEF Interrupted, LocalIo
<1> DEFINE w == Ends(SendWorker, r)
<1>3. w \in Workers /\ w.step = "joinable"
  BY <1>2, EndsFacts DEF Results
<1>4. SetSendWorker(w)
  BY <1>0, <1>1 DEF GivesUp, SetSendWorker, SendWorker, ShapeInv
<1> HIDE DEF w
<1>5. /\ UNCHANGED <<source, xfer, inbox, session, unaware, staging, output, markers, bounds>>
      /\ stream' = stream
  BY <1>0 DEF GivesUp
<1> QED BY <1>1, <1>3, <1>4, <1>5, SendWorkerStep DEF ShapeInv

\* A machine that is paused, a worker that is told to stop.
LEMMA NoticeFacts ==
    ASSUME IInv, NEW s \in Sides, Notice(s)
    PROVE  /\ xfer' \in [Sides -> Machines \cup {NoTransfer}] /\ xfer'[Other(s)] = xfer[Other(s)]
           /\ worker' \in [Sides -> Workers \cup {NoWorker}] /\ worker'[Other(s)] = worker[Other(s)]
           /\ worker'[s].step = worker[s].step /\ ShapeInv'
           /\ (worker'[s] = NoWorker) = (worker[s] = NoWorker)
           /\ worker[s] # NoWorker => /\ worker'[s].hashed = worker[s].hashed
                                      /\ worker'[s].offset = worker[s].offset
                                      /\ worker'[s].result = worker[s].result
           /\ Known(s) => Follows(xfer[s], xfer'[s]) /\ xfer'[s] = pause(xfer[s])
           /\ ~Known(s) => xfer'[s] = xfer[s]
<1> USE SideFacts
<1>1. ShapeInv
  BY DEF IInv
<1>2. CASE Known(s)
  <2>1. Sound(xfer[s])
    BY <1>2, KnownFacts
  <2>2. Follows(xfer[s], pause(xfer[s]))
    BY <2>1, ProgressFacts
  <2>3. xfer' = [xfer EXCEPT ![s] = pause(xfer[s])] /\ worker' = Cancelled(s)
    BY <1>2 DEF Notice, Move
  <2>4. /\ xfer' \in [Sides -> Machines \cup {NoTransfer}] /\ xfer'[Other(s)] = xfer[Other(s)]
        /\ xfer'[s] = pause(xfer[s])
    BY <1>1, <2>2, <2>3 DEF ShapeInv, Follows, Sound
  <2>5. /\ worker' \in [Sides -> Workers \cup {NoWorker}] /\ worker'[Other(s)] = worker[Other(s)]
        /\ worker'[s].step = worker[s].step /\ (worker'[s] = NoWorker) = (worker[s] = NoWorker)
        /\ worker[s] # NoWorker => /\ worker'[s].hashed = worker[s].hashed
                                   /\ worker'[s].offset = worker[s].offset
                                   /\ worker'[s].result = worker[s].result
    BY <1>1, <2>3, CancelledFacts
  <2>6. ShapeInv'
    BY <1>1, <2>4, <2>5 DEF Notice, ShapeInv, bounds
  <2> QED BY <1>2, <2>2, <2>4, <2>5, <2>6
<1>3. CASE ~Known(s)
  BY <1>1, <1>3 DEF Notice, ShapeInv, bounds
<1> QED BY <1>2, <1>3

\* The sender hears that its session is gone.
LEMMA NoticeSender ==
    ASSUME IInv, Notice("sender")
    PROVE  IInv'
<1> USE SideFacts
<1>1. ShapeInv
  BY DEF IInv
<1>2. /\ ShapeInv' /\ xfer'["receiver"] = xfer["receiver"] /\ worker'["receiver"] = worker["receiver"]
      /\ worker'["sender"].step = worker["sender"].step
      /\ Known("sender") => Follows(Sender, xfer'["sender"]) /\ xfer'["sender"] = pause(Sender)
      /\ ~Known("sender") => xfer'["sender"] = xfer["sender"]
  BY NoticeFacts DEF Sender
<1>3. Known("sender") => pause(Sender).status = Sender.status
  <2> SUFFICES ASSUME Known("sender") PROVE pause(Sender).status = Sender.status
    OBVIOUS
  <2>1. Sound(Sender)
    BY KnownFacts DEF Sender
  <2> QED BY <2>1, ProgressFacts
<1>4. UNCHANGED <<inbox, staging, output, markers>>
  BY DEF Notice
<1>5. \A t \in Sides : \A m \in Mail(inbox'[t]) : m \in Mail(inbox[t]) \/ Fits(t, m)'
  BY <1>1, <1>4, MailStays
<1> QED BY <1>2, <1>3, <1>4, <1>5, SenderMoves DEF SendWorker

\* The user cancels what is being sent.
LEMMA CancelSender ==
    ASSUME IInv, Cancel("sender")
    PROVE  IInv'
<1> USE SideFacts
<1>1. ShapeInv /\ Known("sender") /\ SendWorker.step # "prepare"
  BY DEF IInv, Cancel, MachineInv
<1>2. /\ EndLocally("sender", "Cancelled", 0) /\ worker' = Cancelled("sender") /\ stream' = Reset
      /\ UNCHANGED <<source, session, unaware, staging, output, bounds>>
  BY DEF Cancel
<1>3. /\ worker' \in [Sides -> Workers \cup {NoWorker}] /\ worker'["receiver"] = worker["receiver"]
      /\ worker'["sender"].step = worker["sender"].step
  BY <1>1, <1>2, CancelledFacts
<1>4. stream' \in Streams \cup {NoStream}
  BY <1>1, <1>2, ResetFacts
<1>5. "Cancelled" \in Statuses /\ 0 \in 0..MaxAttempt
  BY MaxAttemptAssumption DEF Statuses
<1> QED BY <1>1, <1>2, <1>3, <1>4, <1>5, SenderEnds DEF SendWorker

\* An acknowledgement settles what has ended.
LEMMA AckFacts ==
    ASSUME IInv, NEW s \in Sides, ReceiveAck(s)
    PROVE  /\ ShapeInv' /\ Known(s) /\ HasEnded(s) /\ Follows(xfer[s], xfer'[s])
           /\ xfer'[Other(s)] = xfer[Other(s)] /\ xfer'[s].status = xfer[s].status /\ HasEnded(s)'
           /\ \A t \in Sides : \A m \in Mail(inbox'[t]) : m \in Mail(inbox[t]) \/ Fits(t, m)'
<1> USE SideFacts
<1>1. ShapeInv /\ inbox[s] # <<>>
  BY DEF IInv, ReceiveAck, Receives
<1>2. PICK x \in terminal_ack_received(xfer[s]) : Move(s, x)
  BY DEF ReceiveAck
<1>3. xfer[s].state \in Terminal
  BY <1>2 DEF terminal_ack_received, Ok
<1>4. Known(s) /\ HasEnded(s) /\ Sound(xfer[s])
  BY <1>3, KnownFacts DEF HasEnded
<1>5. Follows(xfer[s], x) /\ x.status = xfer[s].status /\ x.state \in Terminal
  <2>1. 0 \in 0..MaxAttempt /\ "Failed" \in Statuses
    BY MaxAttemptAssumption DEF Statuses
  <2> QED BY <1>2, <1>4, <2>1, OutcomeFacts
<1>6. /\ xfer' \in [Sides -> Machines \cup {NoTransfer}] /\ xfer'[Other(s)] = xfer[Other(s)]
      /\ xfer'[s] = x
  BY <1>1, <1>2, <1>5 DEF Move, ShapeInv, Follows, Sound
<1>7. /\ inbox' \in [Sides -> Seq(Messages)]
      /\ \A t \in Sides : \A m \in Mail(inbox'[t]) : m \in Mail(inbox[t]) \/ Fits(t, m)'
  BY <1>1, MailRead DEF ReceiveAck
<1>8. ShapeInv'
  BY <1>1, <1>6, <1>7 DEF ReceiveAck, ShapeInv, bounds
<1> QED BY <1>4, <1>5, <1>6, <1>7, <1>8 DEF HasEnded

\* The sender's outcome is acknowledged.
LEMMA AckSender ==
    ASSUME IInv, ReceiveAck("sender")
    PROVE  IInv'
<1> USE SideFacts
<1>1. /\ ShapeInv' /\ Known("sender") /\ Follows(Sender, xfer'["sender"])
      /\ xfer'["receiver"] = xfer["receiver"] /\ xfer'["sender"].status = Sender.status
      /\ \A t \in Sides : \A m \in Mail(inbox'[t]) : m \in Mail(inbox[t]) \/ Fits(t, m)'
  BY AckFacts DEF Sender
<1>2. worker' = worker /\ markers' = markers /\ staging' = staging /\ output' = output
  BY DEF ReceiveAck
<1> QED BY <1>1, <1>2, SenderMoves DEF SendWorker
\* Staging that is discarded is a file all the same.
LEMMA DiscardedFacts ==
    ASSUME ShapeInv, NEW x, NEW w
    PROVE  /\ Discarded(x, w) \in Bytes /\ Discarded(x, w) \in {<<>>, staging}
           /\ x.state \in Terminal /\ x.status # "Completed" /\ w = NoWorker => Discarded(x, w) = <<>>
           /\ ~(x.state \in Terminal /\ w = NoWorker) => Discarded(x, w) = staging
<1>1. <<>> \in Bytes
  BY EmptySeq DEF Bytes
<1> QED BY <1>1 DEF Discarded, ShapeInv

\* The peer's outcome: the first one a side has is the one it keeps.
LEMMA TerminalFacts ==
    ASSUME IInv, NEW s \in Sides, ReceiveTerminal(s)
    PROVE  /\ ShapeInv' /\ xfer'[Other(s)] = xfer[Other(s)]
           /\ worker'[Other(s)] = worker[Other(s)] /\ worker'[s].step = worker[s].step
           /\ (worker'[s] = NoWorker) = (worker[s] = NoWorker)
           /\ worker[s] # NoWorker => /\ worker'[s].hashed = worker[s].hashed
                                      /\ worker'[s].offset = worker[s].offset
                                      /\ worker'[s].result = worker[s].result
           /\ Known(s) => /\ Follows(xfer[s], xfer'[s]) /\ HasEnded(s)'
                          /\ HasEnded(s) => xfer'[s] = xfer[s]
                          /\ ~HasEnded(s) => xfer'[s].status = xfer[Other(s)].status
                          /\ ~HasEnded(s) /\ xfer'[s].status = "Completed" => s = "sender"
                          /\ staging' = IF s = "receiver" THEN Discarded(xfer'[s], worker[s])
                                        ELSE staging
           /\ ~Known(s) => xfer'[s] = xfer[s] /\ staging' = staging
           /\ markers'[Other(s)] = markers[Other(s)] /\ markers'[s].accepted = markers[s].accepted
           /\ MarkerInv' /\ output' = output /\ HasEnded(Other(s))
           /\ \A t \in Sides : \A m \in Mail(inbox'[t]) : m \in Mail(inbox[t]) \/ Fits(t, m)'
<1> USE SideFacts
<1>1. ShapeInv /\ inbox[s] # <<>> /\ Head(inbox[s]).kind = "Terminal"
  BY DEF IInv, ReceiveTerminal, Receives
<1>2. PICK m0 \in Messages : m0 = Head(inbox[s]) /\ m0 \in Mail(inbox[s])
  BY <1>1, RestFacts
<1>3. Fits(s, m0)
  BY <1>2 DEF IInv, InboxInv
<1>4. /\ m0.status \in Statuses /\ HasEnded(Other(s)) /\ m0.status = xfer[Other(s)].status
  BY <1>1, <1>2, <1>3, MessageFacts DEF Fits
<1>5. /\ worker' \in [Sides -> Workers \cup {NoWorker}] /\ worker'[Other(s)] = worker[Other(s)]
      /\ worker'[s].step = worker[s].step /\ (worker'[s] = NoWorker) = (worker[s] = NoWorker)
      /\ worker[s] # NoWorker => /\ worker'[s].hashed = worker[s].hashed
                                 /\ worker'[s].offset = worker[s].offset
                                 /\ worker'[s].result = worker[s].result
  <2>1. worker' = Cancelled(s)
    BY DEF ReceiveTerminal
  <2> QED BY <1>1, <2>1, CancelledFacts
<1>6. /\ inbox' \in [Sides -> Seq(Messages)]
      /\ \A t \in Sides : \A m \in Mail(inbox'[t]) : m \in Mail(inbox[t]) \/ Fits(t, m)'
  <2>1. PICK a \in Messages : a.kind = "TerminalAck" /\ Answer(s, a)
    BY MessageFacts DEF ReceiveTerminal
  <2>2. /\ inbox' \in [Sides -> Seq(Messages)]
        /\ \A t \in Sides : Mail(inbox'[t]) \subseteq
                               Mail(inbox[t]) \cup IF t = Other(s) THEN {a} ELSE {}
    BY <1>1, <2>1, AnswerFacts
  <2>3. Fits(Other(s), a)'
    BY <2>1 DEF Fits
  <2> QED BY <2>2, <2>3
<1>7. UNCHANGED <<source, stream, session, unaware, output, bounds>>
  BY DEF ReceiveTerminal
<1>8. CASE Known(s)
  <2>1. PICK x \in peer_terminal_persisted(xfer[s], m0.status) :
           /\ Move(s, x) /\ markers' = Marked(s, m0.status, "Peer")
           /\ staging' = IF s = "receiver" THEN Discarded(x, worker[s]) ELSE staging
    BY <1>2, <1>8 DEF ReceiveTerminal
  <2>2. Sound(xfer[s]) /\ xfer[s].direction = DirectionOf(s) /\ 0 \in 0..MaxAttempt
    BY <1>8, KnownFacts, MaxAttemptAssumption
  <2>3. /\ Follows(xfer[s], x) /\ x.state \in Terminal
        /\ xfer[s].state \in Terminal => x = xfer[s]
        /\ xfer[s].state \notin Terminal => x.status = m0.status
        /\ xfer[s].state \notin Terminal /\ m0.status \in {"Completed", "Rejected"} =>
              xfer[s].direction = "Outgoing"
    BY <1>4, <2>1, <2>2, OutcomeFacts
  <2>4. /\ xfer' \in [Sides -> Machines \cup {NoTransfer}] /\ xfer'[s] = x
        /\ xfer'[Other(s)] = xfer[Other(s)]
    BY <1>1, <2>1, <2>3 DEF Move, ShapeInv, Follows, Sound
  <2>5. /\ markers' \in [Sides -> Markers] /\ markers'[Other(s)] = markers[Other(s)]
        /\ markers'[s].accepted = markers[s].accepted
    BY <1>1, <1>4, <2>1, MarkedFacts
  <2>6. HasEnded(s)' /\ (HasEnded(s) = (xfer[s].state \in Terminal))
    BY <2>3, <2>4 DEF HasEnded
  <2>7. DirectionOf(s) = "Outgoing" => s = "sender"
    BY DEF DirectionOf
  <2>8. MarkerInv'
    BY <1>4, <1>8, <2>1, <2>2, <2>3, <2>4, <2>6, <2>7, MarkersEnd
  <2>9. staging' \in Bytes
    BY <1>1, <2>1, DiscardedFacts DEF ShapeInv
  <2>10. ShapeInv'
    BY <1>1, <1>5, <1>6, <1>7, <2>4, <2>5, <2>9 DEF ShapeInv, bounds
  <2> QED BY <1>4, <1>5, <1>6, <1>7, <1>8, <2>1, <2>2, <2>3, <2>4, <2>5, <2>6, <2>7, <2>8, <2>10
<1>9. CASE ~Known(s)
  <2>1. UNCHANGED <<xfer, markers, staging>>
    BY <1>9 DEF ReceiveTerminal
  <2>2. ShapeInv'
    BY <1>1, <1>5, <1>6, <1>7, <2>1 DEF ShapeInv, bounds
  <2>3. \A t \in Sides : Known(t) => Follows(xfer[t], xfer'[t]) /\ xfer'[t].status = xfer[t].status
    BY <2>1, KnownFacts, FollowsSelf
  <2>4. MarkerInv'
    BY <2>1, <2>3, MarkersKept DEF Receiver
  <2> QED BY <1>4, <1>5, <1>6, <1>7, <1>9, <2>1, <2>2, <2>4
<1> QED BY <1>8, <1>9

\* The sender believes in completion only when the receiver has completed.
LEMMA TerminalSender ==
    ASSUME IInv, ReceiveTerminal("sender")
    PROVE  IInv'
<1> USE SideFacts
<1>1. /\ ShapeInv' /\ xfer'["receiver"] = xfer["receiver"]
      /\ worker'["receiver"] = worker["receiver"] /\ worker'["sender"].step = worker["sender"].step
      /\ Known("sender") => /\ Follows(xfer["sender"], xfer'["sender"])
                            /\ HasEnded("sender") => xfer'["sender"] = xfer["sender"]
                            /\ ~HasEnded("sender") => xfer'["sender"].status = xfer["receiver"].status
      /\ ~Known("sender") => xfer'["sender"] = xfer["sender"]
      /\ staging' = staging
      /\ markers'["receiver"] = markers["receiver"]
      /\ MarkerInv' /\ output' = output /\ HasEnded("receiver")
      /\ \A t \in Sides : \A m \in Mail(inbox'[t]) : m \in Mail(inbox[t]) \/ Fits(t, m)'
  BY TerminalFacts
<1>2. Finished("sender")' => Finished("receiver")
  <2> SUFFICES ASSUME Finished("sender")' PROVE Finished("sender") \/ Finished("receiver")
    BY DEF IInv, FileInv
  <2>1. CASE xfer'["sender"] = xfer["sender"]
    BY <2>1 DEF Finished
  <2>2. CASE xfer'["sender"].status = xfer["receiver"].status
    BY <1>1, <2>2 DEF Finished, HasEnded
  <2> QED BY <1>1, <2>1, <2>2
<1>3. WorkerInv' /\ FileInv'
  BY <1>1, <1>2, ReceiverUntouched
<1>4. \A t \in Sides :
         /\ Known(t) => Follows(xfer[t], xfer'[t])
         /\ ~Known(t) => xfer'[t] = xfer[t]
  BY <1>1, KnownFacts, FollowsSelf
<1> QED BY <1>1, <1>3, <1>4, Assemble DEF SendWorker

\* The source is read, until its length is what it was at the start.
LEMMA PrepareSourceStep ==
    ASSUME IInv, PrepareSource
    PROVE  IInv'
<1> USE SideFacts
<1>1. ShapeInv /\ SendWorker.step = "prepare" /\ source \in Bytes
  BY TransferAssumption DEF IInv, ShapeInv, PrepareSource, Bytes
<1>2. SendWorker \in Workers /\ SendWorker.hashed \in Bytes
  BY <1>1, WorkerKinds DEF SendWorker
<1>3. ~Known("sender") /\ ~Known("receiver")
  BY <1>1 DEF IInv, MachineInv
<1> DEFINE total == SendWorker.offset
           a == ReadNext(SendWorker, source)
           b == Worker(0, Len(source), "prepare")
           c == new("Outgoing", SendWorker.hashed)
<1>4. UNCHANGED <<source, inbox, stream, session, unaware, staging, output, markers, bounds>>
  BY DEF PrepareSource
<1>5. CASE CanRead(SendWorker, total) /\ SetSendWorker(a) /\ UNCHANGED xfer
  <2>1. Len(SendWorker.hashed) < Len(source)
    BY <1>5 DEF CanRead
  <2>2. /\ source[Len(SendWorker.hashed) + 1] \in {0, 1}
        /\ a = [SendWorker EXCEPT !.hashed = Append(@, source[Len(SendWorker.hashed) + 1])]
    BY <1>1, <1>2, <2>1, ReadNextFacts
  <2> HIDE DEF a
  <2>3. a \in Workers /\ a.step = "prepare"
    BY <1>1, <1>2, <2>2, ReadFacts
  <2> QED BY <1>1, <1>4, <1>5, <2>3, SendWorkerStep DEF ShapeInv
<1>6. CASE SetSendWorker(b) /\ UNCHANGED xfer
  <2>1. 0 \in 0..MaxAttempt /\ Len(source) \in Nat
    BY <1>1, MaxAttemptAssumption, LenProperties DEF Bytes
  <2>2. b \in Workers /\ b.step = "prepare"
    BY <2>1, WorkerFacts
  <2> HIDE DEF b
  <2> QED BY <1>1, <1>4, <1>6, <2>2, SendWorkerStep DEF ShapeInv
<1>7. CASE Move("sender", c) /\ SetSendWorker(NoWorker)
  <2>1. Sound(c) /\ c.direction = "Outgoing" /\ c.state = "Queued" /\ c.status = "none"
    BY <1>2, NewFacts DEF Directions
  <2>2. xfer' = [xfer EXCEPT !["sender"] = c]
    BY <1>7 DEF Move
  <2> HIDE DEF c
  <2>3. c \in Machines /\ c # NoTransfer
    BY <2>1, MachineFacts DEF Sound
  <2>4. /\ xfer' \in [Sides -> Machines \cup {NoTransfer}] /\ xfer'["sender"] = c
        /\ xfer'["receiver"] = xfer["receiver"]
    BY <1>1, <2>2, <2>3 DEF ShapeInv
  <2>5. /\ worker' \in [Sides -> Workers \cup {NoWorker}] /\ worker'["receiver"] = worker["receiver"]
        /\ worker'["sender"].step # "prepare"
    BY <1>1, <1>7 DEF ShapeInv, SetSendWorker, NoWorker
  <2>6. ShapeInv'
    BY <1>1, <1>4, <2>4, <2>5 DEF ShapeInv, bounds
  <2>7. Known("sender")' /\ ~Known("receiver")'
    BY <1>3, <2>3, <2>4 DEF Known
  <2>8. MachineInv'
    BY <2>1, <2>4, <2>5, <2>7 DEF MachineInv, DirectionOf, SendWorker, Known
  <2>9. markers["sender"] = Unaccepted /\ markers["receiver"] = Unaccepted
    BY <1>3 DEF IInv, MarkerInv
  <2>10. MarkerInv'
    <3>1. /\ Unaccepted.terminal.status = "none" /\ Unaccepted.accepted = FALSE
      BY DEF Unaccepted, NoMarker
    <3> QED BY <1>4, <2>1, <2>4, <2>7, <2>9, <3>1 DEF MarkerInv
  <2>11. InboxInv'
    <3> SUFFICES ASSUME NEW t \in Sides, NEW m \in Mail(inbox'[t]) PROVE Fits(t, m)'
      BY DEF InboxInv, Mail
    <3>1. Fits(t, m)
      BY <1>4 DEF IInv, InboxInv
    <3>2. ~HasEnded("sender") /\ ~HasEnded("receiver")
      BY <1>3, KnownFacts
    <3>3. m.kind \notin {"Offer", "Accept", "Terminal"}
      BY <1>3, <3>1, <3>2 DEF Fits
    <3> QED BY <3>3 DEF Fits
  <2>12. WorkerInv' /\ FileInv'
    <3>1. ~Finished("sender")'
      BY <2>1, <2>4, StateFacts DEF Finished
    <3> QED BY <1>4, <2>4, <2>5, <3>1, ReceiverUntouched
  <2> QED BY <2>6, <2>8, <2>10, <2>11, <2>12 DEF IInv
<1>8. \/ CanRead(SendWorker, total) /\ SetSendWorker(a) /\ UNCHANGED xfer
      \/ SetSendWorker(b) /\ UNCHANGED xfer
      \/ Move("sender", c) /\ SetSendWorker(NoWorker)
  BY DEF PrepareSource
<1> HIDE DEF total, a, b, c
<1> QED BY <1>5, <1>6, <1>7, <1>8
-----------------------------------------------------------------------------
(* Sessions and the source *)

\* Somebody rewrites the source.
LEMMA SourceChangesStep ==
    ASSUME IInv, SourceChanges
    PROVE  IInv'
<1> USE SideFacts
<1>1. ShapeInv
  BY DEF IInv
<1>2. /\ UNCHANGED <<xfer, worker, inbox, stream, session, unaware, staging, output, markers, losses>>
      /\ source' \in Contents /\ changes' = changes + 1 /\ changes < MaxChanges
  BY DEF SourceChanges
<1>3. changes' \in 0..MaxChanges
  BY <1>1, <1>2, TransferAssumption DEF ShapeInv
<1>4. ShapeInv'
  BY <1>1, <1>2, <1>3 DEF ShapeInv
<1>5. \A t \in Sides : \A m \in Mail(inbox'[t]) : m \in Mail(inbox[t]) \/ Fits(t, m)'
  BY <1>1, <1>2, MailStays
<1>6. Known("sender") => Follows(Sender, Sender)
  BY KnownFacts, FollowsSelf DEF Sender
<1> QED BY <1>2, <1>4, <1>5, <1>6, SenderMoves DEF SendWorker, Sender

\* The session is lost with all that was under way.
LEMMA LoseStep ==
    ASSUME IInv, Lose
    PROVE  IInv'
<1> USE SideFacts
<1>1. ShapeInv
  BY DEF IInv
<1>2. /\ UNCHANGED <<source, xfer, worker, staging, output, markers, changes>>
      /\ losses' = losses + 1 /\ losses < MaxLosses /\ session' = FALSE /\ unaware' = Sides
      /\ stream' = NoStream /\ inbox' = [s \in Sides |-> <<>>]
  BY DEF Lose
<1>3. losses' \in 0..MaxLosses
  BY <1>1, <1>2, TransferAssumption DEF ShapeInv
<1>4. inbox' \in [Sides -> Seq(Messages)] /\ \A t \in Sides : Mail(inbox'[t]) = {}
  <2>1. <<>> \in Seq(Messages) /\ Mail(<<>>) = {}
    BY MessageFacts, ShortMail
  <2> QED BY <1>2, <2>1
<1>5. ShapeInv'
  BY <1>1, <1>2, <1>3, <1>4 DEF ShapeInv
<1>6. \A t \in Sides : \A m \in Mail(inbox'[t]) : m \in Mail(inbox[t]) \/ Fits(t, m)'
  BY <1>4
<1>7. Known("sender") => Follows(Sender, Sender)
  BY KnownFacts, FollowsSelf DEF Sender
<1> QED BY <1>2, <1>5, <1>6, <1>7, SenderMoves DEF SendWorker, Sender

\* A new session begins with the outcomes that are not acknowledged.
LEMMA ReconnectStep ==
    ASSUME IInv, Reconnect
    PROVE  IInv'
<1> USE SideFacts
<1>1. ShapeInv
  BY DEF IInv
<1>2. /\ UNCHANGED <<source, xfer, worker, stream, unaware, staging, output, markers, bounds>>
      /\ session' = TRUE /\ inbox' = [s \in Sides |-> Replays(Other(s))]
  BY DEF Reconnect
<1>3. ASSUME NEW t \in Sides
      PROVE  inbox'[t] \in Seq(Messages) /\ \A m \in Mail(inbox'[t]) : Fits(t, m)'
  <2> DEFINE o == Other(t)
  <2>1. o \in Sides /\ inbox'[t] = Replays(o)
    BY <1>2
  <2>2. CASE Known(o) /\ xfer[o].state = "TerminalAwaitingAck"
    <3>1. Sound(xfer[o]) /\ xfer[o].status \in Statuses \cup {"none"}
      BY <2>1, <2>2, KnownFacts, MachineFacts
    <3>2. xfer[o].status \in Statuses /\ HasEnded(o)
      BY <2>2, <3>1, StateFacts DEF Sound, HasEnded
    <3>3. PICK m0 \in Messages : /\ m0 = [kind |-> "Terminal", status |-> xfer[o].status]
                                 /\ m0.kind = "Terminal" /\ m0.status = xfer[o].status
      BY <3>2, MessageFacts
    <3>4. inbox'[t] = <<m0>>
      BY <2>1, <2>2, <3>3 DEF Replays
    <3>5. <<m0>> \in Seq(Messages) /\ Mail(<<m0>>) = {m0}
      BY ShortMail
    <3>6. Fits(t, m0)'
      BY <1>2, <3>2, <3>3 DEF Fits, HasEnded
    <3> QED BY <3>4, <3>5, <3>6
  <2>3. CASE ~(Known(o) /\ xfer[o].state = "TerminalAwaitingAck")
    <3>1. inbox'[t] = <<>>
      BY <2>1, <2>3 DEF Replays
    <3>2. <<>> \in Seq(Messages) /\ Mail(<<>>) = {}
      BY MessageFacts, ShortMail
    <3> QED BY <3>1, <3>2
  <2> QED BY <2>2, <2>3
<1>4. inbox' \in [Sides -> Seq(Messages)]
  BY <1>2, <1>3
<1>5. ShapeInv'
  BY <1>1, <1>2, <1>4 DEF ShapeInv, bounds
<1>6. \A t \in Sides : \A m \in Mail(inbox'[t]) : m \in Mail(inbox[t]) \/ Fits(t, m)'
  BY <1>3
<1>7. Known("sender") => Follows(Sender, Sender)
  BY KnownFacts, FollowsSelf DEF Sender
<1> QED BY <1>2, <1>5, <1>6, <1>7, SenderMoves DEF SendWorker, Sender

-----------------------------------------------------------------------------
(* The receiver's steps *)

\* A step of the receiver on a transfer that it knows.
LEMMA ReceiverMoves ==
    ASSUME IInv, ShapeInv', Known("receiver"), Follows(Receiver, xfer'["receiver"]),
           xfer'["sender"] = xfer["sender"], worker'["sender"] = worker["sender"],
           \A t \in Sides : \A m \in Mail(inbox'[t]) : m \in Mail(inbox[t]) \/ Fits(t, m)',
           MarkerInv', WorkerInv', FileInv'
    PROVE  IInv'
<1>1. \A t \in Sides :
         /\ Known(t) => Follows(xfer[t], xfer'[t])
         /\ ~Known(t) => xfer'[t] = xfer[t]
  BY SideFacts, KnownFacts, FollowsSelf DEF Receiver
<1> QED BY <1>1, Assemble DEF SendWorker

\* A receiver that moves on, while its marker stays.
LEMMA ReceiverMarkers ==
    ASSUME IInv, Known("receiver"), Follows(Receiver, xfer'["receiver"]),
           xfer'["receiver"].status = Receiver.status, xfer'["sender"] = xfer["sender"],
           markers' = markers,
           (xfer'["receiver"].state = "PendingOffer") = (Receiver.state = "PendingOffer")
    PROVE  MarkerInv'
<1>1. \A t \in Sides :
         /\ Known(t) => Follows(xfer[t], xfer'[t]) /\ xfer'[t].status = xfer[t].status
         /\ ~Known(t) => xfer'[t] = xfer[t]
  BY SideFacts, KnownFacts, FollowsSelf DEF Receiver
<1> QED BY <1>1, MarkersKept DEF Receiver

\* A receive worker that stays what it is, or is joined.
LEMMA WorkerKept ==
    ASSUME IInv, Known("receiver"), Follows(Receiver, xfer'["receiver"]),
           markers'["receiver"].accepted = markers["receiver"].accepted,
           worker'["receiver"] # NoWorker =>
               /\ worker["receiver"] # NoWorker /\ staging' = staging
               /\ worker'["receiver"].step = worker["receiver"].step
               /\ worker'["receiver"].hashed = worker["receiver"].hashed
               /\ worker'["receiver"].offset = worker["receiver"].offset
               /\ worker'["receiver"].result = worker["receiver"].result
               /\ xfer'["receiver"].state \notin {"PendingOffer", "Completing"}
               /\ ~Finished("receiver")'
    PROVE  WorkerInv'
<1> SUFFICES ASSUME worker'["receiver"] # NoWorker
             PROVE  WorkerInv'
  BY DEF WorkerInv, ReceiveWorker
<1> DEFINE w == worker["receiver"]
           v == worker'["receiver"]
<1>1. xfer'["receiver"] \in Machines /\ xfer'["receiver"].metadata = Receiver.metadata
  BY DEF Follows, Sound
<1>2. Known("receiver")'
  BY <1>1, MachineFacts DEF Known
<1>3. /\ markers["receiver"].accepted /\ w.step \in {"seek", "copy", "joinable"}
      /\ w.offset <= Len(Receiver.metadata)
      /\ w.step = "seek" => w.hashed = <<>>
      /\ w.step = "copy" => Hashes(w)
      /\ w.step = "joinable" /\ w.result = "Ok" => staging = Receiver.metadata
  BY DEF IInv, WorkerInv, ReceiveWorker
<1>4. w.step = "copy" => Hashes(ReceiveWorker)'
  <2>1. /\ v.step = w.step /\ v.hashed = w.hashed /\ v.offset = w.offset /\ staging' = staging
        /\ ReceiveWorker' = v
    BY DEF ReceiveWorker
  <2> HIDE DEF w, v
  <2> QED BY <1>3, <2>1 DEF Hashes
<1> QED BY <1>1, <1>2, <1>3, <1>4 DEF WorkerInv, ReceiveWorker, Receiver

\* A transfer that ends at the receiver without being completed.
LEMMA ReceiverEnded ==
    ASSUME IInv, Known("receiver"), Follows(Receiver, xfer'["receiver"]), HasEnded("receiver")',
           HasEnded("receiver") => xfer'["receiver"] = xfer["receiver"],
           ~HasEnded("receiver") => xfer'["receiver"].status # "Completed",
           xfer'["sender"] = xfer["sender"], output' = output,
           markers'["receiver"].accepted = markers["receiver"].accepted,
           worker'["receiver"] # NoWorker =>
               /\ worker["receiver"] # NoWorker
               /\ worker'["receiver"].step = worker["receiver"].step
               /\ worker'["receiver"].hashed = worker["receiver"].hashed
               /\ worker'["receiver"].offset = worker["receiver"].offset
               /\ worker'["receiver"].result = worker["receiver"].result,
           staging' = Discarded(xfer'["receiver"], worker'["receiver"])
    PROVE  WorkerInv' /\ FileInv'
<1> DEFINE x == xfer'["receiver"]
<1>1. ShapeInv /\ x.state \in Terminal /\ x.metadata = Receiver.metadata
  BY DEF IInv, HasEnded, Follows
<1>2. /\ staging' \in {<<>>, staging}
      /\ x.status # "Completed" /\ worker'["receiver"] = NoWorker => staging' = <<>>
      /\ worker'["receiver"] # NoWorker => staging' = staging
  BY <1>1, DiscardedFacts
<1>3. Finished("receiver")' => Finished("receiver") /\ xfer'["receiver"] = xfer["receiver"]
  BY DEF Finished, HasEnded
<1>4. Finished("receiver") => Finished("receiver")' /\ staging = <<>> /\ worker["receiver"] = NoWorker
  BY DEF Finished, HasEnded, IInv, WorkerInv, FileInv, ReceiveWorker
<1>5. WorkerInv'
  <2>1. x.state \notin {"PendingOffer", "Completing"}
    BY <1>1, StateFacts
  <2>2. worker'["receiver"] # NoWorker => ~Finished("receiver")'
    BY <1>3, <1>4
  <2> QED BY <1>2, <2>1, <2>2, WorkerKept
<1>6. FileInv'
  <2>1. staging' # <<>> => markers'["receiver"].accepted
    BY <1>2 DEF IInv, FileInv
  <2>2. Receiver'.state # "Completing"
    BY <1>1, StateFacts DEF Receiver
  <2>3. ReceiveWorker' = NoWorker => staging' = <<>>
    <3>1. CASE x.status = "Completed"
      BY <1>1, <1>2, <1>3, <1>4, <3>1 DEF Finished
    <3>2. CASE x.status # "Completed"
      BY <1>2, <3>2 DEF ReceiveWorker
    <3> QED BY <3>1, <3>2
  <2>4. Finished("receiver")' => output' = Receiver'.metadata
    BY <1>3 DEF IInv, FileInv, Receiver
  <2>5. /\ output' # Nothing => Finished("receiver")'
        /\ Finished("sender")' => Finished("receiver")'
    BY <1>4 DEF IInv, FileInv, Finished
  <2> QED BY <2>1, <2>2, <2>3, <2>4, <2>5 DEF FileInv
<1> QED BY <1>5, <1>6
\* The user cancels what is being received.
LEMMA CancelReceiver ==
    ASSUME IInv, Cancel("receiver")
    PROVE  IInv'
<1> USE SideFacts
<1>1. ShapeInv /\ Known("receiver")
  BY DEF IInv, Cancel
<1>2. /\ EndLocally("receiver", "Cancelled", 0) /\ worker' = Cancelled("receiver") /\ stream' = Reset
      /\ staging' = Discarded(xfer'["receiver"], worker'["receiver"])
      /\ UNCHANGED <<source, session, unaware, output, bounds>>
  BY DEF Cancel
<1>3. "Cancelled" \in Statuses /\ 0 \in 0..MaxAttempt
  BY MaxAttemptAssumption DEF Statuses
<1>4. /\ xfer' \in [Sides -> Machines \cup {NoTransfer}]
      /\ xfer'["sender"] = xfer["sender"] /\ Follows(Receiver, xfer'["receiver"])
      /\ HasEnded("receiver")' /\ xfer'["receiver"].status = "Cancelled"
      /\ (HasEnded("receiver") => xfer'["receiver"] = xfer["receiver"])
      /\ markers' \in [Sides -> Markers]
      /\ markers'["receiver"].accepted = markers["receiver"].accepted /\ MarkerInv'
      /\ inbox' \in [Sides -> Seq(Messages)]
      /\ \A t \in Sides : \A m \in Mail(inbox'[t]) : m \in Mail(inbox[t]) \/ Fits(t, m)'
  BY <1>1, <1>2, <1>3, EndFacts DEF Receiver
<1>5. /\ worker' \in [Sides -> Workers \cup {NoWorker}] /\ worker'["sender"] = worker["sender"]
      /\ worker'["receiver"] # NoWorker =>
            /\ worker["receiver"] # NoWorker
            /\ worker'["receiver"].step = worker["receiver"].step
            /\ worker'["receiver"].hashed = worker["receiver"].hashed
            /\ worker'["receiver"].offset = worker["receiver"].offset
            /\ worker'["receiver"].result = worker["receiver"].result
  BY <1>1, <1>2, CancelledFacts
<1>6. stream' \in Streams \cup {NoStream} /\ staging' \in Bytes
  BY <1>1, <1>2, ResetFacts, DiscardedFacts
<1>7. ShapeInv'
  BY <1>1, <1>2, <1>4, <1>5, <1>6 DEF ShapeInv, bounds
<1>8. WorkerInv' /\ FileInv'
  BY <1>1, <1>2, <1>4, <1>5, ReceiverEnded
<1> QED BY <1>1, <1>4, <1>5, <1>7, <1>8, ReceiverMoves

\* The user rejects an offer: nothing of it can have been staged.
LEMMA RejectOfferStep ==
    ASSUME IInv, RejectOffer
    PROVE  IInv'
<1> USE SideFacts
<1>1. ShapeInv /\ Known("receiver")
  BY DEF IInv, RejectOffer
<1>2. /\ EndLocally("receiver", "Rejected", 0)
      /\ UNCHANGED <<source, worker, stream, session, unaware, staging, output, bounds>>
  BY DEF RejectOffer
<1>3. "Rejected" \in Statuses /\ 0 \in 0..MaxAttempt
  BY MaxAttemptAssumption DEF Statuses
<1>4. /\ xfer' \in [Sides -> Machines \cup {NoTransfer}]
      /\ xfer'["sender"] = xfer["sender"] /\ Follows(Receiver, xfer'["receiver"])
      /\ HasEnded("receiver")' /\ xfer'["receiver"].status = "Rejected"
      /\ (HasEnded("receiver") => xfer'["receiver"] = xfer["receiver"])
      /\ markers' \in [Sides -> Markers]
      /\ markers'["receiver"].accepted = markers["receiver"].accepted /\ MarkerInv'
      /\ inbox' \in [Sides -> Seq(Messages)]
      /\ \A t \in Sides : \A m \in Mail(inbox'[t]) : m \in Mail(inbox[t]) \/ Fits(t, m)'
      /\ ~HasEnded("receiver") => Receiver.state = "PendingOffer"
  BY <1>1, <1>2, <1>3, EndFacts DEF Receiver
<1>5. ShapeInv'
  BY <1>1, <1>2, <1>4 DEF ShapeInv, bounds
<1>6. worker["receiver"] = NoWorker => staging = <<>>
  <2>1. CASE HasEnded("receiver")
    BY <2>1 DEF IInv, FileInv, ReceiveWorker
  <2>2. CASE ~HasEnded("receiver")
    <3>1. markers["receiver"].accepted = FALSE
      BY <1>1, <1>4, <2>2 DEF IInv, MarkerInv
    <3> QED BY <3>1 DEF IInv, FileInv
  <2> QED BY <2>1, <2>2
<1>7. staging' = Discarded(xfer'["receiver"], worker'["receiver"])
  BY <1>2, <1>6 DEF Discarded
<1>8. WorkerInv' /\ FileInv'
  BY <1>1, <1>2, <1>4, <1>7, ReceiverEnded
<1> QED BY <1>1, <1>2, <1>4, <1>5, <1>8, ReceiverMoves

\* The sender's outcome reaches the receiver.
LEMMA TerminalReceiver ==
    ASSUME IInv, ReceiveTerminal("receiver")
    PROVE  IInv'
<1> USE SideFacts
<1>1. /\ ShapeInv' /\ xfer'["sender"] = xfer["sender"] /\ worker'["sender"] = worker["sender"]
      /\ (worker'["receiver"] = NoWorker) = (worker["receiver"] = NoWorker)
      /\ worker'["receiver"] # NoWorker =>
            /\ worker["receiver"] # NoWorker
            /\ worker'["receiver"].step = worker["receiver"].step
            /\ worker'["receiver"].hashed = worker["receiver"].hashed
            /\ worker'["receiver"].offset = worker["receiver"].offset
            /\ worker'["receiver"].result = worker["receiver"].result
      /\ Known("receiver") =>
            /\ Follows(Receiver, xfer'["receiver"]) /\ HasEnded("receiver")'
            /\ HasEnded("receiver") => xfer'["receiver"] = xfer["receiver"]
            /\ ~HasEnded("receiver") => xfer'["receiver"].status # "Completed"
            /\ staging' = Discarded(xfer'["receiver"], worker["receiver"])
      /\ ~Known("receiver") => xfer'["receiver"] = xfer["receiver"] /\ staging' = staging
      /\ markers'["receiver"].accepted = markers["receiver"].accepted
      /\ MarkerInv' /\ output' = output
      /\ \A t \in Sides : \A m \in Mail(inbox'[t]) : m \in Mail(inbox[t]) \/ Fits(t, m)'
  BY TerminalFacts DEF Receiver
<1>2. CASE Known("receiver")
  <2>1. staging' = Discarded(xfer'["receiver"], worker'["receiver"])
    BY <1>1, <1>2 DEF Discarded
  <2>2. WorkerInv' /\ FileInv'
    BY <1>1, <1>2, <2>1, ReceiverEnded
  <2> QED BY <1>1, <1>2, <2>2, ReceiverMoves
<1>3. CASE ~Known("receiver")
  <2>1. UNCHANGED <<xfer, markers, staging>>
    BY <1>3 DEF ReceiveTerminal
  <2>2. worker["receiver"] = NoWorker
    BY <1>3 DEF IInv, WorkerInv, ReceiveWorker
  <2>3. worker'["receiver"] = worker["receiver"]
    BY <1>1, <2>2
  <2>4. Known("sender") => Follows(Sender, Sender)
    BY KnownFacts, FollowsSelf DEF Sender
  <2> QED BY <1>1, <2>1, <2>3, <2>4, SenderMoves DEF SendWorker, Sender
<1> QED BY <1>2, <1>3

\* The receiver's outcome is acknowledged.
LEMMA AckReceiver ==
    ASSUME IInv, ReceiveAck("receiver")
    PROVE  IInv'
<1> USE SideFacts
<1>1. /\ ShapeInv' /\ Known("receiver") /\ HasEnded("receiver") /\ Follows(Receiver, xfer'["receiver"])
      /\ xfer'["sender"] = xfer["sender"] /\ xfer'["receiver"].status = Receiver.status
      /\ HasEnded("receiver")'
      /\ \A t \in Sides : \A m \in Mail(inbox'[t]) : m \in Mail(inbox[t]) \/ Fits(t, m)'
  BY AckFacts DEF Receiver
<1>2. worker' = worker /\ markers' = markers /\ staging' = staging /\ output' = output
  BY DEF ReceiveAck
<1>3. /\ xfer'["receiver"].state \notin {"PendingOffer", "Completing"}
      /\ Receiver.state \notin {"PendingOffer", "Completing"}
  BY <1>1, StateFacts DEF HasEnded, Receiver
<1>4. MarkerInv'
  BY <1>1, <1>2, <1>3, ReceiverMarkers
<1>5. Finished("receiver")' = Finished("receiver") /\ Finished("sender")' = Finished("sender")
  BY <1>1 DEF Finished, HasEnded, Receiver
<1>6. WorkerInv'
  <2>1. worker["receiver"] # NoWorker => ~Finished("receiver")
    BY DEF IInv, WorkerInv, ReceiveWorker
  <2> QED BY <1>1, <1>2, <1>3, <1>5, <2>1, WorkerKept
<1>7. FileInv'
  <2>1. Receiver'.metadata = Receiver.metadata
    BY <1>1 DEF Follows, Receiver
  <2> QED BY <1>1, <1>2, <1>3, <1>5, <2>1 DEF IInv, FileInv, Receiver, ReceiveWorker
<1> QED BY <1>1, <1>2, <1>4, <1>6, <1>7, ReceiverMoves

\* The receiver hears that its session is gone.
LEMMA NoticeReceiver ==
    ASSUME IInv, Notice("receiver")
    PROVE  IInv'
<1> USE SideFacts
<1>1. /\ ShapeInv /\ ShapeInv' /\ xfer'["sender"] = xfer["sender"] /\ worker'["sender"] = worker["sender"]
      /\ (worker'["receiver"] = NoWorker) = (worker["receiver"] = NoWorker)
      /\ worker'["receiver"] # NoWorker =>
            /\ worker["receiver"] # NoWorker
            /\ worker'["receiver"].step = worker["receiver"].step
            /\ worker'["receiver"].hashed = worker["receiver"].hashed
            /\ worker'["receiver"].offset = worker["receiver"].offset
            /\ worker'["receiver"].result = worker["receiver"].result
      /\ Known("receiver") =>
            Follows(Receiver, xfer'["receiver"]) /\ xfer'["receiver"] = pause(Receiver)
  BY NoticeFacts DEF Receiver, IInv
<1>2. UNCHANGED <<inbox, staging, output, markers>>
  BY DEF Notice
<1>3. \A t \in Sides : \A m \in Mail(inbox'[t]) : m \in Mail(inbox[t]) \/ Fits(t, m)'
  BY <1>1, <1>2, MailStays
<1>4. CASE Known("receiver")
  <2>1. Sound(Receiver)
    BY <1>4, KnownFacts DEF Receiver
  <2>2. /\ xfer'["receiver"].status = Receiver.status
        /\ xfer'["receiver"].state \in {"Paused", Receiver.state}
        /\ xfer'["receiver"].state # "Completing"
        /\ xfer'["receiver"].state = "Paused" => Receiver.state \notin Terminal \cup {"PendingOffer"}
    BY <1>1, <1>4, <2>1, ProgressFacts
  <2>3. (xfer'["receiver"].state = "PendingOffer") = (Receiver.state = "PendingOffer")
    BY <2>2
  <2>4. /\ HasEnded("receiver")' = HasEnded("receiver")
        /\ Finished("receiver")' = Finished("receiver") /\ Finished("sender")' = Finished("sender")
    BY <1>1, <2>2, StateFacts DEF HasEnded, Finished, Receiver
  <2>5. MarkerInv'
    BY <1>1, <1>2, <1>4, <2>2, <2>3, ReceiverMarkers
  <2>6. WorkerInv'
    <3>1. worker["receiver"] # NoWorker => ~Finished("receiver") /\ Receiver.state # "PendingOffer"
      BY DEF IInv, WorkerInv, ReceiveWorker
    <3> QED BY <1>1, <1>2, <1>4, <2>2, <2>3, <2>4, <3>1, WorkerKept
  <2>7. FileInv'
    <3>1. Receiver'.metadata = Receiver.metadata
      BY <1>1, <1>4 DEF Follows, Receiver
    <3> QED BY <1>1, <1>2, <2>2, <2>4, <3>1 DEF IInv, FileInv, Receiver, ReceiveWorker
  <2> QED BY <1>1, <1>3, <1>4, <2>5, <2>6, <2>7, ReceiverMoves
<1>5. CASE ~Known("receiver")
  <2>1. xfer' = xfer /\ worker' = worker
    BY <1>5 DEF Notice
  <2>2. Known("sender") => Follows(Sender, Sender)
    BY KnownFacts, FollowsSelf DEF Sender
  <2> QED BY <1>1, <1>2, <1>3, <2>1, <2>2, SenderMoves DEF SendWorker, Sender
<1> QED BY <1>4, <1>5

\* The user's acceptance is on disk before the machine moves.
LEMMA AcceptOfferStep ==
    ASSUME IInv, AcceptOffer
    PROVE  IInv'
<1> USE SideFacts
<1>1. ShapeInv /\ Known("receiver") /\ Receiver.state = "PendingOffer" /\ Sound(Receiver)
  BY KnownFacts DEF IInv, AcceptOffer, Receiver
<1>2. PICK x \in acceptance_persisted(Receiver, 0) : Move("receiver", x)
  BY DEF AcceptOffer
<1>3. Follows(Receiver, x) /\ x.status = "none" /\ x.state = "Accepted"
  BY <1>1, <1>2, ProgressFacts
<1>4. /\ xfer' \in [Sides -> Machines \cup {NoTransfer}] /\ xfer'["receiver"] = x
      /\ xfer'["sender"] = xfer["sender"]
  BY <1>1, <1>2, <1>3 DEF Move, ShapeInv, Follows, Sound
<1>5. /\ markers' = [markers EXCEPT !["receiver"].accepted = TRUE]
      /\ UNCHANGED <<source, worker, stream, session, unaware, staging, output, bounds>>
  BY DEF AcceptOffer
<1>6. /\ markers' \in [Sides -> Markers] /\ markers'["sender"] = markers["sender"]
      /\ markers'["receiver"].accepted = TRUE
      /\ markers'["receiver"].terminal = markers["receiver"].terminal
  <2> DEFINE k == [markers["receiver"] EXCEPT !.accepted = TRUE]
  <2>1. markers \in [Sides -> Markers] /\ markers["receiver"] \in Markers
    BY <1>1 DEF ShapeInv
  <2>2. k \in Markers /\ k.accepted = TRUE /\ k.terminal = markers["receiver"].terminal
    BY <2>1 DEF Markers
  <2>3. markers' = [markers EXCEPT !["receiver"] = k]
    BY <1>5, <2>1
  <2> HIDE DEF k
  <2> QED BY <2>1, <2>2, <2>3
<1>7. /\ inbox' \in [Sides -> Seq(Messages)]
      /\ \A t \in Sides : \A m \in Mail(inbox'[t]) : m \in Mail(inbox[t]) \/ Fits(t, m)'
  <2>1. PICK a \in Messages : a.kind = "Accept" /\ inbox' = Post("receiver", a)
    BY MessageFacts DEF AcceptOffer, Send
  <2>2. Known("sender")'
    BY <1>1, <1>4 DEF IInv, MachineInv, Known
  <2>3. Fits("sender", a)'
    BY <2>1, <2>2 DEF Fits
  <2>4. /\ inbox' \in [Sides -> Seq(Messages)]
        /\ \A t \in Sides : Mail(inbox'[t]) \subseteq
                               Mail(inbox[t]) \cup IF t = "sender" THEN {a} ELSE {}
    BY <1>1, <2>1, PostFacts
  <2> QED BY <2>3, <2>4
<1>8. ShapeInv'
  BY <1>1, <1>4, <1>5, <1>6, <1>7 DEF ShapeInv, bounds
<1>9. ~HasEnded("receiver") /\ ~HasEnded("receiver")' /\ Receiver.status = "none"
  BY <1>1, <1>3, <1>4, StateFacts DEF HasEnded, Receiver, Sound
<1>10. MarkerInv'
  <2>1. Known("receiver")' /\ Known("sender")' = Known("sender")
    <3>1. x \in Machines
      BY <1>3 DEF Follows, Sound
    <3> QED BY <1>4, <3>1, MachineFacts DEF Known
  <2>2. markers["receiver"].terminal.status = "none"
    BY <1>1, <1>9 DEF IInv, MarkerInv, Receiver
  <2>3. \A t \in Sides : ~Known(t)' => markers'[t] = Unaccepted
    BY <1>6, <2>1 DEF IInv, MarkerInv
  <2>4. \A t \in Sides : Known(t)' => markers'[t].terminal.status = xfer'[t].status
    BY <1>3, <1>4, <1>6, <2>1, <2>2 DEF IInv, MarkerInv
  <2>5. Receiver'.state # "PendingOffer"
    BY <1>3, <1>4 DEF Receiver
  <2>6. /\ markers'["sender"].accepted = FALSE
        /\ markers'["sender"].terminal.status \in {"Completed", "Rejected"} =>
              markers'["sender"].terminal.origin # "Local"
    BY <1>6 DEF IInv, MarkerInv
  <2> QED BY <1>6, <2>2, <2>3, <2>4, <2>5, <2>6 DEF MarkerInv
<1>11. worker["receiver"] = NoWorker
  BY <1>1 DEF IInv, WorkerInv, ReceiveWorker
<1>12. WorkerInv'
  BY <1>5, <1>11 DEF WorkerInv, ReceiveWorker
<1>13. FileInv'
  <2>1. ~Finished("receiver") /\ ~Finished("receiver")' /\ Finished("sender")' = Finished("sender")
    BY <1>4, <1>9 DEF Finished, HasEnded
  <2> QED BY <1>3, <1>4, <1>5, <1>6, <1>9, <2>1 DEF IInv, FileInv, Receiver
<1> QED BY <1>1, <1>3, <1>4, <1>5, <1>7, <1>8, <1>10, <1>12, <1>13, ReceiverMoves
\* A first offer makes a record, a repeated one is answered from it.
LEMMA ReceiveOfferStep ==
    ASSUME IInv, ReceiveOffer
    PROVE  IInv'
<1> USE SideFacts
<1>1. ShapeInv /\ inbox["receiver"] # <<>> /\ Head(inbox["receiver"]).kind = "Offer"
  BY DEF IInv, ReceiveOffer, Receives
<1>2. PICK m0 \in Messages : m0 = Head(inbox["receiver"]) /\ m0 \in Mail(inbox["receiver"])
  BY <1>1, RestFacts
<1>3. Fits("receiver", m0)
  BY <1>2 DEF IInv, InboxInv
<1>4. m0.metadata \in Bytes /\ Known("sender") /\ m0.metadata = Sender.metadata
  BY <1>1, <1>2, <1>3, MessageFacts DEF Fits
<1>5. UNCHANGED <<source, worker, stream, session, unaware, staging, output, markers, bounds>>
  BY DEF ReceiveOffer
<1>6. staging \in Bytes /\ Len(staging) \in Nat
  BY <1>1, LenProperties DEF ShapeInv, Bytes
<1>7. Known("sender") => Follows(Sender, Sender)
  BY KnownFacts, FollowsSelf DEF Sender
<1>8. ASSUME xfer' = xfer, inbox' \in [Sides -> Seq(Messages)],
             \A t \in Sides : \A m \in Mail(inbox'[t]) : m \in Mail(inbox[t]) \/ Fits(t, m)'
      PROVE  IInv'
  <2>1. ShapeInv'
    BY <1>1, <1>5, <1>8 DEF ShapeInv, bounds
  <2> QED BY <1>5, <1>7, <1>8, <2>1, SenderMoves DEF SendWorker, Sender
<1>9. CASE ~Known("receiver") /\ Move("receiver", new("Incoming", m0.metadata)) /\ inbox' = Rest("receiver")
  <2> DEFINE c == new("Incoming", m0.metadata)
  <2>1. /\ Sound(c) /\ c.direction = "Incoming" /\ c.state = "PendingOffer" /\ c.status = "none"
        /\ c.metadata = Sender.metadata
    BY <1>4, NewFacts DEF Directions
  <2>2. xfer' = [xfer EXCEPT !["receiver"] = c]
    BY <1>9 DEF Move
  <2> HIDE DEF c
  <2>3. c \in Machines /\ c # NoTransfer
    BY <2>1, MachineFacts DEF Sound
  <2>4. /\ xfer' \in [Sides -> Machines \cup {NoTransfer}] /\ xfer'["receiver"] = c
        /\ xfer'["sender"] = xfer["sender"]
    BY <1>1, <2>2, <2>3 DEF ShapeInv
  <2>5. /\ inbox' \in [Sides -> Seq(Messages)]
        /\ \A t \in Sides : \A m \in Mail(inbox'[t]) : m \in Mail(inbox[t])
    BY <1>1, <1>9, RestFacts
  <2>6. ShapeInv'
    BY <1>1, <1>5, <2>4, <2>5 DEF ShapeInv, bounds
  <2>7. Known("receiver")' /\ Known("sender")' /\ Sender' = Sender /\ Receiver' = c
    BY <1>4, <2>3, <2>4 DEF Known, Sender, Receiver
  <2>8. MachineInv'
    <3>1. Sound(Sender) /\ Sender.direction = "Outgoing"
      BY <1>4, KnownFacts DEF Sender, DirectionOf
    <3>2. SendWorker'.step # "prepare"
      BY <1>4, <1>5 DEF IInv, MachineInv, SendWorker
    <3>3. Sound(xfer'["sender"]) /\ xfer'["sender"].direction = DirectionOf("sender")
      BY <2>4, <3>1 DEF DirectionOf, Sender
    <3>4. Sound(xfer'["receiver"]) /\ xfer'["receiver"].direction = DirectionOf("receiver")
      BY <2>1, <2>4 DEF DirectionOf
    <3>5. \A t \in Sides : Sound(xfer'[t]) /\ xfer'[t].direction = DirectionOf(t)
      BY <3>3, <3>4, SideFacts
    <3> QED BY <2>1, <2>7, <3>2, <3>5 DEF MachineInv
  <2>9. markers'["receiver"] = Unaccepted /\ Unaccepted.accepted = FALSE /\ Unaccepted.terminal.status = "none"
    BY <1>5, <1>9 DEF IInv, MarkerInv, Unaccepted, NoMarker
  <2>10. MarkerInv'
    <3>1. /\ markers'["sender"] = markers["sender"] /\ markers["sender"].accepted = FALSE
          /\ markers["sender"].terminal.status = Sender.status
          /\ markers["sender"].terminal.status \in {"Completed", "Rejected"} =>
                markers["sender"].terminal.origin # "Local"
      BY <1>4, <1>5 DEF IInv, MarkerInv, Sender
    <3>2. \A t \in Sides : Known(t)' => markers'[t].terminal.status = xfer'[t].status
      BY <2>1, <2>4, <2>9, <3>1 DEF Sender
    <3> QED BY <2>1, <2>7, <2>9, <3>1, <3>2 DEF MarkerInv
  <2>11. InboxInv'
    <3> SUFFICES ASSUME NEW t \in Sides, NEW m \in Mail(inbox'[t]) PROVE Fits(t, m)'
      BY DEF InboxInv, Mail
    <3>1. Fits(t, m)
      BY <2>5 DEF IInv, InboxInv
    <3>2. m.kind = "Terminal" => HasEnded(Other(t))' /\ m.status = xfer'[Other(t)].status
      <4>1. CASE t = "sender"
        <5>1. ~HasEnded("receiver")
          BY <1>9, KnownFacts
        <5> QED BY <3>1, <4>1, <5>1 DEF Fits
      <4>2. CASE t = "receiver"
        BY <2>4, <3>1, <4>2 DEF Fits, HasEnded
      <4> QED BY <4>1, <4>2
    <3>3. m.kind = "Offer" => t = "receiver" /\ Known("sender")' /\ m.metadata = Sender.metadata'
      BY <2>7, <3>1 DEF Fits
    <3> QED BY <2>7, <3>2, <3>3 DEF Fits
  <2>12. WorkerInv'
    BY <1>5, <1>9 DEF IInv, WorkerInv, ReceiveWorker
  <2>13. FileInv'
    <3>1. ~Finished("receiver")
      BY <1>9, KnownFacts DEF Finished, HasEnded
    <3>2. output = Nothing /\ ~Finished("sender")
      BY <3>1 DEF IInv, FileInv
    <3>3. ~Finished("receiver")' /\ ~Finished("sender")' /\ ~HasEnded("receiver")'
      BY <2>1, <2>4, <3>2, StateFacts DEF Finished, HasEnded
    <3>4. staging = <<>>
      BY <1>5, <2>9 DEF IInv, FileInv
    <3> QED BY <1>5, <2>1, <2>7, <3>2, <3>3, <3>4 DEF FileInv
  <2> QED BY <2>6, <2>8, <2>10, <2>11, <2>12, <2>13 DEF IInv
<1>10. CASE /\ Known("receiver")
            /\ \E replay \in replay_offer(Receiver, m0.metadata, Len(staging)) :
                  \/ /\ replay.kind = "Pending"
                     /\ inbox' = Rest("receiver")
                     /\ UNCHANGED xfer
                  \/ /\ replay.kind = "Terminal"
                     /\ Answer("receiver", [kind |-> "Terminal", status |-> replay.status])
                     /\ UNCHANGED xfer
                  \/ /\ replay.kind = "Accept"
                     /\ \/ /\ Receiver.state \in {"Receiving", "Completing"}
                           /\ UNCHANGED xfer
                        \/ /\ ReceiveWorker = NoWorker
                           /\ \E x \in acceptance_persisted(Receiver, replay.offset) :
                                 Move("receiver", x)
                     /\ Answer("receiver", replay)
  <2>1. PICK replay \in replay_offer(Receiver, m0.metadata, Len(staging)) :
           \/ /\ replay.kind = "Pending"
              /\ inbox' = Rest("receiver")
              /\ UNCHANGED xfer
           \/ /\ replay.kind = "Terminal"
              /\ Answer("receiver", [kind |-> "Terminal", status |-> replay.status])
              /\ UNCHANGED xfer
           \/ /\ replay.kind = "Accept"
              /\ \/ /\ Receiver.state \in {"Receiving", "Completing"}
                    /\ UNCHANGED xfer
                 \/ /\ ReceiveWorker = NoWorker
                    /\ \E x \in acceptance_persisted(Receiver, replay.offset) :
                          Move("receiver", x)
              /\ Answer("receiver", replay)
    BY <1>10
  <2>2. Sound(Receiver) /\ Receiver.status \in Statuses \cup {"none"}
    BY <1>10, KnownFacts, MachineFacts DEF Receiver
  <2>3. /\ replay.kind = "Terminal" => Receiver.state \in Terminal /\ replay.status = Receiver.status
        /\ replay.kind = "Accept" => /\ replay = [kind |-> "Accept", offset |-> Len(staging)]
                                     /\ Receiver.state \notin Terminal \cup {"PendingOffer"}
    BY <2>1, StateFacts DEF replay_offer, Ok
  <2>4. CASE replay.kind = "Pending" /\ inbox' = Rest("receiver") /\ UNCHANGED xfer
    BY <1>1, <1>8, <2>4, MailRead
  <2>5. CASE /\ replay.kind = "Terminal" /\ UNCHANGED xfer
             /\ Answer("receiver", [kind |-> "Terminal", status |-> replay.status])
    <3>1. replay.status \in Statuses /\ replay.status = Receiver.status /\ Receiver.state \in Terminal
      BY <2>2, <2>3, <2>5 DEF Sound
    <3>2. PICK a \in Messages : a.kind = "Terminal" /\ a.status = Receiver.status /\ Answer("receiver", a)
      BY <2>5, <3>1, MessageFacts
    <3>3. /\ inbox' \in [Sides -> Seq(Messages)]
          /\ \A t \in Sides : Mail(inbox'[t]) \subseteq
                                 Mail(inbox[t]) \cup IF t = "sender" THEN {a} ELSE {}
      BY <1>1, <3>2, AnswerFacts
    <3>4. Fits("sender", a)'
      BY <2>5, <3>1, <3>2 DEF Fits, HasEnded, Receiver
    <3> QED BY <1>8, <2>5, <3>3, <3>4
  <2>6. ASSUME replay.kind = "Accept", Answer("receiver", replay), xfer'["sender"] = xfer["sender"]
        PROVE  /\ inbox' \in [Sides -> Seq(Messages)]
               /\ \A t \in Sides : \A m \in Mail(inbox'[t]) : m \in Mail(inbox[t]) \/ Fits(t, m)'
    <3>1. replay \in Messages
      BY <1>6, <2>3, <2>6, MessageFacts
    <3>2. /\ inbox' \in [Sides -> Seq(Messages)]
          /\ \A t \in Sides : Mail(inbox'[t]) \subseteq
                                 Mail(inbox[t]) \cup IF t = "sender" THEN {replay} ELSE {}
      BY <1>1, <2>6, <3>1, AnswerFacts
    <3>3. Fits("sender", replay)'
      BY <1>4, <2>6 DEF Fits, Known
    <3> QED BY <3>2, <3>3
  <2>7. CASE replay.kind = "Accept" /\ Answer("receiver", replay) /\ UNCHANGED xfer
    BY <1>8, <2>6, <2>7
  <2>8. CASE /\ replay.kind = "Accept" /\ Answer("receiver", replay) /\ ReceiveWorker = NoWorker
             /\ \E x \in acceptance_persisted(Receiver, replay.offset) : Move("receiver", x)
    <3>1. PICK x \in acceptance_persisted(Receiver, replay.offset) : Move("receiver", x)
      BY <2>8
    <3>2. replay.offset \in Nat
      BY <1>6, <2>3, <2>8
    <3>3. Follows(Receiver, x) /\ x.status = "none" /\ x.state = "Accepted"
      BY <2>2, <3>1, <3>2, ProgressFacts
    <3>4. /\ xfer' \in [Sides -> Machines \cup {NoTransfer}] /\ xfer'["receiver"] = x
          /\ xfer'["sender"] = xfer["sender"]
      BY <1>1, <3>1, <3>3 DEF Move, ShapeInv, Follows, Sound
    <3>5. /\ inbox' \in [Sides -> Seq(Messages)]
          /\ \A t \in Sides : \A m \in Mail(inbox'[t]) : m \in Mail(inbox[t]) \/ Fits(t, m)'
      BY <2>6, <2>8, <3>4
    <3>6. ShapeInv'
      BY <1>1, <1>5, <3>4, <3>5 DEF ShapeInv, bounds
    <3>7. Receiver.status = "none" /\ Receiver.state \notin Terminal /\ Receiver.state # "PendingOffer"
      BY <2>2, <2>3, <2>8 DEF Sound
    <3>8. MarkerInv'
      BY <1>5, <1>10, <3>3, <3>4, <3>7, ReceiverMarkers
    <3>9. WorkerInv'
      BY <1>5, <2>8 DEF WorkerInv, ReceiveWorker
    <3>10. FileInv'
      <4>1. /\ ~Finished("receiver") /\ ~Finished("receiver")' /\ Finished("sender")' = Finished("sender")
            /\ ~HasEnded("receiver")'
        BY <3>3, <3>4, <3>7, StateFacts DEF Finished, HasEnded, Receiver
      <4> QED BY <1>5, <3>3, <3>4, <4>1 DEF IInv, FileInv, Receiver
    <3> QED BY <1>5, <1>10, <3>3, <3>4, <3>5, <3>6, <3>8, <3>9, <3>10, ReceiverMoves
  <2> QED BY <2>1, <2>4, <2>5, <2>7, <2>8
<1> QED BY <1>2, <1>9, <1>10 DEF ReceiveOffer
\* The stream of an attempt that the machine expects starts a worker.
LEMMA TakeStreamStep ==
    ASSUME IInv, TakeStream
    PROVE  IInv'
<1> USE SideFacts
<1>1. ShapeInv /\ stream.open
  BY DEF IInv, TakeStream
<1>2. stream \in Streams /\ stream.header.offset \in Nat
  <2>1. NoStream.open = FALSE
    BY DEF NoStream
  <2>2. stream \in Streams
    BY <1>1, <2>1 DEF ShapeInv
  <2>3. stream.header \in [offset : Nat, remaining : Int]
    BY <2>2 DEF Streams
  <2> QED BY <2>2, <2>3
<1>3. UNCHANGED <<source, inbox, session, unaware, staging, output, markers, bounds>>
  BY DEF TakeStream
<1>4. \A t \in Sides : \A m \in Mail(inbox'[t]) : m \in Mail(inbox[t]) \/ Fits(t, m)'
  BY <1>1, <1>3, MailStays
<1> DEFINE next == IF Known("receiver") /\ ReceiveWorker = NoWorker
                   THEN start_receive(Receiver, stream.header) ELSE {}
<1>5. CASE /\ \E x \in next :
                 /\ Move("receiver", x)
                 /\ SetReceiveWorker(Worker(x.attempt, stream.header.offset, "seek"))
           /\ stream' = [stream EXCEPT !.taken = TRUE]
  <2>1. PICK x \in start_receive(Receiver, stream.header) :
           /\ Known("receiver") /\ Move("receiver", x)
           /\ SetReceiveWorker(Worker(x.attempt, stream.header.offset, "seek"))
    BY <1>5
  <2>2. Sound(Receiver) /\ 0 \in Nat
    BY <2>1, KnownFacts DEF Receiver
  <2>3. /\ Follows(Receiver, x) /\ x.status = "none" /\ Receiver.state = "Accepted"
        /\ x.state = "Receiving" /\ stream.header.offset = Receiver.offset
    BY <2>1, <2>2, ProgressFacts
  <2>4. x \in Machines /\ x.attempt \in 0..MaxAttempt /\ x.metadata = Receiver.metadata
    BY <2>3, MachineFacts DEF Follows, Sound
  <2>5. /\ xfer' \in [Sides -> Machines \cup {NoTransfer}] /\ xfer'["receiver"] = x
        /\ xfer'["sender"] = xfer["sender"]
    BY <1>1, <2>1, <2>4 DEF Move, ShapeInv
  <2> DEFINE w == Worker(x.attempt, stream.header.offset, "seek")
  <2>6. w \in Workers /\ w.step = "seek" /\ w.offset = stream.header.offset /\ w.hashed = <<>>
    BY <1>2, <2>4, WorkerFacts
  <2>7. worker' = [worker EXCEPT !["receiver"] = w]
    BY <2>1 DEF SetReceiveWorker
  <2> HIDE DEF w
  <2>8. /\ worker' \in [Sides -> Workers \cup {NoWorker}] /\ worker'["receiver"] = w
        /\ worker'["sender"] = worker["sender"]
    BY <1>1, <2>6, <2>7 DEF ShapeInv
  <2>9. stream' \in Streams
    BY <1>2, <1>5 DEF Streams
  <2>10. ShapeInv'
    BY <1>1, <1>3, <2>5, <2>8, <2>9 DEF ShapeInv, bounds
  <2>11. Receiver.status = "none" /\ ~HasEnded("receiver") /\ markers["receiver"].accepted
    <3>1. Receiver.status = "none" /\ ~HasEnded("receiver")
      BY <2>2, <2>3, StateFacts DEF Sound, HasEnded, Receiver
    <3> QED BY <2>1, <2>3, <3>1 DEF IInv, MarkerInv
  <2>12. MarkerInv'
    BY <1>3, <2>1, <2>3, <2>5, <2>11, ReceiverMarkers
  <2>13. ~HasEnded("receiver")' /\ ~Finished("receiver")' /\ ~Finished("receiver")
    BY <2>3, <2>5, <2>11, StateFacts DEF HasEnded, Finished
  <2>14. WorkerInv'
    <3>1. Known("receiver")' /\ Receiver' = x /\ ReceiveWorker' = w
      BY <2>4, <2>5, <2>8, MachineFacts DEF Known, Receiver, ReceiveWorker
    <3>2. Receiver.offset <= Len(Receiver.metadata)
      BY <2>2 DEF Sound
    <3> QED BY <1>3, <2>3, <2>4, <2>6, <2>11, <2>13, <3>1, <3>2 DEF WorkerInv
  <2>15. FileInv'
    <3>1. Finished("sender")' = Finished("sender")
      BY <2>5 DEF Finished
    <3> QED BY <1>3, <2>3, <2>5, <2>13, <3>1 DEF IInv, FileInv, Receiver
  <2> QED BY <1>4, <2>1, <2>3, <2>5, <2>8, <2>10, <2>12, <2>14, <2>15, ReceiverMoves
<1>6. CASE stream' = [Reset EXCEPT !.taken = TRUE] /\ UNCHANGED <<xfer, worker>>
  <2>1. Reset \in Streams
    BY <1>2 DEF Reset, Streams
  <2>2. stream' \in Streams
    BY <1>6, <2>1 DEF Streams
  <2>3. ShapeInv'
    BY <1>1, <1>3, <1>6, <2>2 DEF ShapeInv, bounds
  <2>4. Known("sender") => Follows(Sender, Sender)
    BY KnownFacts, FollowsSelf DEF Sender
  <2> QED BY <1>3, <1>4, <1>6, <2>3, <2>4, SenderMoves DEF SendWorker, Sender
<1>7. \/ /\ \E x \in next :
               /\ Move("receiver", x)
               /\ SetReceiveWorker(Worker(x.attempt, stream.header.offset, "seek"))
         /\ stream' = [stream EXCEPT !.taken = TRUE]
      \/ stream' = [Reset EXCEPT !.taken = TRUE] /\ UNCHANGED <<xfer, worker>>
  BY Zenon DEF TakeStream
<1> HIDE DEF next
<1> QED BY <1>5, <1>6, <1>7

\* A step of the receive worker alone.
LEMMA ReceiveWorkerStep ==
    ASSUME IInv, ReceiveWorker # NoWorker, NEW w \in Workers, SetReceiveWorker(w),
           stream' \in Streams \cup {NoStream}, staging' \in Bytes,
           w.step \in {"copy", "joinable"}, w.offset = ReceiveWorker.offset,
           w.step = "copy" => Hashes(ReceiveWorker)',
           w.step = "joinable" /\ w.result = "Ok" => staging' = Receiver.metadata,
           UNCHANGED <<source, xfer, inbox, session, unaware, output, markers, bounds>>
    PROVE  IInv'
<1> USE SideFacts
<1>1. ShapeInv
  BY DEF IInv
<1>2. /\ worker' \in [Sides -> Workers \cup {NoWorker}] /\ worker'["receiver"] = w
      /\ worker'["sender"] = worker["sender"]
  BY <1>1 DEF ShapeInv, SetReceiveWorker
<1>3. ShapeInv'
  BY <1>1, <1>2 DEF ShapeInv, bounds
<1>4. \A t \in Sides : \A m \in Mail(inbox'[t]) : m \in Mail(inbox[t]) \/ Fits(t, m)'
  BY <1>1, MailStays
<1>5. /\ Known("receiver") /\ markers["receiver"].accepted
      /\ Receiver.state \notin {"PendingOffer", "Completing"} /\ ~Finished("receiver")
      /\ ReceiveWorker.offset <= Len(Receiver.metadata)
  BY DEF IInv, WorkerInv
<1>6. Follows(Receiver, Receiver)
  BY <1>5, KnownFacts, FollowsSelf DEF Receiver
<1>7. MarkerInv'
  BY <1>5, <1>6, ReceiverMarkers DEF Receiver
<1>8. /\ Known("receiver")' /\ Receiver' = Receiver /\ ReceiveWorker' = w /\ ~Finished("receiver")'
  BY <1>2, <1>5 DEF Known, Receiver, ReceiveWorker, Finished
<1>9. WorkerInv'
  <2> SUFFICES /\ w.step \in {"seek", "copy", "joinable"} /\ w.offset <= Len(Receiver.metadata)
               /\ w.step = "seek" => w.hashed = <<>>
    BY <1>5, <1>8 DEF WorkerInv
  <2> QED BY <1>5
<1>10. FileInv'
  <2>1. w # NoWorker
    BY DEF Workers, NoWorker
  <2>2. Finished("sender")' = Finished("sender")
    BY DEF Finished
  <2>3. output = Nothing /\ ~Finished("sender")
    BY <1>5 DEF IInv, FileInv
  <2> QED BY <1>5, <1>8, <2>1, <2>2, <2>3 DEF FileInv
<1> QED BY <1>2, <1>3, <1>4, <1>5, <1>6, <1>7, <1>9, <1>10, ReceiverMoves DEF Receiver

\* The worker begins at the end of what is staged.
LEMMA SeekStagingStep ==
    ASSUME IInv, SeekStaging
    PROVE  IInv'
<1> USE SideFacts
<1>1. ShapeInv /\ ReceiveWorker.step = "seek" /\ staging \in Bytes /\ stream \in Streams \cup {NoStream}
  BY DEF IInv, SeekStaging, ShapeInv
<1>2. ReceiveWorker \in Workers /\ ReceiveWorker # NoWorker /\ ReceiveWorker.offset \in Nat
  BY <1>1, WorkerKinds DEF ReceiveWorker
<1>3. ReceiveWorker.hashed = <<>>
  BY <1>1, <1>2 DEF IInv, WorkerInv
<1>4. /\ UNCHANGED <<source, xfer, inbox, session, unaware, output, markers, bounds>>
      /\ stream' = stream /\ staging' = staging
  BY DEF SeekStaging
<1> DEFINE a == [ReceiveWorker EXCEPT !.step = "copy"]
           c == Ends(ReceiveWorker, "Failed")
<1>5. a \in Workers /\ a.step = "copy" /\ a.offset = ReceiveWorker.offset /\ a.hashed = <<>>
  BY <1>2, <1>3 DEF Workers
<1>6. c \in Workers /\ c.step = "joinable" /\ c.result = "Failed" /\ c.offset = ReceiveWorker.offset
  BY <1>2, EndsFacts DEF Results
<1>7. SetReceiveWorker(IF Len(staging) = ReceiveWorker.offset THEN a ELSE c)
  BY DEF SeekStaging
<1> HIDE DEF a, c
<1>8. CASE Len(staging) = ReceiveWorker.offset
  <2>1. SetReceiveWorker(a) /\ ReceiveWorker' = a
    BY <1>1, <1>7, <1>8 DEF SetReceiveWorker, ReceiveWorker, ShapeInv
  <2>2. Len(<<>>) = 0 /\ Len(staging) \in Nat
    BY <1>2, <1>8, EmptySeq
  <2>3. Hashes(ReceiveWorker)'
    BY <1>2, <1>4, <1>5, <1>8, <2>1, <2>2 DEF Hashes
  <2> QED BY <1>1, <1>2, <1>4, <1>5, <2>1, <2>3, ReceiveWorkerStep
<1>9. CASE Len(staging) # ReceiveWorker.offset
  <2>1. SetReceiveWorker(c)
    BY <1>7, <1>9
  <2> QED BY <1>1, <1>2, <1>4, <1>6, <2>1, ReceiveWorkerStep
<1> QED BY <1>8, <1>9

\* What was hashed and what is staged are the same file.
LEMMA VerifiedFile ==
    ASSUME NEW w \in Workers, Hashes(w), staging \in Bytes, Len(w.hashed) >= w.offset
    PROVE  w.hashed = staging
<1>1. w.hashed \in Bytes
  BY DEF Workers
<1>2. Len(staging) = Len(w.hashed) /\ \A i \in 1 .. Len(w.hashed) : w.hashed[i] = staging[i]
  BY DEF Hashes
<1> QED BY <1>1, <1>2, SeqEqual DEF Bytes

\* The worker hashes the old prefix from the file, then what it appends to it.
LEMMA ReceivePayloadStep ==
    ASSUME IInv, ReceivePayload
    PROVE  IInv'
<1> USE SideFacts
<1> DEFINE w == ReceiveWorker
<1>1. /\ ShapeInv /\ w.step = "copy" /\ staging \in Bytes /\ stream \in Streams \cup {NoStream}
  BY DEF IInv, ReceivePayload, ShapeInv
<1>2. /\ w \in Workers /\ w # NoWorker /\ w.offset \in Nat /\ w.hashed \in Bytes /\ Len(w.hashed) \in Nat
  BY <1>1, WorkerKinds DEF ReceiveWorker
<1>3. Hashes(w) /\ w.offset <= Len(Receiver.metadata) /\ Known("receiver")
  BY <1>1, <1>2 DEF IInv, WorkerInv
<1>4. Len(staging) \in Nat
  BY <1>1, LenProperties DEF Bytes
<1>5. UNCHANGED <<source, xfer, inbox, session, unaware, output, markers, bounds>>
  BY DEF ReceivePayload
<1>6. CASE Len(w.hashed) < w.offset /\ SetReceiveWorker(HashStaged(w)) /\ UNCHANGED <<stream, staging>>
  <2>1. Len(w.hashed) < Len(staging) /\ Len(staging) = w.offset
    BY <1>2, <1>3, <1>4, <1>6 DEF Hashes
  <2> DEFINE v == HashStaged(w)
             b == staging[Len(w.hashed) + 1]
  <2>2. b \in {0, 1} /\ v = [w EXCEPT !.hashed = Append(@, b)]
    BY <1>1, <1>2, <2>1, ReadNextFacts DEF HashStaged
  <2>3. SetReceiveWorker(v)
    BY <1>6
  <2> HIDE DEF v, w
  <2>4. /\ v \in Workers /\ v.step = w.step /\ v.offset = w.offset
        /\ Len(v.hashed) = Len(w.hashed) + 1 /\ v.hashed[Len(w.hashed) + 1] = b
        /\ \A i \in 1 .. Len(w.hashed) : v.hashed[i] = w.hashed[i]
    <3> HIDE DEF b
    <3> QED BY <1>2, <2>2, ReadFacts
  <2>5. ReceiveWorker' = v
    BY <1>1, <2>3 DEF SetReceiveWorker, ReceiveWorker, ShapeInv
  <2>6. Hashes(ReceiveWorker)'
    <3>1. \A i \in 1 .. Len(w.hashed) : w.hashed[i] = staging[i]
      BY <1>3 DEF Hashes
    <3>2. \A i \in 1 .. Len(v.hashed) : v.hashed[i] = staging[i]
      BY <1>2, <2>4, <3>1 DEF b
    <3>3. /\ v.offset <= Len(staging) /\ Len(v.hashed) <= Len(staging)
          /\ Len(v.hashed) < v.offset => Len(staging) = v.offset
          /\ Len(v.hashed) >= v.offset => Len(staging) = Len(v.hashed)
      BY <1>2, <1>4, <2>1, <2>4
    <3> QED BY <1>6, <2>5, <3>2, <3>3 DEF Hashes
  <2> QED BY <1>1, <1>2, <1>5, <1>6, <2>3, <2>4, <2>6, ReceiveWorkerStep DEF w
<1>7. CASE /\ w.offset <= Len(w.hashed) /\ Writable /\ stream.data # <<>>
           /\ SetReceiveWorker([w EXCEPT !.hashed = Append(@, Head(stream.data))])
           /\ staging' = Append(staging, Head(stream.data))
           /\ stream' = [stream EXCEPT !.data = Tail(@)]
  <2>1. stream \in Streams /\ stream.data \in Bytes
    <3>1. NoStream.open = FALSE
      BY DEF NoStream
    <3>2. stream \in Streams
      BY <1>1, <1>7, <3>1 DEF Writable
    <3> QED BY <3>2 DEF Streams
  <2> DEFINE b == Head(stream.data)
  <2>2. b \in {0, 1} /\ Tail(stream.data) \in Bytes
    BY <1>7, <2>1, HeadTailProperties DEF Bytes
  <2> DEFINE v == [w EXCEPT !.hashed = Append(@, b)]
  <2>3. SetReceiveWorker(v) /\ staging' = Append(staging, b)
    BY <1>7
  <2> HIDE DEF b, w
  <2>4. /\ v \in Workers /\ v.step = w.step /\ v.offset = w.offset
        /\ Len(v.hashed) = Len(w.hashed) + 1 /\ v.hashed[Len(w.hashed) + 1] = b
        /\ \A i \in 1 .. Len(w.hashed) : v.hashed[i] = w.hashed[i]
    BY <1>2, <2>2, ReadFacts
  <2> HIDE DEF v
  <2>5. ReceiveWorker' = v
    BY <1>1, <2>3 DEF SetReceiveWorker, ReceiveWorker, ShapeInv
  <2>6. /\ staging' \in Bytes /\ Len(staging') = Len(staging) + 1 /\ staging'[Len(staging) + 1] = b
        /\ \A i \in 1 .. Len(staging) : staging'[i] = staging[i]
    BY <1>1, <2>2, <2>3, AppendProperties DEF Bytes
  <2>7. Len(staging) = Len(w.hashed) /\ \A i \in 1 .. Len(w.hashed) : w.hashed[i] = staging[i]
    BY <1>2, <1>3, <1>7 DEF Hashes
  <2>8. Hashes(ReceiveWorker)'
    <3>1. \A i \in 1 .. Len(v.hashed) : v.hashed[i] = staging'[i]
      BY <1>2, <2>4, <2>6, <2>7
    <3>2. Len(v.hashed) = Len(staging') /\ v.offset <= Len(staging') /\ Len(staging') \in Nat
      BY <1>2, <1>4, <1>7, <2>4, <2>6, <2>7
    <3> QED BY <1>2, <2>4, <2>5, <3>1, <3>2 DEF Hashes
  <2>9. stream' \in Streams
    BY <1>7, <2>1, <2>2 DEF Streams
  <2> QED BY <1>1, <1>2, <1>5, <2>3, <2>4, <2>6, <2>8, <2>9, ReceiveWorkerStep DEF w
<1>8. CASE /\ Len(w.hashed) = byte_len(Receiver)
           /\ SetReceiveWorker(Ends(w, IF w.hashed = Receiver.metadata THEN "Ok" ELSE "Failed"))
           /\ UNCHANGED <<stream, staging>>
  <2> DEFINE r == IF w.hashed = Receiver.metadata THEN "Ok" ELSE "Failed"
  <2>1. r \in Results /\ (r = "Ok" => w.hashed = Receiver.metadata)
    BY DEF Results
  <2>2. SetReceiveWorker(Ends(w, r))
    BY <1>8
  <2>3. Len(w.hashed) >= w.offset
    BY <1>2, <1>3, <1>8 DEF byte_len
  <2>4. w.hashed = staging
    <3> HIDE DEF w
    <3> QED BY <1>1, <1>2, <1>3, <2>3, VerifiedFile
  <2> HIDE DEF r
  <2>5. /\ Ends(w, r) \in Workers /\ Ends(w, r).step = "joinable" /\ Ends(w, r).result = r
        /\ Ends(w, r).offset = w.offset
    BY <1>2, <2>1, EndsFacts
  <2> DEFINE v == Ends(w, r)
  <2>6. /\ v \in Workers /\ v.step = "joinable" /\ v.result = r /\ v.offset = w.offset
        /\ SetReceiveWorker(v)
    BY <2>2, <2>5
  <2> HIDE DEF v
  <2> QED BY <1>1, <1>2, <1>5, <1>8, <2>1, <2>4, <2>6, ReceiveWorkerStep
<1>9. \/ Len(w.hashed) < w.offset /\ SetReceiveWorker(HashStaged(w)) /\ UNCHANGED <<stream, staging>>
      \/ /\ w.offset <= Len(w.hashed) /\ Writable /\ stream.data # <<>>
         /\ SetReceiveWorker([w EXCEPT !.hashed = Append(@, Head(stream.data))])
         /\ staging' = Append(staging, Head(stream.data))
         /\ stream' = [stream EXCEPT !.data = Tail(@)]
      \/ /\ Len(w.hashed) = byte_len(Receiver)
         /\ SetReceiveWorker(Ends(w, IF w.hashed = Receiver.metadata THEN "Ok" ELSE "Failed"))
         /\ UNCHANGED <<stream, staging>>
  BY DEF ReceivePayload
<1> HIDE DEF w
<1> QED BY <1>6, <1>7, <1>8, <1>9

\* A receive worker is cut short: what it had only buffered may be lost.
LEMMA ReceiverGivesUp ==
    ASSUME IInv, Interrupted("receiver") \/ LocalIo("receiver")
    PROVE  IInv'
<1> USE SideFacts
<1>1. ShapeInv /\ ReceiveWorker # NoWorker /\ staging \in Bytes
  BY DEF IInv, Interrupted, LocalIo, Running, ReceiveWorker, ShapeInv
<1>2. ReceiveWorker \in Workers /\ ReceiveWorker.offset \in Nat
  BY <1>1, WorkerKinds DEF ReceiveWorker
<1>0. PICK r \in {"Interrupted", "Failed"} : GivesUp("receiver", r)
  BY DEF Interrupted, LocalIo
<1> DEFINE w == Ends(ReceiveWorker, r)
<1>3. /\ w \in Workers /\ w.step = "joinable" /\ w.result # "Ok"
      /\ w.offset = ReceiveWorker.offset
  BY <1>2, EndsFacts DEF Results
<1>4. SetReceiveWorker(w)
  BY <1>0, <1>1 DEF GivesUp, SetReceiveWorker, ReceiveWorker, ShapeInv
<1> HIDE DEF w
<1>5. /\ UNCHANGED <<source, xfer, inbox, session, unaware, output, markers, bounds>>
      /\ stream' = stream
  BY <1>0 DEF GivesUp
<1>6. staging' \in Bytes
  <2>1. PICK n \in ReceiveWorker.offset .. Len(staging) : staging' = SubSeq(staging, 1, n)
    BY <1>0 DEF GivesUp, ReceiveWorker
  <2>2. Len(staging) \in Nat
    BY <1>1, LenProperties DEF Bytes
  <2>3. n \in Int /\ \A i \in 1 .. n : staging[i] \in {0, 1}
    <3>1. n \in Int /\ \A i \in 1 .. n : i \in 1 .. Len(staging)
      BY <1>2, <2>1, <2>2
    <3> QED BY <1>1, <3>1, ElementOfSeq DEF Bytes
  <2> QED BY <2>1, <2>3, SubSeqProperties DEF Bytes
<1> QED BY <1>1, <1>3, <1>4, <1>5, <1>6, ReceiveWorkerStep DEF ShapeInv

\* The owner joins the receive worker and reconciles what is staged.
LEMMA JoinReceiveStep ==
    ASSUME IInv, JoinReceive
    PROVE  IInv'
<1> USE SideFacts
<1>1. ShapeInv /\ ReceiveWorker.step = "joinable"
  BY DEF IInv, JoinReceive
<1>2. ReceiveWorker \in Workers /\ ReceiveWorker # NoWorker /\ ReceiveWorker.attempt \in 0..MaxAttempt
  BY <1>1, WorkerKinds DEF ReceiveWorker
<1>3. /\ Known("receiver") /\ markers["receiver"].accepted
      /\ Receiver.state \notin {"PendingOffer", "Completing"} /\ ~Finished("receiver")
      /\ ReceiveWorker.result = "Ok" => staging = Receiver.metadata
  BY <1>1, <1>2 DEF IInv, WorkerInv
<1>4. Sound(Receiver)
  BY <1>3, KnownFacts DEF Receiver
<1>5. /\ SetReceiveWorker(NoWorker) /\ staging' = Discarded(xfer'["receiver"], NoWorker)
      /\ UNCHANGED <<source, session, unaware, output, bounds>>
  BY DEF JoinReceive
<1>6. /\ worker' \in [Sides -> Workers \cup {NoWorker}] /\ worker'["receiver"] = NoWorker
      /\ worker'["sender"] = worker["sender"]
  BY <1>1, <1>5 DEF ShapeInv, SetReceiveWorker
<1>7. /\ staging' \in Bytes /\ staging' \in {<<>>, staging}
      /\ xfer'["receiver"].state \in Terminal /\ xfer'["receiver"].status # "Completed" => staging' = <<>>
      /\ xfer'["receiver"].state \notin Terminal => staging' = staging
  BY <1>1, <1>5, DiscardedFacts
<1>8. ASSUME NEW x, Move("receiver", x), Follows(Receiver, x), x.status = Receiver.status,
             (x.state = "PendingOffer") = (Receiver.state = "PendingOffer"),
             (x.state \in Terminal) = (Receiver.state \in Terminal),
             x.state = "Completing" => staging = Receiver.metadata,
             UNCHANGED <<stream, inbox, markers>>
      PROVE  IInv'
  <2>1. /\ xfer' \in [Sides -> Machines \cup {NoTransfer}] /\ xfer'["receiver"] = x
        /\ xfer'["sender"] = xfer["sender"]
    BY <1>1, <1>8 DEF Move, ShapeInv, Follows, Sound
  <2>2. ShapeInv'
    BY <1>1, <1>5, <1>6, <1>7, <1>8, <2>1 DEF ShapeInv, bounds
  <2>3. \A t \in Sides : \A m \in Mail(inbox'[t]) : m \in Mail(inbox[t]) \/ Fits(t, m)'
    BY <1>1, <1>8, MailStays
  <2>4. MarkerInv'
    BY <1>3, <1>8, <2>1, ReceiverMarkers
  <2>5. WorkerInv'
    BY <1>6 DEF WorkerInv, ReceiveWorker
  <2>6. /\ Finished("receiver")' = Finished("receiver") /\ Finished("sender")' = Finished("sender")
        /\ HasEnded("receiver")' = (x.state \in Terminal) /\ Receiver' = x
    BY <1>8, <2>1 DEF Finished, HasEnded, Receiver
  <2>7. FileInv'
    <3>1. x.state = "Completing" => staging' = x.metadata
      <4>1. x.state = "Completing" => x.state \notin Terminal
        BY StateFacts
      <4> QED BY <1>7, <1>8, <2>1, <4>1 DEF Follows
    <3>2. x.state \in Terminal => staging' = <<>>
      <4>1. x.state \in Terminal => x.status # "Completed"
        BY <1>3, <2>1, <2>6 DEF Finished
      <4> QED BY <1>7, <2>1, <4>1
    <3>3. output = Nothing /\ ~Finished("sender")
      BY <1>3 DEF IInv, FileInv
    <3> QED BY <1>3, <1>5, <1>8, <2>6, <3>1, <3>2, <3>3 DEF FileInv
  <2> QED BY <1>3, <1>6, <1>8, <2>1, <2>2, <2>3, <2>4, <2>5, <2>7, ReceiverMoves
<1>9. CASE /\ ReceiveWorker.result = "Ok"
           /\ \E x \in payload_verified(Receiver, ReceiveWorker.attempt) : Move("receiver", x)
           /\ UNCHANGED <<stream, inbox, markers>>
  <2>1. PICK x \in payload_verified(Receiver, ReceiveWorker.attempt) : Move("receiver", x)
    BY <1>9
  <2>2. /\ Follows(Receiver, x) /\ x.status = "none" /\ Receiver.state = "Receiving"
        /\ x.state = "Completing"
    BY <1>4, <2>1, ProgressFacts
  <2>3. Receiver.status = "none" /\ Receiver.state \notin Terminal /\ x.state \notin Terminal
    BY <1>4, <2>2, StateFacts DEF Sound
  <2> QED BY <1>3, <1>8, <1>9, <2>1, <2>2, <2>3
<1>10. CASE EndLocally("receiver", "Failed", ReceiveWorker.attempt) /\ stream' = Reset
  <2>1. "Failed" \in Statuses /\ stream' \in Streams \cup {NoStream}
    BY <1>1, <1>10, ResetFacts DEF Statuses
  <2>2. /\ xfer' \in [Sides -> Machines \cup {NoTransfer}]
        /\ xfer'["sender"] = xfer["sender"] /\ Follows(Receiver, xfer'["receiver"])
        /\ HasEnded("receiver")' /\ xfer'["receiver"].status = "Failed"
        /\ (HasEnded("receiver") => xfer'["receiver"] = xfer["receiver"])
        /\ markers' \in [Sides -> Markers]
        /\ markers'["receiver"].accepted = markers["receiver"].accepted /\ MarkerInv'
        /\ inbox' \in [Sides -> Seq(Messages)]
        /\ \A t \in Sides : \A m \in Mail(inbox'[t]) : m \in Mail(inbox[t]) \/ Fits(t, m)'
    BY <1>2, <1>3, <1>10, <2>1, EndFacts DEF Receiver
  <2>3. ShapeInv'
    BY <1>1, <1>5, <1>6, <1>7, <2>1, <2>2 DEF ShapeInv, bounds
  <2>4. WorkerInv' /\ FileInv'
    BY <1>3, <1>5, <1>6, <2>2, ReceiverEnded
  <2> QED BY <1>3, <1>6, <2>2, <2>3, <2>4, ReceiverMoves
<1>11. CASE Owns("receiver") /\ Move("receiver", pause(Receiver)) /\ UNCHANGED <<stream, inbox, markers>>
  <2>1. Receiver.state \in Active
    BY <1>11 DEF Owns, Receiver
  <2>2. /\ Follows(Receiver, pause(Receiver)) /\ pause(Receiver).status = Receiver.status
        /\ pause(Receiver).state \in {"Paused", Receiver.state} /\ pause(Receiver).state # "Completing"
    BY <1>4, ProgressFacts
  <2>3. /\ pause(Receiver).state \notin Terminal \cup {"PendingOffer"}
        /\ Receiver.state \notin Terminal \cup {"PendingOffer"}
    BY <2>1, <2>2, StateFacts
  <2> QED BY <1>8, <1>11, <2>2, <2>3
<1>12. CASE UNCHANGED <<xfer, stream, inbox, markers>>
  <2>1. Move("receiver", Receiver)
    BY <1>1, <1>12 DEF Move, ShapeInv, Receiver
  <2>2. Follows(Receiver, Receiver)
    BY <1>4, FollowsSelf
  <2> QED BY <1>3, <1>8, <1>12, <2>1, <2>2
<1> QED BY <1>9, <1>10, <1>11, <1>12 DEF JoinReceive

\* The verified file is published, and the transfer completed.
LEMMA PublishStep ==
    ASSUME IInv, Publish
    PROVE  IInv'
<1> USE SideFacts
<1>1. ShapeInv /\ Known("receiver") /\ Receiver.state = "Completing" /\ Sound(Receiver)
  BY KnownFacts DEF IInv, Publish, Receiver
<1>2. /\ output' = staging /\ staging' = <<>>
      /\ EndLocally("receiver", "Completed", Receiver.attempt)
      /\ UNCHANGED <<source, worker, stream, session, unaware, bounds>>
  BY DEF Publish
<1>3. "Completed" \in Statuses /\ Receiver.attempt \in 0..MaxAttempt
  BY <1>1, MachineFacts DEF Statuses, Sound
<1>4. /\ xfer' \in [Sides -> Machines \cup {NoTransfer}]
      /\ xfer'["sender"] = xfer["sender"] /\ Follows(Receiver, xfer'["receiver"])
      /\ HasEnded("receiver")' /\ xfer'["receiver"].status = "Completed"
      /\ markers' \in [Sides -> Markers] /\ MarkerInv'
      /\ inbox' \in [Sides -> Seq(Messages)]
      /\ \A t \in Sides : \A m \in Mail(inbox'[t]) : m \in Mail(inbox[t]) \/ Fits(t, m)'
  BY <1>1, <1>2, <1>3, EndFacts DEF Receiver
<1>5. staging = Receiver.metadata /\ staging \in Bytes /\ <<>> \in Bytes
  BY <1>1, EmptySeq DEF IInv, FileInv, ShapeInv, Bytes
<1>6. ShapeInv'
  BY <1>1, <1>2, <1>4, <1>5 DEF ShapeInv, bounds
<1>7. worker'["receiver"] = NoWorker
  BY <1>1, <1>2 DEF IInv, WorkerInv, ReceiveWorker
<1>8. WorkerInv'
  BY <1>7 DEF WorkerInv, ReceiveWorker
<1>9. FileInv'
  <2>1. Finished("receiver")' /\ Receiver'.metadata = Receiver.metadata
    BY <1>4 DEF Finished, HasEnded, Follows, Receiver
  <2>2. Receiver'.state # "Completing"
    BY <1>4, StateFacts DEF HasEnded, Receiver
  <2> QED BY <1>2, <1>5, <2>1, <2>2 DEF FileInv
<1> QED BY <1>1, <1>2, <1>4, <1>6, <1>8, <1>9, ReceiverMoves

-----------------------------------------------------------------------------
(* Theorems *)

\* The invariant holds before the source has been read.
LEMMA InitIInv == Init => IInv
<1> SUFFICES ASSUME Init PROVE IInv
  OBVIOUS
<1> USE SideFacts
<1>1. Original \in Bytes /\ Original \in Contents /\ Len(Original) \in Nat /\ 0 \in 0..MaxAttempt
  BY TransferAssumption, MaxAttemptAssumption, LenProperties DEF Bytes
<1> DEFINE w == Worker(0, Len(Original), "prepare")
<1>2. w \in Workers /\ w.step = "prepare"
  BY <1>1, WorkerFacts
<1>3. worker = [s \in Sides |-> IF s = "sender" THEN w ELSE NoWorker]
  BY DEF Init
<1> HIDE DEF w
<1>4. worker["sender"] = w /\ worker["receiver"] = NoWorker /\ worker \in [Sides -> Workers \cup {NoWorker}]
  BY <1>2, <1>3
<1>5. /\ xfer["sender"] = NoTransfer /\ xfer["receiver"] = NoTransfer
      /\ xfer \in [Sides -> Machines \cup {NoTransfer}]
  BY DEF Init
<1>6. \A s \in Sides : ~Known(s) /\ ~HasEnded(s) /\ ~Finished(s)
  BY <1>5, StateFacts DEF Known, HasEnded, Finished
<1>7. Unaccepted \in Markers /\ Unaccepted.accepted = FALSE /\ Unaccepted.terminal.status = "none"
  BY DEF Unaccepted, NoMarker, Markers
<1>8. markers \in [Sides -> Markers] /\ \A s \in Sides : markers[s] = Unaccepted
  BY <1>7 DEF Init
<1>9. inbox \in [Sides -> Seq(Messages)] /\ \A s \in Sides : Mail(inbox[s]) = {}
  <2>1. <<>> \in Seq(Messages) /\ Mail(<<>>) = {}
    BY MessageFacts, ShortMail
  <2> QED BY <2>1 DEF Init
<1>10. ShapeInv
  <2>1. <<>> \in Bytes
    BY EmptySeq DEF Bytes
  <2>2. 0 \in 0..MaxChanges /\ 0 \in 0..MaxLosses
    BY TransferAssumption
  <2> QED BY <1>1, <1>4, <1>5, <1>8, <1>9, <2>1, <2>2 DEF Init, ShapeInv
<1>11. MachineInv
  <2>1. SendWorker.step = "prepare" /\ Known("sender") = FALSE /\ Known("receiver") = FALSE
    BY <1>2, <1>4, <1>5 DEF SendWorker, Known
  <2> QED BY <1>6, <2>1 DEF MachineInv
<1>12. MarkerInv
  BY <1>6, <1>7, <1>8 DEF MarkerInv
<1>13. InboxInv
  BY <1>9 DEF InboxInv
<1>14. WorkerInv
  BY <1>4 DEF WorkerInv, ReceiveWorker
<1>15. FileInv
  <2>1. Receiver.state # "Completing"
    BY <1>5, StateFacts DEF Receiver, NoTransfer
  <2> QED BY <1>6, <2>1 DEF FileInv, Init
<1> QED BY <1>10, <1>11, <1>12, <1>13, <1>14, <1>15 DEF IInv

\* Every step keeps it.
LEMMA NextIInv == IInv /\ [Next]_vars => IInv'
<1> SUFFICES ASSUME IInv, [Next]_vars PROVE IInv'
  OBVIOUS
<1>1. CASE SenderWorks
  BY <1>1, PrepareSourceStep, SendOfferStep, ReceiveAcceptStep, StartSendStep, HashSourceStep,
     SendPayloadStep, JoinSendStep, SenderGivesUp, NoticeSender, TerminalSender, AckSender
     DEF SenderWorks
<1>2. CASE ReceiverWorks
  BY <1>2, ReceiveOfferStep, TakeStreamStep, SeekStagingStep, ReceivePayloadStep, JoinReceiveStep,
     PublishStep, ReceiverGivesUp, NoticeReceiver, TerminalReceiver, AckReceiver
     DEF ReceiverWorks
<1>3. CASE Reconnect
  BY <1>3, ReconnectStep
<1>4. CASE Environment
  <2>1. \A s \in Sides : Cancel(s) \/ LocalIo(s) => IInv'
    BY SideFacts, CancelSender, CancelReceiver, SenderGivesUp, ReceiverGivesUp
  <2> QED BY <1>4, <2>1, RepeatOfferStep, AcceptOfferStep, RejectOfferStep, LoseStep,
         SourceChangesStep DEF Environment
<1>5. CASE UNCHANGED vars
  <2>1. UNCHANGED <<source, xfer, worker, inbox, stream, session, unaware, staging, output, markers,
                    changes, losses>>
    BY <1>5 DEF vars
  <2>2. ShapeInv /\ ShapeInv'
    BY <2>1 DEF IInv, ShapeInv
  <2>3. \A t \in Sides : \A m \in Mail(inbox'[t]) : m \in Mail(inbox[t]) \/ Fits(t, m)'
    BY <2>1, <2>2, MailStays
  <2>4. Known("sender") => Follows(Sender, Sender)
    BY SideFacts, KnownFacts, FollowsSelf DEF Sender
  <2> QED BY <2>1, <2>2, <2>3, <2>4, SenderMoves DEF SendWorker, Sender
<1> QED BY <1>1, <1>2, <1>3, <1>4, <1>5 DEF Next

\* In every run of one transfer the machines, markers, messages, workers and
\* files of both sides fit together as the invariant says (state.rs, store.rs
\* and streaming.rs together).
THEOREM InductiveInvariant == Spec => []IInv
BY InitIInv, NextIInv, PTL DEF Spec

\* Types are right in every state: the machines of state.rs hold the data of
\* their variant, and a worker exists only beside one.
THEOREM TypeCorrect == Spec => []TypeOK
<1>1. IInv => TypeOK
  <2> SUFFICES ASSUME IInv PROVE TypeOK
    OBVIOUS
  <2>1. ASSUME NEW s \in Sides
        PROVE  /\ Known(s) => xfer[s] \in Machines /\ xfer[s].direction = DirectionOf(s)
               /\ Known(s) => /\ (xfer[s].state \in Terminal) = (xfer[s].status # "none")
                              /\ (xfer[s].state \in Active) = (xfer[s].attempt # 0)
                              /\ xfer[s].offset <= byte_len(xfer[s])
               /\ worker[s] # NoWorker => Known(s) \/ worker[s].step = "prepare"
    <3>1. Known(s) => Sound(xfer[s]) /\ xfer[s].direction = DirectionOf(s)
      BY KnownFacts
    <3>2. worker[s] # NoWorker => Known(s) \/ worker[s].step = "prepare"
      BY SideFacts DEF IInv, MachineInv, WorkerInv, SendWorker, ReceiveWorker
    <3> QED BY <3>1, <3>2 DEF Sound, byte_len
  <2> QED BY <2>1 DEF IInv, ShapeInv, TypeOK, Bytes
<1> QED BY <1>1, InductiveInvariant, PTL

\* Whoever believes that the transfer is complete, the receiver has published
\* exactly the file that the sender offered, for any content of the source, any
\* number of rewrites and any number of lost sessions (streaming.rs: digests of
\* both sides; state.rs: terminal_persisted).
THEOREM Completion == Spec => []CompletedIsWhole
<1>1. IInv => CompletedIsWhole
  <2> SUFFICES ASSUME IInv PROVE CompletedIsWhole
    OBVIOUS
  <2>1. Finished("sender") \/ Finished("receiver") => Finished("receiver")
    BY DEF IInv, FileInv
  <2>2. Finished("receiver") => output = Receiver.metadata /\ Known("receiver")
    BY SideFacts, KnownFacts DEF IInv, FileInv, Finished, HasEnded
  <2>3. Finished("receiver") => output = Sender.metadata
    BY <2>2 DEF IInv, MachineInv
  <2>4. output # Nothing => Finished("receiver")
    BY DEF IInv, FileInv
  <2> QED BY <2>1, <2>3, <2>4, SideFacts DEF CompletedIsWhole, Finished, Receiver
<1> QED BY <1>1, InductiveInvariant, PTL

\* Wherever the process of either side dies, the startup scan accepts its
\* record, and finds the outcome its machine had (store.rs: scan_record).
THEOREM RestartSafety == Spec => []StoreScans
<1>1. IInv => StoreScans
  <2> SUFFICES ASSUME IInv PROVE StoreScans
    OBVIOUS
  <2>1. \A s \in Sides : Known(s) => markers[s].terminal.status = xfer[s].status
    BY DEF IInv, MarkerInv
  <2>2. scan_transfer_state("sender")
    <3>1. /\ markers["sender"].accepted = FALSE
          /\ markers["sender"].terminal.status \in {"Completed", "Rejected"} =>
                markers["sender"].terminal.origin # "Local"
      BY DEF IInv, MarkerInv
    <3> QED BY <3>1 DEF scan_transfer_state, scan_record, validate_marker, DirectionOf
  <2>3. scan_transfer_state("receiver")
    <3>1. /\ markers["receiver"].terminal.status \in {"Completed", "Rejected"} =>
                markers["receiver"].terminal.origin = "Local"
          /\ markers["receiver"].terminal.status = "Completed" => markers["receiver"].accepted
          /\ markers["receiver"].terminal.status = "Rejected" => ~markers["receiver"].accepted
      BY DEF IInv, MarkerInv
    <3> QED BY <3>1 DEF scan_transfer_state, scan_record, validate_marker, DirectionOf
  <2> QED BY <2>1, <2>2, <2>3, SideFacts DEF StoreScans
<1> QED BY <1>1, InductiveInvariant, PTL

\* No byte of a payload is read, staged or published before the acceptance is
\* durable, and an ended transfer leaves no partial file behind once its worker
\* is joined (state.rs: start_receive; streaming.rs: receive_payload).
THEOREM ConsentToPayload == Spec => []PayloadNeedsAcceptance
<1>1. IInv => PayloadNeedsAcceptance
  <2> SUFFICES ASSUME IInv PROVE PayloadNeedsAcceptance
    OBVIOUS
  <2>1. staging # <<>> => markers["receiver"].accepted
    BY DEF IInv, FileInv
  <2>2. ReceiveWorker # NoWorker => markers["receiver"].accepted
    BY DEF IInv, WorkerInv
  <2>3. output # Nothing => markers["receiver"].accepted
    <3> SUFFICES ASSUME output # Nothing PROVE markers["receiver"].accepted
      OBVIOUS
    <3>1. Finished("receiver")
      BY DEF IInv, FileInv
    <3>2. Known("receiver")
      BY <3>1, SideFacts, KnownFacts DEF Finished, HasEnded
    <3>3. markers["receiver"].terminal.status = "Completed"
      BY <3>1, <3>2, SideFacts DEF IInv, MarkerInv, Finished
    <3> QED BY <3>3 DEF IInv, MarkerInv
  <2>4. HasEnded("receiver") /\ ReceiveWorker = NoWorker => staging = <<>>
    BY DEF IInv, FileInv
  <2> QED BY <2>1, <2>2, <2>3, <2>4 DEF PayloadNeedsAcceptance
<1> QED BY <1>1, InductiveInvariant, PTL

-----------------------------------------------------------------------------
(* The refinement of TransferContract.  A side settles only when the other   *)
(* side has an outcome or was never asked, and the user who is never asked   *)
(* is not asked later: an offer never follows the sender's outcome.          *)

Kinds(q) == {q[i].kind : i \in 1 .. Len(q)}

\* The other side has an outcome, or the receiver never hears of the transfer.
Told(s) ==
    \/ HasEnded(Other(s))
    \/ s = "sender" /\ ~Known("receiver") /\ "Offer" \notin Kinds(inbox["receiver"])

Ordered(q) ==
    \A i, j \in 1 .. Len(q) : i < j /\ q[i].kind = "Terminal" => q[j].kind # "Offer"

\* What an acknowledgement under way, or one received, stands for.
NewsInv ==
    /\ Ordered(inbox["receiver"])
    /\ \A s \in Sides :
          /\ "TerminalAck" \in Kinds(inbox[s]) => HasEnded(s)
          /\ "TerminalAck" \in Kinds(inbox[s]) \/ xfer[s].state = "Settled" => Told(s)

\* A queue is read, lost, or gets one message more.
Carries(t, K) ==
    \/ inbox'[t] = inbox[t] \/ inbox'[t] = <<>>
    \/ inbox[t] # <<>> /\ inbox'[t] = Tail(inbox[t])
    \/ \E m \in Messages : /\ m.kind \in K
                           /\ inbox'[t] = Append(inbox[t], m) \/ inbox'[t] = <<m>>

\* The order of what is left of a queue, and of a queue that grows.
LEMMA CarriesFacts ==
    ASSUME ShapeInv, NEW t \in Sides, NEW K, Carries(t, K)
    PROVE  /\ Kinds(inbox'[t]) \subseteq Kinds(inbox[t]) \cup K
           /\ Ordered(inbox[t]) /\ ("Offer" \in K => "Terminal" \notin Kinds(inbox[t])) =>
                 Ordered(inbox'[t])
<1>1. PICK q \in Seq(Messages) : q = inbox[t] BY DEF ShapeInv
<1>2. PICK r : r = inbox'[t] OBVIOUS
<1>3. Len(q) \in Nat BY <1>1, LenProperties
<1>4. CASE r = q BY <1>1, <1>2, <1>4
<1>5. CASE r = <<>>
  <2>1. Len(r) = 0 BY <1>5
  <2> QED BY <1>1, <1>2, <2>1 DEF Kinds, Ordered
<1>6. CASE q # <<>> /\ r = Tail(q)
  <2>1. Len(r) = Len(q) - 1 /\ \A i \in 1 .. Len(r) : r[i] = q[i + 1] /\ i + 1 \in 1 .. Len(q)
    <3>1. Len(q) # 0 BY <1>6, <1>1, EmptySeq
    <3> QED BY <1>1, <1>3, <1>6, <3>1, HeadTailProperties
  <2>2. Kinds(r) \subseteq Kinds(q) BY <2>1 DEF Kinds
  <2>3. ASSUME Ordered(q) PROVE Ordered(r)
    <3> SUFFICES ASSUME NEW i \in 1 .. Len(r), NEW j \in 1 .. Len(r), i < j, r[i].kind = "Terminal"
                 PROVE  r[j].kind # "Offer"
      BY DEF Ordered
    <3>1. i + 1 \in 1 .. Len(q) /\ j + 1 \in 1 .. Len(q) /\ r[i] = q[i + 1] /\ r[j] = q[j + 1]
      BY <2>1
    <3>2. i + 1 < j + 1 OBVIOUS
    <3> QED BY <2>3, <3>1, <3>2 DEF Ordered
  <2> QED BY <1>1, <1>2, <2>2, <2>3
<1>7. CASE \E m \in Messages : m.kind \in K /\ r = Append(q, m)
  <2>1. PICK m \in Messages : m.kind \in K /\ r = Append(q, m) BY <1>7
  <2>2. Len(r) = Len(q) + 1 /\ r[Len(q) + 1] = m /\ \A i \in 1 .. Len(q) : r[i] = q[i]
    BY <1>1, <2>1, AppendProperties
  <2>3. \A i \in 1 .. Len(r) : i \in 1 .. Len(q) \/ i = Len(q) + 1 BY <1>3, <2>2
  <2>4. Kinds(r) \subseteq Kinds(q) \cup K BY <2>1, <2>2, <2>3 DEF Kinds
  <2>5. ASSUME Ordered(q), "Offer" \in K => "Terminal" \notin Kinds(q) PROVE Ordered(r)
    <3> SUFFICES ASSUME NEW i \in 1 .. Len(r), NEW j \in 1 .. Len(r), i < j, r[i].kind = "Terminal"
                 PROVE  r[j].kind # "Offer"
      BY DEF Ordered
    <3>1. i \in 1 .. Len(q) /\ r[i] = q[i] BY <1>3, <2>2, <2>3
    <3>2. CASE j \in 1 .. Len(q) BY <2>2, <2>5, <3>1, <3>2 DEF Ordered
    <3>3. CASE j = Len(q) + 1
      <4>1. "Terminal" \in Kinds(q) BY <3>1 DEF Kinds
      <4> QED BY <2>1, <2>2, <2>5, <3>3, <4>1
    <3> QED BY <2>3, <3>2, <3>3
  <2> QED BY <1>1, <1>2, <2>4, <2>5
<1>8. CASE \E m \in Messages : m.kind \in K /\ r = <<m>>
  <2>1. PICK m \in Messages : m.kind \in K /\ r = <<m>> BY <1>8
  <2>2. Len(r) = 1 /\ \A i \in 1 .. Len(r) : i = 1 /\ r[i] = m BY <2>1
  <2>3. Kinds(r) \subseteq K BY <2>1, <2>2 DEF Kinds
  <2>4. Ordered(r) BY <2>2 DEF Ordered
  <2> QED BY <1>1, <1>2, <2>3, <2>4
<1> QED BY <1>1, <1>2, <1>4, <1>5, <1>6, <1>7, <1>8 DEF Carries

\* What a step may do to keep NewsInv.
LEMMA NewsStep ==
    ASSUME NewsInv, Ordered(inbox'["receiver"]),
           \A t \in Sides : HasEnded(t) => HasEnded(t)',
           Known("receiver")' => Known("receiver") \/ "Offer" \in Kinds(inbox["receiver"]),
           "Offer" \in Kinds(inbox'["receiver"]) =>
              "Offer" \in Kinds(inbox["receiver"]) \/ ~HasEnded("sender"),
           \A t \in Sides : "TerminalAck" \in Kinds(inbox'[t]) =>
              "TerminalAck" \in Kinds(inbox[t]) \/ (HasEnded(t) /\ Told(t)'),
           \A t \in Sides : xfer'[t].state = "Settled" =>
              xfer[t].state = "Settled" \/ "TerminalAck" \in Kinds(inbox[t]) \/ Told(t)'
    PROVE  NewsInv'
<1>1. \A t \in Sides : xfer[t].state = "Settled" => HasEnded(t) BY DEF HasEnded, Terminal
<1>2. ASSUME NEW t \in Sides, HasEnded(t), Told(t) PROVE Told(t)'
  BY <1>2, SideFacts DEF Told
<1>3. ASSUME NEW t \in Sides
      PROVE  /\ "TerminalAck" \in Kinds(inbox'[t]) => HasEnded(t)'
             /\ "TerminalAck" \in Kinds(inbox'[t]) \/ xfer'[t].state = "Settled" => Told(t)'
  <2>1. "TerminalAck" \in Kinds(inbox[t]) \/ xfer[t].state = "Settled" => HasEnded(t) /\ Told(t)
    BY <1>1 DEF NewsInv
  <2> QED BY <1>2, <2>1
<1> QED BY <1>3 DEF NewsInv

-----------------------------------------------------------------------------
(* What the contract sees *)

Offered == IF Known("sender") THEN Sender.metadata ELSE Nothing
Outcomes == [s \in Sides |-> Outcome(s)]
SettledSides == {s \in Sides : xfer[s].state = "Settled"}
Consented == markers["receiver"].accepted

Unseen == /\ Offered' = Offered /\ Outcomes' = Outcomes /\ SettledSides' = SettledSides
          /\ Consented' = Consented /\ output' = output
ContractStep == Contract!Next \/ Unseen

\* An outcome is open exactly while the machine has not ended.
LEMMA OutcomeOpen ==
    ASSUME IInv, NEW s \in Sides
    PROVE  /\ (Outcomes[s] = "open") = ~HasEnded(s)
           /\ HasEnded(s) => Outcomes[s] = xfer[s].status
           /\ Outcomes \in [Sides -> Statuses \cup {"open"}]
<1>1. ASSUME NEW t \in Sides PROVE HasEnded(t) => xfer[t].status \in Statuses
  <2>1. HasEnded(t) => Sound(xfer[t]) /\ xfer[t] \in Machines BY KnownFacts
  <2> QED BY <2>1, MachineFacts DEF Sound, HasEnded
<1>2. "open" \notin Statuses BY DEF Statuses
<1>3. ASSUME NEW t \in Sides PROVE Outcome(t) \in Statuses \cup {"open"} BY <1>1 DEF Outcome
<1> QED BY <1>1, <1>2, <1>3 DEF Outcomes, Outcome

\* The contract's two users are the two sides.
LEMMA UserFacts ==
    /\ Contract!Users = Sides
    /\ \A s \in Sides : Contract!Peer(s) = Other(s) /\ Contract!Open(s) = (Outcomes[s] = "open")
BY SideFacts DEF Contract!Users, Contract!Peer, Contract!Open, Outcomes, Other

\* A prepared file is no missing one.
LEMMA OfferedFacts ==
    ASSUME IInv
    PROVE  (Offered = Nothing) = ~Known("sender")
<1>1. Known("sender") => Offered \in Bytes
  BY SideFacts, KnownFacts, MachineFacts DEF Offered, Sender
<1>2. Nothing \notin Bytes
  <2>1. Nothing \in Bytes => Nothing[1] \in {0, 1} BY DEF Nothing, Bytes
  <2> QED BY <2>1 DEF Nothing
<1> QED BY <1>1, <1>2 DEF Offered

\* A file that is prepared.  This and the next lemmas give the steps of the
\* contract in terms of the machines.
LEMMA AsPrepare ==
    ASSUME IInv, ~Known("sender"), Offered' \in Bytes, Consented' = Consented, output' = output,
           Outcomes' = Outcomes, SettledSides' = SettledSides
    PROVE  ContractStep
<1>1. Offered = Nothing BY OfferedFacts
<1>2. Contract!Prepare
  BY <1>1 DEF Contract!Prepare, Bytes, Offered, Outcomes, SettledSides, Consented
<1> QED BY <1>2 DEF ContractStep, Contract!Next

\* A consent while the sender still owes an outcome.
LEMMA AsConsent ==
    ASSUME IInv, ~HasEnded("receiver"), Known("sender"), Sender.state # "Settled",
           Consented' = TRUE, Offered' = Offered, output' = output, Outcomes' = Outcomes,
           SettledSides' = SettledSides
    PROVE  ContractStep
<1>1. Contract!Open("receiver") /\ Offered # Nothing BY SideFacts, UserFacts, OutcomeOpen, OfferedFacts
<1>2. "sender" \notin SettledSides BY DEF SettledSides, Sender
<1>3. Contract!Consent
  BY <1>1, <1>2 DEF Contract!Consent, Offered, Outcomes, SettledSides, Consented
<1> QED BY <1>3 DEF ContractStep, Contract!Next

\* The offered file reaches its user.
LEMMA AsDeliver ==
    ASSUME IInv, ~HasEnded("receiver"), Consented, output' = Offered,
           Outcomes' = [Outcomes EXCEPT !["receiver"] = "Completed"],
           Offered' = Offered, Consented' = Consented, SettledSides' = SettledSides
    PROVE  ContractStep
<1>1. Contract!Open("receiver") BY SideFacts, UserFacts, OutcomeOpen
<1>2. Contract!Deliver
  BY <1>1 DEF Contract!Deliver, Offered, Outcomes, SettledSides, Consented
<1> QED BY <1>2 DEF ContractStep, Contract!Next

\* A rejection before any consent.
LEMMA AsReject ==
    ASSUME IInv, ~HasEnded("receiver"), ~Consented, output' = output,
           Outcomes' = [Outcomes EXCEPT !["receiver"] = "Rejected"],
           Offered' = Offered, Consented' = Consented, SettledSides' = SettledSides
    PROVE  ContractStep
<1>1. Contract!Open("receiver") BY SideFacts, UserFacts, OutcomeOpen
<1>2. Contract!Reject
  BY <1>1 DEF Contract!Reject, Offered, Outcomes, SettledSides, Consented
<1> QED BY <1>2 DEF ContractStep, Contract!Next

\* A side that gives up on its own.
LEMMA AsGiveUp ==
    ASSUME IInv, NEW u \in Sides, NEW status \in {"Cancelled", "Failed"}, ~HasEnded(u),
           Outcomes' = [Outcomes EXCEPT ![u] = status], output' = output,
           Offered' = Offered, Consented' = Consented, SettledSides' = SettledSides
    PROVE  ContractStep
<1>1. Contract!Open(u) /\ u \in Contract!Users BY UserFacts, OutcomeOpen
<1>2. Contract!GiveUp(u)
  BY <1>1 DEF Contract!GiveUp, Offered, Outcomes, SettledSides, Consented
<1> QED BY <1>1, <1>2 DEF ContractStep, Contract!Next

\* A side that takes over the other's outcome.
LEMMA AsLearn ==
    ASSUME IInv, NEW u \in Sides, ~HasEnded(u), HasEnded(Other(u)),
           Outcomes' = [Outcomes EXCEPT ![u] = Outcomes[Other(u)]],
           SettledSides' = SettledSides \cup {u}, Offered' = Offered, Consented' = Consented,
           output' = output
    PROVE  ContractStep
<1>1. /\ u \in Contract!Users /\ Contract!Peer(u) = Other(u)
      /\ Contract!Open(u) /\ ~Contract!Open(Other(u))
  BY SideFacts, UserFacts, OutcomeOpen
<1>2. Contract!Learn(u)
  BY <1>1 DEF Contract!Learn, Offered, Outcomes, SettledSides, Consented
<1> QED BY <1>1, <1>2 DEF ContractStep, Contract!Next

\* A side that need not be heard any more.
LEMMA AsSettle ==
    ASSUME IInv, NEW u \in Sides, HasEnded(u), HasEnded(Other(u)) \/ (u = "sender" /\ ~Consented),
           SettledSides' = SettledSides \cup {u}, Outcomes' = Outcomes, Offered' = Offered,
           Consented' = Consented, output' = output
    PROVE  ContractStep
<1>1. /\ u \in Contract!Users /\ Contract!Peer(u) = Other(u) /\ ~Contract!Open(u)
      /\ ~Contract!Open(Other(u)) \/ (u = "sender" /\ ~Consented)
  BY SideFacts, UserFacts, OutcomeOpen
<1>2. Contract!Settle(u)
  BY <1>1 DEF Contract!Settle, Offered, Outcomes, SettledSides, Consented
<1> QED BY <1>1, <1>2 DEF ContractStep, Contract!Next

-----------------------------------------------------------------------------
(* Each step of the transfer is a step or a stutter of the contract *)

\* The contract does not see what happens to this side's machine.
Still(t) ==
    /\ HasEnded(t)' = HasEnded(t) /\ (HasEnded(t) => xfer'[t].status = xfer[t].status)
    /\ (xfer'[t].state = "Settled") = (xfer[t].state = "Settled")
    /\ Known(t) => Known(t)' /\ xfer'[t].metadata = xfer[t].metadata

\* A machine that is not touched.
LEMMA StillSame ==
    ASSUME NEW t \in Sides, xfer'[t] = xfer[t]
    PROVE  Still(t) /\ Known(t)' = Known(t)
BY DEF Still, HasEnded, Known

\* A machine that moves without an outcome before or after.
LEMMA StillMoves ==
    ASSUME IInv, NEW t \in Sides, Known(t), NEW x, xfer'[t] = x, Follows(xfer[t], x),
           x.status = "none"
    PROVE  Still(t) /\ Known(t)' /\ ~HasEnded(t)
<1>1. Sound(xfer[t]) BY KnownFacts
<1>2. x \in Machines /\ x # NoTransfer BY MachineFacts DEF Follows, Sound
<1>3. x.state \notin Terminal /\ xfer[t].state \notin Terminal
  BY <1>1 DEF Follows, Sound
<1> QED BY <1>2, <1>3 DEF Still, HasEnded, Known, Follows, Terminal

\* A machine that is paused.
LEMMA StillPauses ==
    ASSUME IInv, NEW t \in Sides, Known(t), xfer'[t] = pause(xfer[t])
    PROVE  Still(t) /\ Known(t)'
<1>1. Sound(xfer[t]) BY KnownFacts
<1>2. 0 \in Nat OBVIOUS
<1>3. /\ Follows(xfer[t], pause(xfer[t])) /\ pause(xfer[t]).status = xfer[t].status
      /\ pause(xfer[t]).state \in {"Paused", xfer[t].state}
      /\ pause(xfer[t]).state = "Paused" => xfer[t].state \notin Terminal
  BY <1>1, <1>2, ProgressFacts
<1>4. pause(xfer[t]) # NoTransfer BY <1>3, MachineFacts DEF Follows, Sound
<1> QED BY <1>3, <1>4 DEF Still, HasEnded, Known, Follows, Terminal

\* What the contract sees of machines that are still.
LEMMA StillFacts ==
    ASSUME IInv, \A t \in Sides : Still(t)
    PROVE  /\ Outcomes' = Outcomes /\ SettledSides' = SettledSides
           /\ Known("sender") \/ ~Known("sender")' => Offered' = Offered
<1>1. \A t \in Sides : Outcome(t)' = Outcome(t) BY DEF Still, Outcome
<1>2. Outcomes' = Outcomes BY <1>1 DEF Outcomes
<1>3. SettledSides' = SettledSides BY DEF Still, SettledSides
<1>4. Known("sender") \/ ~Known("sender")' => Offered' = Offered
  BY SideFacts DEF Still, Offered, Sender
<1> QED BY <1>2, <1>3, <1>4

\* A queue that is written.
LEMMA PostCarries ==
    ASSUME ShapeInv, NEW s \in Sides, NEW m \in Messages, inbox' = Post(s, m), NEW K, m.kind \in K
    PROVE  Carries(Other(s), K) /\ inbox'[s] = inbox[s]
BY SideFacts DEF Carries, Post, ShapeInv

\* A queue that is read.
LEMMA RestCarries ==
    ASSUME ShapeInv, NEW s \in Sides, inbox[s] # <<>>, inbox' = Rest(s), NEW K
    PROVE  Carries(s, K) /\ inbox'[Other(s)] = inbox[Other(s)]
BY SideFacts DEF Carries, Rest, ShapeInv

\* A queue that is read while the other is written.
LEMMA AnswerCarries ==
    ASSUME ShapeInv, NEW s \in Sides, NEW m \in Messages, inbox[s] # <<>>, Answer(s, m),
           NEW J, NEW K, m.kind \in K
    PROVE  Carries(s, J) /\ Carries(Other(s), K)
BY SideFacts DEF Carries, Answer, Rest, ShapeInv

\* While the sender has no outcome, the receiver is told of none.
LEMMA NoNewsYet ==
    ASSUME IInv, ~HasEnded("sender")
    PROVE  "Terminal" \notin Kinds(inbox["receiver"])
BY SideFacts DEF IInv, InboxInv, Kinds, Mail, Fits

\* Any mail but an acknowledgement, and no offer after an outcome.
QuietMail ==
    /\ Carries("sender", {"Accept", "Terminal"})
    /\ Carries("receiver", {"Terminal"}) \/ (Carries("receiver", {"Offer"}) /\ ~HasEnded("sender"))

\* Such mail keeps NewsInv, whatever else the step does without a new outcome.
LEMMA QuietNews ==
    ASSUME IInv, NewsInv, QuietMail, \A t \in Sides : HasEnded(t) => HasEnded(t)',
           \A t \in Sides : xfer'[t].state = "Settled" =>
              xfer[t].state = "Settled" \/ "TerminalAck" \in Kinds(inbox[t]),
           Known("receiver")' => Known("receiver") \/ "Offer" \in Kinds(inbox["receiver"])
    PROVE  NewsInv'
<1> USE SideFacts DEF QuietMail
<1>1. ShapeInv /\ Ordered(inbox["receiver"]) BY DEF IInv, NewsInv
<1>2. Ordered(inbox'["receiver"]) BY <1>1, CarriesFacts, NoNewsYet
<1>3. "Offer" \in Kinds(inbox'["receiver"]) =>
         "Offer" \in Kinds(inbox["receiver"]) \/ ~HasEnded("sender")
  BY <1>1, CarriesFacts
<1>4. \A t \in Sides : "TerminalAck" \in Kinds(inbox'[t]) => "TerminalAck" \in Kinds(inbox[t])
  <2>1. Kinds(inbox'["sender"]) \subseteq Kinds(inbox["sender"]) \cup {"Accept", "Terminal"}
    BY <1>1, CarriesFacts
  <2>2. Kinds(inbox'["receiver"]) \subseteq Kinds(inbox["receiver"]) \cup {"Terminal", "Offer"}
    BY <1>1, CarriesFacts
  <2> QED BY <2>1, <2>2
<1> QED BY <1>2, <1>3, <1>4, NewsStep

\* A step that the contract does not see.
LEMMA QuietStep ==
    ASSUME IInv, NewsInv, \A t \in Sides : Still(t), Known("sender")' => Known("sender"),
           Known("receiver")' => Known("receiver") \/ "Offer" \in Kinds(inbox["receiver"]),
           markers'["receiver"].accepted = markers["receiver"].accepted, output' = output,
           QuietMail
    PROVE  ContractStep /\ NewsInv'
<1>1. ContractStep BY StillFacts DEF ContractStep, Unseen, Consented
<1>2. NewsInv' BY QuietNews DEF Still
<1> QED BY <1>1, <1>2

\* No mail at all.
LEMMA NoMail ==
    ASSUME inbox' = inbox
    PROVE  QuietMail
BY DEF QuietMail, Carries

\* Workers, files and sessions.
LEMMA StandingStep ==
    ASSUME IInv, NewsInv, UNCHANGED <<xfer, markers, output>>, QuietMail
    PROVE  ContractStep /\ NewsInv'
<1>1. \A t \in Sides : Still(t) /\ Known(t)' = Known(t) BY StillSame
<1> QED BY <1>1, SideFacts, QuietStep

\* A machine that moves on, or is paused, beside any of these.
LEMMA MovingStep ==
    ASSUME IInv, NewsInv, NEW s \in Sides, Known(s), NEW x, Move(s, x),
           x = pause(xfer[s]) \/ (Follows(xfer[s], x) /\ x.status = "none"),
           UNCHANGED <<markers, output>>, QuietMail
    PROVE  ContractStep /\ NewsInv'
<1>1. xfer'[s] = x /\ xfer'[Other(s)] = xfer[Other(s)]
  BY SideFacts DEF Move, IInv, ShapeInv
<1>2. Still(s) BY <1>1, StillMoves, StillPauses
<1>3. Still(Other(s)) /\ Known(Other(s))' = Known(Other(s)) BY <1>1, SideFacts, StillSame
<1>4. \A t \in Sides : Still(t) /\ (Known(t)' => Known(t)) BY <1>2, <1>3, SideFacts
<1> QED BY <1>4, SideFacts, QuietStep

\* Steps of the workers, the network and the source alone.
LEMMA WorkerSteps ==
    ASSUME IInv, NewsInv,
           \/ HashSource \/ SendPayload \/ SeekStaging \/ ReceivePayload \/ SourceChanges
           \/ UNCHANGED vars \/ \E s \in Sides : Interrupted(s) \/ LocalIo(s)
    PROVE  ContractStep /\ NewsInv'
<1>1. UNCHANGED <<xfer, markers, output, inbox>>
  BY DEF HashSource, SendPayload, SeekStaging, ReceivePayload, SourceChanges, vars, Interrupted,
         LocalIo, GivesUp
<1> QED BY <1>1, NoMail, StandingStep

\* A session that is lost, and the one that takes its place.
LEMMA SessionSteps ==
    ASSUME IInv, NewsInv, Lose \/ Reconnect
    PROVE  ContractStep /\ NewsInv'
<1>1. UNCHANGED <<xfer, markers, output>> BY DEF Lose, Reconnect
<1>2. CASE Lose
  <2>1. QuietMail BY <1>2, SideFacts DEF Lose, QuietMail, Carries
  <2> QED BY <1>1, <2>1, StandingStep
<1>3. CASE Reconnect
  <2>1. ASSUME NEW t \in Sides, NEW K, "Terminal" \in K PROVE Carries(t, K)
    <3>1. inbox'[t] = Replays(Other(t)) BY <1>3 DEF Reconnect
    <3>2. CASE Known(Other(t)) /\ xfer[Other(t)].state = "TerminalAwaitingAck"
      <4>1. HasEnded(Other(t)) /\ Other(t) \in Sides BY <3>2, SideFacts DEF HasEnded, Terminal
      <4>2. xfer[Other(t)].status \in Statuses
        BY <4>1, KnownFacts, MachineFacts DEF Sound, HasEnded
      <4>3. PICK m \in Messages : m = [kind |-> "Terminal", status |-> xfer[Other(t)].status]
        BY <4>2, MessageFacts
      <4>4. m.kind \in K /\ inbox'[t] = <<m>> BY <2>1, <3>1, <3>2, <4>3 DEF Replays
      <4> QED BY <4>4 DEF Carries
    <3>3. CASE ~(Known(Other(t)) /\ xfer[Other(t)].state = "TerminalAwaitingAck")
      BY <3>1, <3>3 DEF Replays, Carries
    <3> QED BY <3>2, <3>3
  <2>2. QuietMail BY <2>1, SideFacts DEF QuietMail
  <2> QED BY <1>1, <2>2, StandingStep
<1> QED BY <1>2, <1>3

\* The sender's offers.
LEMMA OfferSteps ==
    ASSUME IInv, NewsInv, SendOffer \/ RepeatOffer
    PROVE  ContractStep /\ NewsInv'
<1> USE SideFacts
<1>1. Known("sender") /\ Sound(Sender) /\ Sender.metadata \in Bytes
  BY KnownFacts, MachineFacts DEF SendOffer, RepeatOffer, Sender
<1>2. Offer \in Messages /\ Offer.kind = "Offer" /\ inbox' = Post("sender", Offer)
  BY <1>1, MessageFacts DEF Offer, SendOffer, RepeatOffer, Send
<1>3. Carries("receiver", {"Offer"}) /\ inbox'["sender"] = inbox["sender"]
  BY <1>2, PostCarries DEF IInv
<1>4. Carries("sender", {"Accept", "Terminal"}) BY <1>3 DEF Carries
<1>5. UNCHANGED <<markers, output>> BY DEF SendOffer, RepeatOffer
<1>6. CASE SendOffer
  <2>1. PICK x \in offer_sent(Sender) : Move("sender", x) BY <1>6 DEF SendOffer
  <2>2. 0 \in Nat OBVIOUS
  <2>3. Follows(Sender, x) /\ x.status = "none" /\ Sender.state \notin Terminal
    BY <1>1, <2>1, <2>2, ProgressFacts
  <2>4. QuietMail BY <1>3, <1>4, <2>3 DEF QuietMail, HasEnded, Sender
  <2> QED BY <1>1, <1>5, <2>1, <2>3, <2>4, MovingStep DEF Sender
<1>7. CASE RepeatOffer
  <2>1. ~HasEnded("sender") BY <1>7 DEF RepeatOffer, HasEnded, Sender, Terminal
  <2>2. QuietMail BY <1>3, <1>4, <2>1 DEF QuietMail
  <2>3. xfer' = xfer BY <1>7 DEF RepeatOffer
  <2> QED BY <1>5, <2>2, <2>3, StandingStep
<1> QED BY <1>6, <1>7

\* An Accept that the sender reads, whether its machine takes it or not.
LEMMA ReceiveAcceptQuiet ==
    ASSUME IInv, NewsInv, ReceiveAccept
    PROVE  ContractStep /\ NewsInv'
<1> USE SideFacts
<1>1. /\ ShapeInv /\ inbox["sender"] # <<>> /\ inbox' = Rest("sender")
      /\ Head(inbox["sender"]).kind = "Accept" /\ UNCHANGED <<markers, output>>
  BY DEF IInv, ReceiveAccept, Receives
<1>2. QuietMail
  <2>1. Carries("sender", {"Accept", "Terminal"}) /\ inbox'["receiver"] = inbox["receiver"]
    BY <1>1, RestCarries
  <2> QED BY <2>1 DEF QuietMail, Carries
<1>3. PICK m \in Messages : m = Head(inbox["sender"]) /\ m \in Mail(inbox["sender"])
  BY <1>1, RestFacts
<1>4. Known("sender") /\ m.offset \in Nat
  BY <1>1, <1>3, MessageFacts DEF IInv, InboxInv, Fits
<1>5. Sound(Sender) BY <1>4, KnownFacts DEF Sender
<1>6. CASE UNCHANGED xfer BY <1>1, <1>2, <1>6, StandingStep
<1>7. CASE \E x \in accept_received(Sender, m.offset) : Move("sender", x)
  <2>1. PICK x \in accept_received(Sender, m.offset) : Move("sender", x) BY <1>7
  <2>2. Follows(Sender, x) /\ x.status = "none" BY <1>4, <1>5, <2>1, ProgressFacts
  <2> QED BY <1>1, <1>2, <1>4, <2>1, <2>2, MovingStep DEF Sender
<1> QED BY <1>3, <1>6, <1>7 DEF ReceiveAccept

\* A send that starts.
LEMMA StartSendQuiet ==
    ASSUME IInv, NewsInv, StartSend
    PROVE  ContractStep /\ NewsInv'
<1> USE SideFacts
<1>1. Known("sender") /\ UNCHANGED <<inbox, markers, output>> BY DEF StartSend
<1>2. PICK x \in start_send(Sender) : Move("sender", x) BY DEF StartSend
<1>3. Sound(Sender) /\ 0 \in Nat BY <1>1, KnownFacts DEF Sender
<1>4. Follows(Sender, x) /\ x.status = "none" BY <1>2, <1>3, ProgressFacts
<1> QED BY <1>1, <1>2, <1>4, NoMail, MovingStep DEF Sender

\* A stream that the receiver takes or refuses.
LEMMA TakeStreamQuiet ==
    ASSUME IInv, NewsInv, TakeStream
    PROVE  ContractStep /\ NewsInv'
<1> USE SideFacts
<1>1. UNCHANGED <<inbox, markers, output>> BY DEF TakeStream
<1>2. CASE UNCHANGED xfer BY <1>1, <1>2, NoMail, StandingStep
<1>3. CASE Known("receiver") /\ \E x \in start_receive(Receiver, stream.header) : Move("receiver", x)
  <2>1. PICK x \in start_receive(Receiver, stream.header) : Move("receiver", x) BY <1>3
  <2>2. Sound(Receiver) /\ 0 \in Nat BY <1>3, KnownFacts DEF Receiver
  <2>3. Follows(Receiver, x) /\ x.status = "none" BY <2>1, <2>2, ProgressFacts
  <2> QED BY <1>1, <1>3, <2>1, <2>3, NoMail, MovingStep DEF Receiver
<1> QED BY <1>2, <1>3 DEF TakeStream

\* A loss that a side notices.
LEMMA NoticeQuiet ==
    ASSUME IInv, NewsInv, NEW s \in Sides, Notice(s)
    PROVE  ContractStep /\ NewsInv'
<1>1. UNCHANGED <<inbox, markers, output>> BY DEF Notice
<1>2. CASE Known(s)
  <2>1. Move(s, pause(xfer[s])) BY <1>2 DEF Notice
  <2> QED BY <1>1, <1>2, <2>1, NoMail, MovingStep
<1>3. CASE ~Known(s)
  <2>1. xfer' = xfer BY <1>3 DEF Notice
  <2> QED BY <1>1, <2>1, NoMail, StandingStep
<1> QED BY <1>2, <1>3

\* An offer: a new machine, or an answer from the old one.
LEMMA ReceiveOfferQuiet ==
    ASSUME IInv, NewsInv, ReceiveOffer
    PROVE  ContractStep /\ NewsInv'
<1> USE SideFacts
<1>1. /\ ShapeInv /\ inbox["receiver"] # <<>> /\ Head(inbox["receiver"]).kind = "Offer"
      /\ UNCHANGED <<markers, output>>
  BY DEF IInv, ReceiveOffer, Receives
<1>2. PICK b : b = Head(inbox["receiver"]).metadata OBVIOUS
<1>3. CASE ~Known("receiver") /\ Move("receiver", new("Incoming", b)) /\ inbox' = Rest("receiver")
  <2>1. QuietMail
    <3>1. Carries("receiver", {"Terminal"}) /\ inbox'["sender"] = inbox["sender"]
      BY <1>1, <1>3, RestCarries
    <3> QED BY <3>1 DEF QuietMail, Carries
  <2>2. "Offer" \in Kinds(inbox["receiver"])
    <3>1. PICK q \in Seq(Messages) : q = inbox["receiver"] BY <1>1 DEF ShapeInv
    <3>2. Head(q) = q[1] /\ 1 \in 1 .. Len(q)
      <4>1. Len(q) \in Nat /\ Len(q) # 0 BY <1>1, <3>1, EmptySeq, LenProperties
      <4> QED BY <4>1
    <3> QED BY <1>1, <3>1, <3>2 DEF Kinds
  <2>3. xfer'["receiver"] = new("Incoming", b) /\ xfer'["sender"] = xfer["sender"]
    BY <1>1, <1>3 DEF Move, ShapeInv
  <2>4. Still("receiver")
    <3>1. xfer["receiver"].state = "none" BY <1>3, KnownFacts
    <3>2. new("Incoming", b).state = "PendingOffer" BY DEF new
    <3> QED BY <1>3, <2>3, <3>1, <3>2 DEF Still, HasEnded, Terminal
  <2>5. Still("sender") /\ Known("sender")' = Known("sender") BY <2>3, StillSame
  <2> QED BY <1>1, <2>1, <2>2, <2>4, <2>5, QuietStep
<1>4. ASSUME Known("receiver"), NEW replay \in replay_offer(Receiver, b, Len(staging)),
             \/ /\ replay.kind = "Pending"
                /\ inbox' = Rest("receiver")
                /\ UNCHANGED xfer
             \/ /\ replay.kind = "Terminal"
                /\ Answer("receiver", [kind |-> "Terminal", status |-> replay.status])
                /\ UNCHANGED xfer
             \/ /\ replay.kind = "Accept"
                /\ \/ /\ Receiver.state \in {"Receiving", "Completing"}
                      /\ UNCHANGED xfer
                   \/ /\ ReceiveWorker = NoWorker
                      /\ \E x \in acceptance_persisted(Receiver, replay.offset) :
                            Move("receiver", x)
                /\ Answer("receiver", replay)
      PROVE  ContractStep /\ NewsInv'
  <2>1. Sound(Receiver) /\ Receiver.status \in Statuses \cup {"none"} /\ Len(staging) \in Nat
    BY <1>1, <1>4, KnownFacts, MachineFacts, LenProperties DEF Receiver, ShapeInv, Bytes
  <2>2. /\ replay.kind = "Terminal" => replay.status \in Statuses
        /\ replay.kind = "Accept" => replay = [kind |-> "Accept", offset |-> Len(staging)]
    BY <1>4, <2>1 DEF replay_offer, Ok, Sound
  <2>3. QuietMail
    <3>1. ASSUME NEW m \in Messages, m.kind \in {"Accept", "Terminal"}, Answer("receiver", m)
          PROVE  QuietMail
      BY <1>1, <3>1, AnswerCarries DEF QuietMail
    <3>2. CASE inbox' = Rest("receiver")
      <4>1. Carries("receiver", {"Terminal"}) /\ inbox'["sender"] = inbox["sender"]
        BY <1>1, <3>2, RestCarries
      <4> QED BY <4>1 DEF QuietMail, Carries
    <3>3. CASE replay.kind = "Terminal" /\ Answer("receiver", [kind |-> "Terminal", status |-> replay.status])
      BY <2>2, <3>1, <3>3, MessageFacts
    <3>4. CASE replay.kind = "Accept" /\ Answer("receiver", replay)
      BY <2>1, <2>2, <3>1, <3>4, MessageFacts
    <3> QED BY <1>4, <3>2, <3>3, <3>4
  <2>4. CASE UNCHANGED xfer BY <1>1, <2>3, <2>4, StandingStep
  <2>5. CASE replay.kind = "Accept" /\ \E x \in acceptance_persisted(Receiver, replay.offset) : Move("receiver", x)
    <3>1. PICK x \in acceptance_persisted(Receiver, replay.offset) : Move("receiver", x) BY <2>5
    <3>2. replay.offset \in Nat BY <2>1, <2>2, <2>5
    <3>3. Follows(Receiver, x) /\ x.status = "none" BY <2>1, <3>1, <3>2, ProgressFacts
    <3> QED BY <1>1, <1>4, <2>3, <3>1, <3>3, MovingStep DEF Receiver
  <2> QED BY <1>4, <2>4, <2>5
<1> QED BY <1>2, <1>3, <1>4 DEF ReceiveOffer

\* The pass over the source that ends with a prepared file.
LEMMA PrepareRefines ==
    ASSUME IInv, NewsInv, PrepareSource
    PROVE  ContractStep /\ NewsInv'
<1> USE SideFacts
<1>1. /\ ShapeInv /\ SendWorker.step = "prepare" /\ ~Known("sender")
      /\ UNCHANGED <<inbox, markers, output>>
  BY DEF IInv, MachineInv, PrepareSource
<1>2. CASE UNCHANGED xfer BY <1>1, <1>2, NoMail, StandingStep
<1>3. CASE Move("sender", new("Outgoing", SendWorker.hashed))
  <2>1. SendWorker.hashed \in Bytes BY <1>1, WorkerKinds DEF SendWorker
  <2>2. PICK x : x = new("Outgoing", SendWorker.hashed) OBVIOUS
  <2>3. x.state = "Queued" /\ x.metadata \in Bytes /\ x # NoTransfer
    BY <2>1, <2>2, NewFacts, MachineFacts DEF Directions, Sound
  <2>4. xfer'["sender"] = x /\ xfer'["receiver"] = xfer["receiver"]
    BY <1>1, <1>3, <2>2 DEF Move, ShapeInv
  <2>5. Still("sender")
    <3>1. xfer["sender"].state = "none" BY <1>1, KnownFacts
    <3> QED BY <1>1, <2>3, <2>4, <3>1 DEF Still, HasEnded, Terminal
  <2>6. Still("receiver") /\ Known("receiver")' = Known("receiver") BY <2>4, StillSame
  <2>7. Outcomes' = Outcomes /\ SettledSides' = SettledSides BY <2>5, <2>6, StillFacts
  <2>8. Offered' \in Bytes BY <2>3, <2>4 DEF Offered, Known, Sender
  <2>9. ContractStep BY <1>1, <2>7, <2>8, AsPrepare DEF Consented
  <2>10. NewsInv' BY <1>1, <2>5, <2>6, NoMail, QuietNews DEF Still
  <2> QED BY <2>9, <2>10
<1> QED BY <1>2, <1>3 DEF PrepareSource

\* The receiver's user accepts: nobody has settled without asking.
LEMMA AcceptOfferRefines ==
    ASSUME IInv, NewsInv, AcceptOffer
    PROVE  ContractStep /\ NewsInv'
<1> USE SideFacts
<1>1. /\ ShapeInv /\ Known("receiver") /\ Receiver.state = "PendingOffer" /\ output' = output
      /\ inbox' = Post("receiver", [kind |-> "Accept", offset |-> 0])
      /\ markers' = [markers EXCEPT !["receiver"].accepted = TRUE]
  BY DEF IInv, AcceptOffer, Send
<1>2. PICK x \in acceptance_persisted(Receiver, 0) : Move("receiver", x) BY DEF AcceptOffer
<1>3. Sound(Receiver) /\ 0 \in Nat BY <1>1, KnownFacts DEF Receiver
<1>4. Follows(Receiver, x) /\ x.status = "none" BY <1>2, <1>3, ProgressFacts
<1>5. xfer'["receiver"] = x /\ xfer'["sender"] = xfer["sender"]
  BY <1>1, <1>2 DEF Move, ShapeInv
<1>6. Still("receiver") /\ Known("receiver")' /\ ~HasEnded("receiver")
  BY <1>1, <1>4, <1>5, StillMoves DEF Receiver
<1>7. Still("sender") /\ Known("sender")' = Known("sender") BY <1>5, StillSame
<1>8. Known("sender") BY <1>1 DEF IInv, MachineInv
<1>9. Sender.state # "Settled" BY <1>1, <1>6 DEF NewsInv, Told, Sender
<1>10. QuietMail
  <2>1. PICK m \in Messages : m = [kind |-> "Accept", offset |-> 0] BY <1>3, MessageFacts
  <2>2. m.kind \in {"Accept", "Terminal"} BY <2>1
  <2>3. Carries("sender", {"Accept", "Terminal"}) /\ inbox'["receiver"] = inbox["receiver"]
    BY <1>1, <2>1, <2>2, PostCarries
  <2> QED BY <2>3 DEF QuietMail, Carries
<1>11. Consented' = TRUE BY <1>1 DEF Consented, ShapeInv, Markers
<1>12. Outcomes' = Outcomes /\ SettledSides' = SettledSides /\ Offered' = Offered
  BY <1>6, <1>7, <1>8, StillFacts
<1>13. ContractStep BY <1>1, <1>6, <1>8, <1>9, <1>11, <1>12, AsConsent
<1>14. NewsInv' BY <1>1, <1>6, <1>7, <1>10, QuietNews DEF Still
<1> QED BY <1>13, <1>14

-----------------------------------------------------------------------------
(* Outcomes *)

\* What the contract sees of a machine that ends by itself.
LEMMA EndSeen ==
    ASSUME IInv, NewsInv, NEW s \in Sides, Known(s), ~HasEnded(s), NEW status \in Statuses,
           NEW attempt \in 0..MaxAttempt, EndLocally(s, status, attempt)
    PROVE  /\ Outcomes' = [Outcomes EXCEPT ![s] = status] /\ SettledSides' = SettledSides
           /\ Offered' = Offered /\ Consented' = Consented /\ NewsInv'
<1> USE SideFacts
<1>1. /\ xfer'[Other(s)] = xfer[Other(s)] /\ Follows(xfer[s], xfer'[s]) /\ HasEnded(s)'
      /\ xfer'[s].status = status
      /\ markers'[Other(s)] = markers[Other(s)] /\ markers'[s].accepted = markers[s].accepted
  BY EndFacts
<1>2. xfer'[s].state = "TerminalAwaitingAck"
  <2>1. PICK x \in terminal_persisted(xfer[s], status, attempt) : Move(s, x) BY DEF EndLocally
  <2>2. xfer'[s] = x BY <2>1 DEF Move, IInv, ShapeInv
  <2>3. xfer[s] \in Machines BY KnownFacts
  <2>4. x = Ended(xfer[s], "TerminalAwaitingAck", status)
    BY <2>1 DEF terminal_persisted, Ok, HasEnded
  <2>5. "TerminalAwaitingAck" \in States BY DEF States, Terminal
  <2> QED BY <2>2, <2>3, <2>4, <2>5, EndedFacts
<1>3. Known(s)' /\ Known(Other(s))' = Known(Other(s)) /\ HasEnded(Other(s))' = HasEnded(Other(s))
  BY <1>1, MachineFacts DEF Known, HasEnded, Follows, Sound
<1>4. Outcome(s)' = status /\ Outcome(Other(s))' = Outcome(Other(s))
  BY <1>1, <1>3 DEF Outcome
<1>5. Outcomes' = [Outcomes EXCEPT ![s] = status] BY <1>4 DEF Outcomes
<1>6. xfer[s].state # "Settled" BY DEF HasEnded, Terminal
<1>7. SettledSides' = SettledSides BY <1>1, <1>2, <1>6 DEF SettledSides
<1>8. Offered' = Offered BY <1>1, <1>3 DEF Offered, Sender, Follows
<1>9. Consented' = Consented BY <1>1 DEF Consented
<1>10. QuietMail
  <2>1. PICK m \in Messages : m = [kind |-> "Terminal", status |-> status] BY MessageFacts
  <2>2. inbox' = Post(s, m) BY <2>1 DEF EndLocally
  <2>3. ShapeInv /\ m.kind = "Terminal" BY <2>1 DEF IInv
  <2>4. Carries(Other(s), {"Terminal"}) /\ Carries(Other(s), {"Accept", "Terminal"}) /\ inbox'[s] = inbox[s]
    BY <2>2, <2>3, PostCarries
  <2> QED BY <2>4 DEF QuietMail, Carries
<1>11. NewsInv' BY <1>1, <1>2, <1>3, <1>10, QuietNews
<1> QED BY <1>5, <1>7, <1>8, <1>9, <1>11

\* A machine that has ended is not ended again.
LEMMA EndedAlready ==
    ASSUME IInv, NewsInv, NEW s \in Sides, Known(s), HasEnded(s), NEW status \in Statuses,
           NEW attempt \in 0..MaxAttempt, EndLocally(s, status, attempt), output' = output
    PROVE  ContractStep /\ NewsInv'
<1>1. xfer'[Other(s)] = xfer[Other(s)] /\ xfer'[s] = xfer[s] /\ xfer' \in [Sides -> Machines \cup {NoTransfer}]
  BY EndFacts
<1>2. xfer' = xfer BY <1>1, SideFacts DEF IInv, ShapeInv
<1>3. markers' = markers /\ inbox' = inbox BY DEF EndLocally, Marked
<1> QED BY <1>2, <1>3, NoMail, StandingStep

\* Either side gives up.
LEMMA GiveUpStep ==
    ASSUME IInv, NewsInv, NEW s \in Sides, Known(s), NEW status \in {"Cancelled", "Failed"},
           NEW attempt \in 0..MaxAttempt, EndLocally(s, status, attempt), output' = output
    PROVE  ContractStep /\ NewsInv'
<1>1. status \in Statuses BY DEF Statuses
<1>2. CASE HasEnded(s) BY <1>1, <1>2, EndedAlready
<1>3. CASE ~HasEnded(s) BY <1>1, <1>3, EndSeen, AsGiveUp
<1> QED BY <1>2, <1>3

\* The user of either side cancels.
LEMMA CancelRefines ==
    ASSUME IInv, NewsInv, NEW s \in Sides, Cancel(s)
    PROVE  ContractStep /\ NewsInv'
<1>1. Known(s) /\ EndLocally(s, "Cancelled", 0) /\ output' = output BY DEF Cancel
<1>2. 0 \in 0..MaxAttempt BY MaxAttemptAssumption
<1> QED BY <1>1, <1>2, GiveUpStep

\* The receiver's user rejects what is not accepted yet.
LEMMA RejectRefines ==
    ASSUME IInv, NewsInv, RejectOffer
    PROVE  ContractStep /\ NewsInv'
<1> USE SideFacts
<1>1. /\ Known("receiver") /\ EndLocally("receiver", "Rejected", 0) /\ output' = output
      /\ 0 \in 0..MaxAttempt /\ "Rejected" \in Statuses
  BY MaxAttemptAssumption DEF RejectOffer, Statuses
<1>2. CASE HasEnded("receiver") BY <1>1, <1>2, EndedAlready
<1>3. CASE ~HasEnded("receiver")
  <2>1. Receiver.state = "PendingOffer" BY <1>1, <1>3, EndFacts
  <2>2. ~Consented BY <1>1, <1>3, <2>1 DEF IInv, MarkerInv, Consented, ShapeInv
  <2> QED BY <1>1, <1>3, <2>2, EndSeen, AsReject
<1> QED BY <1>2, <1>3

\* The verified file is published.
LEMMA PublishRefines ==
    ASSUME IInv, NewsInv, Publish
    PROVE  ContractStep /\ NewsInv'
<1> USE SideFacts
<1>1. /\ Known("receiver") /\ Receiver.state = "Completing" /\ output' = staging
      /\ EndLocally("receiver", "Completed", Receiver.attempt) /\ "Completed" \in Statuses
  BY DEF Publish, Statuses
<1>2. Receiver.attempt \in 0..MaxAttempt BY <1>1, KnownFacts, MachineFacts DEF Receiver
<1>3. ~HasEnded("receiver") BY <1>1 DEF HasEnded, Receiver, Terminal
<1>4. Consented BY <1>1, <1>3 DEF IInv, MarkerInv, Consented
<1>5. output' = Offered BY <1>1 DEF IInv, FileInv, MachineInv, Offered
<1> QED BY <1>1, <1>2, <1>3, <1>4, <1>5, EndSeen, AsDeliver

\* The send worker is joined: finished, failed, interrupted or too late.
LEMMA JoinSendRefines ==
    ASSUME IInv, NewsInv, JoinSend
    PROVE  ContractStep /\ NewsInv'
<1> USE SideFacts
<1>1. SendWorker.step = "joinable" /\ Known("sender") /\ output' = output
  BY DEF IInv, MachineInv, JoinSend
<1>2. SendWorker.attempt \in 0..MaxAttempt /\ Sound(Sender) /\ 0 \in Nat
  BY <1>1, WorkerKinds, KnownFacts DEF IInv, SendWorker, Sender
<1>3. CASE (\E x \in send_finished(Sender, SendWorker.attempt) : Move("sender", x)) /\ UNCHANGED <<inbox, markers>>
  <2>1. PICK x \in send_finished(Sender, SendWorker.attempt) : Move("sender", x) BY <1>3
  <2>2. Follows(Sender, x) /\ x.status = "none" BY <1>2, <2>1, ProgressFacts
  <2> QED BY <1>1, <1>3, <2>1, <2>2, NoMail, MovingStep DEF Sender
<1>4. CASE EndLocally("sender", "Failed", SendWorker.attempt)
  BY <1>1, <1>2, <1>4, GiveUpStep
<1>5. CASE Move("sender", pause(Sender)) /\ UNCHANGED <<inbox, markers>>
  BY <1>1, <1>5, NoMail, MovingStep DEF Sender
<1>6. CASE UNCHANGED <<xfer, inbox, markers>> BY <1>1, <1>6, NoMail, StandingStep
<1> QED BY <1>3, <1>4, <1>5, <1>6 DEF JoinSend

\* The receive worker is joined: verified, failed, interrupted or too late.
LEMMA JoinReceiveRefines ==
    ASSUME IInv, NewsInv, JoinReceive
    PROVE  ContractStep /\ NewsInv'
<1> USE SideFacts
<1>1. ReceiveWorker.step = "joinable" /\ output' = output BY DEF JoinReceive
<1>2. ReceiveWorker \in Workers /\ ReceiveWorker # NoWorker
  BY <1>1, WorkerKinds DEF IInv, ReceiveWorker
<1>3. Known("receiver") BY <1>2 DEF IInv, WorkerInv
<1>4. ReceiveWorker.attempt \in 0..MaxAttempt /\ Sound(Receiver) /\ 0 \in Nat
  BY <1>2, <1>3, WorkerKinds, KnownFacts DEF IInv, ReceiveWorker, Receiver
<1>5. CASE (\E x \in payload_verified(Receiver, ReceiveWorker.attempt) : Move("receiver", x)) /\ UNCHANGED <<inbox, markers>>
  <2>1. PICK x \in payload_verified(Receiver, ReceiveWorker.attempt) : Move("receiver", x) BY <1>5
  <2>2. Follows(Receiver, x) /\ x.status = "none" BY <1>4, <2>1, ProgressFacts
  <2> QED BY <1>1, <1>3, <1>5, <2>1, <2>2, NoMail, MovingStep DEF Receiver
<1>6. CASE EndLocally("receiver", "Failed", ReceiveWorker.attempt)
  BY <1>1, <1>3, <1>4, <1>6, GiveUpStep
<1>7. CASE Move("receiver", pause(Receiver)) /\ UNCHANGED <<inbox, markers>>
  BY <1>1, <1>3, <1>7, NoMail, MovingStep DEF Receiver
<1>8. CASE UNCHANGED <<xfer, inbox, markers>> BY <1>1, <1>8, NoMail, StandingStep
<1> QED BY <1>5, <1>6, <1>7, <1>8 DEF JoinReceive

\* After the sender's outcome no offer is left to read.
LEMMA NoOfferLeft ==
    ASSUME IInv, NewsInv, Receives("receiver", "Terminal")
    PROVE  "Offer" \notin Kinds(Tail(inbox["receiver"]))
<1>1. PICK q \in Seq(Messages) : q = inbox["receiver"] BY SideFacts DEF IInv, ShapeInv
<1>2. q # <<>> /\ Head(q).kind = "Terminal" BY <1>1 DEF Receives
<1>3. Len(q) \in Nat /\ Len(q) # 0 BY <1>1, <1>2, EmptySeq, LenProperties
<1>4. /\ Len(Tail(q)) = Len(q) - 1 /\ Head(q) = q[1]
      /\ \A i \in 1 .. Len(Tail(q)) : Tail(q)[i] = q[i + 1]
  BY <1>1, <1>2, HeadTailProperties
<1>5. ASSUME NEW i \in 1 .. Len(Tail(q)) PROVE Tail(q)[i].kind # "Offer"
  <2>1. i + 1 \in 1 .. Len(q) /\ 1 \in 1 .. Len(q) /\ 1 < i + 1 BY <1>3, <1>4
  <2> QED BY <1>1, <1>2, <1>4, <2>1 DEF NewsInv, Ordered
<1> QED BY <1>1, <1>5 DEF Kinds

\* The peer's outcome arrives: a side without one learns it, any side acknowledges.
LEMMA TerminalRefines ==
    ASSUME IInv, NewsInv, NEW s \in Sides, ReceiveTerminal(s)
    PROVE  ContractStep /\ NewsInv'
<1> USE SideFacts
<1>1. /\ xfer'[Other(s)] = xfer[Other(s)] /\ output' = output /\ HasEnded(Other(s))
      /\ Known(s) => /\ Follows(xfer[s], xfer'[s]) /\ HasEnded(s)'
                     /\ HasEnded(s) => xfer'[s] = xfer[s]
                     /\ ~HasEnded(s) => xfer'[s].status = xfer[Other(s)].status
      /\ ~Known(s) => xfer'[s] = xfer[s]
      /\ markers'[Other(s)] = markers[Other(s)] /\ markers'[s].accepted = markers[s].accepted
  BY TerminalFacts
<1>2. Consented' = Consented BY <1>1 DEF Consented
<1>3. HasEnded(s) => Known(s) BY KnownFacts
<1>4. Still(Other(s)) /\ Known(Other(s))' = Known(Other(s)) BY <1>1, StillSame
<1>5. ContractStep
  <2>1. CASE xfer'[s] = xfer[s]
    <3>1. Still(s) /\ Known(s)' = Known(s) BY <2>1, StillSame
    <3>2. \A t \in Sides : Still(t) /\ Known(t)' = Known(t) BY <1>4, <3>1
    <3> QED BY <1>1, <1>2, <3>2, StillFacts DEF ContractStep, Unseen
  <2>2. CASE Known(s) /\ ~HasEnded(s)
    <3>1. PICK x \in peer_terminal_persisted(xfer[s], Head(inbox[s]).status) : Move(s, x)
      BY <2>2 DEF ReceiveTerminal
    <3>2. xfer'[s] = x BY <3>1 DEF Move, IInv, ShapeInv
    <3>3. x = Ended(xfer[s], "Settled", Head(inbox[s]).status)
      BY <2>2, <3>1 DEF peer_terminal_persisted, Ok, HasEnded
    <3>4. x.state = "Settled"
      <4>1. xfer[s] \in Machines BY <2>2, KnownFacts
      <4> QED BY <3>3, <4>1 DEF Ended, Plain, Machines
    <3>5. Outcome(s)' = Outcome(Other(s)) /\ Outcome(Other(s))' = Outcome(Other(s))
      BY <1>1, <1>4, <2>2 DEF Outcome, HasEnded
    <3>6. Outcomes' = [Outcomes EXCEPT ![s] = Outcomes[Other(s)]] BY <3>5 DEF Outcomes
    <3>7. SettledSides' = SettledSides \cup {s} BY <1>1, <3>2, <3>4 DEF SettledSides
    <3>8. Known(s)' BY <1>1, <2>2, MachineFacts DEF Known, Follows, Sound
    <3>9. Offered' = Offered BY <1>1, <1>4, <2>2, <3>8 DEF Offered, Sender, Follows
    <3> QED BY <1>1, <1>2, <2>2, <3>6, <3>7, <3>9, AsLearn
  <2> QED BY <1>1, <2>1, <2>2
<1>6. NewsInv'
  <2>1. ShapeInv /\ inbox[s] # <<>> /\ Answer(s, [kind |-> "TerminalAck"])
    BY DEF IInv, ReceiveTerminal, Receives
  <2>2. PICK m \in Messages : m = [kind |-> "TerminalAck"] BY MessageFacts
  <2>3. m.kind \in {"TerminalAck"} BY <2>2
  <2>4. Carries(s, {}) /\ Carries(Other(s), {"TerminalAck"})
    BY <2>1, <2>2, <2>3, AnswerCarries
  <2>5. /\ Kinds(inbox'[s]) \subseteq Kinds(inbox[s])
        /\ Kinds(inbox'[Other(s)]) \subseteq Kinds(inbox[Other(s)]) \cup {"TerminalAck"}
        /\ Ordered(inbox'["receiver"])
    BY <2>1, <2>4, CarriesFacts DEF NewsInv
  <2>6. Told(Other(s))'
    <3>1. CASE Known(s) BY <1>1, <3>1 DEF Told
    <3>2. CASE ~Known(s)
      <4>1. s = "receiver"
        <5>1. Known(Other(s)) BY <1>1, KnownFacts
        <5> QED BY <3>2, <5>1 DEF IInv, MachineInv
      <4>2. inbox'["receiver"] = Tail(inbox["receiver"])
        BY <2>1, <4>1 DEF Answer, Rest, ShapeInv
      <4>3. "Offer" \notin Kinds(inbox'["receiver"])
        BY <4>1, <4>2, NoOfferLeft DEF ReceiveTerminal
      <4>4. ~Known("receiver")' BY <1>1, <3>2, <4>1 DEF Known
      <4> QED BY <4>1, <4>3, <4>4 DEF Told
    <3> QED BY <3>1, <3>2
  <2>7. \A t \in Sides : HasEnded(t) => HasEnded(t)' BY <1>1, <1>3, <1>4 DEF Still
  <2>8. Told(s)' BY <1>1, <2>7 DEF Told
  <2>9. Known("receiver")' => Known("receiver") BY <1>1, <1>4 DEF Known
  <2>10. \A t \in Sides : "TerminalAck" \in Kinds(inbox'[t]) =>
            "TerminalAck" \in Kinds(inbox[t]) \/ (HasEnded(t) /\ Told(t)')
    BY <1>1, <2>5, <2>6
  <2>11. \A t \in Sides : xfer'[t].state = "Settled" => xfer[t].state = "Settled" \/ Told(t)'
    BY <1>1, <2>8
  <2>12. "Offer" \in Kinds(inbox'["receiver"]) => "Offer" \in Kinds(inbox["receiver"]) BY <2>5
  <2> QED BY <2>5, <2>7, <2>9, <2>10, <2>11, <2>12, NewsStep
<1> QED BY <1>5, <1>6

\* An acknowledgement: the other side has an outcome too, or was never asked.
LEMMA AckRefines ==
    ASSUME IInv, NewsInv, NEW s \in Sides, ReceiveAck(s)
    PROVE  ContractStep /\ NewsInv'
<1> USE SideFacts
<1>1. /\ ShapeInv /\ inbox[s] # <<>> /\ inbox' = Rest(s) /\ Head(inbox[s]).kind = "TerminalAck"
      /\ UNCHANGED <<markers, output>>
  BY DEF IInv, ReceiveAck, Receives
<1>2. /\ Known(s) /\ HasEnded(s) /\ Follows(xfer[s], xfer'[s])
      /\ xfer'[Other(s)] = xfer[Other(s)] /\ xfer'[s].status = xfer[s].status /\ HasEnded(s)'
  BY AckFacts
<1>3. "TerminalAck" \in Kinds(inbox[s])
  <2>1. PICK m \in Messages : m = Head(inbox[s]) /\ m \in Mail(inbox[s]) BY <1>1, RestFacts
  <2> QED BY <1>1, <2>1 DEF Kinds, Mail
<1>4. Told(s) BY <1>3 DEF NewsInv
<1>5. HasEnded(Other(s)) \/ (s = "sender" /\ ~Consented)
  <2>1. ~Known("receiver") => ~Consented BY DEF IInv, MarkerInv, Unaccepted, Consented
  <2> QED BY <1>4, <2>1 DEF Told
<1>6. xfer'[s].state = "Settled"
  <2>1. PICK x \in terminal_ack_received(xfer[s]) : Move(s, x) BY DEF ReceiveAck
  <2>2. xfer'[s] = x BY <1>1, <2>1 DEF Move, ShapeInv
  <2>3. x = Ended(xfer[s], "Settled", xfer[s].status) BY <2>1 DEF terminal_ack_received, Ok
  <2>4. xfer[s] \in Machines BY <1>2, KnownFacts
  <2> QED BY <2>2, <2>3, <2>4 DEF Ended, Plain, Machines
<1>7. Still(Other(s)) /\ Known(Other(s))' = Known(Other(s)) BY <1>2, StillSame
<1>8. Outcomes' = Outcomes
  <2>1. Outcome(s)' = Outcome(s) /\ Outcome(Other(s))' = Outcome(Other(s))
    BY <1>2, <1>7 DEF Outcome, HasEnded
  <2> QED BY <2>1 DEF Outcomes
<1>9. SettledSides' = SettledSides \cup {s} BY <1>2, <1>6 DEF SettledSides
<1>10. Known(s)' BY <1>2, MachineFacts DEF Known, Follows, Sound
<1>11. Offered' = Offered BY <1>2, <1>7, <1>10 DEF Offered, Sender, Follows
<1>12. ContractStep BY <1>1, <1>2, <1>5, <1>8, <1>9, <1>11, AsSettle DEF Consented
<1>13. NewsInv'
  <2>1. Carries(s, {"Terminal"}) /\ Carries(s, {"Accept", "Terminal"}) /\ inbox'[Other(s)] = inbox[Other(s)]
    BY <1>1, RestCarries
  <2>2. QuietMail BY <2>1 DEF QuietMail, Carries
  <2>3. \A t \in Sides : xfer'[t].state = "Settled" =>
           xfer[t].state = "Settled" \/ "TerminalAck" \in Kinds(inbox[t])
    BY <1>2, <1>3
  <2>4. \A t \in Sides : HasEnded(t) => HasEnded(t)' BY <1>2, <1>7 DEF Still
  <2>5. Known("receiver")' => Known("receiver") BY <1>2, <1>7
  <2> QED BY <2>2, <2>3, <2>4, <2>5, QuietNews
<1> QED BY <1>12, <1>13

\* Nothing has been offered, accepted or decided at first.
LEMMA InitContract == Init => Contract!Init /\ NewsInv
<1> SUFFICES ASSUME Init PROVE Contract!Init /\ NewsInv
  OBVIOUS
<1> USE SideFacts
<1>1. \A s \in Sides : /\ xfer[s] = NoTransfer /\ xfer[s].state = "none" /\ inbox[s] = <<>>
                       /\ markers[s] = Unaccepted
  BY DEF Init, NoTransfer
<1>2. \A s \in Sides : ~Known(s) /\ ~HasEnded(s) BY <1>1 DEF Known, HasEnded, Terminal
<1>3. Outcomes = [u \in Contract!Users |-> "open"]
  BY <1>2, UserFacts DEF Outcomes, Outcome
<1>4. Contract!Init
  BY <1>1, <1>2, <1>3 DEF Contract!Init, Outcomes, Init, Unaccepted
<1>5. \A s \in Sides : Kinds(inbox[s]) = {} /\ Ordered(inbox[s])
  <2>1. \A s \in Sides : Len(inbox[s]) = 0 BY <1>1
  <2> QED BY <2>1 DEF Kinds, Ordered
<1>6. NewsInv BY <1>1, <1>5 DEF NewsInv
<1> QED BY <1>4, <1>6

\* Every step of the two machines, their workers, the network and the users is a
\* step or a stutter of the contract.
LEMMA NextContract ==
    IInv /\ NewsInv /\ [Next]_vars => [Contract!Next]_(Contract!vars) /\ NewsInv'
<1> SUFFICES ASSUME IInv, NewsInv, [Next]_vars PROVE ContractStep /\ NewsInv'
  BY DEF ContractStep, Unseen, Contract!vars, Offered, Outcomes, SettledSides, Consented
<1>1. CASE SenderWorks
  BY <1>1, SideFacts, PrepareRefines, OfferSteps, ReceiveAcceptQuiet, StartSendQuiet, WorkerSteps,
     JoinSendRefines, NoticeQuiet, TerminalRefines, AckRefines DEF SenderWorks
<1>2. CASE ReceiverWorks
  BY <1>2, SideFacts, ReceiveOfferQuiet, TakeStreamQuiet, WorkerSteps, JoinReceiveRefines,
     PublishRefines, NoticeQuiet, TerminalRefines, AckRefines DEF ReceiverWorks
<1>3. CASE Reconnect BY <1>3, SessionSteps
<1>4. CASE Environment
  BY <1>4, OfferSteps, AcceptOfferRefines, RejectRefines, SessionSteps, WorkerSteps, CancelRefines
     DEF Environment
<1>5. CASE UNCHANGED vars BY <1>5, WorkerSteps
<1> QED BY <1>1, <1>2, <1>3, <1>4, <1>5 DEF Next

\* The two machines with their workers, retries and lost sessions implement
\* TransferContract: the users see one file, delivered whole and once and with
\* consent, an outcome that never changes and is the peer's unless this side
\* decided first, and no side forgets before the other has one or is out of it
\* (state.rs, store.rs and streaming.rs together).
THEOREM Refinement == Spec => ImplementsContract
<1>1. Spec => []IInv BY InductiveInvariant
<1>2. Init => Contract!Init /\ NewsInv BY InitContract
<1>3. IInv /\ NewsInv /\ [Next]_vars => [Contract!Next]_(Contract!vars) /\ NewsInv' BY NextContract
<1> QED BY <1>1, <1>2, <1>3, PTL DEF Spec, ImplementsContract, Contract!Spec

=============================================================================
