----------------------------- MODULE Bootstrap -----------------------------
(***************************************************************************)
(* One disposable connection from the dial to its use                      *)
(* (crates/rift-transport-iroh over crates/rift-protocol): the route hint  *)
(* and the QUIC handshake, the control stream, the symmetric Hello, the    *)
(* dialer's purpose and the acceptor's answer, then the service of an      *)
(* authorized session or the first pairing message.                        *)
(*                                                                         *)
(* A frame is its length and its payload, written and read in two steps.   *)
(* Whoever closes the connection throws away whatever is still in flight;  *)
(* what had arrived can be read before the loss shows.  Timers may fire at *)
(* any await that has one; either side may be dropped by its owner, or     *)
(* hang without a word.                                                    *)
(***************************************************************************)
EXTENDS Integers, Sequences

CONSTANTS
    Hellos,       \* the Hellos a side may present, by what validation sees; an
                  \* "unruly" side's is valid, but whenever it writes a message it
                  \* may write any other one instead, whatever it knows to be true
    MaxPings      \* bound on pings of an authorized session

ASSUME BootstrapAssumption ==
    /\ Hellos \subseteq {"valid", "other version", "other identity", "oversized", "unruly"}
    /\ MaxPings \in Nat

VARIABLES
    pc,          \* where each side is in bootstrap, gate and use
    half,        \* the length of the frame in progress is written or read
    wire,        \* pieces of frames on their way to each side
    link,        \* is the connection open
    outcome,     \* how each side's connection ended
    route,       \* has_route_source: a hint or a lookup resolves the acceptor
    hello,       \* the Hello each side presents
    purpose,     \* ConnectionPurpose the dialer asks for
    policy,      \* the purpose the acceptor's trust in the dialer allows, if any
    asked,       \* the purpose the acceptor has received, if any
    decision,    \* what the acceptor made of it
    faulted,     \* history: a timer fired, an owner dropped, the network failed
    hung,        \* sides that have stopped without a word
    pings

vars == <<pc, half, wire, link, outcome, route, hello, purpose, policy, asked, decision, faulted,
          hung, pings>>
inputs == <<route, hello, purpose, policy>>
gate == <<asked, decision>>

Sides == {"dialer", "acceptor"}
Other(s) == IF s = "dialer" THEN "acceptor" ELSE "dialer"
Purposes == {"AuthorizedSession", "Pairing"}

Results == {"accept", "reject"}

\* Messages by what a reader tells apart: a ConnectionIntent is the purpose in
\* it, a ConnectionIntentResult its accepted bit; a Pong of another nonce is as
\* unexpected as any message that is no Pong.
Kinds == {"Hello", "Ping", "Pong", "PairingRequest"} \cup Purposes \cup Results
Writing == {"write_hello", "write_intent", "write_result", "ping", "pong", "send_pairing"}
Reading == {"read_hello", "read_result", "receive_intent", "await_pong", "serve",
            "receive_pairing"}
Admitted == {"ping", "pong", "await_pong", "serve", "send_pairing", "receive_pairing", "paired"}
Connecting == {"connect", "accept"}
Steps ==
    Writing \cup Reading \cup Connecting
        \cup {"open_control", "accept_control", "drain", "paired", "ended"}

\* The errors of both crates, by what a caller makes of them.
Outcomes ==
    {"none", "Unresolved", "Retryable", "Failed", "Fatal", "IntentRejected", "Rejected", "Dropped"}

Init ==
    /\ pc = [s \in Sides |-> IF s = "dialer" THEN "connect" ELSE "accept"]
    /\ half = [s \in Sides |-> FALSE]
    /\ wire = [s \in Sides |-> <<>>]
    /\ link = FALSE
    /\ outcome = [s \in Sides |-> "none"]
    /\ route \in BOOLEAN
    /\ hello \in [Sides -> Hellos]
    /\ purpose \in Purposes
    /\ policy \in Purposes \cup {"none"}
    /\ asked = "none" /\ decision = "none"
    /\ faulted = FALSE /\ hung = {} /\ pings = 0

-----------------------------------------------------------------------------
(* Ends, and the shape of a frame.                                         *)

Runs(s) == s \notin hung /\ pc[s] # "ended"
Goto(s, step) == pc' = [pc EXCEPT ![s] = step]

\* close: the other side may still find what had already arrived.
Close(s) ==
    /\ link' = FALSE
    /\ \E n \in 0 .. Len(wire[Other(s)]) :
          wire' = [wire EXCEPT ![s] = <<>>, ![Other(s)] = SubSeq(@, 1, n)]

\* poison, or the close of a failed bootstrap; both leave no control stream.
End(s, result) ==
    /\ Goto(s, "ended")
    /\ outcome' = [outcome EXCEPT ![s] = result]
    /\ half' = [half EXCEPT ![s] = FALSE]
    /\ Close(s)

\* write_value: the length, then the payload.
WritePrefix(s) ==
    /\ Runs(s) /\ pc[s] \in Writing /\ ~half[s] /\ link
    /\ pc[s] = "write_hello" => hello[s] # "oversized"
    /\ wire' = [wire EXCEPT ![Other(s)] = Append(@, "length")]
    /\ half' = [half EXCEPT ![s] = TRUE]
    /\ UNCHANGED <<pc, link, outcome, inputs, gate, faulted, hung, pings>>

\* Hello::new refuses local metadata that the peer would refuse.
OwnHelloInvalid(s) ==
    /\ Runs(s) /\ pc[s] = "write_hello" /\ hello[s] = "oversized"
    /\ End(s, "Fatal")
    /\ UNCHANGED <<inputs, gate, faulted, hung, pings>>

\* Each side uses the connection for the purpose it sent or received.
Own(s) == IF s = "dialer" THEN purpose ELSE asked
Use(s) ==
    IF Own(s) = "AuthorizedSession" THEN "serve"
    ELSE IF s = "dialer" THEN "send_pairing" ELSE "receive_pairing"

IntentBeforeHello(s) ==
    CASE pc[s] = "write_hello" -> IF s = "dialer" THEN "write_intent" ELSE "read_hello"
      [] pc[s] = "write_intent" -> "read_result"
      [] pc[s] = "write_result" -> IF decision = "reject" THEN "drain" ELSE Use(s)
      [] pc[s] = "ping" -> "await_pong"
      [] pc[s] = "pong" -> "serve"
      [] pc[s] = "send_pairing" -> "paired"

AfterWrite(s) ==
    CASE pc[s] = "write_hello" -> "read_hello"
      [] pc[s] = "write_intent" -> "read_result"
      [] pc[s] = "write_result" -> IF decision = "reject" THEN "drain" ELSE Use(s)
      [] pc[s] = "ping" -> "await_pong"
      [] pc[s] = "pong" -> "serve"
      [] pc[s] = "send_pairing" -> "paired"

\* What the code writes at each step.
Says(s) ==
    CASE pc[s] = "write_hello" -> "Hello"
      [] pc[s] = "write_intent" -> purpose
      [] pc[s] = "write_result" -> decision
      [] pc[s] = "ping" -> "Ping"
      [] pc[s] = "pong" -> "Pong"
      [] pc[s] = "send_pairing" -> "PairingRequest"

WritePayload(s) ==
    /\ Runs(s) /\ pc[s] \in Writing /\ half[s] /\ link
    /\ \E kind \in Kinds :
          /\ hello[s] # "unruly" => kind = Says(s)
          /\ wire' = [wire EXCEPT ![Other(s)] = Append(@, kind)]
    /\ half' = [half EXCEPT ![s] = FALSE]
    /\ Goto(s, AfterWrite(s))
    /\ UNCHANGED <<link, outcome, inputs, gate, faulted, hung, pings>>

\* read_value: the length, then the payload; read_hello, read_intent and the
\* others differ in what they make of the message.
FirstByteForgotten(s) ==
    /\ Runs(s) /\ pc[s] \in Reading /\ ~half[s] /\ wire[s] # <<>>
    /\ half' = [half EXCEPT ![s] = pc[s] # "serve"]
    /\ wire' = [wire EXCEPT ![s] = Tail(@)]
    /\ UNCHANGED <<pc, link, outcome, inputs, gate, faulted, hung, pings>>

ReadPrefix(s) ==
    /\ Runs(s) /\ pc[s] \in Reading /\ ~half[s] /\ wire[s] # <<>>
    /\ half' = [half EXCEPT ![s] = TRUE]
    /\ wire' = [wire EXCEPT ![s] = Tail(@)]
    /\ UNCHANGED <<pc, link, outcome, inputs, gate, faulted, hung, pings>>

Receives(s, step) == Runs(s) /\ pc[s] = step /\ half[s] /\ wire[s] # <<>>
Message(s) == Head(wire[s])
Take(s, step) ==
    /\ wire' = [wire EXCEPT ![s] = Tail(@)]
    /\ half' = [half EXCEPT ![s] = FALSE]
    /\ Goto(s, step)
    /\ UNCHANGED <<link, outcome>>

\* A read or write on a connection that is gone, with nothing left to read.  A
\* frame cut off is worth a retry; before there are frames, is_retryable goes by
\* the cause of the loss.
Lost(s) ==
    /\ Runs(s) /\ ~link
    /\ pc[s] \notin {"connect", "drain", "paired"}
    /\ pc[s] = "accept" => pc["dialer"] # "connect" /\ outcome["dialer"] # "Unresolved"
    /\ pc[s] \in Reading \cup {"accept_control"} => wire[s] = <<>>
    /\ \E result \in {"Retryable", "Failed"} :
          /\ pc[s] \in Writing \cup Reading => result = "Retryable"
          /\ End(s, result)
    /\ UNCHANGED <<inputs, gate, faulted, hung, pings>>

-----------------------------------------------------------------------------
(* The dial, the control stream and the Hello.                             *)

\* connect_device: an identity that nothing can resolve is never dialled.
Unresolved ==
    /\ Runs("dialer") /\ pc["dialer"] = "connect" /\ ~route
    /\ Goto("dialer", "ended")
    /\ outcome' = [outcome EXCEPT !["dialer"] = "Unresolved"]
    /\ UNCHANGED <<half, wire, link, inputs, gate, faulted, hung, pings>>

\* dial and accept: the handshake needs both ends, and ends on each for itself.
dial ==
    /\ Runs("dialer") /\ pc["dialer"] = "connect" /\ route
    /\ Runs("acceptor") /\ pc["acceptor"] = "accept"
    /\ link' = TRUE
    /\ Goto("dialer", "open_control")
    /\ UNCHANGED <<half, wire, outcome, inputs, gate, faulted, hung, pings>>

accept ==
    /\ Runs("acceptor") /\ pc["acceptor"] = "accept" /\ link
    /\ Goto("acceptor", "accept_control")
    /\ UNCHANGED <<half, wire, link, outcome, inputs, gate, faulted, hung, pings>>

open_control ==
    /\ Runs("dialer") /\ pc["dialer"] = "open_control" /\ link
    /\ Goto("dialer", "write_hello")
    /\ UNCHANGED <<half, wire, link, outcome, inputs, gate, faulted, hung, pings>>

\* A stream is there to be accepted once its first bytes are.
accept_control ==
    /\ Runs("acceptor") /\ pc["acceptor"] = "accept_control" /\ wire["acceptor"] # <<>>
    /\ Goto("acceptor", "write_hello")
    /\ UNCHANGED <<half, wire, link, outcome, inputs, gate, faulted, hung, pings>>

\* validate_hello: version, bounds, and the identity that Iroh authenticated.
validate_hello(peer) == peer \in {"valid", "unruly"}

ReceiveHello(s) ==
    /\ Receives(s, "read_hello")
    /\ IF Message(s) = "Hello" /\ validate_hello(hello[Other(s)])
       THEN Take(s, IF s = "dialer" THEN "write_intent" ELSE "receive_intent")
       ELSE End(s, "Fatal")
    /\ UNCHANGED <<inputs, gate, faulted, hung, pings>>

-----------------------------------------------------------------------------
(* The purpose gate.                                                       *)

purpose_allowed(requested) == requested = policy

\* receive_intent, then accept_inbound's decision.
receive_intent ==
    /\ Receives("acceptor", "receive_intent")
    /\ IF Message("acceptor") \in Purposes
       THEN /\ Take("acceptor", "write_result")
            /\ asked' = Message("acceptor")
            /\ decision' = IF purpose_allowed(asked') THEN "accept" ELSE "reject"
       ELSE End("acceptor", "Fatal") /\ UNCHANGED gate
    /\ UNCHANGED <<inputs, faulted, hung, pings>>

ResultIgnored ==
    /\ Receives("dialer", "read_result")
    /\ IF Message("dialer") \in Results
       THEN Take("dialer", Use("dialer"))
       ELSE End("dialer", "Fatal")
    /\ UNCHANGED <<inputs, gate, faulted, hung, pings>>

\* request_intent's second half: a rejected dialer closes on receipt.
request_intent ==
    /\ Receives("dialer", "read_result")
    /\ \/ Message("dialer") = "accept" /\ Take("dialer", Use("dialer"))
       \/ Message("dialer") = "reject" /\ End("dialer", "IntentRejected")
       \/ Message("dialer") \notin Results /\ End("dialer", "Fatal")
    /\ UNCHANGED <<inputs, gate, faulted, hung, pings>>

CloseAtOnce ==
    /\ Runs("acceptor") /\ pc["acceptor"] = "drain"
    /\ End("acceptor", "Rejected")
    /\ UNCHANGED <<inputs, gate, faulted, hung, pings>>

\* send_intent_result waits for the dialer to close, so that the close does not
\* throw the answer away.
Drained ==
    /\ Runs("acceptor") /\ pc["acceptor"] = "drain" /\ ~link
    /\ End("acceptor", "Rejected")
    /\ UNCHANGED <<inputs, gate, faulted, hung, pings>>

-----------------------------------------------------------------------------
(* Use.                                                                    *)

\* serve_authorized_control: only pings are served.
serve_authorized_control(s) ==
    /\ Receives(s, "serve")
    /\ IF Message(s) = "Ping" THEN Take(s, "pong") ELSE End(s, "Fatal")
    /\ UNCHANGED <<inputs, gate, faulted, hung, pings>>

StartPing ==
    /\ Runs("dialer") /\ pc["dialer"] = "serve" /\ ~half["dialer"] /\ link
    /\ pings < MaxPings
    /\ pings' = pings + 1
    /\ Goto("dialer", "ping")
    /\ UNCHANGED <<half, wire, link, outcome, inputs, gate, faulted, hung>>

ReceivePong ==
    /\ Receives("dialer", "await_pong")
    /\ IF Message("dialer") = "Pong" THEN Take("dialer", "serve") ELSE End("dialer", "Fatal")
    /\ UNCHANGED <<inputs, gate, faulted, hung, pings>>

\* into_pairing: a pairing-only connection takes nothing else.
receive_pairing ==
    /\ Receives("acceptor", "receive_pairing")
    /\ IF Message("acceptor") = "PairingRequest" THEN Take("acceptor", "paired")
       ELSE End("acceptor", "Fatal")
    /\ UNCHANGED <<inputs, gate, faulted, hung, pings>>

-----------------------------------------------------------------------------
(* Deadlines, owners and the network.                                      *)

\* Every await has a deadline, but for a session with no frame under way.
NoIntentDeadline(s) ==
    pc[s] \notin {"ended", "paired", "receive_intent"} /\ (pc[s] = "serve" => half[s])

HasDeadline(s) == pc[s] \notin {"ended", "paired"} /\ (pc[s] = "serve" => half[s])

TimesOut(s) ==
    /\ Runs(s) /\ HasDeadline(s)
    /\ End(s, IF pc[s] = "drain" THEN "Rejected" ELSE "Retryable")
    /\ faulted' = TRUE
    /\ UNCHANGED <<inputs, gate, hung, pings>>

\* BootstrapCloseGuard and Drop for BootstrappedConnection.
Dropped(s) ==
    /\ Runs(s)
    /\ End(s, "Dropped")
    /\ faulted' = TRUE
    /\ UNCHANGED <<inputs, gate, hung, pings>>

Hangs(s) ==
    /\ Runs(s) /\ hung = {}
    /\ hung' = {s}
    /\ faulted' = TRUE
    /\ UNCHANGED <<pc, half, wire, link, outcome, inputs, gate, pings>>

\* The dial comes to nothing: no address answers, or the handshake fails.
ConnectFails ==
    /\ Runs("dialer") /\ pc["dialer"] = "connect" /\ route
    /\ \E result \in {"Retryable", "Failed"} : End("dialer", result)
    /\ faulted' = TRUE
    /\ UNCHANGED <<inputs, gate, hung, pings>>

NetworkFails ==
    /\ link
    /\ link' = FALSE
    /\ \E d \in 0 .. Len(wire["dialer"]), a \in 0 .. Len(wire["acceptor"]) :
          wire' = [dialer |-> SubSeq(wire["dialer"], 1, d),
                   acceptor |-> SubSeq(wire["acceptor"], 1, a)]
    /\ faulted' = TRUE
    /\ UNCHANGED <<pc, half, outcome, inputs, gate, hung, pings>>

-----------------------------------------------------------------------------
(* Specification.                                                          *)

\* What a side does by itself, its timers included.
Proceeds(s) ==
    \/ WritePrefix(s) \/ WritePayload(s) \/ OwnHelloInvalid(s)
    \/ ReadPrefix(s) \/ ReceiveHello(s) \/ serve_authorized_control(s)
    \/ Lost(s) \/ TimesOut(s)
    \/ s = "dialer" /\ (Unresolved \/ dial \/ open_control \/ request_intent \/ ReceivePong)
    \/ s = "acceptor" /\ (accept \/ accept_control \/ receive_intent \/ Drained \/ receive_pairing)

Next ==
    \/ \E s \in Sides : Proceeds(s) \/ Dropped(s) \/ Hangs(s)
    \/ StartPing
    \/ ConnectFails \/ NetworkFails

Spec == Init /\ [][Next]_vars

\* Every task that has not hung is polled again while it can go on.
FairSpec == Spec /\ \A s \in Sides : WF_vars(Proceeds(s))

-----------------------------------------------------------------------------
(* Properties.                                                             *)

\* The type of every variable.  Lengths and payloads alternate on the wire and
\* every reader is in step with them: none takes a payload for a length.
TypeOK ==
    /\ pc \in [Sides -> Steps] /\ half \in [Sides -> BOOLEAN]
    /\ \A s \in Sides : \A n \in DOMAIN wire[s] :
          LET midway == pc[s] \in Reading /\ half[s] IN
          wire[s][n] \in IF (n % 2 = 0) = midway THEN {"length"} ELSE Kinds
    /\ link \in BOOLEAN /\ outcome \in [Sides -> Outcomes]
    /\ asked \in Purposes \cup {"none"} /\ decision \in Results \cup {"none"}
    /\ faulted \in BOOLEAN /\ hung \subseteq Sides /\ pings \in 0..MaxPings

\* What a side past the gate uses the connection for.
Service(s) ==
    IF pc[s] \in {"serve", "ping", "await_pong", "pong"} THEN "AuthorizedSession" ELSE "Pairing"

\* No side gets past the gate (serve_authorized_control, send_pairing,
\* receive_pairing) before it has validated the other's Hello.  An acceptor past
\* it provides what its trust in the dialer allows, whatever the dialer sent and
\* however the dialer goes on.  A dialer has only the acceptor's word for it: when
\* both keep to the protocol, the dialer uses the connection for what the acceptor
\* has allowed.
AdmissionAgrees ==
    /\ \A s \in Sides : pc[s] \in Admitted => hello[Other(s)] \in {"valid", "unruly"}
    /\ pc["acceptor"] \in Admitted => decision = "accept" /\ policy = Service("acceptor")
    /\ pc["dialer"] \in Admitted /\ (\A s \in Sides : hello[s] # "unruly") =>
          decision = "accept" /\ policy = Service("dialer")

\* A rejected dialer that neither timed out nor lost its network knows that it
\* was rejected (send_intent_result waits before closing); it does not take
\* the rejection for a connection worth retrying.
RejectionIsHeard ==
    decision = "reject" /\ hello["acceptor"] = "valid" /\ pc["dialer"] = "ended" /\ ~faulted =>
        outcome["dialer"] = "IntentRejected"

\* Two sides that present valid Hellos never find each other in breach of the
\* protocol (UnexpectedMessage, UnexpectedIntentMessage), at whatever pace and
\* with whatever losses they run.
ConformingPeersAgree ==
    (\A s \in Sides : hello[s] = "valid") => \A s \in Sides : outcome[s] # "Fatal"

Idles(s) ==
    \/ pc[s] = "paired"
    \/ pc[s] = "serve" /\ ~half[s] /\ wire[s] = <<>> /\ link

\* Every side that runs comes to rest: it is done, or it idles in an open
\* session with no frame under way, however silent the other has become
\* (connection_timeout, handshake_timeout, control_timeout).
SilentPeerIsLeft ==
    \A s \in Sides : <>[](s \in hung \/ pc[s] = "ended" \/ Idles(s))

=============================================================================
