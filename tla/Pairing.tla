------------------------------- MODULE Pairing -------------------------------
(***************************************************************************)
(* Attended pairing of two devices (crates/rift-session): the commit and   *)
(* reveal exchange, the two human decisions, the two local trust commits   *)
(* and the two completions, as PairableConnection and PendingPairing run   *)
(* them over one reliable, ordered control stream in each direction.       *)
(*                                                                         *)
(* Each send is a step of its own: a timeout, a closed connection, a       *)
(* revoke, a forget or a shutdown may fall between any two.  Once the      *)
(* connection is closed, what is still in flight may or may not be read.   *)
(* An ID and a nonce are fresh values of their attempt, a commitment is    *)
(* the pair it binds, and a verification code is the transcript it stands  *)
(* for: the digests are taken to have no collisions.                       *)
(* Attempts follow one another, over journals that keep their decisions.   *)
(***************************************************************************)
EXTENDS Integers, Sequences

CONSTANTS
    MaxAttempts,     \* bound on pairing attempts of the two devices
    MaxGeneration    \* bound on forgets at one device

ASSUME BoundsAssumption == MaxAttempts \in Nat \ {0} /\ MaxGeneration \in Nat

VARIABLES
    phase,         \* PairingStateMachine::phase, with the sends made explicit
    local,         \* local_accepted
    inbox,         \* messages on the stream towards each side
    heard,         \* the peer's ID, commitment and nonce, as far as they are known
    sent,          \* history: the kinds of message each side has sent
    link,          \* is the disposable connection still up
    trust,         \* each journal's decision on the other device
    generations,   \* each journal's forget generation
    captured,      \* trust_generation of the attempt
    committed,     \* history: the attempt's commit reached the journal
    attempt

vars == <<phase, local, inbox, heard, sent, link, trust, generations, captured, committed, attempt>>

Sides == {"Initiator", "Responder"}
Other(s) == IF s = "Initiator" THEN "Responder" ELSE "Initiator"

Finished == {"Complete", "Rejected", "Failed"}
Receiving == {"AwaitingRequest", "AwaitingResponse", "AwaitingReveal",
              "AwaitingRemoteDecision", "AwaitingCompletion"}
Sending == {"SendRequest", "SendResponse", "SendReveal", "SendDecision", "SendComplete"}
Phases == Finished \cup Receiving \cup Sending \cup {"AwaitingLocalDecision", "CommittingTrust"}

Kinds == {"Request", "Response", "Reveal", "Accept", "Reject", "Complete"}

Active(s) == phase[s] \notin Finished

\* What the two sides draw from the operating system for an attempt.
PairingId == <<"id", attempt>>
Nonce(s) == <<s, attempt>>
Unheard == [id |-> "none", commitment |-> "none", nonce |-> "none"]

\* PairingCommitment binds a role, the attempt and a nonce; the identities are
\* those of the roles.  PairingTranscript is ordered by role, not by side.
derive(role, id, nonce) == [role |-> role, id |-> id, nonce |-> nonce]
verifies(commitment, role, id, nonce) == commitment = derive(role, id, nonce)

pairing_id(s) == IF s = "Initiator" THEN PairingId ELSE heard[s].id
TranscriptBySide(s) == <<pairing_id(s), Nonce(s), heard[s].nonce>>
Transcript(s) ==
    IF s = "Initiator" THEN <<pairing_id(s), Nonce(s), heard[s].nonce>>
    ELSE <<pairing_id(s), heard[s].nonce, Nonce(s)>>

Init ==
    /\ phase = [s \in Sides |-> "Failed"]
    /\ local = [s \in Sides |-> "none"]
    /\ inbox = [s \in Sides |-> <<>>]
    /\ heard = [s \in Sides |-> Unheard]
    /\ sent = [s \in Sides |-> {}]
    /\ link = FALSE
    /\ trust = [s \in Sides |-> "Unknown"]
    /\ generations = [s \in Sides |-> 0]
    /\ captured = [s \in Sides |-> 0]
    /\ committed = [s \in Sides |-> FALSE]
    /\ attempt = 0

\* A fresh connection passed the purpose gate on both sides; its captured
\* generations are those of the gate.
StartAttempt ==
    /\ attempt < MaxAttempts
    /\ \A s \in Sides : ~Active(s) /\ trust[s] = "Unknown"
    /\ attempt' = attempt + 1
    /\ phase' = [s \in Sides |-> IF s = "Initiator" THEN "SendRequest" ELSE "AwaitingRequest"]
    /\ local' = [s \in Sides |-> "none"]
    /\ inbox' = [s \in Sides |-> <<>>]
    /\ heard' = [s \in Sides |-> Unheard]
    /\ sent' = [s \in Sides |-> {}]
    /\ link' = TRUE
    /\ captured' = generations
    /\ committed' = [s \in Sides |-> FALSE]
    /\ UNCHANGED <<trust, generations>>

-----------------------------------------------------------------------------
(* The shape of a step: a send, a receipt, a failure.                      *)

Journal == <<trust, generations, captured, committed, attempt>>

Goto(s, next) == phase' = [phase EXCEPT ![s] = next]

\* PairingMessage: each names its attempt; the first two carry a commitment.
Message(s, kind) ==
    [kind |-> kind, id |-> pairing_id(s),
     body |-> CASE kind \in {"Request", "Response"} -> derive(s, pairing_id(s), Nonce(s))
                [] kind = "Reveal" -> Nonce(s)
                [] OTHER -> "none"]

\* send_or_close
Send(s, from, kind, next) ==
    /\ phase[s] = from /\ link
    /\ inbox' = [inbox EXCEPT ![Other(s)] = Append(@, Message(s, kind))]
    /\ sent' = [sent EXCEPT ![s] = @ \cup {kind}]
    /\ Goto(s, next)
    /\ UNCHANGED <<local, heard, link, Journal>>

\* The connection is closed by this side, which gives up or has finished with it.
Close(s, final) ==
    /\ Goto(s, final)
    /\ link' = FALSE
    /\ UNCHANGED <<local, inbox, heard, sent, Journal>>

\* receive_or_close, and the state machine's answer to what was received.
require_pairing_id(s, m) == m.kind = "Request" \/ m.id = pairing_id(s)

Arrived(s, from) == phase[s] = from /\ inbox[s] # <<>> /\ require_pairing_id(s, Head(inbox[s]))
Take(s) == inbox' = [inbox EXCEPT ![s] = Tail(@)]

Receive(s, from, kind, next) ==
    /\ Arrived(s, from) /\ Head(inbox[s]).kind = kind
    /\ Take(s) /\ Goto(s, next)
    /\ UNCHANGED <<local, sent, link, Journal>>

Hears(s, field, value) == heard' = [heard EXCEPT ![s] = [@ EXCEPT ![field] = value]]

-----------------------------------------------------------------------------
(* initiate_pairing and respond_to_pairing, up to the verification code.   *)

SendRequest(s) == Send(s, "SendRequest", "Request", "AwaitingResponse")

receive_request(s) ==
    /\ Receive(s, "AwaitingRequest", "Request", "SendResponse")
    /\ LET m == Head(inbox[s]) IN
       heard' = [heard EXCEPT ![s].id = m.id, ![s].commitment = m.body]

RevealThenResponse(s) == Send(s, "SendResponse", "Reveal", "SendReveal")
SendResponse(s) == Send(s, "SendResponse", "Response", "SendReveal")

receive_response(s) ==
    /\ Receive(s, "AwaitingResponse", "Response", "SendReveal")
    /\ Hears(s, "commitment", Head(inbox[s]).body)

SendReveal(s) == Send(s, "SendReveal", "Reveal", "AwaitingReveal")

\* The nonce must open the commitment of the peer's role; then the code is shown.
Opens(s, m) == verifies(heard[s].commitment, Other(s), pairing_id(s), m.body)

receive_reveal(s) ==
    /\ Receive(s, "AwaitingReveal", "Reveal", "AwaitingLocalDecision")
    /\ Opens(s, Head(inbox[s]))
    /\ Hears(s, "nonce", Head(inbox[s]).body)

-----------------------------------------------------------------------------
(* PendingPairing::confirm.                                                *)

\* The human decides before the confirmation deadline.
DecisionUnrecorded(s, accepted) ==
    phase[s] = "AwaitingLocalDecision" /\ Goto(s, "SendDecision")
    /\ UNCHANGED <<local, inbox, heard, sent, link, Journal>>
local_decision(s, accepted) ==
    /\ phase[s] = "AwaitingLocalDecision"
    /\ local' = [local EXCEPT ![s] = IF accepted THEN "Accept" ELSE "Reject"]
    /\ Goto(s, "SendDecision")
    /\ UNCHANGED <<inbox, heard, sent, link, Journal>>

SendDecision(s) == Send(s, "SendDecision", local[s], "AwaitingRemoteDecision")

\* Only two positive decisions go on to the journal.
RemoteAgreed(s, remote) == remote = "Accept"
Agreed(s, remote) == local[s] = "Accept" /\ remote = "Accept"

remote_decision(s) ==
    /\ Arrived(s, "AwaitingRemoteDecision") /\ Head(inbox[s]).kind \in {"Accept", "Reject"}
    /\ IF Agreed(s, Head(inbox[s]).kind)
       THEN Goto(s, "CommittingTrust") /\ UNCHANGED link
       ELSE Goto(s, "Rejected") /\ link' = FALSE
    /\ Take(s)
    /\ UNCHANGED <<local, heard, sent, Journal>>

\* trust_if_generation: refused when the attempt was forgotten or the peer revoked.
CommitAllowed(s) == generations[s] = captured[s] /\ trust[s] # "Revoked"

CompleteThenCommit(s) == phase[s] = "CommittingTrust" /\ CommitAllowed(s) /\ Goto(s, "SendComplete")
                         /\ UNCHANGED <<local, inbox, heard, sent, link, Journal>>
CommitTrust(s) ==
    /\ phase[s] = "CommittingTrust" /\ CommitAllowed(s)
    /\ trust' = [trust EXCEPT ![s] = "Trusted"]
    /\ committed' = [committed EXCEPT ![s] = TRUE]
    /\ Goto(s, "SendComplete")
    /\ UNCHANGED <<local, inbox, heard, sent, link, generations, captured, attempt>>

CommitFails(s) == phase[s] = "CommittingTrust" /\ Close(s, "Failed")

SendComplete(s) == Send(s, "SendComplete", "Complete", "AwaitingCompletion")

remote_completion(s) ==
    Receive(s, "AwaitingCompletion", "Complete", "Complete") /\ UNCHANGED heard

-----------------------------------------------------------------------------
(* Failures.                                                               *)

\* A receipt or a send that takes longer than pairing_timeout, or the
\* confirmation deadline of the local decision.
TimesOutOnTheWire(s) == phase[s] \in Receiving \cup Sending /\ Close(s, "Failed")
TimesOut(s) ==
    /\ phase[s] \in Receiving \cup Sending \cup {"AwaitingLocalDecision"}
    /\ Close(s, "Failed")

\* The connection is gone; whatever had arrived may be lost with it.
ConnectionLost(s) ==
    /\ ~link
    /\ phase[s] \in Receiving \cup Sending \cup {"AwaitingLocalDecision"}
    /\ Close(s, "Failed")

\* The kinds a phase accepts.  Any other message, another attempt's ID or a
\* nonce that does not open its commitment would poison the connection:
\* ScriptsAgree says that two sides that run this code never get there.
Expected(p) ==
    CASE p = "AwaitingRequest" -> {"Request"}
      [] p = "AwaitingResponse" -> {"Response"}
      [] p = "AwaitingReveal" -> {"Reveal"}
      [] p = "AwaitingRemoteDecision" -> {"Accept", "Reject"}
      [] OTHER -> {"Complete"}

Unexpected(s) ==
    /\ phase[s] \in Receiving /\ inbox[s] # <<>>
    /\ LET m == Head(inbox[s]) IN
       \/ m.kind \notin Expected(phase[s])
       \/ ~require_pairing_id(s, m)
       \/ m.kind = "Reveal" /\ ~Opens(s, m)

\* The daemon revokes or forgets the peer, or shuts down: the journal changes
\* first, and the future that runs the attempt is dropped some time later.
RevokePeer(s) ==
    /\ trust' = [trust EXCEPT ![s] = "Revoked"]
    /\ UNCHANGED <<phase, local, inbox, heard, sent, link, generations, captured, committed, attempt>>

ForgetPeer(s) ==
    /\ generations[s] < MaxGeneration
    /\ generations' = [generations EXCEPT ![s] = @ + 1]
    /\ trust' = [trust EXCEPT ![s] = "Unknown"]
    /\ UNCHANGED <<phase, local, inbox, heard, sent, link, captured, committed, attempt>>

Cancel(s) == Active(s) /\ Close(s, "Failed")

-----------------------------------------------------------------------------
Exchange(s) ==
    \/ SendRequest(s) \/ receive_request(s) \/ SendResponse(s) \/ receive_response(s)
    \/ SendReveal(s) \/ receive_reveal(s)
    \/ SendDecision(s) \/ remote_decision(s)
    \/ CommitTrust(s) \/ CommitFails(s) \/ SendComplete(s) \/ remote_completion(s)
    \/ TimesOut(s) \/ ConnectionLost(s)

Next ==
    \/ StartAttempt
    \/ \E s \in Sides :
          \/ Exchange(s) \/ Cancel(s) \/ RevokePeer(s) \/ ForgetPeer(s)
          \/ \E accepted \in BOOLEAN : local_decision(s, accepted)

Spec == Init /\ [][Next]_vars

\* Every send and receipt has the pairing timeout, and so has the wait for the
\* human; nobody has to decide, and nobody has to start an attempt.
FairSpec == Spec /\ \A s \in Sides : WF_vars(Exchange(s))

-----------------------------------------------------------------------------
(* Properties.                                                             *)

\* Types of both state machines, the streams between them and both journals.
TypeOK ==
    /\ phase \in [Sides -> Phases]
    /\ local \in [Sides -> {"none", "Accept", "Reject"}]
    /\ \A s \in Sides : \A n \in DOMAIN inbox[s] : inbox[s][n].kind \in Kinds
    /\ sent \in [Sides -> SUBSET Kinds]
    /\ link \in BOOLEAN
    /\ trust \in [Sides -> {"Unknown", "Trusted", "Revoked"}]
    /\ generations \in [Sides -> 0..MaxGeneration]
    /\ captured \in [Sides -> 0..MaxGeneration]
    /\ committed \in [Sides -> BOOLEAN]
    /\ attempt \in 0..MaxAttempts

\* A pairing enters a journal only when both humans accepted in that attempt:
\* remote_decision goes on to trust_if_generation on two positive decisions only.
TrustNeedsBothDecisions ==
    \A s \in Sides : committed[s] => \A t \in Sides : local[t] = "Accept"

\* A side whose pairing completed, and so holds an authorized connection, knows
\* that the other journal holds the pairing too: Complete follows the commit.
CompletionIsMutual ==
    \A s \in Sides : phase[s] = "Complete" => \A t \in Sides : committed[t]

\* No nonce is revealed before both sides are bound by their commitments, the
\* condition under which the verification code compares what both chose blindly.
RevealsAreCommitted ==
    \A s \in Sides : "Reveal" \in sent[s] => "Request" \in sent["Initiator"] /\ "Response" \in sent["Responder"]

\* Two sides that follow the code never read a message their state machine
\* refuses, at whatever pace they and their users proceed, and the two humans
\* are shown the same code (PairingTranscript::code), each computed from what
\* that side drew and what it was told.
ScriptsAgree ==
    /\ \A s \in Sides : ~Unexpected(s)
    /\ (\A s \in Sides : heard[s].nonce # "none") => Transcript("Initiator") = Transcript("Responder")

\* Every attempt ends on both sides, also when a user never answers, the peer
\* vanishes, or one side has already finished and closed.
AttemptSettles == \A s \in Sides : Active(s) ~> ~Active(s)
=============================================================================
