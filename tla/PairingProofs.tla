--------------------------- MODULE PairingProofs ---------------------------
(* Proofs about attended pairing, for any number of attempts and forgets:   *)
(* the two sides follow one script of four messages each, and what a side   *)
(* has read of it bounds what the other has done.                           *)
EXTENDS Pairing, SequenceTheorems, TLAPS

-----------------------------------------------------------------------------
(* The script *)

First(s) == IF s = "Initiator" THEN "Request" ELSE "Response"

\* The n-th message of a side in the current attempt.
LineKind(s, n) ==
    CASE n = 1 -> First(s) [] n = 2 -> "Reveal" [] n = 3 -> local[s] [] OTHER -> "Complete"
Line(s, n) ==
    [kind |-> LineKind(s, n), id |-> PairingId,
     body |-> CASE n = 1 -> derive(s, PairingId, Nonce(s))
                [] n = 2 -> Nonce(s)
                [] OTHER -> "none"]

\* How many messages a side has sent, by its history and by its phase, and how
\* many it has read.
Spoken(s) ==
    IF "Complete" \in sent[s] THEN 4
    ELSE IF "Accept" \in sent[s] \/ "Reject" \in sent[s] THEN 3
    ELSE IF "Reveal" \in sent[s] THEN 2
    ELSE IF First(s) \in sent[s] THEN 1
    ELSE 0
SaidAt(p) ==
    CASE p \in {"SendRequest", "AwaitingRequest", "SendResponse"} -> 0
      [] p \in {"AwaitingResponse", "SendReveal"} -> 1
      [] p \in {"AwaitingReveal", "AwaitingLocalDecision", "SendDecision"} -> 2
      [] p \in {"AwaitingRemoteDecision", "CommittingTrust", "SendComplete"} -> 3
      [] OTHER -> 4
ReadAt(p) ==
    CASE p \in {"SendRequest", "AwaitingRequest", "AwaitingResponse"} -> 0
      [] p \in {"SendResponse", "SendReveal", "AwaitingReveal"} -> 1
      [] p \in {"AwaitingLocalDecision", "SendDecision", "AwaitingRemoteDecision"} -> 2
      [] p \in {"CommittingTrust", "SendComplete", "AwaitingCompletion"} -> 3
      [] OTHER -> 4

-----------------------------------------------------------------------------
(* The inductive invariant *)

Undecided == {"SendRequest", "AwaitingRequest", "AwaitingResponse", "SendResponse",
              "SendReveal", "AwaitingReveal", "AwaitingLocalDecision"}
Agreeing == {"CommittingTrust", "SendComplete", "AwaitingCompletion", "Complete"}
Committing == {"SendComplete", "AwaitingCompletion", "Complete"}

\* What a message and a memory may hold in the current attempt.
Nonces == {"none"} \cup {Nonce(s) : s \in Sides}
Commitments == {"none"} \cup {derive(s, PairingId, Nonce(s)) : s \in Sides}
Lines == [kind : Kinds, id : {PairingId}, body : Nonces \cup Commitments]
ShapeInv ==
    /\ inbox \in [Sides -> Seq(Lines)]
    /\ heard \in [Sides -> [id : {"none", PairingId}, commitment : Commitments, nonce : Nonces]]

\* Each role keeps to its own half of the script, and says it in order.
RoleInv ==
    /\ phase["Initiator"] \notin {"AwaitingRequest", "SendResponse"}
    /\ phase["Responder"] \notin {"SendRequest", "AwaitingResponse"}
    /\ \A s \in Sides :
          /\ Active(s) => Spoken(s) = SaidAt(phase[s])
          /\ Spoken(s) > 0 => First(s) \in sent[s]

\* What is on its way to a side that still reads is the rest of the other's script.
StreamInv ==
    \A s \in Sides : Active(s) =>
        /\ Len(inbox[s]) = Spoken(Other(s)) - ReadAt(phase[s])
        /\ \A n \in 1 .. Len(inbox[s]) : inbox[s][n] = Line(Other(s), ReadAt(phase[s]) + n)

\* Whatever a side was told is what the other drew, and it knows as much as it has read.
HeardInv ==
    \A s \in Sides :
        /\ heard[s].nonce # "none" =>
              heard[s].nonce = Nonce(Other(s)) /\ pairing_id(s) = PairingId
        /\ Active(s) /\ ReadAt(phase[s]) > 0 =>
              /\ pairing_id(s) = PairingId
              /\ heard[s].commitment = derive(Other(s), PairingId, Nonce(Other(s)))

\* A decision is taken once, before it is sent.
DecisionInv ==
    \A s \in Sides :
        /\ phase[s] \in Undecided => local[s] = "none"
        /\ Active(s) /\ phase[s] \notin Undecided => local[s] # "none"
        /\ Spoken(s) > 2 => local[s] # "none"

\* The journal is reached through two positive decisions, Complete through the journal.
CommitInv ==
    \A s \in Sides :
        /\ phase[s] \in Agreeing \/ committed[s] => \A r \in Sides : local[r] = "Accept"
        /\ phase[s] \in Committing \/ Spoken(s) = 4 => committed[s]
        /\ phase[s] = "Complete" => committed[Other(s)]

IInv ==
    /\ TypeOK /\ ShapeInv /\ RoleInv /\ StreamInv /\ HeardInv /\ DecisionInv /\ CommitInv
    /\ RevealsAreCommitted

-----------------------------------------------------------------------------
(* Facts about queues and the script *)

\* A queue after a message was appended to it.
LEMMA AppendFacts ==
    ASSUME NEW S, NEW q \in Seq(S), NEW m \in S
    PROVE  /\ Len(q) \in Nat
           /\ Append(q, m) \in Seq(S) /\ Len(Append(q, m)) = Len(q) + 1
           /\ Append(q, m)[Len(q) + 1] = m
           /\ \A n \in 1 .. Len(q) : Append(q, m)[n] = q[n]
BY AppendProperties, LenProperties

\* A queue whose first message was taken.
LEMMA TakeFacts ==
    ASSUME NEW S, NEW q \in Seq(S), q # <<>>
    PROVE  /\ Len(q) \in Nat /\ Len(q) > 0 /\ Head(q) = q[1] /\ Head(q) \in S
           /\ Tail(q) \in Seq(S) /\ Len(Tail(q)) = Len(q) - 1
           /\ \A n \in 1 .. (Len(q) - 1) : Tail(q)[n] = q[n + 1]
<1>1. Len(q) \in Nat /\ Len(q) # 0
  BY LenProperties, EmptySeq
<1> QED BY <1>1, HeadTailProperties

\* What the streams hold are messages.
LEMMA InboxKinds ==
    ASSUME NEW L, \A m \in L : m.kind \in Kinds, NEW q \in Seq(L)
    PROVE  \A n \in DOMAIN q : q[n].kind \in Kinds
BY ElementOfSeq, LenProperties

\* The other side of a side.
LEMMA SidesFacts ==
    ASSUME NEW s \in Sides
    PROVE  Other(s) \in Sides /\ Other(s) # s /\ Other(Other(s)) = s /\ Sides = {s, Other(s)}
BY DEF Sides, Other

\* Within an attempt, what the sides may say and hear is fixed.
LEMMA SameAttempt ==
    ASSUME attempt' = attempt
    PROVE  /\ Lines' = Lines /\ Nonces' = Nonces /\ Commitments' = Commitments
           /\ PairingId' = PairingId /\ \A r : Nonce(r)' = Nonce(r)
BY DEF Lines, Nonces, Commitments, PairingId, Nonce

\* A send that the script has next.
Scripted(s, from, kind, next) ==
    \/ from = "SendRequest" /\ kind = "Request" /\ next = "AwaitingResponse"
    \/ from = "SendResponse" /\ kind = "Response" /\ next = "SendReveal"
    \/ from = "SendReveal" /\ kind = "Reveal" /\ next = "AwaitingReveal"
    \/ from = "SendDecision" /\ kind = local[s] /\ next = "AwaitingRemoteDecision"
    \/ from = "SendComplete" /\ kind = "Complete" /\ next = "AwaitingCompletion"

\* Sending the next message of the script preserves the invariant.
LEMMA SendStep ==
    ASSUME IInv, NEW s \in Sides, NEW from, NEW kind, NEW next,
           Scripted(s, from, kind, next), Send(s, from, kind, next)
    PROVE  IInv'
<1> DEFINE t == Other(s)
           n == Spoken(s) + 1
<1>1. t \in Sides /\ t # s /\ Other(t) = s /\ Sides = {s, t}
  BY SidesFacts
<1>2. /\ phase[s] = from /\ phase' = [phase EXCEPT ![s] = next]
      /\ inbox' = [inbox EXCEPT ![t] = Append(@, Message(s, kind))]
      /\ sent' = [sent EXCEPT ![s] = @ \cup {kind}]
      /\ UNCHANGED <<local, heard, link, Journal>>
  BY DEF Send, Goto
<1>3. /\ from = "SendRequest" => s = "Initiator" /\ kind = "Request" /\ next = "AwaitingResponse"
      /\ from = "SendResponse" => s = "Responder" /\ kind = "Response" /\ next = "SendReveal"
      /\ from = "SendReveal" => kind = "Reveal" /\ next = "AwaitingReveal"
      /\ from = "SendDecision" => /\ kind = local[s] /\ next = "AwaitingRemoteDecision"
                                  /\ local[s] \in {"Accept", "Reject"}
      /\ from = "SendComplete" => kind = "Complete" /\ next = "AwaitingCompletion"
      /\ from \in Sending /\ Active(s)
  BY <1>2 DEF IInv, TypeOK, RoleInv, DecisionInv, Scripted, Active, Finished, Sending, Sides, Undecided
<1>4. /\ Spoken(s) = SaidAt(from) /\ SaidAt(next) = n /\ ReadAt(next) = ReadAt(from)
      /\ n \in 1..4
  <2>1. Spoken(s) = SaidAt(from)
    BY <1>2, <1>3 DEF IInv, RoleInv
  <2> QED BY <1>3, <2>1 DEF SaidAt, ReadAt, Sending
<1>5. kind = LineKind(s, n) /\ kind \in Kinds
  BY <1>3, <1>4 DEF LineKind, First, SaidAt, Kinds, Sending
<1>6. Spoken(s)' = n /\ Spoken(t)' = Spoken(t)
  <2>1. sent'[s] = sent[s] \cup {kind} /\ sent'[t] = sent[t]
    BY <1>1, <1>2 DEF IInv, TypeOK
  <2> HIDE DEF t
  <2>2. Spoken(t)' = Spoken(t)
    BY <2>1 DEF Spoken
  <2>3. Spoken(s)' = n
    BY <2>1, <1>3, <1>4 DEF Spoken, First, SaidAt, Sending
  <2> QED BY <2>2, <2>3
<1>7. Message(s, kind) = Line(s, n) /\ Message(s, kind) \in Lines
  <2>1. pairing_id(s) = PairingId
    BY <1>2, <1>3 DEF IInv, HeardInv, pairing_id, ReadAt, Sending
  <2>2. Message(s, kind).body = Line(s, n).body
    BY <2>1, <1>3, <1>4, <1>5 DEF Message, Line, SaidAt, Sending
  <2> QED BY <2>1, <2>2, <1>5 DEF Message, Line, Lines, Nonces, Commitments
<1>8. Lines' = Lines /\ Nonces' = Nonces /\ Commitments' = Commitments /\ PairingId' = PairingId
      /\ \A r, m : Line(r, m)' = Line(r, m)
  BY <1>2 DEF Lines, Nonces, Commitments, PairingId, Nonce, Line, LineKind, Journal
<1>9. /\ inbox'[s] = inbox[s]
      /\ inbox'[t] \in Seq(Lines) /\ Len(inbox'[t]) = Len(inbox[t]) + 1 /\ Len(inbox[t]) \in Nat
      /\ inbox'[t][Len(inbox[t]) + 1] = Line(s, n)
      /\ \A m \in 1 .. Len(inbox[t]) : inbox'[t][m] = inbox[t][m]
  BY <1>1, <1>2, <1>7, AppendFacts DEF IInv, ShapeInv
<1>10. ShapeInv'
  BY <1>1, <1>2, <1>8, <1>9 DEF IInv, ShapeInv
<1>11. TypeOK'
  <2>1. phase' \in [Sides -> Phases] /\ sent' \in [Sides -> SUBSET Kinds]
    BY <1>2, <1>3, <1>5 DEF IInv, TypeOK, Phases, Receiving, Sending
  <2>2. ASSUME NEW r \in Sides PROVE \A m \in DOMAIN inbox'[r] : inbox'[r][m].kind \in Kinds
    <3>1. inbox'[r] \in Seq(Lines) /\ \A m \in Lines : m.kind \in Kinds
      BY <1>8, <1>10 DEF ShapeInv, Lines
    <3> QED BY <3>1, InboxKinds
  <2> QED BY <1>2, <2>1, <2>2 DEF IInv, TypeOK, Journal
<1>12. RoleInv'
  <2>1. Active(t)' => Active(t) /\ phase'[t] = phase[t]
    BY <1>1, <1>2 DEF IInv, TypeOK, Active
  <2>2. \A r \in Sides : Active(r)' => Spoken(r)' = SaidAt(phase[r])'
    BY <1>1, <1>2, <1>4, <1>6, <2>1 DEF IInv, TypeOK, RoleInv
  <2>3. \A r \in Sides : Spoken(r)' > 0 => First(r) \in sent'[r]
    BY <1>1, <1>2, <1>3, <1>4, <1>5, <1>6 DEF IInv, TypeOK, RoleInv, LineKind, SaidAt, Sending
  <2>4. /\ phase'["Initiator"] \notin {"AwaitingRequest", "SendResponse"}
        /\ phase'["Responder"] \notin {"SendRequest", "AwaitingResponse"}
    BY <1>2, <1>3 DEF IInv, TypeOK, RoleInv, Sides, Sending
  <2> QED BY <2>2, <2>3, <2>4 DEF RoleInv, First
<1>13. StreamInv'
  <2>1. /\ Len(inbox[s]) = Spoken(t) - ReadAt(phase[s])
        /\ \A m \in 1 .. Len(inbox[s]) : inbox[s][m] = Line(t, ReadAt(phase[s]) + m)
    BY <1>3 DEF IInv, StreamInv
  <2>2. Active(t) => /\ Len(inbox[t]) = Spoken(s) - ReadAt(phase[t])
                     /\ \A m \in 1 .. Len(inbox[t]) : inbox[t][m] = Line(s, ReadAt(phase[t]) + m)
    BY <1>1 DEF IInv, StreamInv
  <2>3. ReadAt(phase[t]) \in Nat /\ ReadAt(phase[s]) \in Nat /\ Spoken(s) \in Nat
    BY DEF ReadAt, Spoken
  <2>4. /\ Len(inbox'[s]) = Spoken(t)' - ReadAt(phase[s])'
        /\ \A m \in 1 .. Len(inbox'[s]) : inbox'[s][m] = Line(t, ReadAt(phase[s]) + m)'
    BY <1>1, <1>2, <1>4, <1>6, <1>8, <1>9, <2>1 DEF IInv, TypeOK
  <2>5. ASSUME Active(t)'
        PROVE  /\ Len(inbox'[t]) = Spoken(s)' - ReadAt(phase[t])'
               /\ \A m \in 1 .. Len(inbox'[t]) : inbox'[t][m] = Line(s, ReadAt(phase[t]) + m)'
    <3>1. Active(t) /\ phase'[t] = phase[t]
      BY <1>1, <1>2, <2>5 DEF IInv, TypeOK, Active
    <3>2. Len(inbox'[t]) = Spoken(s)' - ReadAt(phase[t])'
      BY <1>6, <1>9, <2>2, <2>3, <3>1
    <3>3. ASSUME NEW m \in 1 .. Len(inbox'[t])
          PROVE  inbox'[t][m] = Line(s, ReadAt(phase[t]) + m)
      <4>1. CASE m \in 1 .. Len(inbox[t])
        BY <1>9, <2>2, <3>1, <4>1
      <4>2. CASE m = Len(inbox[t]) + 1
        <5>1. ReadAt(phase[t]) + m = n
          <6>1. Len(inbox[t]) = Spoken(s) - ReadAt(phase[t])
            BY <2>2, <3>1
          <6>2. Len(inbox[t]) \in Nat
            BY <1>9
          <6> QED BY <2>3, <4>2, <6>1, <6>2
        <5> QED BY <1>9, <4>2, <5>1
      <4> QED BY <1>9, <4>1, <4>2
    <3> QED BY <1>8, <3>1, <3>2, <3>3
  <2> HIDE DEF t
  <2> QED BY <1>1, <2>4, <2>5 DEF StreamInv, t
<1>14. HeardInv'
  <2>1. \A r \in Sides : pairing_id(r)' = pairing_id(r) /\ Nonce(r)' = Nonce(r)
    BY <1>2 DEF pairing_id, PairingId, Nonce, Journal
  <2>2. \A r \in Sides : Active(r)' /\ ReadAt(phase[r])' > 0 => Active(r) /\ ReadAt(phase[r]) > 0
    BY <1>1, <1>2, <1>3, <1>4 DEF IInv, TypeOK, Active
  <2> QED BY <1>1, <1>2, <1>8, <2>1, <2>2, SidesFacts DEF IInv, HeardInv
<1>15. DecisionInv'
  BY <1>1, <1>2, <1>3, <1>4, <1>6
     DEF IInv, TypeOK, DecisionInv, Active, Finished, Undecided, SaidAt, Sending
<1>16. CommitInv'
  <2>1. \A r \in Sides : /\ phase'[r] \in Agreeing => phase[r] \in Agreeing
                         /\ phase'[r] \in Committing => phase[r] \in Committing
                         /\ phase'[r] = "Complete" => phase[r] = "Complete"
    BY <1>2, <1>3 DEF IInv, TypeOK, Agreeing, Committing, Sending
  <2>2. Spoken(s)' = 4 => phase[s] \in Committing
    BY <1>2, <1>3, <1>4, <1>6 DEF SaidAt, Sending, Committing
  <2>3. \A r \in Sides : Spoken(r)' = 4 => phase[r] \in Committing \/ Spoken(r) = 4
    BY <1>1, <1>6, <2>2
  <2>4. local' = local /\ committed' = committed
    BY <1>2 DEF Journal
  <2>5. ASSUME NEW r \in Sides
        PROVE  /\ phase'[r] \in Agreeing \/ committed'[r] => \A q \in Sides : local'[q] = "Accept"
               /\ phase'[r] \in Committing \/ Spoken(r)' = 4 => committed'[r]
               /\ phase'[r] = "Complete" => committed'[Other(r)]
    BY <2>1, <2>3, <2>4 DEF IInv, CommitInv
  <2> QED BY <2>5 DEF CommitInv
<1>17. RevealsAreCommitted'
  <2>1. CASE kind = "Reveal"
    <3>1. Spoken(s) > 0 /\ Spoken(t) > 0
      <4>1. Spoken(s) = 1 /\ ReadAt(phase[s]) = 1
        BY <1>2, <1>3, <1>4, <2>1 DEF SaidAt, ReadAt, Sending
      <4>2. Len(inbox[s]) = Spoken(t) - 1 /\ Len(inbox[s]) \in Nat
        BY <1>3, <4>1, LenProperties DEF IInv, StreamInv, ShapeInv
      <4>3. Spoken(t) \in Int
        BY DEF Spoken
      <4> HIDE DEF t
      <4> QED BY <4>1, <4>2, <4>3
    <3>2. First(s) \in sent[s] /\ First(t) \in sent[t]
      BY <1>1, <3>1 DEF IInv, RoleInv
    <3> QED BY <1>2, <3>2, <1>1 DEF IInv, TypeOK, RevealsAreCommitted, First, Other, Sides
  <2>2. CASE kind # "Reveal"
    BY <1>1, <1>2, <2>2 DEF IInv, TypeOK, RevealsAreCommitted, Sides
  <2> QED BY <2>1, <2>2
<1> QED BY <1>10, <1>11, <1>12, <1>13, <1>14, <1>15, <1>16, <1>17 DEF IInv

-----------------------------------------------------------------------------
(* Receipts *)

\* What a side reads is the next message of the other's script.
LEMMA NextLine ==
    ASSUME IInv, NEW s \in Sides, phase[s] \in Receiving, inbox[s] # <<>>
    PROVE  /\ Head(inbox[s]) = Line(Other(s), ReadAt(phase[s]) + 1)
           /\ Spoken(Other(s)) > ReadAt(phase[s])
<1>1. Active(s)
  BY DEF Active, Receiving, Finished
<1>2. Len(inbox[s]) \in Nat /\ Len(inbox[s]) > 0 /\ Head(inbox[s]) = inbox[s][1]
  BY TakeFacts DEF IInv, ShapeInv
<1>3. Spoken(Other(s)) \in Nat /\ ReadAt(phase[s]) \in Nat
  BY DEF Spoken, ReadAt
<1>4. Len(inbox[s]) = Spoken(Other(s)) - ReadAt(phase[s])
  BY <1>1 DEF IInv, StreamInv
<1>5. inbox[s][1] = Line(Other(s), ReadAt(phase[s]) + 1)
  BY <1>1, <1>2 DEF IInv, StreamInv
<1> QED BY <1>2, <1>3, <1>4, <1>5

\* A side that reads the next message, and goes where the script says or ends,
\* leaves the streams in step.
LEMMA TakeStep ==
    ASSUME IInv, NEW s \in Sides, NEW next \in Phases,
           phase[s] \in Receiving, inbox[s] # <<>>,
           inbox' = [inbox EXCEPT ![s] = Tail(@)], phase' = [phase EXCEPT ![s] = next],
           local' = local, sent' = sent, attempt' = attempt,
           \/ next \in Finished
           \/ ReadAt(next) = ReadAt(phase[s]) + 1 /\ SaidAt(next) = SaidAt(phase[s]),
           next \notin {"AwaitingRequest", "SendRequest", "AwaitingResponse"},
           next = "SendResponse" => s = "Responder"
    PROVE  /\ inbox' \in [Sides -> Seq(Lines')] /\ StreamInv' /\ RoleInv' /\ RevealsAreCommitted'
           /\ \A r \in Sides : \A n \in DOMAIN inbox'[r] : inbox'[r][n].kind \in Kinds
<1> DEFINE t == Other(s)
<1>1. t \in Sides /\ t # s /\ Other(t) = s /\ Sides = {s, t}
  BY SidesFacts
<1>2. Lines' = Lines /\ (\A r, m : Line(r, m)' = Line(r, m)) /\ (\A r : Spoken(r)' = Spoken(r))
  BY DEF Lines, Nonces, Commitments, PairingId, Nonce, Line, LineKind, Spoken
<1>3. /\ inbox'[t] = inbox[t] /\ inbox'[s] \in Seq(Lines)
      /\ Len(inbox[s]) \in Nat /\ Len(inbox'[s]) = Len(inbox[s]) - 1
      /\ \A m \in 1 .. (Len(inbox[s]) - 1) : inbox'[s][m] = inbox[s][m + 1]
  BY <1>1, TakeFacts DEF IInv, ShapeInv
<1>4. inbox' \in [Sides -> Seq(Lines')]
  BY <1>1, <1>2, <1>3 DEF IInv, ShapeInv
<1>5. ASSUME NEW r \in Sides PROVE \A n \in DOMAIN inbox'[r] : inbox'[r][n].kind \in Kinds
  <2>1. inbox'[r] \in Seq(Lines) /\ \A m \in Lines : m.kind \in Kinds
    BY <1>2, <1>4 DEF Lines
  <2> QED BY <2>1, InboxKinds
<1>6. Active(s) /\ phase'[s] = next /\ phase'[t] = phase[t]
  BY <1>1 DEF IInv, TypeOK, Active, Receiving, Finished
<1>7. Active(s)' => /\ ReadAt(phase[s])' = ReadAt(phase[s]) + 1
                    /\ SaidAt(phase[s])' = SaidAt(phase[s])
  BY <1>6 DEF Active
<1>8. Active(t)' => Active(t)
  BY <1>6 DEF Active
<1>9. StreamInv'
  <2>1. ReadAt(phase[s]) \in Nat /\ Spoken(t) \in Nat
    BY DEF ReadAt, Spoken
  <2>2. /\ Len(inbox[s]) = Spoken(t) - ReadAt(phase[s])
        /\ \A m \in 1 .. Len(inbox[s]) : inbox[s][m] = Line(t, ReadAt(phase[s]) + m)
    BY <1>6 DEF IInv, StreamInv
  <2>3. ASSUME Active(s)'
        PROVE  /\ Len(inbox'[s]) = Spoken(t) - ReadAt(phase[s])'
               /\ \A m \in 1 .. Len(inbox'[s]) : inbox'[s][m] = Line(t, ReadAt(phase[s])' + m)
    <3>1. Len(inbox'[s]) = Spoken(t) - ReadAt(phase[s])'
      BY <1>3, <1>7, <2>1, <2>2, <2>3
    <3>2. ASSUME NEW m \in 1 .. Len(inbox'[s])
          PROVE  inbox'[s][m] = Line(t, ReadAt(phase[s])' + m)
      <4>1. m + 1 \in 1 .. Len(inbox[s])
        BY <1>3
      <4>3. ReadAt(phase[s])' + m = ReadAt(phase[s]) + (m + 1)
        <5>1. ReadAt(phase[s])' = ReadAt(phase[s]) + 1
          BY <1>7, <2>3
        <5>2. m \in Nat
          BY <1>3
        <5> QED BY <2>1, <5>1, <5>2
      <4>2. inbox'[s][m] = inbox[s][m + 1]
        BY <1>3
      <4> QED BY <2>2, <4>1, <4>2, <4>3
    <3> QED BY <3>1, <3>2
  <2>4. Active(t) => /\ Len(inbox[t]) = Spoken(s) - ReadAt(phase[t])
                     /\ \A m \in 1 .. Len(inbox[t]) : inbox[t][m] = Line(s, ReadAt(phase[t]) + m)
    BY <1>1 DEF IInv, StreamInv
  <2>5. ASSUME NEW r \in Sides, Active(r)'
        PROVE  /\ Len(inbox'[r]) = Spoken(Other(r)) - ReadAt(phase[r])'
               /\ \A m \in 1 .. Len(inbox'[r]) : inbox'[r][m] = Line(Other(r), ReadAt(phase[r])' + m)
    <3>1. CASE r = s
      BY <2>3, <2>5, <3>1
    <3>2. CASE r = t
      BY <1>1, <1>3, <1>6, <1>8, <2>4, <2>5, <3>2
    <3> QED BY <1>1, <3>1, <3>2
  <2>6. ASSUME NEW r \in Sides, Active(r)'
        PROVE  /\ Len(inbox'[r]) = Spoken(Other(r))' - ReadAt(phase[r])'
               /\ \A m \in 1 .. Len(inbox'[r]) : inbox'[r][m] = Line(Other(r), ReadAt(phase[r]) + m)'
    BY <1>2, <2>5, <2>6
  <2> QED BY <2>6 DEF StreamInv
<1>10. RoleInv'
  <2>1. \A r \in Sides : Active(r)' => Spoken(r)' = SaidAt(phase[r])'
    BY <1>1, <1>2, <1>6, <1>7, <1>8 DEF IInv, RoleInv
  <2>2. /\ phase'["Initiator"] \notin {"AwaitingRequest", "SendResponse"}
        /\ phase'["Responder"] \notin {"SendRequest", "AwaitingResponse"}
    BY DEF IInv, TypeOK, RoleInv, Sides
  <2> QED BY <1>2, <2>1, <2>2 DEF IInv, RoleInv, First
<1>11. RevealsAreCommitted'
  BY DEF IInv, RevealsAreCommitted
<1> QED BY <1>4, <1>5, <1>9, <1>10, <1>11

\* The steps that read a message share what they leave alone.
Reads(s, from, next) ==
    /\ phase[s] = from /\ inbox[s] # <<>>
    /\ inbox' = [inbox EXCEPT ![s] = Tail(@)] /\ phase' = [phase EXCEPT ![s] = next]
    /\ local' = local /\ sent' = sent /\ trust' = trust /\ generations' = generations
    /\ captured' = captured /\ committed' = committed /\ attempt' = attempt

\* Reading the Request: the responder learns the attempt and the commitment.
LEMMA Receive_requestStep ==
    ASSUME IInv, NEW s \in Sides, receive_request(s)
    PROVE  IInv'
<1>1. /\ Reads(s, "AwaitingRequest", "SendResponse") /\ link' = link
      /\ heard' = [heard EXCEPT ![s].id = Head(inbox[s]).id, ![s].commitment = Head(inbox[s]).body]
  BY DEF receive_request, Receive, Arrived, Take, Goto, Journal, Reads
<1> USE <1>1 DEF Reads
<1>2. s = "Responder"
  BY DEF IInv, RoleInv, Sides
<1>3. Head(inbox[s]) = Line(Other(s), 1)
  BY NextLine DEF ReadAt, Receiving
<1>4. /\ Head(inbox[s]).id = PairingId
      /\ Head(inbox[s]).body = derive(Other(s), PairingId, Nonce(Other(s)))
  BY <1>3 DEF Line
<1>5. /\ inbox' \in [Sides -> Seq(Lines')] /\ StreamInv' /\ RoleInv' /\ RevealsAreCommitted'
      /\ \A r \in Sides : \A n \in DOMAIN inbox'[r] : inbox'[r][n].kind \in Kinds
  <2>1. /\ "SendResponse" \in Phases /\ phase[s] \in Receiving
        /\ ReadAt("SendResponse") = ReadAt(phase[s]) + 1 /\ SaidAt("SendResponse") = SaidAt(phase[s])
    BY DEF ReadAt, SaidAt, Receiving, Phases, Sending
  <2> QED BY <1>2, <2>1, TakeStep
<1>6. ShapeInv'
  <2>1. Head(inbox[s]).id \in {"none", PairingId} /\ Head(inbox[s]).body \in Commitments
    BY <1>4, SidesFacts DEF Commitments
  <2>2. heard' \in [Sides -> [id : {"none", PairingId}, commitment : Commitments, nonce : Nonces]]
    BY <2>1 DEF IInv, ShapeInv
  <2> QED BY <1>5, <2>2, SameAttempt DEF ShapeInv
<1>7. TypeOK'
  BY <1>5 DEF IInv, TypeOK, Phases, Sending
<1>8. HeardInv'
  <2>1. /\ heard'[s].id = PairingId /\ heard'[s].nonce = heard[s].nonce
        /\ heard'[s].commitment = derive(Other(s), PairingId, Nonce(Other(s)))
    BY <1>4 DEF IInv, ShapeInv
  <2>2. \A r \in Sides : r # s => heard'[r] = heard[r] /\ phase'[r] = phase[r]
    BY DEF IInv, ShapeInv, TypeOK
  <2> QED BY <1>2, <2>1, <2>2, ZenonT(60) DEF IInv, HeardInv, pairing_id, PairingId, Nonce, Active
<1>9. DecisionInv'
  BY DEF IInv, TypeOK, DecisionInv, Active, Finished, Undecided, Spoken
<1>10. CommitInv'
  BY DEF IInv, TypeOK, CommitInv, Agreeing, Committing, Spoken
<1> QED BY <1>5, <1>6, <1>7, <1>8, <1>9, <1>10 DEF IInv

\* Reading the Response: the initiator learns the commitment.
LEMMA Receive_responseStep ==
    ASSUME IInv, NEW s \in Sides, receive_response(s)
    PROVE  IInv'
<1>1. /\ Reads(s, "AwaitingResponse", "SendReveal") /\ link' = link
      /\ heard' = [heard EXCEPT ![s] = [@ EXCEPT !["commitment"] = Head(inbox[s]).body]]
  BY DEF receive_response, Receive, Arrived, Take, Goto, Hears, Journal, Reads
<1> USE <1>1 DEF Reads
<1>2. s = "Initiator"
  BY DEF IInv, RoleInv, Sides
<1>3. Head(inbox[s]) = Line(Other(s), 1)
  BY NextLine DEF ReadAt, Receiving
<1>4. Head(inbox[s]).body = derive(Other(s), PairingId, Nonce(Other(s)))
  BY <1>3 DEF Line
<1>5. /\ inbox' \in [Sides -> Seq(Lines')] /\ StreamInv' /\ RoleInv' /\ RevealsAreCommitted'
      /\ \A r \in Sides : \A n \in DOMAIN inbox'[r] : inbox'[r][n].kind \in Kinds
  <2>1. /\ "SendReveal" \in Phases /\ phase[s] \in Receiving
        /\ ReadAt("SendReveal") = ReadAt(phase[s]) + 1 /\ SaidAt("SendReveal") = SaidAt(phase[s])
    BY DEF ReadAt, SaidAt, Receiving, Phases, Sending
  <2> QED BY <2>1, TakeStep
<1>6. ShapeInv'
  <2>1. Head(inbox[s]).body \in Commitments
    BY <1>4, SidesFacts DEF Commitments
  <2>2. heard' \in [Sides -> [id : {"none", PairingId}, commitment : Commitments, nonce : Nonces]]
    BY <2>1 DEF IInv, ShapeInv
  <2> QED BY <1>5, <2>2, SameAttempt DEF ShapeInv
<1>7. TypeOK'
  BY <1>5 DEF IInv, TypeOK, Phases, Sending
<1>8. HeardInv'
  <2>1. /\ heard'[s].nonce = heard[s].nonce
        /\ heard'[s].commitment = derive(Other(s), PairingId, Nonce(Other(s)))
    BY <1>4 DEF IInv, ShapeInv
  <2>2. \A r \in Sides : r # s => heard'[r] = heard[r] /\ phase'[r] = phase[r]
    BY DEF IInv, ShapeInv, TypeOK
  <2> QED BY <1>2, <2>1, <2>2, ZenonT(60) DEF IInv, HeardInv, pairing_id, PairingId, Nonce, Active
<1>9. DecisionInv'
  BY DEF IInv, TypeOK, DecisionInv, Active, Finished, Undecided, Spoken
<1>10. CommitInv'
  BY DEF IInv, TypeOK, CommitInv, Agreeing, Committing, Spoken
<1> QED BY <1>5, <1>6, <1>7, <1>8, <1>9, <1>10 DEF IInv

\* Reading the Reveal: the nonce is the one the commitment binds.
LEMMA Receive_revealStep ==
    ASSUME IInv, NEW s \in Sides, receive_reveal(s)
    PROVE  IInv'
<1>1. /\ Reads(s, "AwaitingReveal", "AwaitingLocalDecision") /\ link' = link
      /\ heard' = [heard EXCEPT ![s] = [@ EXCEPT !["nonce"] = Head(inbox[s]).body]]
  BY DEF receive_reveal, Receive, Arrived, Take, Goto, Hears, Journal, Reads
<1> USE <1>1 DEF Reads
<1>2. Active(s) /\ ReadAt(phase[s]) = 1
  BY DEF Active, Finished, ReadAt
<1>3. Head(inbox[s]) = Line(Other(s), 2)
  <2>1. Head(inbox[s]) = Line(Other(s), ReadAt(phase[s]) + 1)
    BY NextLine DEF Receiving
  <2> QED BY <1>2, <2>1
<1>4. Head(inbox[s]).body = Nonce(Other(s))
  BY <1>3 DEF Line
<1>5. /\ inbox' \in [Sides -> Seq(Lines')] /\ StreamInv' /\ RoleInv' /\ RevealsAreCommitted'
      /\ \A r \in Sides : \A n \in DOMAIN inbox'[r] : inbox'[r][n].kind \in Kinds
  <2>1. /\ "AwaitingLocalDecision" \in Phases /\ phase[s] \in Receiving
        /\ ReadAt("AwaitingLocalDecision") = ReadAt(phase[s]) + 1
        /\ SaidAt("AwaitingLocalDecision") = SaidAt(phase[s])
    BY DEF ReadAt, SaidAt, Receiving, Phases
  <2> QED BY <2>1, TakeStep
<1>6. ShapeInv'
  <2>1. Head(inbox[s]).body \in Nonces
    BY <1>4, SidesFacts DEF Nonces
  <2>2. heard' \in [Sides -> [id : {"none", PairingId}, commitment : Commitments, nonce : Nonces]]
    BY <2>1 DEF IInv, ShapeInv
  <2> QED BY <1>5, <2>2, SameAttempt DEF ShapeInv
<1>7. TypeOK'
  BY <1>5 DEF IInv, TypeOK, Phases
<1>8. HeardInv'
  <2>1. /\ heard'[s].nonce = Nonce(Other(s)) /\ heard'[s].id = heard[s].id
        /\ heard'[s].commitment = heard[s].commitment
    BY <1>4 DEF IInv, ShapeInv
  <2>2. \A r \in Sides : r # s => heard'[r] = heard[r] /\ phase'[r] = phase[r]
    BY DEF IInv, ShapeInv, TypeOK
  <2>3. /\ pairing_id(s) = PairingId
        /\ heard[s].commitment = derive(Other(s), PairingId, Nonce(Other(s)))
    BY <1>2 DEF IInv, HeardInv
  <2> QED BY <2>1, <2>2, <2>3 DEF IInv, HeardInv, pairing_id, PairingId, Nonce, Active
<1>9. DecisionInv'
  BY DEF IInv, TypeOK, DecisionInv, Active, Finished, Undecided, Spoken
<1>10. CommitInv'
  BY DEF IInv, TypeOK, CommitInv, Agreeing, Committing, Spoken
<1> QED BY <1>5, <1>6, <1>7, <1>8, <1>9, <1>10 DEF IInv

\* Reading the decision: two positive ones lead to the journal, others end the attempt.
LEMMA Remote_decisionStep ==
    ASSUME IInv, NEW s \in Sides, remote_decision(s)
    PROVE  IInv'
<1> DEFINE agreed == Agreed(s, Head(inbox[s]).kind)
           next   == IF agreed THEN "CommittingTrust" ELSE "Rejected"
<1>1. /\ Reads(s, "AwaitingRemoteDecision", next) /\ heard' = heard /\ link' \in {link, FALSE}
  BY DEF remote_decision, Arrived, Take, Goto, Journal, Reads
<1> HIDE DEF next
<1> USE <1>1 DEF Reads
<1>2. Active(s) /\ ReadAt(phase[s]) = 2
  BY DEF Active, Finished, ReadAt
<1>3. Head(inbox[s]).kind = local[Other(s)]
  <2>1. Head(inbox[s]) = Line(Other(s), ReadAt(phase[s]) + 1)
    BY NextLine DEF Receiving
  <2> QED BY <1>2, <2>1 DEF Line, LineKind
<1>4. next \in {"CommittingTrust", "Rejected"}
      /\ (next = "CommittingTrust" => local[s] = "Accept" /\ local[Other(s)] = "Accept")
  BY <1>3 DEF next, Agreed
<1>5. /\ inbox' \in [Sides -> Seq(Lines')] /\ StreamInv' /\ RoleInv' /\ RevealsAreCommitted'
      /\ \A r \in Sides : \A n \in DOMAIN inbox'[r] : inbox'[r][n].kind \in Kinds
  <2>1. next \in Phases /\ phase[s] \in Receiving
    BY <1>4 DEF Receiving, Phases, Finished
  <2>2. \/ next \in Finished
        \/ ReadAt(next) = ReadAt(phase[s]) + 1 /\ SaidAt(next) = SaidAt(phase[s])
    BY <1>4 DEF ReadAt, SaidAt, Finished
  <2> QED BY <1>4, <2>1, <2>2, TakeStep
<1>6. ShapeInv'
  BY <1>5, SameAttempt DEF IInv, ShapeInv
<1>7. TypeOK'
  BY <1>4, <1>5 DEF IInv, TypeOK, Phases, Finished
<1>8. HeardInv'
  <2>1. \A r \in Sides : r # s => phase'[r] = phase[r]
    BY DEF IInv, TypeOK
  <2>2. /\ pairing_id(s) = PairingId
        /\ heard[s].commitment = derive(Other(s), PairingId, Nonce(Other(s)))
    BY <1>2 DEF IInv, HeardInv
  <2> QED BY <2>1, <2>2 DEF IInv, HeardInv, pairing_id, PairingId, Nonce, Active
<1>9. DecisionInv'
  BY <1>4 DEF IInv, TypeOK, DecisionInv, Active, Finished, Undecided, Spoken
<1>10. CommitInv'
  BY <1>4, SidesFacts DEF IInv, TypeOK, CommitInv, Agreeing, Committing, Spoken
<1> QED BY <1>5, <1>6, <1>7, <1>8, <1>9, <1>10 DEF IInv

\* Reading Complete: the other side has committed before it sent this.
LEMMA Remote_completionStep ==
    ASSUME IInv, NEW s \in Sides, remote_completion(s)
    PROVE  IInv'
<1>1. /\ Reads(s, "AwaitingCompletion", "Complete") /\ heard' = heard /\ link' = link
  BY DEF remote_completion, Receive, Arrived, Take, Goto, Journal, Reads
<1> USE <1>1 DEF Reads
<1>2. Spoken(Other(s)) = 4
  <2>1. Spoken(Other(s)) > 3
    BY NextLine DEF ReadAt, Receiving
  <2> QED BY <2>1 DEF Spoken
<1>3. committed[Other(s)]
  BY <1>2, SidesFacts DEF IInv, CommitInv
<1>5. /\ inbox' \in [Sides -> Seq(Lines')] /\ StreamInv' /\ RoleInv' /\ RevealsAreCommitted'
      /\ \A r \in Sides : \A n \in DOMAIN inbox'[r] : inbox'[r][n].kind \in Kinds
  <2>1. "Complete" \in Phases /\ phase[s] \in Receiving /\ "Complete" \in Finished
    BY DEF Receiving, Phases, Finished
  <2> QED BY <2>1, TakeStep
<1>6. ShapeInv'
  BY <1>5, SameAttempt DEF IInv, ShapeInv
<1>7. TypeOK'
  BY <1>5 DEF IInv, TypeOK, Phases, Finished
<1>8. HeardInv'
  BY DEF IInv, TypeOK, HeardInv, pairing_id, PairingId, Nonce, Active, Finished
<1>9. DecisionInv'
  BY DEF IInv, TypeOK, DecisionInv, Active, Finished, Undecided, Spoken
<1>10. CommitInv'
  BY <1>3, SidesFacts DEF IInv, TypeOK, CommitInv, Agreeing, Committing, Spoken
<1> QED BY <1>5, <1>6, <1>7, <1>8, <1>9, <1>10 DEF IInv

-----------------------------------------------------------------------------
(* Decisions, commits and failures: nothing is said and nothing is read *)

\* A step that sends and reads nothing keeps the streams and what was heard,
\* whether a side stays, ends or goes on to a phase at the same place of the
\* script; a decision that it takes was not sent before.
LEMMA QuietStep ==
    ASSUME IInv, NEW s \in Sides, NEW next \in Phases, phase' = [phase EXCEPT ![s] = next],
           \/ next = phase[s] \/ next \in Finished
           \/ /\ next \notin Receiving \cup {"SendRequest", "SendResponse"}
              /\ Active(s) /\ ReadAt(next) = ReadAt(phase[s]) /\ SaidAt(next) = SaidAt(phase[s]),
           inbox' = inbox, heard' = heard, sent' = sent, attempt' = attempt,
           \A r \in Sides : local'[r] = local[r] \/ Spoken(r) < 3
    PROVE  ShapeInv' /\ RoleInv' /\ StreamInv' /\ HeardInv' /\ RevealsAreCommitted'
<1>1. /\ \A r \in Sides : r # s => phase'[r] = phase[r]
      /\ phase'[s] = next
  BY DEF IInv, TypeOK
<1>2. \A r \in Sides : Spoken(r)' = Spoken(r) /\ Spoken(r) \in 0..4 /\ ReadAt(phase[r]) \in 0..4
  BY DEF Spoken, ReadAt
<1>3. \A r \in Sides : Active(r)' => /\ Active(r) /\ ReadAt(phase[r])' = ReadAt(phase[r])
                                     /\ SaidAt(phase[r])' = SaidAt(phase[r])
  BY <1>1 DEF Active
<1>4. ShapeInv'
  BY SameAttempt DEF IInv, ShapeInv
<1>5. RoleInv'
  <2>1. /\ phase'["Initiator"] \notin {"AwaitingRequest", "SendResponse"}
        /\ phase'["Responder"] \notin {"SendRequest", "AwaitingResponse"}
    BY DEF IInv, TypeOK, RoleInv, Sides, Receiving, Finished
  <2> QED BY <1>2, <1>3, <2>1 DEF IInv, RoleInv, First
<1>6. StreamInv'
  <2>1. ASSUME NEW r \in Sides, Active(r)', NEW n \in 1 .. Len(inbox[r])
        PROVE  inbox[r][n] = Line(Other(r), ReadAt(phase[r]) + n)'
    <3> DEFINE k == ReadAt(phase[r]) + n
    <3>1. /\ Len(inbox[r]) = Spoken(Other(r)) - ReadAt(phase[r])
          /\ inbox[r][n] = Line(Other(r), k)
      BY <1>3, <2>1 DEF IInv, StreamInv
    <3>2. k \in Nat /\ k <= Spoken(Other(r))
      BY <1>2, <3>1, SidesFacts
    <3>3. local'[Other(r)] = local[Other(r)] \/ k < 3
      BY <1>2, <3>2, SidesFacts
    <3>4. ReadAt(phase[r])' + n = k
      BY <1>3, <2>1
    <3>5. Line(Other(r), ReadAt(phase[r]) + n)' =
              [kind |-> LineKind(Other(r), ReadAt(phase[r]) + n)', id |-> PairingId,
               body |-> CASE k = 1 -> derive(Other(r), PairingId, Nonce(Other(r)))
                          [] k = 2 -> Nonce(Other(r))
                          [] OTHER -> "none"]
      BY <3>4 DEF Line, PairingId, Nonce
    <3>6. LineKind(Other(r), ReadAt(phase[r]) + n)' = LineKind(Other(r), k)
      BY <3>2, <3>3, <3>4 DEF LineKind
    <3> QED BY <3>1, <3>5, <3>6 DEF Line
  <2>2. ASSUME NEW r \in Sides, Active(r)'
        PROVE  Len(inbox[r]) = Spoken(Other(r))' - ReadAt(phase[r])'
    BY <1>2, <1>3, <2>2, SidesFacts DEF IInv, StreamInv
  <2> QED BY <2>1, <2>2 DEF StreamInv
<1>7. HeardInv'
  BY <1>3, SameAttempt DEF IInv, HeardInv, pairing_id
<1>8. RevealsAreCommitted'
  BY DEF IInv, RevealsAreCommitted
<1> QED BY <1>4, <1>5, <1>6, <1>7, <1>8

\* A side that gives up, for whatever reason, closes the connection.
LEMMA CloseStep ==
    ASSUME IInv, NEW s \in Sides, Close(s, "Failed")
    PROVE  IInv'
<1>1. /\ phase' = [phase EXCEPT ![s] = "Failed"] /\ link' = FALSE /\ inbox' = inbox
      /\ local' = local /\ heard' = heard /\ sent' = sent /\ trust' = trust
      /\ generations' = generations /\ captured' = captured /\ committed' = committed
      /\ attempt' = attempt
  BY DEF Close, Goto, Journal
<1> USE <1>1
<1>2. "Failed" \in Phases /\ "Failed" \in Finished
  BY DEF Phases, Finished
<1>3. ShapeInv' /\ RoleInv' /\ StreamInv' /\ HeardInv' /\ RevealsAreCommitted'
  BY <1>2, QuietStep
<1>4. TypeOK'
  BY <1>2 DEF IInv, TypeOK
<1>5. DecisionInv'
  BY DEF IInv, TypeOK, DecisionInv, Active, Finished, Undecided, Spoken
<1>6. CommitInv'
  BY DEF IInv, TypeOK, CommitInv, Agreeing, Committing, Spoken
<1> QED BY <1>3, <1>4, <1>5, <1>6 DEF IInv

\* The human decides: nothing was decided or sent before.
LEMMA Local_decisionStep ==
    ASSUME IInv, NEW s \in Sides, NEW accepted \in BOOLEAN, local_decision(s, accepted)
    PROVE  IInv'
<1>1. /\ phase[s] = "AwaitingLocalDecision" /\ phase' = [phase EXCEPT ![s] = "SendDecision"]
      /\ local' = [local EXCEPT ![s] = IF accepted THEN "Accept" ELSE "Reject"]
      /\ inbox' = inbox /\ heard' = heard /\ sent' = sent /\ link' = link /\ trust' = trust
      /\ generations' = generations /\ captured' = captured /\ committed' = committed
      /\ attempt' = attempt
  BY DEF local_decision, Goto, Journal
<1> USE <1>1
<1>2. /\ Active(s) /\ Spoken(s) = 2 /\ local[s] = "none"
      /\ \A r \in Sides : r # s => local'[r] = local[r]
      /\ local'[s] \in {"Accept", "Reject"}
  BY DEF IInv, TypeOK, RoleInv, DecisionInv, Active, Finished, Undecided, SaidAt
<1>3. ShapeInv' /\ RoleInv' /\ StreamInv' /\ HeardInv' /\ RevealsAreCommitted'
  <2>1. /\ "SendDecision" \in Phases
        /\ "SendDecision" \notin Receiving \cup {"SendRequest", "SendResponse"}
        /\ ReadAt("SendDecision") = ReadAt(phase[s]) /\ SaidAt("SendDecision") = SaidAt(phase[s])
    BY DEF Phases, Sending, Receiving, ReadAt, SaidAt
  <2>2. \A r \in Sides : local'[r] = local[r] \/ Spoken(r) < 3
    BY <1>2
  <2> QED BY <1>2, <2>1, <2>2, QuietStep
<1>4. TypeOK'
  BY <1>2 DEF IInv, TypeOK, Phases, Sending
<1>5. DecisionInv'
  BY <1>2 DEF IInv, TypeOK, DecisionInv, Active, Finished, Undecided, Spoken
<1>6. CommitInv'
  <2>1. \A r \in Sides : ~committed[r] /\ phase[r] \notin Agreeing
    BY <1>2 DEF IInv, CommitInv
  <2> QED BY <2>1 DEF IInv, TypeOK, CommitInv, Agreeing, Committing, Spoken
<1> QED BY <1>3, <1>4, <1>5, <1>6 DEF IInv

\* The commit: both decisions were positive.
LEMMA CommitTrustStep ==
    ASSUME IInv, NEW s \in Sides, CommitTrust(s)
    PROVE  IInv'
<1>1. /\ phase[s] = "CommittingTrust" /\ phase' = [phase EXCEPT ![s] = "SendComplete"]
      /\ trust' = [trust EXCEPT ![s] = "Trusted"]
      /\ committed' = [committed EXCEPT ![s] = TRUE]
      /\ local' = local /\ inbox' = inbox /\ heard' = heard /\ sent' = sent /\ link' = link
      /\ generations' = generations /\ captured' = captured /\ attempt' = attempt
  BY DEF CommitTrust, Goto
<1> USE <1>1
<1>2. ShapeInv' /\ RoleInv' /\ StreamInv' /\ HeardInv' /\ RevealsAreCommitted'
  <2>1. /\ "SendComplete" \in Phases /\ Active(s)
        /\ "SendComplete" \notin Receiving \cup {"SendRequest", "SendResponse"}
        /\ ReadAt("SendComplete") = ReadAt(phase[s]) /\ SaidAt("SendComplete") = SaidAt(phase[s])
    BY DEF Phases, Sending, Receiving, ReadAt, SaidAt, Active, Finished
  <2> QED BY <2>1, QuietStep
<1>3. TypeOK'
  BY DEF IInv, TypeOK, Phases, Sending
<1>4. DecisionInv'
  BY DEF IInv, TypeOK, DecisionInv, Active, Finished, Undecided, Spoken
<1>5. CommitInv'
  <2>1. \A r \in Sides : local[r] = "Accept"
    BY DEF IInv, CommitInv, Agreeing
  <2>2. \A r \in Sides : committed[r] => committed'[r]
    BY DEF IInv, TypeOK
  <2>3. committed'[s]
    BY DEF IInv, TypeOK
  <2> QED BY <2>1, <2>2, <2>3, SidesFacts DEF IInv, TypeOK, CommitInv, Committing, Spoken
<1> QED BY <1>2, <1>3, <1>4, <1>5 DEF IInv

\* The daemon revokes or forgets: only the journal changes.
LEMMA JournalStep ==
    ASSUME IInv, NEW s \in Sides, RevokePeer(s) \/ ForgetPeer(s)
    PROVE  IInv'
<1>1. /\ phase' = phase /\ inbox' = inbox /\ local' = local /\ heard' = heard /\ sent' = sent
      /\ link' = link /\ captured' = captured /\ committed' = committed /\ attempt' = attempt
  BY DEF RevokePeer, ForgetPeer
<1>2. TypeOK'
  <2>1. CASE RevokePeer(s)
    BY <2>1 DEF IInv, TypeOK, RevokePeer
  <2>2. CASE ForgetPeer(s)
    BY <2>2, BoundsAssumption DEF IInv, TypeOK, ForgetPeer
  <2> QED BY <2>1, <2>2
<1>3. ShapeInv' /\ RoleInv' /\ StreamInv' /\ HeardInv' /\ RevealsAreCommitted'
  <2>1. phase' = [phase EXCEPT ![s] = phase[s]] /\ phase[s] \in Phases
    BY <1>1 DEF IInv, TypeOK
  <2> QED BY <1>1, <2>1, QuietStep
<1>4. DecisionInv' /\ CommitInv'
  BY <1>1 DEF IInv, DecisionInv, CommitInv, Active, Spoken
<1> QED BY <1>2, <1>3, <1>4 DEF IInv

\* A new attempt begins with fresh values and empty streams.
LEMMA StartAttemptStep ==
    ASSUME IInv, StartAttempt
    PROVE  IInv'
<1> USE DEF StartAttempt
<1>1. TypeOK'
  <2>1. attempt' \in 0..MaxAttempts
    BY BoundsAssumption DEF IInv, TypeOK
  <2> QED BY <2>1 DEF IInv, TypeOK, Phases, Receiving, Sending
<1>2. ShapeInv'
  BY DEF ShapeInv, Unheard, Commitments, Nonces
<1>3. /\ \A s \in Sides : Spoken(s)' = 0 /\ ReadAt(phase[s])' = 0 /\ SaidAt(phase[s])' = 0
  BY DEF Spoken, ReadAt, SaidAt, Sides
<1>4. RoleInv'
  BY <1>3 DEF RoleInv, Sides, Active
<1>5. StreamInv'
  <2>1. \A s \in Sides : inbox'[s] = <<>> /\ Len(inbox'[s]) = 0 /\ Spoken(Other(s))' = 0
    BY <1>3, SidesFacts
  <2> QED BY <1>3, <2>1 DEF StreamInv
<1>6. HeardInv'
  BY <1>3 DEF HeardInv, Unheard
<1>7. DecisionInv'
  BY <1>3 DEF DecisionInv, Undecided, Active, Sides
<1>8. CommitInv' /\ RevealsAreCommitted'
  BY <1>3 DEF CommitInv, RevealsAreCommitted, Agreeing, Committing, Sides
<1> QED BY <1>1, <1>2, <1>4, <1>5, <1>6, <1>7, <1>8 DEF IInv

-----------------------------------------------------------------------------
(* The theorems *)

\* Two devices that never met satisfy the invariant.
LEMMA InitIInv == Init => IInv
<1> SUFFICES ASSUME Init PROVE IInv
  OBVIOUS
<1> USE DEF Init
<1>1. TypeOK
  <2>1. \A s \in Sides : DOMAIN inbox[s] = {}
    OBVIOUS
  <2>2. 0 \in 0..MaxGeneration /\ 0 \in 0..MaxAttempts
    BY BoundsAssumption
  <2>3. /\ phase \in [Sides -> Phases] /\ sent \in [Sides -> SUBSET Kinds]
        /\ local \in [Sides -> {"none", "Accept", "Reject"}]
    BY DEF Phases, Finished
  <2>4. /\ trust \in [Sides -> {"Unknown", "Trusted", "Revoked"}] /\ link \in BOOLEAN
        /\ committed \in [Sides -> BOOLEAN]
    OBVIOUS
  <2>5. generations \in [Sides -> 0..MaxGeneration] /\ captured \in [Sides -> 0..MaxGeneration]
    BY <2>2
  <2> QED BY <2>1, <2>2, <2>3, <2>4, <2>5 DEF TypeOK
<1>2. ShapeInv
  BY DEF ShapeInv, Unheard, Commitments, Nonces
<1>3. \A s \in Sides : ~Active(s) /\ Spoken(s) = 0
  BY DEF Active, Finished, Spoken
<1>4. RoleInv /\ StreamInv /\ HeardInv
  BY <1>3 DEF RoleInv, StreamInv, HeardInv, Unheard, Sides
<1>5. DecisionInv /\ CommitInv /\ RevealsAreCommitted
  BY <1>3 DEF DecisionInv, CommitInv, RevealsAreCommitted, Undecided, Agreeing, Committing
<1> QED BY <1>1, <1>2, <1>4, <1>5 DEF IInv

\* Every step of both sides and both daemons preserves the invariant.
LEMMA NextIInv == IInv /\ [Next]_vars => IInv'
<1> SUFFICES ASSUME IInv, [Next]_vars PROVE IInv'
  OBVIOUS
<1>1. CASE UNCHANGED vars
  <2>1. /\ phase' = phase /\ inbox' = inbox /\ local' = local /\ heard' = heard /\ sent' = sent
        /\ link' = link /\ trust' = trust /\ generations' = generations /\ captured' = captured
        /\ committed' = committed /\ attempt' = attempt
    BY <1>1 DEF vars
  <2>2. phase' = [phase EXCEPT !["Initiator"] = phase["Initiator"]]
        /\ phase["Initiator"] \in Phases /\ "Initiator" \in Sides
    BY <2>1 DEF IInv, TypeOK, Sides
  <2>3. ShapeInv' /\ RoleInv' /\ StreamInv' /\ HeardInv' /\ RevealsAreCommitted'
    BY <2>1, <2>2, QuietStep
  <2>4. TypeOK' /\ DecisionInv' /\ CommitInv'
    BY <2>1 DEF IInv, TypeOK, DecisionInv, CommitInv, Active, Spoken
  <2> QED BY <2>3, <2>4 DEF IInv
<1>2. CASE StartAttempt
  BY <1>2, StartAttemptStep
<1>3. ASSUME NEW s \in Sides,
             SendRequest(s) \/ SendResponse(s) \/ SendReveal(s) \/ SendDecision(s) \/ SendComplete(s)
      PROVE  IInv'
  BY <1>3, SendStep
     DEF Scripted, SendRequest, SendResponse, SendReveal, SendDecision, SendComplete
<1>4. ASSUME NEW s \in Sides,
             receive_request(s) \/ receive_response(s) \/ receive_reveal(s) \/ remote_decision(s)
             \/ remote_completion(s)
      PROVE  IInv'
  BY <1>4, Receive_requestStep, Receive_responseStep, Receive_revealStep, Remote_decisionStep,
     Remote_completionStep
<1>5. ASSUME NEW s \in Sides, CommitFails(s) \/ TimesOut(s) \/ ConnectionLost(s) \/ Cancel(s)
      PROVE  IInv'
  BY <1>5, CloseStep DEF CommitFails, TimesOut, ConnectionLost, Cancel
<1>6. ASSUME NEW s \in Sides, CommitTrust(s) \/ RevokePeer(s) \/ ForgetPeer(s)
      PROVE  IInv'
  BY <1>6, CommitTrustStep, JournalStep
<1>7. ASSUME NEW s \in Sides, NEW accepted \in BOOLEAN, local_decision(s, accepted)
      PROVE  IInv'
  BY <1>7, Local_decisionStep
<1> QED BY <1>1, <1>2, <1>3, <1>4, <1>5, <1>6, <1>7 DEF Next, Exchange

\* The strengthened invariant holds in every reachable state.
THEOREM InductiveInvariant == Spec => []IInv
BY InitIInv, NextIInv, PTL DEF Spec

\* Both state machines, the streams and both journals keep their types.
THEOREM TypeCorrect == Spec => []TypeOK
<1>1. IInv => TypeOK
  BY DEF IInv
<1> QED BY <1>1, InductiveInvariant, PTL

\* No pairing reaches a journal without both humans' consent in that attempt:
\* remote_decision guards trust_if_generation on each side.
THEOREM Consent == Spec => []TrustNeedsBothDecisions
<1>1. IInv => TrustNeedsBothDecisions
  BY DEF IInv, CommitInv, TrustNeedsBothDecisions
<1> QED BY <1>1, InductiveInvariant, PTL

\* A side that completes knows that both journals hold the pairing.
THEOREM MutualCompletion == Spec => []CompletionIsMutual
<1>1. ASSUME IInv PROVE CompletionIsMutual
  <2>1. ASSUME NEW s \in Sides, phase[s] = "Complete"
        PROVE  committed[s] /\ committed[Other(s)]
    BY <1>1, <2>1 DEF IInv, CommitInv, Committing
  <2> QED BY <2>1, SidesFacts DEF CompletionIsMutual
<1> QED BY <1>1, InductiveInvariant, PTL

\* A nonce leaves its side only after both commitments did.
THEOREM CommitBeforeReveal == Spec => []RevealsAreCommitted
<1>1. IInv => RevealsAreCommitted
  BY DEF IInv
<1> QED BY <1>1, InductiveInvariant, PTL

\* Two sides that follow the code never refuse each other's messages, and show
\* their users the same verification code.
THEOREM Agreement == Spec => []ScriptsAgree
<1>1. ASSUME IInv, NEW s \in Sides PROVE ~Unexpected(s)
  <2> SUFFICES ASSUME phase[s] \in Receiving, inbox[s] # <<>>
               PROVE  /\ Head(inbox[s]).kind \in Expected(phase[s])
                      /\ require_pairing_id(s, Head(inbox[s]))
                      /\ Head(inbox[s]).kind = "Reveal" => Opens(s, Head(inbox[s]))
    BY DEF Unexpected
  <2> DEFINE m == Head(inbox[s])
             n == ReadAt(phase[s]) + 1
  <2>1. m = Line(Other(s), n) /\ Spoken(Other(s)) > ReadAt(phase[s])
    BY <1>1, NextLine
  <2>2. m.kind = LineKind(Other(s), n) /\ m.id = PairingId
        /\ (n = 2 => m.body = Nonce(Other(s)))
    BY <2>1 DEF Line
  <2>3. Active(s)
    BY DEF Active, Receiving, Finished
  <2>4. local[Other(s)] \in {"Accept", "Reject"} \/ Spoken(Other(s)) < 3
    BY <1>1, SidesFacts DEF IInv, TypeOK, DecisionInv, Spoken
  <2>5. m.kind \in Expected(phase[s]) /\ (m.kind = "Reveal" => n = 2)
    <3>1. CASE phase[s] \in {"AwaitingRequest", "AwaitingResponse"}
      <4>1. n = 1 /\ m.kind = First(Other(s))
        BY <2>2, <3>1 DEF ReadAt, LineKind
      <4> QED BY <1>1, <3>1, <4>1 DEF IInv, RoleInv, Sides, Other, First, Expected
    <3>2. CASE phase[s] = "AwaitingReveal"
      BY <2>2, <3>2 DEF ReadAt, LineKind, Expected
    <3>3. CASE phase[s] = "AwaitingRemoteDecision"
      <4>1. n = 3 /\ m.kind = local[Other(s)]
        BY <2>2, <3>3 DEF ReadAt, LineKind
      <4>2. Spoken(Other(s)) >= 3
        BY <2>1, <3>3 DEF ReadAt, Spoken
      <4>3. local[Other(s)] \in {"Accept", "Reject"}
        BY <2>4, <4>2 DEF Spoken
      <4> QED BY <3>3, <4>1, <4>3 DEF Expected
    <3>4. CASE phase[s] = "AwaitingCompletion"
      BY <2>2, <3>4 DEF ReadAt, LineKind, Expected
    <3> QED BY <3>1, <3>2, <3>3, <3>4 DEF Receiving
  <2>6. m.kind = "Request" \/ pairing_id(s) = PairingId
    <3>1. CASE phase[s] = "AwaitingRequest"
      BY <2>5, <3>1 DEF Expected
    <3>2. CASE phase[s] # "AwaitingRequest"
      BY <1>1, <2>3, <3>2 DEF IInv, HeardInv, RoleInv, Sides, pairing_id, ReadAt, Receiving
    <3> QED BY <3>1, <3>2
  <2>7. n = 2 => pairing_id(s) = PairingId
                 /\ heard[s].commitment = derive(Other(s), PairingId, Nonce(Other(s)))
    BY <1>1, <2>3 DEF IInv, HeardInv, ReadAt
  <2> QED BY <2>2, <2>5, <2>6, <2>7 DEF require_pairing_id, Opens, verifies
<1>2. ASSUME IInv, \A s \in Sides : heard[s].nonce # "none"
      PROVE  Transcript("Initiator") = Transcript("Responder")
  BY <1>2 DEF IInv, HeardInv, Transcript, pairing_id, Sides, Other
<1>3. IInv => ScriptsAgree
  BY <1>1, <1>2 DEF ScriptsAgree
<1> QED BY <1>3, InductiveInvariant, PTL

=============================================================================
