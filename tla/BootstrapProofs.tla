-------------------------- MODULE BootstrapProofs --------------------------
(* Proofs about one connection, for any set of Hellos and any number of     *)
(* pings.  Each side writes and reads the pieces of up to three frames:     *)
(* Hello, the intent or its result, and the frame in use; where a side is   *)
(* says how many it has written and taken, and that fixes what is on the    *)
(* wire.                                                                    *)
EXTENDS Bootstrap, SequenceTheorems, TLAPS

-----------------------------------------------------------------------------
(* Where a side is in its script *)

Piece == Kinds \cup {"length"}
Accepts(h) == h \in {"valid", "unruly"}
Bit(b) == IF b THEN 1 ELSE 0

\* Pieces a side has written and taken.  A ping that was answered starts the
\* third frame over.
Written(s) ==
    CASE pc[s] \in {"connect", "accept", "open_control", "accept_control", "ended"} -> 0
      [] pc[s] = "write_hello" -> Bit(half[s])
      [] pc[s] \in {"read_hello", "receive_intent"} -> 2
      [] pc[s] \in {"write_intent", "write_result"} -> 2 + Bit(half[s])
      [] pc[s] \in {"read_result", "drain", "serve", "receive_pairing"} -> 4
      [] pc[s] \in {"ping", "pong", "send_pairing"} -> 4 + Bit(half[s])
      [] pc[s] = "await_pong" -> 6
      [] OTHER -> IF s = "dialer" THEN 6 ELSE 4
Taken(s) ==
    CASE pc[s] \in {"connect", "accept", "open_control", "accept_control", "write_hello", "ended"} -> 0
      [] pc[s] = "read_hello" -> Bit(half[s])
      [] pc[s] = "write_intent" -> 2
      [] pc[s] \in {"read_result", "receive_intent"} -> 2 + Bit(half[s])
      [] pc[s] \in {"write_result", "drain", "ping", "send_pairing"} -> 4
      [] pc[s] \in {"serve", "receive_pairing", "await_pong"} -> 4 + Bit(half[s])
      [] pc[s] = "pong" -> 6
      [] OTHER -> IF s = "dialer" THEN 4 ELSE 6

\* How far the other side can have written while this one is where it is.
Reach(s) ==
    CASE pc[s] \in {"connect", "accept", "open_control", "accept_control", "write_hello",
                    "write_intent"} -> 2
      [] pc[s] = "read_hello" -> IF s = "dialer" THEN 2 ELSE 4
      [] pc[s] \in {"read_result", "receive_intent", "write_result"} -> 4
      [] pc[s] \in {"drain", "await_pong", "pong", "receive_pairing", "paired"} -> 6
      [] OTHER -> IF s = "dialer" THEN 4 ELSE 6

\* The pieces a side that is not unruly writes, in order.
Script(s, n) ==
    CASE n = 2 -> "Hello"
      [] n = 4 -> IF s = "dialer" THEN purpose ELSE decision
      [] n = 6 -> IF s = "acceptor" THEN "Pong"
                  ELSE IF purpose = "AuthorizedSession" THEN "Ping" ELSE "PairingRequest"
      [] OTHER -> "length"

-----------------------------------------------------------------------------
(* The inductive invariant *)

Dialing == {"connect", "open_control", "write_hello", "read_hello", "write_intent", "read_result"}
Accepting == {"accept", "accept_control", "write_hello", "read_hello", "receive_intent",
              "write_result", "drain"}

\* The variables that only change together with a step of the script.
PlainInv ==
    /\ pc \in [Sides -> Steps] /\ half \in [Sides -> BOOLEAN]
    /\ wire \in [Sides -> Seq(Piece)]
    /\ link \in BOOLEAN /\ outcome \in [Sides -> Outcomes]
    /\ asked \in Purposes \cup {"none"} /\ decision \in {"none", "accept", "reject"}
    /\ faulted \in BOOLEAN /\ hung \subseteq Sides /\ pings \in 0..MaxPings
    /\ hello \in [Sides -> Hellos] /\ purpose \in Purposes

\* Each side keeps to its role, and to the purpose it sent or received.
RoleInv ==
    /\ pc["dialer"] \in Dialing \cup {"serve", "ping", "await_pong", "send_pairing", "paired", "ended"}
    /\ pc["acceptor"] \in Accepting \cup {"serve", "pong", "receive_pairing", "paired", "ended"}
    /\ \A s \in Sides :
          /\ half[s] => pc[s] \in Writing \cup Reading
          /\ pc[s] \in {"serve", "ping", "pong", "await_pong"} => Own(s) = "AuthorizedSession"
          /\ pc[s] \in {"send_pairing", "receive_pairing", "paired"} => Own(s) = "Pairing"
          /\ pc[s] = "write_hello" /\ half[s] => hello[s] # "oversized"

\* An open connection has two ends; an end that is gone hears nothing.
LinkInv ==
    /\ link => pc["dialer"] \notin {"connect", "ended"} /\ pc["acceptor"] # "ended"
    /\ pc["dialer"] = "connect" => pc["acceptor"] \in {"accept", "ended"}
    /\ \A s \in Sides : pc[s] = "ended" \/ pc["dialer"] = "connect" => wire[s] = <<>>

\* On an open connection the pieces under way are those written and not taken.
\* The pong of the current ping may be written already; an unruly dialer that
\* is at its first pairing message gets one too.
CountInv ==
    link => \E late \in {0, 2} :
        /\ late = 2 => pc["dialer"] \in {"await_pong", "paired"} /\ pc["acceptor"] = "serve"
        /\ Len(wire["acceptor"]) = Written("dialer") - Taken("acceptor") - late
        /\ Len(wire["dialer"]) = Written("acceptor") - Taken("dialer") + late

\* Open or closed, what a side can still read is what its next steps expect.
ContentInv ==
    \A s \in Sides :
        /\ pc[s] # "ended" => Taken(s) + Len(wire[s]) <= Reach(s)
        /\ \A n \in 1 .. Len(wire[s]) :
              /\ wire[s][n] \in IF Taken(s) + n \in {1, 3, 5} THEN {"length"} ELSE Kinds
              /\ hello[Other(s)] # "unruly" => wire[s][n] = Script(Other(s), Taken(s) + n)

\* Nothing of the answer is under way before the acceptor has decided.
EarlyInv == decision = "none" => Taken("dialer") + Len(wire["dialer"]) <= 2

\* What each side has verified by the time it is where it is.  What the dialer
\* knows of the decision, it knows from an acceptor that tells the truth.
GateInv ==
    /\ decision = "accept" => asked = policy
    /\ decision # "none" => Accepts(hello["dialer"]) /\ (hello["dialer"] # "unruly" => asked = purpose)
    /\ pc["acceptor"] \in {"receive_intent", "write_result"} => Accepts(hello["dialer"])
    /\ pc["acceptor"] = "write_result" => decision # "none" /\ asked \in Purposes
    /\ pc["acceptor"] = "drain" => decision = "reject"
    /\ pc["dialer"] \in {"write_intent", "read_result"} => Accepts(hello["acceptor"])
    /\ pc["acceptor"] \in Accepting \ {"write_result", "drain"} => decision = "none"
    /\ \A s \in Sides : pc[s] \in Admitted => Accepts(hello["acceptor"])
    /\ pc["acceptor"] \in Admitted => decision = "accept"
    /\ pc["dialer"] \in Admitted /\ hello["acceptor"] # "unruly" => decision = "accept"

\* A dialer that refuses the acceptor's Hello sends nothing after its own.
BadHelloInv ==
    ~Accepts(hello["acceptor"]) =>
        /\ pc["dialer"] \in {"connect", "open_control", "write_hello", "read_hello", "ended"}
        /\ pc["acceptor"] \in {"accept", "accept_control", "write_hello", "read_hello",
                               "receive_intent", "ended"}
        /\ Taken("acceptor") + Len(wire["acceptor"]) <= 2

\* As long as nothing has failed, a connection between two running sides is open,
\* a dialer that is gone before the decision has sent nothing, and a rejected one
\* is still there to hear it or has heard it.
RejectInv ==
    ~faulted =>
        /\ pc["dialer"] \notin {"connect", "ended"} /\ pc["acceptor"] # "ended" => link
        /\ hello["acceptor"] = "valid" =>
              /\ pc["dialer"] = "ended" /\ pc["acceptor"] # "ended" /\ decision = "none" =>
                    Taken("acceptor") = 0 /\ wire["acceptor"] = <<>>
              /\ decision = "reject" =>
                    IF pc["dialer"] = "ended" THEN outcome["dialer"] = "IntentRejected"
                    ELSE link

IInv ==
    /\ PlainInv /\ RoleInv /\ LinkInv /\ CountInv /\ ContentInv /\ EarlyInv /\ GateInv
    /\ BadHelloInv /\ RejectInv /\ ConformingPeersAgree

-----------------------------------------------------------------------------
(* Facts about sides, pieces and queues *)

\* The other side of a side.
LEMMA SidesFacts ==
    /\ Sides = {"dialer", "acceptor"} /\ Other("dialer") = "acceptor" /\ Other("acceptor") = "dialer"
    /\ \A s \in Sides : Other(s) \in Sides /\ Other(s) # s /\ Other(Other(s)) = s /\ Sides = {s, Other(s)}
BY DEF Sides, Other

\* The steps at which a side writes.
LEMMA WritingFacts ==
    Writing = {"write_hello", "write_intent", "write_result", "ping", "pong", "send_pairing"}
BY DEF Writing

\* A wire after a piece was put on it.
LEMMA PutFacts ==
    ASSUME NEW q \in Seq(Piece), NEW x \in Piece
    PROVE  /\ Len(q) \in Nat
           /\ Append(q, x) \in Seq(Piece) /\ Len(Append(q, x)) = Len(q) + 1
           /\ Append(q, x)[Len(q) + 1] = x
           /\ \A n \in 1 .. Len(q) : Append(q, x)[n] = q[n]
BY AppendProperties, LenProperties

\* A wire whose first piece was taken.
LEMMA TakeFacts ==
    ASSUME NEW q \in Seq(Piece), q # <<>>
    PROVE  /\ Len(q) \in Nat /\ Len(q) > 0 /\ Head(q) = q[1] /\ Head(q) \in Piece
           /\ Tail(q) \in Seq(Piece) /\ Len(Tail(q)) = Len(q) - 1
           /\ \A n \in 1 .. (Len(q) - 1) : Tail(q)[n] = q[n + 1]
<1>1. Len(q) \in Nat /\ Len(q) # 0
  BY LenProperties, EmptySeq
<1> QED BY <1>1, HeadTailProperties

\* A wire that was cut off.
LEMMA CutFacts ==
    ASSUME NEW q \in Seq(Piece), NEW k \in 0 .. Len(q)
    PROVE  /\ SubSeq(q, 1, k) \in Seq(Piece) /\ Len(SubSeq(q, 1, k)) = k /\ k \in Nat
           /\ \A n \in 1 .. k : SubSeq(q, 1, k)[n] = q[n]
<1>1. Len(q) \in Nat
  BY LenProperties
<1> QED BY <1>1, SubSeqProperties

\* The places in the script are small numbers.
LEMMA PlaceFacts ==
    ASSUME PlainInv, NEW s \in Sides
    PROVE  Written(s) \in 0..6 /\ Taken(s) \in 0..6 /\ Reach(s) \in {2, 4, 6} /\ Len(wire[s]) \in Nat
<1>1. Bit(half[s]) \in {0, 1}
  BY DEF Bit
<1>2. Len(wire[s]) \in Nat
  BY LenProperties DEF PlainInv
<1> QED BY <1>1, <1>2 DEF Written, Taken, Reach

\* A side that is about to write on an open connection: the other has room for
\* the piece, and everything before it is on the wire or taken.
LEMMA Room ==
    ASSUME IInv, link, NEW w \in Sides, pc[w] \in Writing
    PROVE  /\ Taken(Other(w)) + Len(wire[Other(w)]) = Written(w)
           /\ Len(wire[w]) = Written(Other(w)) - Taken(w)
           /\ Written(w) + 1 <= Reach(Other(w))
<1> USE WritingFacts, SidesFacts
<1>1. PICK late \in {0, 2} :
        /\ late = 2 => pc["dialer"] \in {"await_pong", "paired"} /\ pc["acceptor"] = "serve"
        /\ Len(wire["acceptor"]) = Written("dialer") - Taken("acceptor") - late
        /\ Len(wire["dialer"]) = Written("acceptor") - Taken("dialer") + late
  BY DEF IInv, CountInv
<1>2. late = 0
  BY <1>1
<1>3. \A s \in Sides : /\ Written(s) \in 0..6 /\ Taken(s) \in 0..6 /\ Reach(s) \in {2, 4, 6}
                       /\ Len(wire[s]) \in Nat /\ Bit(half[s]) \in {0, 1}
  BY PlaceFacts DEF IInv, Bit
<1>4. /\ Taken("acceptor") + Len(wire["acceptor"]) = Written("dialer")
      /\ Taken("dialer") + Len(wire["dialer"]) = Written("acceptor")
  <2>1. /\ Len(wire["acceptor"]) = Written("dialer") - Taken("acceptor") - 0
        /\ Len(wire["dialer"]) = Written("acceptor") - Taken("dialer") + 0
    BY <1>1, <1>2
  <2>2. /\ Written("dialer") \in Int /\ Taken("acceptor") \in Int
        /\ Written("acceptor") \in Int /\ Taken("dialer") \in Int
    BY <1>3
  <2> QED BY <2>1, <2>2
<1>5. Written("dialer") >= Taken("acceptor") /\ Written("acceptor") >= Taken("dialer")
  BY <1>3, <1>4
<1>6. CASE w = "dialer"
  <2> SUFFICES Written("dialer") + 1 <= Reach("acceptor")
    BY <1>3, <1>4, <1>6
  <2>1. pc["dialer"] \in {"write_hello", "write_intent", "ping", "send_pairing"}
    BY <1>6 DEF IInv, RoleInv, Own, Dialing
  <2>2. pc["acceptor"] \in Accepting \cup {"serve", "pong", "receive_pairing", "paired"}
    BY DEF IInv, RoleInv, Own, LinkInv
  <2>3. CASE pc["dialer"] = "write_hello"
    BY <1>3, <2>3 DEF Written
  <2>4. CASE pc["dialer"] = "write_intent"
    <3>1. Written("acceptor") >= 2 /\ Written("dialer") + 1 <= 4
      BY <1>3, <1>5, <2>4 DEF Taken, Written
    <3>2. Reach("acceptor") >= 4
      BY <1>3, <2>2, <3>1 DEF Written, Reach, Accepting
    <3> QED BY <1>3, <3>1, <3>2
  <2>5. CASE pc["dialer"] \in {"ping", "send_pairing"}
    <3>1. Written("acceptor") >= 4 /\ Written("dialer") + 1 <= 6
      BY <1>3, <1>5, <2>5 DEF Taken, Written
    <3>2. Reach("acceptor") = 6
      BY <1>3, <2>2, <3>1 DEF Written, Reach, Accepting
    <3> QED BY <1>3, <3>1, <3>2
  <2> QED BY <2>1, <2>3, <2>4, <2>5
<1>7. CASE w = "acceptor"
  <2> SUFFICES Written("acceptor") + 1 <= Reach("dialer")
    BY <1>3, <1>4, <1>7
  <2>1. pc["acceptor"] \in {"write_hello", "write_result", "pong"}
    BY <1>7 DEF IInv, RoleInv, Own, Accepting
  <2>2. /\ pc["dialer"] \in Dialing \cup {"serve", "ping", "await_pong", "send_pairing", "paired"}
        /\ pc["dialer"] # "connect"
    BY DEF IInv, RoleInv, Own, LinkInv
  <2>3. CASE pc["acceptor"] = "write_hello"
    BY <1>3, <2>3 DEF Written
  <2>4. CASE pc["acceptor"] = "write_result"
    <3>1. Written("dialer") >= 4 /\ Written("acceptor") + 1 <= 4
      BY <1>3, <1>5, <2>4 DEF Taken, Written
    <3>2. Reach("dialer") >= 4
      BY <1>3, <2>2, <3>1 DEF Written, Reach, Dialing
    <3> QED BY <1>3, <3>1, <3>2
  <2>5. CASE pc["acceptor"] = "pong"
    <3>1. Written("dialer") >= 6 /\ Written("acceptor") + 1 <= 6
      BY <1>3, <1>5, <2>5 DEF Taken, Written
    <3>2. Reach("dialer") = 6
      BY <1>3, <2>2, <3>1 DEF Written, Reach, Dialing
    <3> QED BY <1>3, <3>1, <3>2
  <2> QED BY <2>1, <2>3, <2>4, <2>5
<1> QED BY <1>6, <1>7

-----------------------------------------------------------------------------
(* A side moves on *)

\* A step of one side leaves the other where it is.
LEMMA Still ==
    ASSUME PlainInv, NEW s \in Sides, NEW p \in Steps, NEW h \in BOOLEAN,
           pc' = [pc EXCEPT ![s] = p], half' = [half EXCEPT ![s] = h]
    PROVE  /\ pc' \in [Sides -> Steps] /\ half' \in [Sides -> BOOLEAN]
           /\ pc'[s] = p /\ half'[s] = h
           /\ pc'[Other(s)] = pc[Other(s)] /\ half'[Other(s)] = half[Other(s)]
           /\ Written(Other(s))' = Written(Other(s)) /\ Taken(Other(s))' = Taken(Other(s))
           /\ Reach(Other(s))' = Reach(Other(s))
<1>1. /\ pc' \in [Sides -> Steps] /\ half' \in [Sides -> BOOLEAN]
      /\ pc'[s] = p /\ half'[s] = h
      /\ pc'[Other(s)] = pc[Other(s)] /\ half'[Other(s)] = half[Other(s)]
  BY SidesFacts DEF PlainInv
<1> QED BY <1>1 DEF Written, Taken, Reach, Other

\* The end of a side: nothing is left for it to read, and the other side keeps a
\* part of what was under way.
LEMMA EndStep ==
    ASSUME IInv, NEW s \in Sides, NEW result \in Outcomes, End(s, result), pc[s] # "ended",
           UNCHANGED <<inputs, gate, hung, pings>>, faulted' \in BOOLEAN,
           faulted => faulted',
           result = "Fatal" => \E x \in Sides : hello[x] # "valid",
           ~faulted' /\ hello["acceptor"] = "valid" =>
              IF s = "dialer"
              THEN /\ pc["acceptor"] # "ended" /\ decision = "none" =>
                         Taken("acceptor") = 0 /\ wire["acceptor"] = <<>>
                   /\ decision = "reject" => result = "IntentRejected"
              ELSE decision = "reject" => pc["dialer"] = "ended"
    PROVE  IInv'
<1> USE SidesFacts
<1> DEFINE o == Other(s)
<1>1. "ended" \in Steps
  BY DEF Steps
<1>2. pc' = [pc EXCEPT ![s] = "ended"] /\ half' = [half EXCEPT ![s] = FALSE]
  BY DEF End, Goto
<1>3. /\ pc' \in [Sides -> Steps] /\ half' \in [Sides -> BOOLEAN]
      /\ pc'[s] = "ended" /\ half'[s] = FALSE /\ pc'[o] = pc[o] /\ half'[o] = half[o]
      /\ Written(o)' = Written(o) /\ Taken(o)' = Taken(o) /\ Reach(o)' = Reach(o)
  BY <1>1, <1>2, Still DEF IInv
<1>4. /\ outcome' = [outcome EXCEPT ![s] = result] /\ link' = FALSE
      /\ route' = route /\ hello' = hello /\ purpose' = purpose /\ policy' = policy
      /\ asked' = asked /\ decision' = decision /\ hung' = hung /\ pings' = pings
  BY DEF End, Close, inputs, gate
<1>5. PICK k \in 0 .. Len(wire[o]) : wire' = [wire EXCEPT ![s] = <<>>, ![o] = SubSeq(@, 1, k)]
  BY DEF End, Close
<1>6. wire[o] \in Seq(Piece) /\ wire \in [Sides -> Seq(Piece)]
  BY DEF IInv, PlainInv
<1>7. /\ wire'[s] = <<>> /\ wire'[o] = SubSeq(wire[o], 1, k) /\ DOMAIN wire' = Sides
      /\ wire' = [x \in Sides |-> wire'[x]]
  BY <1>5, <1>6
<1>8. /\ wire'[o] \in Seq(Piece) /\ Len(wire'[o]) = k /\ k \in Nat /\ Len(wire[o]) \in Nat
      /\ \A n \in 1 .. k : wire'[o][n] = wire[o][n]
  BY <1>6, <1>7, CutFacts, LenProperties
<1>9. <<>> \in Seq(Piece) /\ Len(<<>>) = 0
  BY EmptySeq
<1>10. wire' \in [Sides -> Seq(Piece)]
  <2>1. ASSUME NEW x \in Sides PROVE wire'[x] \in Seq(Piece)
    <3>1. CASE x = s
      BY <1>7, <1>9, <3>1
    <3>2. CASE x = o
      BY <1>8, <3>2
    <3> QED BY <3>1, <3>2
  <2> QED BY <1>7, <2>1
<1>11. wire[o] = <<>> => wire'[o] = <<>>
  BY <1>6, <1>8, <1>9, EmptySeq
<1>12. PlainInv'
  <2>1. outcome' \in [Sides -> Outcomes]
    BY <1>4 DEF IInv, PlainInv
  <2> QED BY <1>3, <1>4, <1>10, <2>1 DEF IInv, PlainInv
<1>13. RoleInv'
  BY <1>3, <1>4 DEF IInv, RoleInv, Own
<1>14. LinkInv'
  BY <1>3, <1>4, <1>7, <1>11 DEF IInv, LinkInv
<1>15. CountInv'
  BY <1>4 DEF CountInv
<1>16. ContentInv'
  <2>1. Len(wire'[s]) = 0
    BY <1>7, <1>9
  <2>2. Taken(o) \in 0..6 /\ Reach(o) \in {2, 4, 6}
    BY PlaceFacts DEF IInv
  <2>3. pc'[o] # "ended" => Taken(o)' + Len(wire'[o]) <= Reach(o)'
    <3>1. pc[o] # "ended" => Taken(o) + Len(wire[o]) <= Reach(o)
      BY DEF IInv, ContentInv
    <3> QED BY <1>3, <1>8, <2>2, <3>1
  <2>4. ASSUME NEW n \in 1 .. Len(wire'[o])
        PROVE  /\ wire'[o][n] \in IF Taken(o)' + n \in {1, 3, 5} THEN {"length"} ELSE Kinds
               /\ hello'[Other(o)] # "unruly" => wire'[o][n] = Script(Other(o), Taken(o) + n)'
    <3>1. n \in 1 .. Len(wire[o]) /\ wire'[o][n] = wire[o][n]
      BY <1>8
    <3>2. Script(Other(o), Taken(o) + n)' = Script(Other(o), Taken(o) + n)
      BY <1>3, <1>4 DEF Script
    <3> QED BY <1>3, <1>4, <3>1, <3>2 DEF IInv, ContentInv
  <2> QED BY <1>3, <2>1, <2>3, <2>4 DEF ContentInv
<1>17. GateInv' /\ EarlyInv'
  <2>1. GateInv'
    BY <1>3, <1>4 DEF IInv, GateInv, Admitted, Accepting
  <2>2. Taken(s)' = 0 /\ Len(wire'[s]) = 0
    BY <1>3, <1>7, <1>9 DEF Taken
  <2>3. Taken(o) \in 0..6
    BY PlaceFacts DEF IInv
  <2>4. EarlyInv'
    <3>1. CASE s = "dialer"
      BY <2>2, <3>1 DEF EarlyInv
    <3>2. CASE s = "acceptor"
      BY <1>3, <1>4, <1>8, <2>3, <3>2 DEF IInv, EarlyInv
    <3> QED BY <3>1, <3>2
  <2> QED BY <2>1, <2>4
<1>18. BadHelloInv'
  <2>1. Taken(s)' = 0
    BY <1>3 DEF Taken
  <2>2. Taken(o) \in 0..6
    BY PlaceFacts DEF IInv
  <2> QED BY <1>3, <1>4, <1>7, <1>8, <1>9, <2>1, <2>2 DEF IInv, BadHelloInv
<1>19. RejectInv'
  <2>1. outcome'[s] = result /\ outcome'[o] = outcome[o]
    BY <1>4 DEF IInv, PlainInv
  <2>2. CASE s = "dialer"
    BY <1>3, <1>4, <1>11, <2>1, <2>2 DEF IInv, RejectInv
  <2>3. CASE s = "acceptor"
    BY <1>3, <1>4, <2>1, <2>3 DEF IInv, RejectInv
  <2> QED BY <2>2, <2>3
<1>20. ConformingPeersAgree'
  BY <1>4 DEF IInv, PlainInv, ConformingPeersAgree
<1> QED BY <1>12, <1>13, <1>14, <1>15, <1>16, <1>17, <1>18, <1>19, <1>20 DEF IInv

\* A side takes a piece: what is left on its wire is as expected, and what
\* was under way on an open connection still adds up.
LEMMA GetStep ==
    ASSUME IInv, NEW s \in Sides, NEW p \in Steps \ {"ended"}, NEW h \in BOOLEAN, wire[s] # <<>>,
           pc[s] # "ended",
           pc' = [pc EXCEPT ![s] = p], half' = [half EXCEPT ![s] = h],
           wire' = [wire EXCEPT ![s] = Tail(@)], UNCHANGED <<link, inputs>>,
           Taken(s)' = Taken(s) + 1, Written(s)' = Written(s), Reach(s)' >= Reach(s),
           p # pc[s] => pc[s] \notin {"await_pong", "paired"} /\ (pc[s] = "serve" => half[s]),
           decision' = decision \/ (s = "acceptor" /\ decision = "none")
    PROVE  /\ wire' \in [Sides -> Seq(Piece)] /\ CountInv' /\ ContentInv' /\ EarlyInv'
           /\ wire'[Other(s)] = wire[Other(s)] /\ Len(wire'[s]) = Len(wire[s]) - 1
<1> USE SidesFacts
<1> DEFINE o == Other(s)
<1>1. /\ pc'[s] = p /\ half'[s] = h /\ pc'[o] = pc[o] /\ half'[o] = half[o]
      /\ Written(o)' = Written(o) /\ Taken(o)' = Taken(o) /\ Reach(o)' = Reach(o)
  BY Still DEF IInv
<1>2. wire \in [Sides -> Seq(Piece)]
  BY DEF IInv, PlainInv
<1>3. wire'[s] = Tail(wire[s]) /\ wire'[o] = wire[o]
  BY <1>2
<1>4. /\ Len(wire[s]) \in Nat /\ Len(wire[s]) > 0 /\ wire'[s] \in Seq(Piece)
      /\ Len(wire'[s]) = Len(wire[s]) - 1
      /\ \A n \in 1 .. (Len(wire[s]) - 1) : wire'[s][n] = wire[s][n + 1]
  BY <1>2, <1>3, TakeFacts
<1>5. wire' \in [Sides -> Seq(Piece)]
  BY <1>2, <1>3, <1>4
<1>6. \A x \in Sides : /\ Written(x) \in 0..6 /\ Taken(x) \in 0..6 /\ Reach(x) \in {2, 4, 6}
                       /\ Len(wire[x]) \in Nat
  BY PlaceFacts DEF IInv
<1>7. link' = link /\ hello' = hello /\ purpose' = purpose
  BY DEF inputs, gate
<1>8. CountInv'
  <2> SUFFICES ASSUME link
               PROVE  \E late \in {0, 2} :
                         /\ late = 2 => pc'["dialer"] \in {"await_pong", "paired"} /\ pc'["acceptor"] = "serve"
                         /\ Len(wire'["acceptor"]) = Written("dialer")' - Taken("acceptor")' - late
                         /\ Len(wire'["dialer"]) = Written("acceptor")' - Taken("dialer")' + late
    BY <1>7 DEF CountInv
  <2>1. PICK late \in {0, 2} :
          /\ late = 2 => pc["dialer"] \in {"await_pong", "paired"} /\ pc["acceptor"] = "serve"
          /\ Len(wire["acceptor"]) = Written("dialer") - Taken("acceptor") - late
          /\ Len(wire["dialer"]) = Written("acceptor") - Taken("dialer") + late
    BY DEF IInv, CountInv
  <2>2. late = 2 => pc'["dialer"] \in {"await_pong", "paired"} /\ pc'["acceptor"] = "serve"
    <3>1. CASE s = "dialer"
      BY <1>1, <2>1, <3>1
    <3>2. CASE s = "acceptor"
      <4>1. late = 2 => Written("dialer") = 6 /\ (half["acceptor"] => Taken("acceptor") = 5)
        BY <2>1 DEF Written, Taken, Bit
      <4>2. late = 2 => p = pc["acceptor"]
        BY <1>4, <1>6, <2>1, <3>2, <4>1
      <4> QED BY <1>1, <2>1, <3>2, <4>2
    <3> QED BY <3>1, <3>2
  <2>3. /\ Len(wire'["acceptor"]) = Written("dialer")' - Taken("acceptor")' - late
        /\ Len(wire'["dialer"]) = Written("acceptor")' - Taken("dialer")' + late
    <3>1. CASE s = "dialer"
      BY <1>1, <1>3, <1>4, <1>6, <2>1, <3>1, SMTT(30)
    <3>2. CASE s = "acceptor"
      <4>1. /\ Len(wire'["acceptor"]) = Len(wire["acceptor"]) - 1
            /\ Taken("acceptor")' = Taken("acceptor") + 1
            /\ Written("acceptor")' = Written("acceptor") /\ wire'["dialer"] = wire["dialer"]
            /\ Written("dialer")' = Written("dialer") /\ Taken("dialer")' = Taken("dialer")
        BY <1>1, <1>3, <1>4, <3>2
      <4>2. /\ Written("dialer") \in Int /\ Taken("acceptor") \in Int
            /\ Written("acceptor") \in Int /\ Taken("dialer") \in Int
        BY <1>6
      <4>3. Len(wire'["acceptor"]) = Written("dialer")' - Taken("acceptor")' - late
        BY <2>1, <4>1, <4>2, SMTT(30)
      <4>4. Len(wire'["dialer"]) = Written("acceptor")' - Taken("dialer")' + late
        BY <2>1, <4>1
      <4> QED BY <4>3, <4>4
    <3> QED BY <3>1, <3>2
  <2> QED BY <2>2, <2>3
<1>9. ContentInv'
  <2>1. Taken(s)' + Len(wire'[s]) <= Reach(s)'
    <3>1. Taken(s) + Len(wire[s]) <= Reach(s)
      BY DEF IInv, ContentInv
    <3>2. Reach(s)' \in Int
      BY DEF Reach
    <3>3. Taken(s) \in 0..6 /\ Reach(s) \in {2, 4, 6}
      BY <1>6
    <3>4. Taken(s)' + Len(wire'[s]) = Taken(s) + Len(wire[s])
      BY <1>4, <3>3
    <3> QED BY <1>4, <3>1, <3>2, <3>3, <3>4, SMTT(30)
  <2>2. ASSUME NEW n \in 1 .. Len(wire'[s])
        PROVE  /\ wire'[s][n] \in IF Taken(s)' + n \in {1, 3, 5} THEN {"length"} ELSE Kinds
               /\ hello'[o] # "unruly" => wire'[s][n] = Script(o, Taken(s) + n)'
    <3>1. n + 1 \in 1 .. Len(wire[s]) /\ wire'[s][n] = wire[s][n + 1]
      BY <1>4
    <3>2. Taken(s)' + n = Taken(s) + (n + 1)
      BY <1>6
    <3>3. Script(o, Taken(s) + n)' = Script(o, Taken(s) + (n + 1))
      BY <1>7, <3>2 DEF Script, Other
    <3> QED BY <1>7, <3>1, <3>2, <3>3 DEF IInv, ContentInv
  <2>3. pc'[o] # "ended" => Taken(o)' + Len(wire'[o]) <= Reach(o)'
    BY <1>1, <1>3 DEF IInv, ContentInv
  <2>4. ASSUME NEW n \in 1 .. Len(wire'[o])
        PROVE  /\ wire'[o][n] \in IF Taken(o)' + n \in {1, 3, 5} THEN {"length"} ELSE Kinds
               /\ hello'[s] # "unruly" => wire'[o][n] = Script(s, Taken(o) + n)'
    <3>1. Script(s, Taken(o) + n)' = Script(s, Taken(o) + n)
      <4>1. CASE decision' = decision
        BY <1>1, <1>7, <4>1 DEF Script
      <4>2. CASE s = "acceptor" /\ decision = "none"
        <5>1. n \in Nat /\ n <= Len(wire["dialer"]) /\ Taken("dialer") + Len(wire["dialer"]) <= 2
          BY <1>3, <1>6, <4>2 DEF IInv, EarlyInv
        <5>2. Taken("dialer") + n # 4
          BY <1>6, <5>1
        <5> QED BY <1>1, <1>7, <4>2, <5>2 DEF Script
      <4> QED BY <4>1, <4>2
    <3> QED BY <1>1, <1>3, <1>7, <3>1 DEF IInv, ContentInv
  <2> QED BY <2>1, <2>2, <2>3, <2>4 DEF ContentInv
<1>10. EarlyInv'
  <2>1. CASE s = "dialer"
    <3>1. Taken("dialer")' + Len(wire'["dialer"]) = Taken("dialer") + Len(wire["dialer"])
      BY <1>4, <1>6, <2>1
    <3> QED BY <2>1, <3>1 DEF IInv, EarlyInv
  <2>2. CASE s = "acceptor"
    BY <1>1, <1>3, <2>2 DEF IInv, EarlyInv
  <2> QED BY <2>1, <2>2
<1> QED BY <1>3, <1>4, <1>5, <1>8, <1>9, <1>10

\* A side puts a piece on an open connection: it is the next one that the other
\* side expects.  The last piece of a pong starts the acceptor's frame over.
LEMMA PutStep ==
    ASSUME IInv, link, NEW s \in Sides, pc[s] \in Writing, NEW p \in Steps \ {"ended"},
           NEW h \in BOOLEAN, NEW x \in Piece,
           pc' = [pc EXCEPT ![s] = p], half' = [half EXCEPT ![s] = h],
           wire' = [wire EXCEPT ![Other(s)] = Append(@, x)], UNCHANGED <<link, inputs>>,
           decision' = decision,
           \/ Written(s)' = Written(s) + 1 /\ Taken(s)' = Taken(s) /\ Reach(s)' >= Reach(s)
           \/ s = "acceptor" /\ pc[s] = "pong" /\ half[s] /\ p = "serve" /\ h = FALSE,
           x \in IF Written(s) + 1 \in {1, 3, 5} THEN {"length"} ELSE Kinds,
           hello[s] # "unruly" => x = Script(s, Written(s) + 1)
    PROVE  /\ wire' \in [Sides -> Seq(Piece)] /\ CountInv' /\ ContentInv' /\ EarlyInv'
           /\ wire'[s] = wire[s] /\ Taken(Other(s))' + Len(wire'[Other(s)]) = Written(s) + 1
<1> USE SidesFacts
<1> DEFINE o == Other(s)
<1>1. /\ pc'[s] = p /\ half'[s] = h /\ pc'[o] = pc[o] /\ half'[o] = half[o]
      /\ Written(o)' = Written(o) /\ Taken(o)' = Taken(o) /\ Reach(o)' = Reach(o)
  BY Still DEF IInv
<1>2. wire \in [Sides -> Seq(Piece)]
  BY DEF IInv, PlainInv
<1>3. wire'[s] = wire[s] /\ wire'[o] = Append(wire[o], x)
  BY <1>2
<1>4. /\ Len(wire[o]) \in Nat /\ wire'[o] \in Seq(Piece) /\ Len(wire'[o]) = Len(wire[o]) + 1
      /\ wire'[o][Len(wire[o]) + 1] = x
      /\ \A n \in 1 .. Len(wire[o]) : wire'[o][n] = wire[o][n]
  BY <1>2, <1>3, PutFacts
<1>5. wire' \in [Sides -> Seq(Piece)]
  BY <1>2, <1>3, <1>4
<1>6. \A y \in Sides : /\ Written(y) \in 0..6 /\ Taken(y) \in 0..6 /\ Reach(y) \in {2, 4, 6}
                       /\ Len(wire[y]) \in Nat
  BY PlaceFacts DEF IInv
<1>7. link' = link /\ hello' = hello /\ purpose' = purpose
  BY DEF inputs, gate
<1>8. /\ Taken(o) + Len(wire[o]) = Written(s)
      /\ Len(wire[s]) = Written(o) - Taken(s)
      /\ Written(s) + 1 <= Reach(o)
  BY Room
<1>9. ASSUME s = "acceptor", pc[s] = "pong", half[s], p = "serve", h = FALSE
      PROVE  /\ pc'["dialer"] \in {"await_pong", "paired"} /\ Len(wire["acceptor"]) = 0 /\ Written("acceptor") = 5
             /\ Written("dialer") = 6 /\ Written("acceptor")' = 4 /\ Taken("acceptor")' = 4
             /\ Reach("acceptor")' = 6
  <2>1. Taken("acceptor") = 6 /\ Written("acceptor") = 5
    BY <1>9 DEF Taken, Written, Bit
  <2>2. Written("dialer") = 6 /\ Len(wire["acceptor"]) = 0
    BY <1>6, <1>8, <1>9, <2>1
  <2>4. pc["dialer"] \in {"await_pong", "paired"}
    BY <2>2 DEF IInv, RoleInv, Written, Dialing, Bit
  <2>5. Written("acceptor")' = 4 /\ Taken("acceptor")' = 4 /\ Reach("acceptor")' = 6
    BY <1>1, <1>9 DEF Written, Taken, Reach, Bit
  <2> QED BY <1>1, <1>9, <2>1, <2>2, <2>4, <2>5
<1>10. CountInv'
  <2>1. CASE Written(s)' = Written(s) + 1 /\ Taken(s)' = Taken(s) /\ Reach(s)' >= Reach(s)
    <3>1. Len(wire'[o]) = Written(s)' - Taken(o)' /\ Len(wire'[s]) = Written(o)' - Taken(s)'
      <4>1. /\ Taken(o) \in Int /\ Written(s) \in Int /\ Len(wire[o]) \in Int
        BY <1>6
      <4>2. Len(wire'[o]) = Len(wire[o]) + 1 /\ Taken(o)' = Taken(o) /\ Written(s)' = Written(s) + 1
        BY <1>1, <1>4, <2>1
      <4>3. Len(wire'[o]) = Written(s)' - Taken(o)'
        BY <1>8, <4>1, <4>2
      <4> QED BY <1>1, <1>3, <1>8, <2>1, <4>3
    <3>2. /\ Written(s)' \in Int /\ Taken(s)' \in Int /\ Written(o)' \in Int /\ Taken(o)' \in Int
      BY <1>1, <1>6, <2>1
    <3>3. /\ Len(wire'["acceptor"]) = Written("dialer")' - Taken("acceptor")' - 0
          /\ Len(wire'["dialer"]) = Written("acceptor")' - Taken("dialer")' + 0
      <4>1. CASE s = "dialer"
        BY <3>1, <3>2, <4>1
      <4>2. CASE s = "acceptor"
        BY <3>1, <3>2, <4>2
      <4> QED BY <4>1, <4>2
    <3> QED BY <3>3 DEF CountInv
  <2>2. CASE s = "acceptor" /\ pc[s] = "pong" /\ half[s] /\ p = "serve" /\ h = FALSE
    <3>1. pc'["dialer"] \in {"await_pong", "paired"} /\ pc'["acceptor"] = "serve"
      BY <1>1, <1>9, <2>2
    <3>4. /\ Len(wire["acceptor"]) = 0 /\ Written("acceptor") = 5 /\ Written("dialer") = 6
          /\ Written("acceptor")' = 4 /\ Taken("acceptor")' = 4
      BY <1>9, <2>2
    <3>5. /\ Written("dialer")' = Written("dialer") /\ Taken("dialer")' = Taken("dialer")
          /\ wire'["acceptor"] = wire["acceptor"]
          /\ Len(wire'["dialer"]) = Len(wire["dialer"]) + 1
          /\ Taken("dialer") + Len(wire["dialer"]) = Written("acceptor")
      BY <1>1, <1>3, <1>4, <1>8, <2>2
    <3>2. Len(wire'["acceptor"]) = Written("dialer")' - Taken("acceptor")' - 2
      BY <3>4, <3>5
    <3>3. Len(wire'["dialer"]) = Written("acceptor")' - Taken("dialer")' + 2
      BY <1>6, <3>4, <3>5
    <3> QED BY <3>1, <3>2, <3>3 DEF CountInv
  <2> QED BY <2>1, <2>2
<1>11. ContentInv'
  <2>1. Taken(o)' + Len(wire'[o]) <= Reach(o)'
    <3>1. Taken(o) + Len(wire[o]) + 1 = Written(s) + 1
      BY <1>6, <1>8
    <3>2. Taken(o)' + Len(wire'[o]) = Taken(o) + Len(wire[o]) + 1
      BY <1>1, <1>4, <1>6
    <3> QED BY <1>1, <1>8, <3>1, <3>2
  <2>2. ASSUME NEW n \in 1 .. Len(wire'[o])
        PROVE  /\ wire'[o][n] \in IF Taken(o)' + n \in {1, 3, 5} THEN {"length"} ELSE Kinds
               /\ hello'[s] # "unruly" => wire'[o][n] = Script(s, Taken(o) + n)'
    <3>1. Script(s, Taken(o) + n)' = Script(s, Taken(o) + n)
      BY <1>1, <1>7 DEF Script
    <3>2. CASE n \in 1 .. Len(wire[o])
      BY <1>1, <1>4, <1>7, <3>1, <3>2 DEF IInv, ContentInv
    <3>3. CASE n = Len(wire[o]) + 1
      <4>1. Taken(o) + n = Written(s) + 1
        BY <1>6, <1>8, <3>3
      <4> QED BY <1>1, <1>4, <1>7, <3>1, <3>3, <4>1
    <3> QED BY <1>4, <3>2, <3>3
  <2>3. Taken(s)' + Len(wire'[s]) <= Reach(s)'
    <3>1. Taken(s) + Len(wire[s]) <= Reach(s)
      BY WritingFacts DEF IInv, ContentInv
    <3>2. Reach(s)' \in Int
      BY DEF Reach
    <3>3. CASE Written(s)' = Written(s) + 1 /\ Taken(s)' = Taken(s) /\ Reach(s)' >= Reach(s)
      <4>1. Len(wire'[s]) = Len(wire[s]) /\ Taken(s) \in 0..6 /\ Reach(s) \in {2, 4, 6}
            /\ Len(wire[s]) \in Nat
        BY <1>3, <1>6
      <4> QED BY <3>1, <3>2, <3>3, <4>1
    <3>4. CASE s = "acceptor" /\ pc[s] = "pong" /\ half[s] /\ p = "serve" /\ h = FALSE
      <4>1. Len(wire[s]) = 0 /\ Taken(s)' = 4 /\ Reach(s)' = 6
        BY <1>9, <3>4
      <4> QED BY <1>3, <4>1
    <3> QED BY <3>3, <3>4
  <2>4. ASSUME NEW n \in 1 .. Len(wire'[s])
        PROVE  /\ wire'[s][n] \in IF Taken(s)' + n \in {1, 3, 5} THEN {"length"} ELSE Kinds
               /\ hello'[o] # "unruly" => wire'[s][n] = Script(o, Taken(s) + n)'
    <3>1. CASE Written(s)' = Written(s) + 1 /\ Taken(s)' = Taken(s) /\ Reach(s)' >= Reach(s)
      <4>1. Script(o, Taken(s) + n)' = Script(o, Taken(s) + n)
        BY <1>7, <3>1 DEF Script
      <4> QED BY <1>3, <1>7, <3>1, <4>1 DEF IInv, ContentInv
    <3>2. CASE s = "acceptor" /\ pc[s] = "pong" /\ half[s] /\ p = "serve" /\ h = FALSE
      <4>1. Len(wire[s]) = 0
        BY <1>9, <3>2
      <4> QED BY <1>3, <4>1
    <3> QED BY <3>1, <3>2
  <2> QED BY <2>1, <2>2, <2>3, <2>4 DEF ContentInv
<1>12. Taken(o)' + Len(wire'[o]) = Written(s) + 1
  BY <1>1, <1>4, <1>6, <1>8, SMTT(30)
<1>13. EarlyInv'
  <2>1. CASE s = "dialer"
    <3>1. Taken(s)' = Taken(s)
      BY <2>1
    <3> QED BY <1>3, <2>1, <3>1 DEF IInv, EarlyInv
  <2>2. CASE s = "acceptor"
    <3>1. decision = "none" => pc[s] = "write_hello"
      BY <2>2, WritingFacts DEF IInv, RoleInv, GateInv, Admitted, Accepting
    <3>2. pc[s] = "write_hello" => Written(s) <= 1
      BY DEF Written, Bit
    <3> QED BY <1>6, <1>12, <2>2, <3>1, <3>2 DEF EarlyInv
  <2> QED BY <2>1, <2>2
<1> QED BY <1>3, <1>5, <1>10, <1>11, <1>12, <1>13

\* A side goes on without a piece, from one place of the script to the same place.
LEMMA GoStep ==
    ASSUME IInv, NEW s \in Sides, NEW p \in Steps \ {"ended"}, pc[s] # "ended",
           pc' = [pc EXCEPT ![s] = p], UNCHANGED <<half, wire, inputs>>, decision' = decision,
           Written(s)' = Written(s), Taken(s)' = Taken(s), Reach(s)' >= Reach(s),
           \/ link' = link /\ pc[s] \notin {"await_pong", "paired"} /\ (s = "acceptor" => pc[s] # "serve")
           \/ \A y \in Sides : Written(y) = 0 /\ Taken(y) = 0 /\ wire[y] = <<>>
    PROVE  CountInv' /\ ContentInv' /\ EarlyInv'
<1> USE SidesFacts
<1> DEFINE o == Other(s)
<1>1. pc'[s] = p /\ pc'[o] = pc[o] /\ half' = half
  BY DEF IInv, PlainInv
<1>2. /\ pc'[s] = p /\ pc'[o] = pc[o]
      /\ Written(o)' = Written(o) /\ Taken(o)' = Taken(o) /\ Reach(o)' = Reach(o)
  BY <1>1 DEF Written, Taken, Reach, Other
<1>3. hello' = hello /\ purpose' = purpose /\ wire' = wire
  BY DEF inputs, gate
<1>4. \A y \in Sides : /\ Written(y) \in 0..6 /\ Taken(y) \in 0..6 /\ Reach(y) \in {2, 4, 6}
                       /\ Len(wire[y]) \in Nat
  BY PlaceFacts DEF IInv
<1>5. \A y \in Sides : Written(y)' = Written(y) /\ Taken(y)' = Taken(y) /\ Reach(y)' >= Reach(y)
  BY <1>2, <1>4
<1>6. CountInv'
  <2>1. CASE link' = link /\ pc[s] \notin {"await_pong", "paired"} /\ (s = "acceptor" => pc[s] # "serve")
    BY <1>2, <1>3, <1>5, <2>1 DEF IInv, CountInv
  <2>2. CASE \A y \in Sides : Written(y) = 0 /\ Taken(y) = 0 /\ wire[y] = <<>>
    <3>1. Len(<<>>) = 0
      BY EmptySeq
    <3>2. /\ Len(wire'["acceptor"]) = Written("dialer")' - Taken("acceptor")' - 0
          /\ Len(wire'["dialer"]) = Written("acceptor")' - Taken("dialer")' + 0
      BY <1>3, <1>5, <2>2, <3>1
    <3> QED BY <3>2 DEF CountInv
  <2> QED BY <2>1, <2>2
<1>7. ContentInv'
  <2>1. ASSUME NEW y \in Sides, pc'[y] # "ended"
        PROVE  Taken(y)' + Len(wire'[y]) <= Reach(y)'
    <3>1. Taken(y) + Len(wire[y]) <= Reach(y)
      BY <1>2, <2>1 DEF IInv, ContentInv
    <3>2. Reach(y)' \in Int
      BY DEF Reach
    <3> QED BY <1>3, <1>4, <1>5, <3>1, <3>2
  <2>2. ASSUME NEW y \in Sides, NEW n \in 1 .. Len(wire'[y])
        PROVE  /\ wire'[y][n] \in IF Taken(y)' + n \in {1, 3, 5} THEN {"length"} ELSE Kinds
               /\ hello'[Other(y)] # "unruly" => wire'[y][n] = Script(Other(y), Taken(y) + n)'
    <3>1. Script(Other(y), Taken(y) + n)' = Script(Other(y), Taken(y) + n)
      BY <1>3, <1>5 DEF Script
    <3> QED BY <1>3, <1>5, <3>1 DEF IInv, ContentInv
  <2> QED BY <2>1, <2>2 DEF ContentInv
<1>8. EarlyInv'
  BY <1>3, <1>5 DEF IInv, EarlyInv
<1> QED BY <1>6, <1>7, <1>8

\* The first piece on a wire, from a side that keeps to the script.
LEMMA HeadIs ==
    ASSUME IInv, NEW s \in Sides, wire[s] # <<>>
    PROVE  /\ hello[Other(s)] # "unruly" => Message(s) = Script(Other(s), Taken(s) + 1)
           /\ pc[s] # "ended" => Taken(s) + 1 <= Reach(s)
<1>1. wire[s] \in Seq(Piece)
  BY DEF IInv, PlainInv
<1>2. Len(wire[s]) \in Nat /\ Len(wire[s]) > 0 /\ Message(s) = wire[s][1]
  BY <1>1, TakeFacts DEF Message
<1>3. Taken(s) \in 0..6 /\ Reach(s) \in {2, 4, 6}
  BY PlaceFacts DEF IInv
<1> QED BY <1>2, <1>3 DEF IInv, ContentInv

\* What every step of a side that goes on keeps: it needs an open connection, or
\* takes what has arrived.
LEMMA GoOn ==
    ASSUME IInv, NEW s \in Sides, NEW p \in Steps \ {"connect", "ended"}, NEW h \in BOOLEAN,
           pc[s] \notin {"connect", "ended"},
           pc' = [pc EXCEPT ![s] = p], half' = [half EXCEPT ![s] = h],
           wire' \in [Sides -> Seq(Piece)], wire'[Other(s)] = wire[Other(s)] \/ link,
           link \/ wire[s] # <<>>,
           UNCHANGED <<link, outcome, inputs, faulted, hung>>, pings' \in 0..MaxPings,
           \/ asked' = asked /\ decision' = decision
           \/ s = "acceptor" /\ decision = "none" /\ decision' \in {"accept", "reject"}
                /\ asked' \in Purposes /\ wire[s] # <<>>
    PROVE  PlainInv' /\ LinkInv' /\ RejectInv' /\ ConformingPeersAgree'
<1> USE SidesFacts
<1> DEFINE o == Other(s)
<1>1. /\ pc' \in [Sides -> Steps] /\ half' \in [Sides -> BOOLEAN]
      /\ pc'[s] = p /\ half'[s] = h /\ pc'[o] = pc[o] /\ half'[o] = half[o]
  BY Still DEF IInv
<1>2. /\ link' = link /\ outcome' = outcome /\ route' = route /\ hello' = hello
      /\ purpose' = purpose /\ policy' = policy /\ faulted' = faulted /\ hung' = hung
  BY DEF inputs, gate
<1>3. PlainInv'
  BY <1>1, <1>2 DEF IInv, PlainInv
<1>4. pc["dialer"] # "connect"
  BY DEF IInv, LinkInv
<1>5. pc[o] = "ended" => ~link /\ wire'[o] = <<>>
  BY DEF IInv, LinkInv
<1>6. pc'["dialer"] # "connect"
  BY <1>1, <1>4
<1>7. LinkInv'
  BY <1>1, <1>2, <1>5, <1>6 DEF IInv, LinkInv
<1>8. RejectInv'
  <2>1. CASE s = "dialer"
    BY <1>1, <1>2, <2>1 DEF IInv, RejectInv
  <2>2. CASE s = "acceptor"
    <3>1. ~faulted /\ hello["acceptor"] = "valid" /\ decision = "none" => pc["dialer"] # "ended"
      BY <1>5, <2>2 DEF IInv, RejectInv
    <3> QED BY <1>1, <1>2, <1>4, <2>2, <3>1 DEF IInv, RejectInv
  <2> QED BY <2>1, <2>2
<1>9. ConformingPeersAgree'
  BY <1>2 DEF IInv, ConformingPeersAgree
<1> QED BY <1>3, <1>7, <1>8, <1>9

-----------------------------------------------------------------------------
(* Frames are written and read *)

\* The length of a frame goes out.
LEMMA WritePrefixStep ==
    ASSUME IInv, NEW s \in Sides, WritePrefix(s)
    PROVE  IInv'
<1> USE SidesFacts, WritingFacts
<1> DEFINE o == Other(s)
<1>1. /\ pc[s] \in Writing /\ half[s] = FALSE /\ link /\ pc[s] \in Steps \ {"connect", "ended"}
      /\ pc[s] = "write_hello" => hello[s] # "oversized"
      /\ wire' = [wire EXCEPT ![o] = Append(@, "length")]
      /\ half' = [half EXCEPT ![s] = TRUE] /\ pc' = [pc EXCEPT ![s] = pc[s]]
      /\ UNCHANGED <<link, outcome, inputs, faulted, hung>>
      /\ pc' = pc /\ asked' = asked /\ decision' = decision /\ pings' = pings
      /\ hello' = hello /\ purpose' = purpose /\ policy' = policy
  BY DEF WritePrefix, IInv, PlainInv, inputs, gate
<1>2. half' \in [Sides -> BOOLEAN] /\ half'[s] = TRUE /\ half'[o] = half[o]
  BY <1>1 DEF IInv, PlainInv
<1>3. /\ Written(s)' = Written(s) + 1 /\ Taken(s)' = Taken(s) /\ Reach(s)' >= Reach(s)
      /\ Written(s) \in {0, 2, 4}
  BY <1>1, <1>2 DEF Written, Taken, Reach, Bit
<1>4. /\ "length" \in Piece /\ "length" = Script(s, Written(s) + 1)
      /\ "length" \in IF Written(s) + 1 \in {1, 3, 5} THEN {"length"} ELSE Kinds
      /\ pc[s] \in Steps \ {"ended"} /\ TRUE \in BOOLEAN
  BY <1>1, <1>3 DEF Piece, Script
<1>5. /\ wire' \in [Sides -> Seq(Piece)] /\ CountInv' /\ ContentInv' /\ EarlyInv'
      /\ wire'[s] = wire[s] /\ Taken(o)' + Len(wire'[o]) = Written(s) + 1
  <2> DEFINE p == pc[s]
  <2>1. p \in Steps \ {"ended"} /\ pc' = [pc EXCEPT ![s] = p] /\ pc[s] \in Writing
    BY <1>1
  <2>2. \/ Written(s)' = Written(s) + 1 /\ Taken(s)' = Taken(s) /\ Reach(s)' >= Reach(s)
        \/ s = "acceptor" /\ pc[s] = "pong" /\ half[s] /\ p = "serve" /\ TRUE = FALSE
    BY <1>3
  <2>3. /\ link /\ wire' = [wire EXCEPT ![Other(s)] = Append(@, "length")]
        /\ half' = [half EXCEPT ![s] = TRUE] /\ UNCHANGED <<link, inputs>> /\ decision' = decision
    BY <1>1
  <2> HIDE DEF p
  <2> QED BY <1>4, <2>1, <2>2, <2>3, PutStep
<1>6. pings' \in 0..MaxPings
  BY <1>1 DEF IInv, PlainInv
<1>7. PlainInv' /\ LinkInv' /\ RejectInv' /\ ConformingPeersAgree'
  BY <1>1, <1>5, <1>6, GoOn
<1>8. RoleInv'
  BY <1>1, <1>2 DEF IInv, RoleInv, Own
<1>9. GateInv'
  BY <1>1 DEF IInv, GateInv
<1>10. BadHelloInv'
  <2>1. CASE s = "dialer"
    <3>1. ~Accepts(hello["acceptor"]) => Written(s) = 0
      BY <1>1, <2>1 DEF IInv, BadHelloInv, Written, Bit
    <3> QED BY <1>1, <1>5, <2>1, <3>1 DEF IInv, BadHelloInv
  <2>2. CASE s = "acceptor"
    BY <1>1, <1>3, <1>5, <2>2 DEF IInv, BadHelloInv
  <2> QED BY <2>1, <2>2
<1> QED BY <1>5, <1>7, <1>8, <1>9, <1>10 DEF IInv

\* The payload of a frame goes out, and the side goes on to the next step.
LEMMA WritePayloadStep ==
    ASSUME IInv, NEW s \in Sides, WritePayload(s)
    PROVE  IInv'
<1> USE SidesFacts, WritingFacts
<1> DEFINE o == Other(s)
           p == AfterWrite(s)
<1>1. /\ pc[s] \in Writing /\ half[s] = TRUE /\ link
      /\ half' = [half EXCEPT ![s] = FALSE] /\ pc' = [pc EXCEPT ![s] = p]
      /\ UNCHANGED <<link, outcome, inputs, faulted, hung>>
      /\ asked' = asked /\ decision' = decision /\ pings' = pings
      /\ hello' = hello /\ purpose' = purpose /\ policy' = policy
  BY DEF WritePayload, Goto, IInv, PlainInv, inputs, gate
<1>2. PICK kind \in Kinds : /\ hello[s] # "unruly" => kind = Says(s)
                            /\ wire' = [wire EXCEPT ![o] = Append(@, kind)]
  BY DEF WritePayload
<1>3. /\ s = "dialer" => pc[s] \in {"write_hello", "write_intent", "ping", "send_pairing"}
      /\ s = "acceptor" => pc[s] \in {"write_hello", "write_result", "pong"}
      /\ pc[s] \in {"ping", "pong"} => Own(s) = "AuthorizedSession"
      /\ pc[s] = "send_pairing" => Own(s) = "Pairing"
      /\ pc[s] = "write_result" => asked \in Purposes
  BY <1>1 DEF IInv, RoleInv, GateInv, Dialing, Accepting
<1>4. /\ pc[s] = "write_hello" => p = "read_hello"
      /\ pc[s] = "write_intent" => p = "read_result"
      /\ pc[s] = "write_result" =>
            IF decision = "reject" THEN p = "drain"
            ELSE p = IF asked = "AuthorizedSession" THEN "serve" ELSE "receive_pairing"
      /\ pc[s] = "ping" => p = "await_pong"
      /\ pc[s] = "pong" => p = "serve"
      /\ pc[s] = "send_pairing" => p = "paired"
  BY <1>1, <1>3 DEF AfterWrite, Use, Own
<1> HIDE DEF p
<1>5. p \in Steps \ {"connect", "ended"}
  BY <1>1, <1>4 DEF Steps, Reading
<1>6. /\ pc'[s] = p /\ half'[s] = FALSE /\ pc'[o] = pc[o] /\ half'[o] = half[o]
      /\ Written(o)' = Written(o) /\ Taken(o)' = Taken(o) /\ Reach(o)' = Reach(o)
  BY <1>1, <1>5, Still DEF IInv
<1>7. Written(s) \in {1, 3, 5}
  BY <1>1 DEF Written, Bit
<1>8. \/ Written(s)' = Written(s) + 1 /\ Taken(s)' = Taken(s) /\ Reach(s)' >= Reach(s)
      \/ s = "acceptor" /\ pc[s] = "pong" /\ half[s] /\ p = "serve" /\ FALSE = FALSE
  <2>1. CASE s = "dialer"
    BY <1>1, <1>3, <1>4, <1>6, <2>1 DEF Written, Taken, Reach, Bit
  <2>2. CASE s = "acceptor"
    BY <1>1, <1>3, <1>4, <1>6, <2>2 DEF Written, Taken, Reach, Bit
  <2> QED BY <2>1, <2>2
<1>9. kind \in Piece /\ Written(s) + 1 \notin {1, 3, 5}
  BY <1>7 DEF Piece
<1>10. hello[s] # "unruly" => kind = Script(s, Written(s) + 1)
  <2>1. CASE s = "dialer"
    BY <1>1, <1>2, <1>3, <2>1 DEF Written, Bit, Script, Says, Own
  <2>2. CASE s = "acceptor"
    BY <1>1, <1>2, <1>3, <2>2 DEF Written, Bit, Script, Says
  <2> QED BY <2>1, <2>2
<1>11. /\ wire' \in [Sides -> Seq(Piece)] /\ CountInv' /\ ContentInv' /\ EarlyInv'
       /\ wire'[s] = wire[s] /\ Taken(o)' + Len(wire'[o]) = Written(s) + 1
  BY <1>1, <1>2, <1>5, <1>8, <1>9, <1>10, PutStep
<1>12. pings' \in 0..MaxPings /\ pc[s] \notin {"connect", "ended"}
  BY <1>1 DEF IInv, PlainInv
<1>13. PlainInv' /\ LinkInv' /\ RejectInv' /\ ConformingPeersAgree'
  BY <1>1, <1>5, <1>11, <1>12, GoOn
<1>14. RoleInv'
  <2>1. purpose \in Purposes
    BY DEF IInv, PlainInv
  <2>2. CASE s = "dialer"
    BY <1>1, <1>3, <1>4, <1>6, <2>1, <2>2 DEF IInv, RoleInv, Own, Dialing, Purposes
  <2>3. CASE s = "acceptor"
    BY <1>1, <1>3, <1>4, <1>6, <2>1, <2>3 DEF IInv, RoleInv, Own, Accepting, Purposes
  <2> QED BY <2>2, <2>3
<1>15. GateInv'
  <2>1. CASE s = "dialer"
    BY <1>1, <1>3, <1>4, <1>6, <2>1 DEF IInv, GateInv, Admitted, Accepting
  <2>2. CASE s = "acceptor"
    <3>1. pc["acceptor"] = "write_result" => Accepts(hello["acceptor"]) /\ decision \in {"accept", "reject"}
      BY DEF IInv, BadHelloInv, GateInv, PlainInv
    <3> QED BY <1>1, <1>3, <1>4, <1>6, <2>2, <3>1 DEF IInv, GateInv, Admitted, Accepting
  <2> QED BY <2>1, <2>2
<1>16. BadHelloInv'
  <2>1. CASE s = "dialer"
    <3>1. ~Accepts(hello["acceptor"]) => Written(s) = 1 /\ pc[s] = "write_hello"
      BY <1>1, <1>3, <2>1 DEF IInv, BadHelloInv, Written, Bit
    <3> QED BY <1>1, <1>4, <1>6, <1>11, <2>1, <3>1 DEF IInv, BadHelloInv
  <2>2. CASE s = "acceptor"
    <3>1. ~Accepts(hello["acceptor"]) => pc[s] = "write_hello"
      BY <1>1, <1>3, <2>2 DEF IInv, BadHelloInv
    <3>2. pc[s] = "write_hello" => Taken(s)' = Taken(s)
      BY <1>1, <1>4, <1>6 DEF Taken, Bit
    <3> QED BY <1>1, <1>4, <1>6, <1>11, <2>2, <3>1, <3>2 DEF IInv, BadHelloInv
  <2> QED BY <2>1, <2>2
<1> QED BY <1>11, <1>13, <1>14, <1>15, <1>16 DEF IInv

\* The length of a frame comes in.
LEMMA ReadPrefixStep ==
    ASSUME IInv, NEW s \in Sides, ReadPrefix(s)
    PROVE  IInv'
<1> USE SidesFacts
<1> DEFINE o == Other(s)
<1>1. /\ pc[s] \in Reading /\ half[s] = FALSE /\ wire[s] # <<>>
      /\ wire' = [wire EXCEPT ![s] = Tail(@)]
      /\ half' = [half EXCEPT ![s] = TRUE] /\ pc' = [pc EXCEPT ![s] = pc[s]]
      /\ UNCHANGED <<link, outcome, inputs, faulted, hung>>
      /\ pc' = pc /\ asked' = asked /\ decision' = decision /\ pings' = pings /\ pings' \in 0..MaxPings
      /\ hello' = hello /\ purpose' = purpose /\ policy' = policy
  BY DEF ReadPrefix, IInv, PlainInv, inputs, gate
<1>2. half' \in [Sides -> BOOLEAN] /\ half'[s] = TRUE /\ half'[o] = half[o]
  BY <1>1 DEF IInv, PlainInv
<1>3. pc[s] \in Steps \ {"connect", "ended"}
  BY <1>1 DEF IInv, PlainInv, Reading
<1>4. Taken(s)' = Taken(s) + 1 /\ Written(s)' = Written(s) /\ Reach(s)' >= Reach(s)
  BY <1>1, <1>2 DEF Written, Taken, Reach, Bit, Reading
<1>5. /\ wire' \in [Sides -> Seq(Piece)] /\ CountInv' /\ ContentInv' /\ EarlyInv'
      /\ wire'[o] = wire[o] /\ Len(wire'[s]) = Len(wire[s]) - 1
  <2>1. /\ pc[s] \in Steps \ {"ended"} /\ TRUE \in BOOLEAN /\ pc[s] # "ended"
        /\ UNCHANGED <<link, inputs>> /\ decision' = decision
    BY <1>1, <1>3
  <2> DEFINE p == pc[s]
  <2>2. p \in Steps \ {"ended"} /\ pc' = [pc EXCEPT ![s] = p] /\ p = pc[s]
    BY <1>1, <2>1
  <2> HIDE DEF p
  <2> QED BY <1>1, <1>4, <2>1, <2>2, GetStep
<1>6. PlainInv' /\ LinkInv' /\ RejectInv' /\ ConformingPeersAgree'
  BY <1>1, <1>3, <1>5, GoOn
<1>7. RoleInv'
  BY <1>1, <1>2 DEF IInv, RoleInv, Own, Reading
<1>8. GateInv'
  BY <1>1 DEF IInv, GateInv
<1>9. BadHelloInv'
  <2>1. Taken("acceptor") \in 0..6 /\ Len(wire["acceptor"]) \in Nat
    BY PlaceFacts DEF IInv
  <2>2. CASE s = "dialer"
    <3>1. Taken("acceptor")' = Taken("acceptor") /\ wire'["acceptor"] = wire["acceptor"]
      BY <1>1, <1>2, <1>5, <2>2 DEF Taken
    <3> QED BY <1>1, <3>1 DEF IInv, BadHelloInv
  <2>3. CASE s = "acceptor"
    BY <1>1, <1>4, <1>5, <2>1, <2>3 DEF IInv, BadHelloInv
  <2> QED BY <2>2, <2>3
<1> QED BY <1>5, <1>6, <1>7, <1>8, <1>9 DEF IInv

-----------------------------------------------------------------------------
(* Messages are received *)

\* A message is taken and the side goes on to step p.
LEMMA TakeStep ==
    ASSUME IInv, NEW s \in Sides, NEW step \in Reading, NEW p \in Steps \ {"connect", "ended"},
           Receives(s, step), Take(s, p), UNCHANGED <<inputs, faulted, hung, pings>>,
           \/ asked' = asked /\ decision' = decision
           \/ s = "acceptor" /\ decision = "none" /\ decision' \in {"accept", "reject"}
                /\ asked' \in Purposes,
           step # "await_pong",
           Taken(s)' = Taken(s) + 1 /\ Written(s)' = Written(s) /\ Reach(s)' >= Reach(s),
           RoleInv', GateInv', BadHelloInv'
    PROVE  IInv'
<1> USE SidesFacts
<1>1. /\ pc[s] = step /\ half[s] = TRUE /\ wire[s] # <<>>
      /\ wire' = [wire EXCEPT ![s] = Tail(@)]
      /\ half' = [half EXCEPT ![s] = FALSE] /\ pc' = [pc EXCEPT ![s] = p]
      /\ UNCHANGED <<link, outcome, inputs, faulted, hung>>
      /\ UNCHANGED <<link, inputs>> /\ pings' \in 0..MaxPings
  BY DEF Receives, Take, Goto, IInv, PlainInv, inputs
<1>2. pc[s] \notin {"connect", "ended"} /\ p \in Steps \ {"ended"} /\ FALSE \in BOOLEAN
  BY <1>1 DEF Reading
<1>3. /\ p # pc[s] => pc[s] \notin {"await_pong", "paired"} /\ (pc[s] = "serve" => half[s])
      /\ decision' = decision \/ (s = "acceptor" /\ decision = "none")
  <2>1. pc[s] \notin {"await_pong", "paired"}
    BY <1>1 DEF Reading
  <2> QED BY <1>1, <2>1
<1>4. /\ wire' \in [Sides -> Seq(Piece)] /\ CountInv' /\ ContentInv' /\ EarlyInv'
      /\ wire'[Other(s)] = wire[Other(s)]
  BY <1>1, <1>2, <1>3, GetStep
<1>5. PlainInv' /\ LinkInv' /\ RejectInv' /\ ConformingPeersAgree'
  BY <1>1, <1>2, <1>4, GoOn
<1> QED BY <1>4, <1>5 DEF IInv

\* Where a side that received a message stands.
LEMMA TakePlaces ==
    ASSUME IInv, NEW s \in Sides, NEW step \in Reading, NEW p \in Steps,
           Receives(s, step), Take(s, p)
    PROVE  /\ pc[s] = step /\ half[s] = TRUE /\ wire[s] # <<>>
           /\ pc'[s] = p /\ half'[s] = FALSE
           /\ pc'[Other(s)] = pc[Other(s)] /\ half'[Other(s)] = half[Other(s)]
           /\ Taken(Other(s))' = Taken(Other(s))
           /\ wire'[Other(s)] = wire[Other(s)] /\ Len(wire'[s]) = Len(wire[s]) - 1
<1>1. /\ pc[s] = step /\ half[s] = TRUE /\ wire[s] # <<>>
      /\ wire' = [wire EXCEPT ![s] = Tail(@)] /\ wire \in [Sides -> Seq(Piece)]
      /\ half' = [half EXCEPT ![s] = FALSE] /\ pc' = [pc EXCEPT ![s] = p]
  BY DEF Receives, Take, Goto, IInv, PlainInv
<1>2. /\ pc'[s] = p /\ half'[s] = FALSE
      /\ pc'[Other(s)] = pc[Other(s)] /\ half'[Other(s)] = half[Other(s)]
      /\ Taken(Other(s))' = Taken(Other(s))
  BY <1>1, Still DEF IInv
<1>3. wire'[Other(s)] = wire[Other(s)] /\ wire'[s] = Tail(wire[s])
  BY <1>1, SidesFacts
<1>4. Len(Tail(wire[s])) = Len(wire[s]) - 1
  BY <1>1, TakeFacts
<1> QED BY <1>1, <1>2, <1>3, <1>4

\* The Hello of the other side comes in.
LEMMA ReceiveHelloStep ==
    ASSUME IInv, NEW s \in Sides, ReceiveHello(s)
    PROVE  IInv'
<1> USE SidesFacts
<1> DEFINE o == Other(s)
           p == IF s = "dialer" THEN "write_intent" ELSE "receive_intent"
<1>1. /\ Receives(s, "read_hello") /\ UNCHANGED <<inputs, gate, faulted, hung, pings>>
      /\ UNCHANGED <<inputs, gate, hung, pings>> /\ UNCHANGED <<inputs, faulted, hung, pings>>
      /\ faulted' = faulted /\ faulted' \in BOOLEAN /\ asked' = asked /\ decision' = decision
      /\ hello' = hello /\ purpose' = purpose /\ policy' = policy
  BY DEF ReceiveHello, inputs, gate, IInv, PlainInv
<1>2. /\ "read_hello" \in Reading /\ p \in Steps \ {"connect", "ended"} /\ "Fatal" \in Outcomes
  BY WritingFacts DEF Reading, Steps, Outcomes
<1>3. pc[s] = "read_hello" /\ half[s] = TRUE /\ wire[s] # <<>>
  BY <1>1 DEF Receives, IInv, PlainInv
<1>4. Taken(s) = 1
  BY <1>3 DEF Taken, Bit
<1>5. hello[o] # "unruly" => Message(s) = "Hello"
  BY <1>3, <1>4, HeadIs DEF Script
<1>6. s = "acceptor" => decision = "none"
  BY <1>3 DEF IInv, GateInv, Accepting
<1>7. CASE Message(s) = "Hello" /\ validate_hello(hello[o])
  <2>1. Take(s, p) /\ Accepts(hello[o])
    BY <1>7 DEF ReceiveHello, Accepts, validate_hello
  <2>2. /\ pc'[s] = p /\ half'[s] = FALSE /\ pc'[o] = pc[o] /\ half'[o] = half[o]
        /\ Taken(o)' = Taken(o) /\ wire'[o] = wire[o] /\ Len(wire'[s]) = Len(wire[s]) - 1
    <3>1. CASE s = "dialer"
      BY <1>1, <1>2, <2>1, <3>1, TakePlaces, ZenonT(60)
    <3>2. CASE s = "acceptor"
      BY <1>1, <1>2, <2>1, <3>2, TakePlaces, ZenonT(60)
    <3> QED BY <3>1, <3>2
  <2>3. Taken(s)' = 2 /\ Written(s)' = Written(s) /\ Reach(s)' >= Reach(s)
    <3>1. CASE s = "dialer"
      BY <1>3, <2>2, <3>1 DEF Taken, Written, Reach, Bit
    <3>2. CASE s = "acceptor"
      BY <1>3, <2>2, <3>2 DEF Taken, Written, Reach, Bit
    <3> QED BY <3>1, <3>2
  <2>4. RoleInv'
    <3>1. CASE s = "dialer"
      BY <1>1, <2>2, <3>1 DEF IInv, RoleInv, Own, Dialing
    <3>2. CASE s = "acceptor"
      BY <1>1, <2>2, <3>2 DEF IInv, RoleInv, Own, Accepting
    <3> QED BY <3>1, <3>2
  <2>5. GateInv'
    <3>1. CASE s = "dialer"
      BY <1>1, <2>1, <2>2, <3>1 DEF IInv, GateInv, Admitted, Accepting
    <3>2. CASE s = "acceptor"
      BY <1>1, <1>6, <2>1, <2>2, <3>2 DEF IInv, GateInv, Admitted, Accepting
    <3> QED BY <3>1, <3>2
  <2>6. BadHelloInv'
    <3>1. CASE s = "dialer"
      BY <1>1, <2>1, <3>1 DEF BadHelloInv
    <3>2. CASE s = "acceptor"
      <4>1. Len(wire[s]) \in Nat
        BY PlaceFacts DEF IInv
      <4> QED BY <1>1, <1>4, <2>2, <2>3, <3>2, <4>1 DEF IInv, BadHelloInv
    <3> QED BY <3>1, <3>2
  <2>7. Taken(s)' = Taken(s) + 1
    BY <1>4, <2>3
  <2> HIDE DEF p
  <2> QED BY <1>1, <1>2, <2>1, <2>3, <2>4, <2>5, <2>6, <2>7, TakeStep
<1>8. CASE ~(Message(s) = "Hello" /\ validate_hello(hello[o]))
  <2>1. End(s, "Fatal") /\ pc[s] # "ended"
    BY <1>3, <1>8 DEF ReceiveHello
  <2>2. hello[o] # "valid"
    BY <1>5, <1>8 DEF validate_hello
  <2>3. hello["acceptor"] = "valid" => s = "acceptor" /\ decision = "none"
    BY <1>6, <2>2
  <2> QED BY <1>1, <1>2, <2>1, <2>2, <2>3, EndStep
<1> QED BY <1>7, <1>8

\* The purpose of the dialer comes in, and the acceptor decides.
LEMMA ReceiveIntentStep ==
    ASSUME IInv, receive_intent
    PROVE  IInv'
<1> USE SidesFacts
<1> DEFINE s == "acceptor"
<1>1. /\ Receives(s, "receive_intent") /\ UNCHANGED <<inputs, faulted, hung, pings>>
      /\ faulted' = faulted /\ faulted' \in BOOLEAN /\ hung' = hung /\ pings' = pings
      /\ hello' = hello /\ purpose' = purpose /\ policy' = policy
  BY DEF receive_intent, inputs, gate, IInv, PlainInv
<1>2. /\ "receive_intent" \in Reading /\ "write_result" \in Steps \ {"connect", "ended"}
      /\ "Fatal" \in Outcomes
  BY WritingFacts DEF Reading, Steps, Outcomes
<1>3. pc[s] = "receive_intent" /\ half[s] = TRUE /\ wire[s] # <<>>
  BY <1>1 DEF Receives, IInv, PlainInv
<1>4. Taken(s) = 3
  BY <1>3 DEF Taken, Bit
<1>5. hello["dialer"] # "unruly" => Message(s) = purpose /\ purpose \in Purposes
  BY <1>3, <1>4, HeadIs DEF Script, IInv, PlainInv
<1>6. decision = "none" /\ Accepts(hello["dialer"])
  BY <1>3 DEF IInv, GateInv, Accepting
<1>7. CASE Message(s) \in Purposes
  <2>1. /\ Take(s, "write_result") /\ asked' = Message(s) /\ asked' \in Purposes
        /\ decision' = IF asked' = policy THEN "accept" ELSE "reject"
    BY <1>7 DEF receive_intent, purpose_allowed
  <2>2. /\ pc'[s] = "write_result" /\ half'[s] = FALSE /\ pc'["dialer"] = pc["dialer"]
        /\ half'["dialer"] = half["dialer"]
    BY <1>1, <1>2, <2>1, TakePlaces
  <2>3. Taken(s)' = 4 /\ Written(s)' = Written(s) /\ Reach(s)' >= Reach(s)
    BY <1>3, <2>2 DEF Taken, Written, Reach, Bit
  <2>4. RoleInv'
    BY <1>1, <2>2 DEF IInv, RoleInv, Own, Accepting
  <2>5. GateInv'
    BY <1>1, <1>5, <1>6, <2>1, <2>2 DEF IInv, GateInv, Admitted, Accepting
  <2>6. BadHelloInv'
    <3>1. Len(wire[s]) \in Nat
      BY PlaceFacts DEF IInv
    <3> QED BY <1>1, <1>4, <3>1 DEF IInv, BadHelloInv
  <2>7. Taken(s)' = Taken(s) + 1 /\ decision' \in {"accept", "reject"}
    BY <1>4, <2>1, <2>3
  <2> QED BY <1>1, <1>2, <1>6, <2>1, <2>3, <2>4, <2>5, <2>6, <2>7, TakeStep
<1>8. CASE Message(s) \notin Purposes
  <2>1. End(s, "Fatal") /\ pc[s] # "ended" /\ UNCHANGED <<inputs, gate, hung, pings>>
    BY <1>1, <1>3, <1>8 DEF receive_intent
  <2>2. hello["dialer"] # "valid"
    BY <1>5, <1>8
  <2> QED BY <1>1, <1>2, <1>6, <2>1, <2>2, EndStep
<1> QED BY <1>7, <1>8

\* The answer to the purpose comes in.
LEMMA RequestIntentStep ==
    ASSUME IInv, request_intent
    PROVE  IInv'
<1> USE SidesFacts
<1> DEFINE s == "dialer"
           p == Use(s)
<1>1. /\ Receives(s, "read_result") /\ UNCHANGED <<inputs, faulted, hung, pings>>
      /\ UNCHANGED <<inputs, gate, hung, pings>> /\ asked' = asked /\ decision' = decision
      /\ faulted' = faulted /\ faulted' \in BOOLEAN /\ hung' = hung /\ pings' = pings
      /\ hello' = hello /\ purpose' = purpose /\ policy' = policy
  BY DEF request_intent, inputs, gate, IInv, PlainInv
<1>2. /\ "read_result" \in Reading /\ p \in Steps \ {"connect", "ended"}
      /\ {"Fatal", "IntentRejected"} \subseteq Outcomes
      /\ p = IF purpose = "AuthorizedSession" THEN "serve" ELSE "send_pairing"
  BY WritingFacts DEF Reading, Steps, Outcomes, Use, Own
<1>3. pc[s] = "read_result" /\ half[s] = TRUE /\ wire[s] # <<>> /\ purpose \in Purposes
  BY <1>1 DEF Receives, IInv, PlainInv
<1>4. Taken(s) = 3
  BY <1>3 DEF Taken, Bit
<1>5. hello["acceptor"] # "unruly" => Message(s) = decision
  BY <1>3, <1>4, HeadIs DEF Script
<1>6. Accepts(hello["acceptor"]) /\ decision \in {"accept", "reject"}
  <2>1. wire[s] \in Seq(Piece)
    BY DEF IInv, PlainInv
  <2>2. Len(wire[s]) \in Nat /\ Len(wire[s]) > 0
    BY <1>3, <2>1, TakeFacts
  <2>3. decision # "none"
    BY <1>4, <2>2 DEF IInv, EarlyInv
  <2> QED BY <1>3, <2>3 DEF IInv, GateInv, PlainInv
<1>7. CASE Message(s) = "accept"
  <2>1. Take(s, p)
    BY <1>7 DEF request_intent, Results
  <2> HIDE DEF p
  <2>2. /\ pc'[s] = p /\ half'[s] = FALSE /\ pc'["acceptor"] = pc["acceptor"]
        /\ half'["acceptor"] = half["acceptor"]
    BY <1>1, <1>2, <2>1, TakePlaces
  <2>3. Taken(s)' = 4 /\ Written(s)' = Written(s) /\ Reach(s)' >= Reach(s)
    BY <1>2, <1>3, <2>2 DEF Taken, Written, Reach, Bit
  <2>4. RoleInv'
    BY <1>1, <1>2, <1>3, <2>2 DEF IInv, RoleInv, Own, Dialing, Purposes
  <2>5. GateInv'
    BY <1>1, <1>2, <1>5, <1>6, <1>7, <2>2 DEF IInv, GateInv, Admitted, Accepting
  <2>6. BadHelloInv'
    BY <1>1, <1>6 DEF BadHelloInv
  <2>7. Taken(s)' = Taken(s) + 1
    BY <1>4, <2>3
  <2> QED BY <1>1, <1>2, <2>1, <2>3, <2>4, <2>5, <2>6, <2>7, TakeStep
<1>8. CASE Message(s) = "reject"
  <2>1. End(s, "IntentRejected") /\ pc[s] # "ended"
    BY <1>3, <1>8 DEF request_intent, Results
  <2> QED BY <1>1, <1>2, <1>6, <2>1, EndStep
<1>9. CASE Message(s) \notin Results
  <2>1. End(s, "Fatal") /\ pc[s] # "ended"
    BY <1>3, <1>9 DEF request_intent, Results
  <2>2. hello["acceptor"] # "valid"
    BY <1>5, <1>6, <1>9 DEF Results
  <2> QED BY <1>1, <1>2, <2>1, <2>2, EndStep
<1> QED BY <1>7, <1>8, <1>9 DEF Results

\* The acceptor of a session gets a ping; a dialer in use gets nothing here.
LEMMA ServeStep ==
    ASSUME IInv, NEW s \in Sides, serve_authorized_control(s)
    PROVE  IInv'
<1> USE SidesFacts
<1>1. /\ Receives(s, "serve") /\ UNCHANGED <<inputs, faulted, hung, pings>>
      /\ UNCHANGED <<inputs, gate, hung, pings>> /\ asked' = asked /\ decision' = decision
      /\ faulted' = faulted /\ faulted' \in BOOLEAN /\ hung' = hung /\ pings' = pings
      /\ hello' = hello /\ purpose' = purpose /\ policy' = policy
  BY DEF serve_authorized_control, inputs, gate, IInv, PlainInv
<1>2. /\ "serve" \in Reading /\ "pong" \in Steps \ {"connect", "ended"} /\ "Fatal" \in Outcomes
  BY WritingFacts DEF Reading, Steps, Outcomes
<1>3. pc[s] = "serve" /\ half[s] = TRUE /\ wire[s] # <<>>
  BY <1>1 DEF Receives, IInv, PlainInv
<1>4. Taken(s) = 5 /\ Taken(s) + 1 <= Reach(s)
  BY <1>3, HeadIs DEF Taken, Bit
<1>5. s = "acceptor"
  BY <1>3, <1>4 DEF Reach
<1>6. /\ asked = "AuthorizedSession" /\ decision = "accept" /\ Accepts(hello["acceptor"])
      /\ hello["dialer"] # "unruly" => purpose = "AuthorizedSession"
  BY <1>3, <1>5 DEF IInv, RoleInv, Own, GateInv, Admitted
<1>7. hello["dialer"] # "unruly" => Message(s) = "Ping"
  BY <1>3, <1>4, <1>5, <1>6, HeadIs DEF Script
<1>8. CASE Message(s) = "Ping"
  <2>1. Take(s, "pong")
    BY <1>8 DEF serve_authorized_control
  <2>2. /\ pc'["acceptor"] = "pong" /\ half'["acceptor"] = FALSE /\ pc'["dialer"] = pc["dialer"]
        /\ half'["dialer"] = half["dialer"]
    BY <1>1, <1>2, <1>5, <2>1, TakePlaces
  <2>3. Taken(s)' = Taken(s) + 1 /\ Written(s)' = Written(s) /\ Reach(s)' >= Reach(s)
    BY <1>3, <1>5, <2>2 DEF Taken, Written, Reach, Bit
  <2>4. RoleInv'
    BY <1>1, <1>6, <2>2 DEF IInv, RoleInv, Own, Accepting
  <2>5. GateInv'
    BY <1>1, <1>6, <2>2 DEF IInv, GateInv, Admitted, Accepting
  <2>6. BadHelloInv'
    BY <1>1, <1>6 DEF BadHelloInv
  <2> QED BY <1>1, <1>2, <2>1, <2>3, <2>4, <2>5, <2>6, TakeStep
<1>9. CASE Message(s) # "Ping"
  <2>1. End(s, "Fatal") /\ pc[s] # "ended"
    BY <1>3, <1>9 DEF serve_authorized_control
  <2>2. hello["dialer"] # "valid"
    BY <1>7, <1>9
  <2> QED BY <1>1, <1>2, <1>6, <2>1, <2>2, EndStep
<1> QED BY <1>8, <1>9

\* The first pairing message comes in.
LEMMA ReceivePairingStep ==
    ASSUME IInv, receive_pairing
    PROVE  IInv'
<1> USE SidesFacts
<1> DEFINE s == "acceptor"
<1>1. /\ Receives(s, "receive_pairing") /\ UNCHANGED <<inputs, faulted, hung, pings>>
      /\ UNCHANGED <<inputs, gate, hung, pings>> /\ asked' = asked /\ decision' = decision
      /\ faulted' = faulted /\ faulted' \in BOOLEAN /\ hung' = hung /\ pings' = pings
      /\ hello' = hello /\ purpose' = purpose /\ policy' = policy
  BY DEF receive_pairing, inputs, gate, IInv, PlainInv
<1>2. /\ "receive_pairing" \in Reading /\ "paired" \in Steps \ {"connect", "ended"}
      /\ "Fatal" \in Outcomes
  BY DEF Reading, Steps, Outcomes
<1>3. pc[s] = "receive_pairing" /\ half[s] = TRUE /\ wire[s] # <<>>
  BY <1>1 DEF Receives, IInv, PlainInv
<1>4. Taken(s) = 5
  BY <1>3 DEF Taken, Bit
<1>5. /\ asked = "Pairing" /\ decision = "accept" /\ Accepts(hello["acceptor"])
      /\ hello["dialer"] # "unruly" => purpose = "Pairing"
  BY <1>3 DEF IInv, RoleInv, Own, GateInv, Admitted
<1>6. hello["dialer"] # "unruly" => Message(s) = "PairingRequest"
  BY <1>3, <1>4, <1>5, HeadIs DEF Script
<1>7. CASE Message(s) = "PairingRequest"
  <2>1. Take(s, "paired")
    BY <1>7 DEF receive_pairing
  <2>2. /\ pc'["acceptor"] = "paired" /\ half'["acceptor"] = FALSE /\ pc'["dialer"] = pc["dialer"]
        /\ half'["dialer"] = half["dialer"]
    BY <1>1, <1>2, <2>1, TakePlaces
  <2>3. Taken(s)' = Taken(s) + 1 /\ Written(s)' = Written(s) /\ Reach(s)' >= Reach(s)
    BY <1>3, <2>2 DEF Taken, Written, Reach, Bit
  <2>4. RoleInv'
    BY <1>1, <1>5, <2>2 DEF IInv, RoleInv, Own, Accepting
  <2>5. GateInv'
    BY <1>1, <1>5, <2>2 DEF IInv, GateInv, Admitted, Accepting
  <2>6. BadHelloInv'
    BY <1>1, <1>5 DEF BadHelloInv
  <2> QED BY <1>1, <1>2, <2>1, <2>3, <2>4, <2>5, <2>6, TakeStep
<1>8. CASE Message(s) # "PairingRequest"
  <2>1. End(s, "Fatal") /\ pc[s] # "ended"
    BY <1>3, <1>8 DEF receive_pairing
  <2>2. hello["dialer"] # "valid"
    BY <1>6, <1>8
  <2> QED BY <1>1, <1>2, <1>5, <2>1, <2>2, EndStep
<1> QED BY <1>7, <1>8

\* The pong comes in: it was the last piece on the wire, and both sides start
\* the frame of the next ping over.
LEMMA ReceivePongStep ==
    ASSUME IInv, ReceivePong
    PROVE  IInv'
<1> USE SidesFacts
<1> DEFINE s == "dialer"
           o == "acceptor"
<1>1. /\ Receives(s, "await_pong") /\ UNCHANGED <<inputs, faulted, hung, pings>>
      /\ UNCHANGED <<inputs, gate, hung, pings>> /\ asked' = asked /\ decision' = decision
      /\ faulted' = faulted /\ faulted' \in BOOLEAN /\ hung' = hung /\ pings' \in 0..MaxPings
      /\ hello' = hello /\ purpose' = purpose /\ policy' = policy
  BY DEF ReceivePong, inputs, gate, IInv, PlainInv
<1>2. /\ "await_pong" \in Reading /\ "serve" \in Steps \ {"connect", "ended"}
      /\ "Fatal" \in Outcomes
  BY DEF Reading, Steps, Outcomes
<1>3. pc[s] = "await_pong" /\ half[s] = TRUE /\ wire[s] # <<>>
  BY <1>1 DEF Receives, IInv, PlainInv
<1>4. Taken(s) = 5 /\ Written(s) = 6 /\ Reach(s) = 6
  BY <1>3 DEF Taken, Written, Reach, Bit
<1>5. /\ purpose = "AuthorizedSession" /\ Accepts(hello["acceptor"])
      /\ hello["acceptor"] # "unruly" => decision = "accept"
  BY <1>3 DEF IInv, RoleInv, Own, GateInv, Admitted
<1>6. hello["acceptor"] # "unruly" => Message(s) = "Pong"
  BY <1>3, <1>4, HeadIs DEF Script
<1>7. CASE Message(s) = "Pong"
  <2>1. Take(s, "serve")
    BY <1>7 DEF ReceivePong
  <2>2. /\ pc'[s] = "serve" /\ half'[s] = FALSE /\ pc'[o] = pc[o] /\ half'[o] = half[o]
        /\ wire'[o] = wire[o] /\ Len(wire'[s]) = Len(wire[s]) - 1
    BY <1>1, <1>2, <2>1, TakePlaces
  <2>3. /\ wire' = [wire EXCEPT ![s] = Tail(@)] /\ wire \in [Sides -> Seq(Piece)]
        /\ half' = [half EXCEPT ![s] = FALSE] /\ pc' = [pc EXCEPT ![s] = "serve"]
        /\ UNCHANGED <<link, outcome, inputs, faulted, hung>> /\ link' = link
    BY <1>1, <2>1 DEF Take, Goto, IInv, PlainInv
  <2>4. wire'[s] \in Seq(Piece) /\ Len(wire[s]) \in Nat /\ Len(wire[s]) > 0
    BY <1>3, <2>3, TakeFacts
  <2>5. wire' \in [Sides -> Seq(Piece)]
    BY <2>2, <2>3, <2>4
  <2>6. Len(wire[s]) = 1 /\ Len(wire'[s]) = 0
    <3>1. Taken(s) + Len(wire[s]) <= Reach(s)
      BY <1>3 DEF IInv, ContentInv
    <3>2. 5 + Len(wire[s]) <= 6
      BY <1>4, <3>1
    <3>3. Len(wire[s]) = 1
      <4> DEFINE len == Len(wire[s])
      <4>1. len \in Nat /\ len > 0 /\ 5 + len <= 6
        BY <2>4, <3>2
      <4> HIDE DEF len
      <4>2. len = 1
        BY <4>1
      <4> QED BY <4>2 DEF len
    <3> QED BY <2>2, <3>3
  <2>7. /\ Written(s)' = 4 /\ Taken(s)' = 4 /\ Reach(s)' = 4
        /\ Written(o)' = Written(o) /\ Taken(o)' = Taken(o) /\ Reach(o)' = Reach(o)
    BY <2>2 DEF Written, Taken, Reach, Bit
  <2>8. CountInv'
    <3> SUFFICES ASSUME link
                 PROVE  /\ Len(wire'["acceptor"]) = Written("dialer")' - Taken("acceptor")' - 0
                        /\ Len(wire'["dialer"]) = Written("acceptor")' - Taken("dialer")' + 0
      BY <2>3 DEF CountInv
    <3>1. PICK late \in {0, 2} :
            /\ late = 2 => pc["dialer"] \in {"await_pong", "paired"} /\ pc["acceptor"] = "serve"
            /\ Len(wire["acceptor"]) = Written("dialer") - Taken("acceptor") - late
            /\ Len(wire["dialer"]) = Written("acceptor") - Taken("dialer") + late
      BY DEF IInv, CountInv
    <3>2. Written(o) \in 0..5 /\ Taken(o) \in 0..6 /\ Len(wire[o]) \in Nat
      <4>1. Written(o) # 6
        BY DEF IInv, RoleInv, Own, Accepting, Written, Bit
      <4> QED BY <4>1, PlaceFacts DEF IInv
    <3>3. late = 2
      <4>1. 1 = Written(o) - 5 + late
        BY <1>4, <2>6, <3>1
      <4>2. late # 0
        BY <3>2, <4>1
      <4> QED BY <4>2
    <3>4. Written(o) = 4
      <4>1. 1 = Written(o) - 5 + 2
        BY <1>4, <2>6, <3>1, <3>3
      <4> QED BY <3>2, <4>1
    <3> QED BY <1>4, <2>2, <2>6, <2>7, <3>1, <3>2, <3>3, <3>4
  <2>9. ContentInv'
    <3>1. pc'[o] # "ended" => Taken(o)' + Len(wire'[o]) <= Reach(o)'
      BY <2>2, <2>7 DEF IInv, ContentInv
    <3>2. ASSUME NEW n \in 1 .. Len(wire'[o])
          PROVE  /\ wire'[o][n] \in IF Taken(o)' + n \in {1, 3, 5} THEN {"length"} ELSE Kinds
                 /\ hello'[s] # "unruly" => wire'[o][n] = Script(s, Taken(o) + n)'
      <4>1. Script(s, Taken(o) + n)' = Script(s, Taken(o) + n)
        BY <1>1, <2>7 DEF Script
      <4> QED BY <1>1, <2>2, <2>7, <4>1 DEF IInv, ContentInv
    <3> QED BY <2>6, <2>7, <3>1, <3>2 DEF ContentInv
  <2>10. pc[s] \notin {"connect", "ended"} /\ FALSE \in BOOLEAN
    BY <1>3
  <2>11. PlainInv' /\ LinkInv' /\ RejectInv' /\ ConformingPeersAgree'
    BY <1>1, <1>2, <1>3, <2>2, <2>3, <2>5, <2>10, GoOn
  <2>12. RoleInv'
    BY <1>1, <1>5, <2>2 DEF IInv, RoleInv, Own, Dialing
  <2>13. GateInv'
    BY <1>1, <1>5, <2>2 DEF IInv, GateInv, Admitted, Accepting
  <2>14. BadHelloInv'
    BY <1>1, <1>5 DEF BadHelloInv
  <2>15. EarlyInv'
    BY <1>1, <1>4, <2>4 DEF IInv, EarlyInv
  <2> QED BY <2>8, <2>9, <2>11, <2>12, <2>13, <2>14, <2>15 DEF IInv
<1>8. CASE Message(s) # "Pong"
  <2>1. End(s, "Fatal") /\ pc[s] # "ended"
    BY <1>3, <1>8 DEF ReceivePong
  <2>2. hello["acceptor"] # "valid"
    BY <1>6, <1>8
  <2> QED BY <1>1, <1>2, <2>1, <2>2, EndStep
<1> QED BY <1>7, <1>8

-----------------------------------------------------------------------------
(* Ends, and steps without a message *)

\* A side refuses its own Hello before it has written anything.
LEMMA OwnHelloStep ==
    ASSUME IInv, NEW s \in Sides, OwnHelloInvalid(s)
    PROVE  IInv'
<1> USE SidesFacts
<1>1. /\ pc[s] = "write_hello" /\ pc[s] # "ended" /\ hello[s] = "oversized" /\ End(s, "Fatal")
      /\ UNCHANGED <<inputs, gate, hung, pings>> /\ faulted' = faulted
      /\ faulted' \in BOOLEAN /\ "Fatal" \in Outcomes
  BY DEF OwnHelloInvalid, IInv, PlainInv, Outcomes
<1>2. half[s] = FALSE
  BY <1>1 DEF IInv, RoleInv, Own, PlainInv
<1>3. Written(s) = 0
  BY <1>1, <1>2 DEF Written, Bit
<1>4. s = "acceptor" => decision = "none"
  BY <1>1 DEF IInv, GateInv, Accepting
<1>5. ASSUME s = "dialer", ~faulted, hello["acceptor"] = "valid"
      PROVE  /\ pc["acceptor"] # "ended" => Taken("acceptor") = 0 /\ wire["acceptor"] = <<>>
             /\ decision # "reject"
  <2>1. CASE link
    <3>1. Taken("acceptor") + Len(wire["acceptor"]) = 0
      BY <1>1, <1>3, <1>5, <2>1, Room, WritingFacts
    <3>2. Taken("acceptor") \in 0..6 /\ Len(wire["acceptor"]) \in Nat
      BY PlaceFacts DEF IInv
    <3>3. Taken("acceptor") = 0 /\ Len(wire["acceptor"]) = 0
      BY <3>1, <3>2
    <3>4. wire["acceptor"] = <<>>
      BY <3>3, EmptySeq DEF IInv, PlainInv
    <3>5. pc["acceptor"] \notin {"write_result", "drain", "ended"}
      BY <2>1, <3>3 DEF Taken, IInv, LinkInv
    <3>6. decision # "reject"
      BY <3>5 DEF IInv, RoleInv, Own, GateInv, Admitted, Accepting
    <3> QED BY <3>3, <3>4, <3>6
  <2>2. CASE ~link
    BY <1>1, <1>5, <2>2 DEF IInv, RejectInv
  <2> QED BY <2>1, <2>2
<1>6. \E x \in Sides : hello[x] # "valid"
  BY <1>1
<1> QED BY <1>1, <1>4, <1>5, <1>6, EndStep

\* A side finds the connection gone.
LEMMA LostStep ==
    ASSUME IInv, NEW s \in Sides, Lost(s)
    PROVE  IInv'
<1> USE SidesFacts
<1>0. PICK result \in {"Retryable", "Failed"} : End(s, result)
  BY DEF Lost
<1>1. /\ pc[s] \notin {"connect", "ended"} /\ ~link
      /\ UNCHANGED <<inputs, gate, hung, pings>> /\ faulted' = faulted
      /\ faulted' \in BOOLEAN /\ result \in Outcomes /\ result # "Fatal"
  BY DEF Lost, Runs, IInv, PlainInv, Outcomes
<1>2. s = "dialer" /\ ~faulted => pc["acceptor"] = "ended"
  BY <1>1 DEF IInv, RejectInv
<1>3. ~faulted /\ hello["acceptor"] = "valid" /\ decision = "reject" => pc["dialer"] = "ended"
  BY <1>1 DEF IInv, RejectInv
<1> QED BY <1>0, <1>1, <1>2, <1>3, EndStep

\* A rejected dialer has closed, and the acceptor stops waiting for it.
LEMMA DrainedStep ==
    ASSUME IInv, Drained
    PROVE  IInv'
<1> USE SidesFacts
<1>1. /\ pc["acceptor"] = "drain" /\ ~link /\ End("acceptor", "Rejected")
      /\ pc["acceptor"] # "ended"
      /\ UNCHANGED <<inputs, gate, hung, pings>> /\ faulted' = faulted
      /\ faulted' \in BOOLEAN /\ "Rejected" \in Outcomes /\ "Rejected" # "Fatal"
  BY DEF Drained, IInv, PlainInv, Outcomes
<1>2. ~faulted /\ hello["acceptor"] = "valid" /\ decision = "reject" => pc["dialer"] = "ended"
  BY <1>1 DEF IInv, RejectInv
<1> QED BY <1>1, <1>2, EndStep

\* A deadline passes, the owner drops the connection, or the dial fails.
LEMMA CutOffStep ==
    ASSUME IInv, NEW s \in Sides, TimesOut(s) \/ Dropped(s) \/ (s = "dialer" /\ ConnectFails)
    PROVE  IInv'
<1>1. PICK result \in {"Rejected", "Retryable", "Failed", "Dropped"} : End(s, result)
  BY DEF TimesOut, Dropped, ConnectFails
<1>2. /\ pc[s] # "ended" /\ UNCHANGED <<inputs, gate, hung, pings>> /\ faulted' = TRUE
      /\ faulted' \in BOOLEAN /\ result \in Outcomes /\ result # "Fatal"
  BY <1>1 DEF TimesOut, Dropped, ConnectFails, Runs, Outcomes
<1> QED BY <1>1, <1>2, EndStep

\* The dialer knows no route: nothing was ever dialled.
LEMMA UnresolvedStep ==
    ASSUME IInv, Unresolved
    PROVE  IInv'
<1> USE SidesFacts
<1>1. /\ pc["dialer"] = "connect" /\ pc' = [pc EXCEPT !["dialer"] = "ended"]
      /\ outcome' = [outcome EXCEPT !["dialer"] = "Unresolved"]
      /\ half' = half /\ wire' = wire /\ link' = link /\ asked' = asked /\ decision' = decision
      /\ faulted' = faulted /\ hung' = hung /\ pings' = pings
      /\ hello' = hello /\ purpose' = purpose /\ policy' = policy
  BY DEF Unresolved, Goto, inputs, gate
<1>2. /\ link = FALSE /\ wire["dialer"] = <<>> /\ wire["acceptor"] = <<>>
      /\ pc["acceptor"] \in {"accept", "ended"} /\ half["dialer"] = FALSE
  BY <1>1, WritingFacts DEF IInv, LinkInv, RoleInv, Own, PlainInv, Reading
<1>3. /\ pc' \in [Sides -> Steps] /\ outcome' \in [Sides -> Outcomes]
      /\ pc'["dialer"] = "ended" /\ pc'["acceptor"] = pc["acceptor"]
      /\ outcome'["dialer"] = "Unresolved" /\ outcome'["acceptor"] = outcome["acceptor"]
  BY <1>1 DEF IInv, PlainInv, Steps, Outcomes
<1>4. Len(<<>>) = 0
  BY EmptySeq
<1>5. Taken("acceptor")' = 0 /\ Taken("acceptor") = 0 /\ Reach("acceptor")' = Reach("acceptor")
  BY <1>1, <1>2, <1>3 DEF Taken, Reach
<1>6. PlainInv'
  BY <1>1, <1>3 DEF IInv, PlainInv
<1>7. RoleInv'
  BY <1>1, <1>2, <1>3 DEF IInv, RoleInv, Own
<1>8. LinkInv' /\ CountInv'
  BY <1>1, <1>2, <1>3 DEF LinkInv, CountInv
<1>14. EarlyInv'
  BY <1>1, <1>2, <1>3, <1>4 DEF EarlyInv, Taken
<1>9. ContentInv'
  <2>1. pc'["acceptor"] # "ended" => Taken("acceptor")' + Len(wire'["acceptor"]) <= Reach("acceptor")'
    BY <1>1, <1>3, <1>5 DEF IInv, ContentInv
  <2> QED BY <1>1, <1>2, <1>3, <1>4, <2>1 DEF ContentInv
<1>10. GateInv'
  BY <1>1, <1>3 DEF IInv, GateInv, Admitted
<1>11. BadHelloInv'
  BY <1>1, <1>3, <1>5 DEF IInv, BadHelloInv
<1>12. RejectInv'
  BY <1>1, <1>2, <1>3, <1>5 DEF IInv, RejectInv
<1>13. ConformingPeersAgree'
  BY <1>1, <1>3 DEF IInv, ConformingPeersAgree
<1> QED BY <1>6, <1>7, <1>8, <1>9, <1>10, <1>11, <1>12, <1>13, <1>14 DEF IInv

\* The connection opens between a dialer that connects and an acceptor that
\* accepts.
LEMMA DialStep ==
    ASSUME IInv, dial
    PROVE  IInv'
<1> USE SidesFacts
<1>1. /\ pc["dialer"] = "connect" /\ pc["acceptor"] = "accept" /\ link' = TRUE
      /\ pc' = [pc EXCEPT !["dialer"] = "open_control"]
      /\ half' = half /\ wire' = wire /\ outcome' = outcome /\ asked' = asked /\ decision' = decision
      /\ faulted' = faulted /\ hung' = hung /\ pings' = pings
      /\ hello' = hello /\ purpose' = purpose /\ policy' = policy
      /\ UNCHANGED <<half, wire, inputs>>
  BY DEF dial, Goto, inputs, gate
<1>2. wire["dialer"] = <<>> /\ wire["acceptor"] = <<>> /\ decision = "none"
  BY <1>1 DEF IInv, LinkInv, GateInv, Accepting
<1>3. /\ pc' \in [Sides -> Steps] /\ "open_control" \in Steps \ {"ended"}
      /\ pc'["dialer"] = "open_control" /\ pc'["acceptor"] = "accept"
  BY <1>1 DEF IInv, PlainInv, Steps
<1>4. /\ \A y \in Sides : Written(y) = 0 /\ Taken(y) = 0 /\ wire[y] = <<>>
      /\ Written("dialer")' = Written("dialer") /\ Taken("dialer")' = Taken("dialer")
      /\ Reach("dialer")' >= Reach("dialer") /\ Taken("acceptor")' = Taken("acceptor")
  BY <1>1, <1>2, <1>3 DEF Written, Taken, Reach
<1>5. CountInv' /\ ContentInv' /\ EarlyInv'
  BY <1>1, <1>3, <1>4, GoStep
<1>6. PlainInv'
  BY <1>1, <1>3 DEF IInv, PlainInv
<1>7. RoleInv'
  BY <1>1, <1>3, WritingFacts DEF IInv, RoleInv, Own, Dialing, Reading
<1>8. LinkInv'
  BY <1>1, <1>3 DEF LinkInv
<1>9. GateInv'
  BY <1>1, <1>3 DEF IInv, GateInv, Admitted
<1>10. BadHelloInv'
  BY <1>1, <1>3, <1>4 DEF IInv, BadHelloInv
<1>11. RejectInv'
  BY <1>1, <1>3 DEF RejectInv
<1>12. ConformingPeersAgree'
  BY <1>1 DEF IInv, ConformingPeersAgree
<1> QED BY <1>5, <1>6, <1>7, <1>8, <1>9, <1>10, <1>11, <1>12 DEF IInv

\* A side goes on without a frame: the control stream opens, the acceptor
\* takes the connection and its stream, a ping starts.
LEMMA GoOnStep ==
    ASSUME IInv, open_control \/ accept \/ accept_control \/ StartPing
    PROVE  IInv'
<1> USE SidesFacts
<1>1. PICK s \in Sides, p \in Steps :
        /\ pc' = [pc EXCEPT ![s] = p] /\ (link \/ wire[s] # <<>>) /\ half[s] = FALSE
        /\ \/ s = "dialer" /\ pc[s] = "open_control" /\ p = "write_hello" /\ pings' = pings
           \/ s = "acceptor" /\ pc[s] = "accept" /\ p = "accept_control" /\ pings' = pings
           \/ s = "acceptor" /\ pc[s] = "accept_control" /\ p = "write_hello" /\ pings' = pings
           \/ s = "dialer" /\ pc[s] = "serve" /\ p = "ping" /\ pings' \in 0..MaxPings
  <2>1. {"write_hello", "accept_control", "ping"} \subseteq Steps
    BY WritingFacts DEF Steps
  <2>2. half["dialer"] \in BOOLEAN /\ half["acceptor"] \in BOOLEAN /\ pings \in 0..MaxPings
    BY DEF IInv, PlainInv
  <2>3. CASE open_control
    <3>1. half["dialer"] = FALSE
      BY <2>2, <2>3, WritingFacts DEF open_control, IInv, RoleInv, Own, Reading
    <3> QED BY <2>1, <2>3, <3>1 DEF open_control, Goto
  <2>4. CASE accept
    <3>1. half["acceptor"] = FALSE
      BY <2>2, <2>4, WritingFacts DEF accept, IInv, RoleInv, Own, Reading
    <3> QED BY <2>1, <2>4, <3>1 DEF accept, Goto
  <2>5. CASE accept_control
    <3>1. half["acceptor"] = FALSE
      BY <2>2, <2>5, WritingFacts DEF accept_control, IInv, RoleInv, Own, Reading
    <3> QED BY <2>1, <2>5, <3>1 DEF accept_control, Goto
  <2>6. CASE StartPing
    <3>1. pings' \in 0..MaxPings
      <4>1. pings' = pings + 1 /\ pings < MaxPings /\ MaxPings \in Nat
        BY <2>6, BootstrapAssumption DEF StartPing
      <4> QED BY <2>2, <4>1
    <3> QED BY <2>1, <2>2, <2>6, <3>1 DEF StartPing, Goto
  <2> QED BY <2>3, <2>4, <2>5, <2>6
<1> DEFINE o == Other(s)
<1>2. /\ half' = half /\ wire' = wire /\ UNCHANGED <<half, wire, inputs>>
      /\ UNCHANGED <<link, outcome, inputs, faulted, hung>> /\ link' = link
      /\ asked' = asked /\ decision' = decision /\ hello' = hello /\ purpose' = purpose /\ policy' = policy
  BY DEF open_control, accept, accept_control, StartPing, inputs, gate
<1>3. pc'[s] = p /\ pc'[o] = pc[o] /\ p \in Steps \ {"connect", "ended"} /\ p \in Steps \ {"ended"}
  BY <1>1 DEF IInv, PlainInv
<1>4. /\ Written(s)' = Written(s) /\ Taken(s)' = Taken(s) /\ Reach(s)' >= Reach(s)
      /\ Taken(o)' = Taken(o)
  <2>1. CASE s = "dialer"
    BY <1>1, <1>2, <1>3, <2>1 DEF Written, Taken, Reach, Bit
  <2>2. CASE s = "acceptor"
    BY <1>1, <1>2, <1>3, <2>2 DEF Written, Taken, Reach, Bit
  <2> QED BY <2>1, <2>2
<1>5. /\ pc[s] \notin {"connect", "ended"} /\ pc[s] # "ended"
      /\ pc[s] \notin {"await_pong", "paired"} /\ (s = "acceptor" => pc[s] # "serve")
  BY <1>1
<1>6. CountInv' /\ ContentInv' /\ EarlyInv'
  BY <1>1, <1>2, <1>3, <1>4, <1>5, GoStep
<1>7. half' = [half EXCEPT ![s] = FALSE] /\ wire' \in [Sides -> Seq(Piece)] /\ pings' \in 0..MaxPings
  BY <1>1, <1>2 DEF IInv, PlainInv
<1>8. PlainInv' /\ LinkInv' /\ RejectInv' /\ ConformingPeersAgree'
  BY <1>1, <1>2, <1>3, <1>5, <1>7, GoOn
<1>9. RoleInv'
  <2>1. CASE s = "dialer"
    BY <1>1, <1>2, <1>3, <2>1 DEF IInv, RoleInv, Own, Dialing
  <2>2. CASE s = "acceptor"
    BY <1>1, <1>2, <1>3, <2>2 DEF IInv, RoleInv, Own, Accepting
  <2> QED BY <2>1, <2>2
<1>10. GateInv'
  <2>1. CASE s = "dialer"
    BY <1>1, <1>2, <1>3, <2>1 DEF IInv, GateInv, Admitted
  <2>2. CASE s = "acceptor"
    BY <1>1, <1>2, <1>3, <2>2 DEF IInv, GateInv, Admitted, Accepting
  <2> QED BY <2>1, <2>2
<1>11. BadHelloInv'
  <2>1. Taken("acceptor")' = Taken("acceptor")
    BY <1>4
  <2>2. CASE s = "dialer"
    <3>1. pc[s] = "serve" => Accepts(hello["acceptor"])
      BY DEF IInv, GateInv, Admitted
    <3> QED BY <1>1, <1>2, <1>3, <2>1, <2>2, <3>1 DEF IInv, BadHelloInv
  <2>3. CASE s = "acceptor"
    BY <1>1, <1>2, <1>3, <2>1, <2>3 DEF IInv, BadHelloInv
  <2> QED BY <2>2, <2>3
<1> QED BY <1>6, <1>8, <1>9, <1>10, <1>11 DEF IInv

\* A side stops without a word.
LEMMA HangsStep ==
    ASSUME IInv, NEW s \in Sides, Hangs(s)
    PROVE  IInv'
<1>1. /\ hung' = {s} /\ faulted' = TRUE
      /\ pc' = pc /\ half' = half /\ wire' = wire /\ link' = link /\ outcome' = outcome
      /\ asked' = asked /\ decision' = decision /\ pings' = pings
      /\ hello' = hello /\ purpose' = purpose /\ policy' = policy
  BY DEF Hangs, inputs, gate
<1>2. \A x \in Sides : Written(x)' = Written(x) /\ Taken(x)' = Taken(x) /\ Reach(x)' = Reach(x)
  BY <1>1 DEF Written, Taken, Reach
<1>3. PlainInv' /\ RejectInv'
  BY <1>1 DEF IInv, PlainInv, RejectInv
<1>4. RoleInv' /\ LinkInv' /\ GateInv' /\ ConformingPeersAgree'
  BY <1>1 DEF IInv, RoleInv, Own, LinkInv, GateInv, ConformingPeersAgree
<1>5. CountInv' /\ EarlyInv' /\ BadHelloInv'
  BY <1>1, <1>2, SidesFacts DEF IInv, CountInv, EarlyInv, BadHelloInv
<1>6. ContentInv'
  <2>1. \A x \in Sides : pc'[x] # "ended" => Taken(x)' + Len(wire'[x]) <= Reach(x)'
    BY <1>1, <1>2 DEF IInv, ContentInv
  <2>2. ASSUME NEW x \in Sides, NEW n \in 1 .. Len(wire'[x])
        PROVE  /\ wire'[x][n] \in IF Taken(x)' + n \in {1, 3, 5} THEN {"length"} ELSE Kinds
               /\ hello'[Other(x)] # "unruly" => wire'[x][n] = Script(Other(x), Taken(x) + n)'
    <3>1. Script(Other(x), Taken(x) + n)' = Script(Other(x), Taken(x) + n)
      BY <1>1, <1>2 DEF Script
    <3> QED BY <1>1, <1>2, <3>1 DEF IInv, ContentInv
  <2> QED BY <2>1, <2>2 DEF ContentInv
<1> QED BY <1>3, <1>4, <1>5, <1>6 DEF IInv

\* The network fails, and each side keeps a part of what was under way to it.
LEMMA NetworkFailsStep ==
    ASSUME IInv, NetworkFails
    PROVE  IInv'
<1> USE SidesFacts
<1>1. /\ link' = FALSE /\ faulted' = TRUE
      /\ pc' = pc /\ half' = half /\ outcome' = outcome
      /\ asked' = asked /\ decision' = decision /\ hung' = hung /\ pings' = pings
      /\ hello' = hello /\ purpose' = purpose /\ policy' = policy
  BY DEF NetworkFails, inputs, gate
<1>2. PICK d \in 0 .. Len(wire["dialer"]), a \in 0 .. Len(wire["acceptor"]) :
         wire' = [dialer |-> SubSeq(wire["dialer"], 1, d), acceptor |-> SubSeq(wire["acceptor"], 1, a)]
  BY DEF NetworkFails
<1>3. wire["dialer"] \in Seq(Piece) /\ wire["acceptor"] \in Seq(Piece)
  BY DEF IInv, PlainInv
<1>4. /\ wire'["dialer"] = SubSeq(wire["dialer"], 1, d)
      /\ wire'["acceptor"] = SubSeq(wire["acceptor"], 1, a)
      /\ DOMAIN wire' = Sides /\ wire' = [x \in Sides |-> wire'[x]]
  BY <1>2
<1>5. /\ wire'["dialer"] \in Seq(Piece) /\ Len(wire'["dialer"]) = d /\ d \in Nat
      /\ \A n \in 1 .. d : wire'["dialer"][n] = wire["dialer"][n]
      /\ wire'["acceptor"] \in Seq(Piece) /\ Len(wire'["acceptor"]) = a /\ a \in Nat
      /\ \A n \in 1 .. a : wire'["acceptor"][n] = wire["acceptor"][n]
      /\ Len(wire["dialer"]) \in Nat /\ Len(wire["acceptor"]) \in Nat
  BY <1>3, <1>4, CutFacts, LenProperties
<1>6. ASSUME NEW x \in Sides
      PROVE  /\ wire'[x] \in Seq(Piece) /\ Len(wire'[x]) \in Nat /\ Len(wire[x]) \in Nat
             /\ Len(wire'[x]) <= Len(wire[x])
             /\ \A n \in 1 .. Len(wire'[x]) : wire'[x][n] = wire[x][n]
  <2>1. CASE x = "dialer"
    BY <1>5, <2>1
  <2>2. CASE x = "acceptor"
    BY <1>5, <2>2
  <2> QED BY <2>1, <2>2
<1>7. wire' \in [Sides -> Seq(Piece)]
  BY <1>4, <1>6
<1>8. \A x \in Sides : wire[x] = <<>> => wire'[x] = <<>>
  BY <1>6, EmptySeq
<1>9. \A x \in Sides : Taken(x)' = Taken(x) /\ Reach(x)' = Reach(x)
  BY <1>1 DEF Taken, Reach
<1>10. PlainInv'
  BY <1>1, <1>7 DEF IInv, PlainInv
<1>11. RoleInv' /\ GateInv' /\ ConformingPeersAgree'
  BY <1>1 DEF IInv, RoleInv, Own, GateInv, ConformingPeersAgree
<1>12. LinkInv' /\ CountInv' /\ RejectInv'
  BY <1>1, <1>8 DEF IInv, LinkInv, CountInv, RejectInv
<1>13. ContentInv'
  <2>1. ASSUME NEW x \in Sides, pc'[x] # "ended"
        PROVE  Taken(x)' + Len(wire'[x]) <= Reach(x)'
    <3>1. Taken(x) \in 0..6 /\ Reach(x) \in {2, 4, 6} /\ Taken(x) + Len(wire[x]) <= Reach(x)
      BY <1>1, <2>1, PlaceFacts DEF IInv, ContentInv
    <3>2. Len(wire'[x]) \in Nat /\ Len(wire[x]) \in Nat /\ Len(wire'[x]) <= Len(wire[x])
      BY <1>6
    <3>3. Taken(x)' = Taken(x) /\ Reach(x)' = Reach(x)
      BY <1>9
    <3>4. Taken(x) + Len(wire'[x]) <= Reach(x)
      BY <3>1, <3>2, SMTT(30)
    <3> QED BY <3>3, <3>4
  <2>2. ASSUME NEW x \in Sides, NEW n \in 1 .. Len(wire'[x])
        PROVE  /\ wire'[x][n] \in IF Taken(x)' + n \in {1, 3, 5} THEN {"length"} ELSE Kinds
               /\ hello'[Other(x)] # "unruly" => wire'[x][n] = Script(Other(x), Taken(x) + n)'
    <3>1. Script(Other(x), Taken(x) + n)' = Script(Other(x), Taken(x) + n)
      BY <1>1, <1>9 DEF Script
    <3>2. n \in 1 .. Len(wire[x]) /\ wire'[x][n] = wire[x][n]
      BY <1>6
    <3> QED BY <1>1, <1>9, <3>1, <3>2 DEF IInv, ContentInv
  <2> QED BY <2>1, <2>2 DEF ContentInv
<1>14. BadHelloInv'
  <2>1. Taken("acceptor") \in 0..6
    BY PlaceFacts DEF IInv
  <2>2. /\ Len(wire'["acceptor"]) \in Nat /\ Len(wire["acceptor"]) \in Nat
        /\ Len(wire'["acceptor"]) <= Len(wire["acceptor"])
    BY <1>6
  <2> QED BY <1>1, <1>9, <2>1, <2>2 DEF IInv, BadHelloInv
<1>15. EarlyInv'
  <2>1. Taken("dialer") \in 0..6
    BY PlaceFacts DEF IInv
  <2>2. /\ Len(wire'["dialer"]) \in Nat /\ Len(wire["dialer"]) \in Nat
        /\ Len(wire'["dialer"]) <= Len(wire["dialer"])
    BY <1>6
  <2> QED BY <1>1, <1>9, <2>1, <2>2 DEF IInv, EarlyInv
<1> QED BY <1>10, <1>11, <1>12, <1>13, <1>14, <1>15 DEF IInv

-----------------------------------------------------------------------------
(* The theorems *)

\* The invariant holds before the dial.
LEMMA InitIInv == Init => IInv
<1> SUFFICES ASSUME Init PROVE IInv
  OBVIOUS
<1> USE SidesFacts
<1>1. /\ pc["dialer"] = "connect" /\ pc["acceptor"] = "accept" /\ link = FALSE
      /\ half["dialer"] = FALSE /\ half["acceptor"] = FALSE
      /\ wire["dialer"] = <<>> /\ wire["acceptor"] = <<>>
      /\ outcome["dialer"] = "none" /\ outcome["acceptor"] = "none"
      /\ asked = "none" /\ decision = "none" /\ Len(<<>>) = 0
  BY EmptySeq DEF Init
<1>2. PlainInv
  <2>1. <<>> \in Seq(Piece)
    BY EmptySeq
  <2>2. "connect" \in Steps /\ "accept" \in Steps /\ "none" \in Outcomes
    BY DEF Steps, Connecting, Outcomes
  <2>3. pc \in [Sides -> Steps] /\ half \in [Sides -> BOOLEAN] /\ wire \in [Sides -> Seq(Piece)]
    BY <2>1, <2>2 DEF Init
  <2>4. outcome \in [Sides -> Outcomes] /\ hello \in [Sides -> Hellos] /\ purpose \in Purposes
    BY <2>2 DEF Init
  <2>5. pings \in 0..MaxPings /\ hung \subseteq Sides /\ faulted = FALSE
    <3>1. pings = 0 /\ hung = {} /\ faulted = FALSE
      BY DEF Init
    <3>2. MaxPings \in Nat
      BY BootstrapAssumption
    <3> QED BY <3>1, <3>2
  <2> QED BY <1>1, <2>3, <2>4, <2>5 DEF PlainInv
<1>3. RoleInv /\ LinkInv /\ CountInv
  BY <1>1 DEF RoleInv, Own, LinkInv, CountInv, Dialing, Accepting
<1>4. Taken("dialer") = 0 /\ Taken("acceptor") = 0 /\ Reach("dialer") = 2 /\ Reach("acceptor") = 2
  BY <1>1 DEF Taken, Reach
<1>5. ContentInv /\ EarlyInv
  BY <1>1, <1>4 DEF ContentInv, EarlyInv
<1>6. GateInv /\ BadHelloInv /\ RejectInv /\ ConformingPeersAgree
  BY <1>1, <1>4 DEF GateInv, BadHelloInv, RejectInv, ConformingPeersAgree, Admitted
<1> QED BY <1>2, <1>3, <1>5, <1>6 DEF IInv

\* Every step keeps it.
LEMMA NextIInv == IInv /\ [Next]_vars => IInv'
<1> SUFFICES ASSUME IInv, [Next]_vars PROVE IInv'
  OBVIOUS
<1>1. ASSUME NEW s \in Sides, Proceeds(s) PROVE IInv'
  BY <1>1, WritePrefixStep, WritePayloadStep, OwnHelloStep, ReadPrefixStep, ReceiveHelloStep,
     ServeStep, LostStep, CutOffStep, UnresolvedStep, DialStep, GoOnStep, RequestIntentStep,
     ReceivePongStep, ReceiveIntentStep, DrainedStep, ReceivePairingStep
     DEF Proceeds
<1>2. ASSUME NEW s \in Sides, Dropped(s) \/ Hangs(s) PROVE IInv'
  BY <1>2, CutOffStep, HangsStep
<1>3. CASE StartPing
  BY <1>3, GoOnStep
<1>4. CASE ConnectFails \/ NetworkFails
  BY <1>4, NetworkFailsStep, CutOffStep, SidesFacts
<1>5. CASE UNCHANGED vars
  <2>1. /\ pc' = pc /\ half' = half /\ wire' = wire /\ link' = link /\ outcome' = outcome
        /\ asked' = asked /\ decision' = decision /\ faulted' = faulted /\ hung' = hung /\ pings' = pings
        /\ hello' = hello /\ purpose' = purpose /\ policy' = policy
    BY <1>5 DEF vars
  <2>2. \A x \in Sides : Written(x)' = Written(x) /\ Taken(x)' = Taken(x)
    BY <2>1 DEF Written, Taken
  <2>3. PlainInv' /\ RoleInv' /\ LinkInv' /\ GateInv'
    BY <2>1 DEF IInv, PlainInv, RoleInv, Own, LinkInv, GateInv
  <2>4. CountInv' /\ EarlyInv' /\ BadHelloInv' /\ RejectInv' /\ ConformingPeersAgree'
    BY <2>1, <2>2, SidesFacts
    DEF IInv, CountInv, EarlyInv, BadHelloInv, RejectInv, ConformingPeersAgree
  <2>5. ContentInv'
    BY <2>1 DEF IInv, ContentInv, Taken, Reach, Script
  <2> QED BY <2>3, <2>4, <2>5 DEF IInv
<1> QED BY <1>1, <1>2, <1>3, <1>4, <1>5 DEF Next

\* Where the two sides are fixes what is on the wire between them, for any Hellos
\* and any number of pings.
THEOREM InductiveInvariant == Spec => []IInv
BY InitIInv, NextIInv, PTL DEF Spec

\* Lengths and payloads alternate on the wire and every reader is in step with
\* them (read_value, write_value), whatever an unruly side sends and wherever
\* the connection is cut.
THEOREM TypeCorrect == Spec => []TypeOK
<1>1. IInv => TypeOK
  <2> SUFFICES ASSUME IInv, NEW s \in Sides, NEW n \in DOMAIN wire[s]
               PROVE  wire[s][n] \in IF (n % 2 = 0) = (pc[s] \in Reading /\ half[s])
                                     THEN {"length"} ELSE Kinds
    BY DEF TypeOK, IInv, PlainInv, Results
  <2>1. n \in 1 .. Len(wire[s]) /\ Len(wire[s]) \in Nat
    BY LenProperties DEF IInv, PlainInv
  <2>2. pc[s] # "ended"
    <3>1. pc[s] = "ended" => wire[s] = <<>>
      BY DEF IInv, LinkInv
    <3> QED BY <2>1, <3>1, EmptySeq
  <2>3. Taken(s) \in 0..6 /\ Reach(s) \in {2, 4, 6} /\ Taken(s) + Len(wire[s]) <= Reach(s)
    BY <2>2, PlaceFacts DEF IInv, ContentInv
  <2>4. n \in 1..6 /\ Taken(s) + n \in 1..6
    BY <2>1, <2>3, SMTT(30)
  <2>5. wire[s][n] \in IF Taken(s) + n \in {1, 3, 5} THEN {"length"} ELSE Kinds
    BY <2>1 DEF IInv, ContentInv
  <2>6. IF pc[s] \in Reading /\ half[s] THEN Taken(s) \in {1, 3, 5} ELSE Taken(s) \in {0, 2, 4, 6}
    <3>1. half[s] => pc[s] \in Writing \cup Reading
      BY DEF IInv, RoleInv, Own
    <3> QED BY <3>1, WritingFacts DEF Taken, Bit, Reading
  <2>7. 1 % 2 = 1 /\ 2 % 2 = 0 /\ 3 % 2 = 1 /\ 4 % 2 = 0 /\ 5 % 2 = 1 /\ 6 % 2 = 0
    OBVIOUS
  <2>8. CASE pc[s] \in Reading /\ half[s]
    BY <2>4, <2>5, <2>6, <2>7, <2>8
  <2>9. CASE ~(pc[s] \in Reading /\ half[s])
    BY <2>4, <2>5, <2>6, <2>7, <2>9
  <2> QED BY <2>8, <2>9
<1> QED BY <1>1, InductiveInvariant, PTL

\* An acceptor past the purpose gate provides what its trust in the dialer allows,
\* whatever messages the dialer sent (receive_intent, accept_inbound); a dialer
\* past it uses what a truthful acceptor has allowed (request_intent); and neither
\* is past it without a valid Hello of the other.
THEOREM Admission == Spec => []AdmissionAgrees
<1>1. IInv => AdmissionAgrees
  <2> SUFFICES ASSUME IInv PROVE AdmissionAgrees
    OBVIOUS
  <2>1. /\ pc["dialer"] \in Admitted => Accepts(hello["acceptor"])
        /\ pc["acceptor"] \in Admitted =>
              decision = "accept" /\ asked = policy /\ Accepts(hello["dialer"])
        /\ pc["dialer"] \in Admitted /\ (\A s \in Sides : hello[s] # "unruly") =>
              decision = "accept" /\ asked = policy /\ asked = purpose
    BY SidesFacts DEF IInv, GateInv
  <2>2. /\ pc["dialer"] \in Admitted => purpose = Service("dialer")
        /\ pc["acceptor"] \in Admitted => asked = Service("acceptor")
    BY SidesFacts DEF IInv, RoleInv, Own, Service, Admitted, Dialing, Accepting
  <2> QED BY <2>1, <2>2, SidesFacts DEF AdmissionAgrees, Accepts
<1> QED BY <1>1, InductiveInvariant, PTL

\* A rejected dialer that neither timed out nor lost its network has read the
\* rejection (send_intent_result waits for the dialer's close).
THEOREM Rejection == Spec => []RejectionIsHeard
<1>1. IInv => RejectionIsHeard
  BY DEF IInv, RejectInv, RejectionIsHeard
<1> QED BY <1>1, InductiveInvariant, PTL

\* Two sides with valid Hellos never find each other in breach of the protocol
\* (UnexpectedMessage, UnexpectedIntentMessage).
THEOREM Conformance == Spec => []ConformingPeersAgree
<1>1. IInv => ConformingPeersAgree
  BY DEF IInv
<1> QED BY <1>1, InductiveInvariant, PTL

=============================================================================
