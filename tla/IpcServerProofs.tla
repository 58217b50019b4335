--------------------------- MODULE IpcServerProofs ---------------------------
(* Proofs about one IPC client, for any request IDs, capacities and numbers   *)
(* of frames and events.  The argument follows a message: what is on its way  *)
(* to the client is the writer's message and the queue behind it, one end     *)
(* grows by try_send, the other shrinks when the client reads, and the writer *)
(* taking a message changes nothing in between.                               *)
EXTENDS IpcServer, SequenceTheorems, FunctionTheorems, FiniteSetTheorems, TLAPS

-----------------------------------------------------------------------------
(* The inductive invariant *)

\* Pieces of a frame that the current read future holds and has not lost.
Taken(r) == CASE r = "length" -> 1 [] r = "prefix" -> 2 [] OTHER -> 0

\* Every accepted request used up a frame of its own.
FrameInv ==
    \A id \in Ids : 3 * accepted[id] + Len(wire) + Taken(reader) <= 3 * frames

\* Nothing is queued before the client is served or after the writer is aborted.
QueueInv == phase \notin {"serving", "flushing"} => outgoing = <<>> /\ writing = <<>>

\* Requests are pending, on their way back or answered, in a flush too; what a
\* break discards was accepted once.
Owed(id) == IF id \in requests THEN 1 ELSE 0
Queued(id) == Cardinality(Positions(Unread, Response(id)))
AnswerInv ==
    \A id \in Ids :
        /\ phase # "closed" => accepted[id] = delivered.answers[id] + Queued(id) + Owed(id)
        /\ phase = "closed" => delivered.answers[id] <= accepted[id]

LimitInv == IsFiniteSet(requests) /\ Len(feed) <= MaxEvents /\ delivered.event <= cursor

IInv == TypeOK /\ LimitInv /\ FrameInv /\ QueueInv /\ AnswerInv /\ NoEventSkipped

-----------------------------------------------------------------------------
(* Messages on their way *)

LEMMA MessageFacts ==
    /\ \A id \in Ids : Response(id) \in Messages /\ ~IsFed(Response(id))
    /\ \A n \in 0 .. MaxEvents : Event(n) \in Messages
    /\ ~IsFed(Event(0))
    /\ \A m \in Messages : m.type = "Response" => m.id \in Ids /\ m = Response(m.id) /\ ~IsFed(m)
    /\ \A m \in Messages : m.type # "Response" => m.n \in 0 .. MaxEvents /\ m = Event(m.n)
    /\ \A n : Event(n).type = "Event" /\ Event(n).n = n
    /\ \A id \in Ids, n \in 0 .. MaxEvents : Event(n) # Response(id)
    /\ \A m \in Messages : IsFed(m) => m.type # "Response"
<1>1. \A id \in Ids : Response(id) \in Messages BY DEF Messages
<1>2. \A n \in 0 .. MaxEvents : Event(n) \in Messages BY DEF Messages
<1>3. \A id : Response(id).type = "Response" /\ Response(id).id = id BY DEF Response
<1>4. \A n : Event(n).type = "Event" /\ Event(n).n = n BY DEF Event
<1>5. \A id : ~IsFed(Response(id)) BY <1>3 DEF IsFed
<1>6. ~IsFed(Event(0)) BY <1>4 DEF IsFed
<1>7. ASSUME NEW m \in Messages
      PROVE  (\E id \in Ids : m = Response(id)) \/ (\E n \in 0 .. MaxEvents : m = Event(n))
  BY DEF Messages
<1>8. ASSUME NEW m \in Messages, m.type = "Response"
      PROVE  m.id \in Ids /\ m = Response(m.id) /\ ~IsFed(m)
  BY <1>3, <1>4, <1>5, <1>7, <1>8
<1>9. ASSUME NEW m \in Messages, m.type # "Response"
      PROVE  m.n \in 0 .. MaxEvents /\ m = Event(m.n)
  BY <1>3, <1>4, <1>7, <1>9
<1>10. \A id \in Ids, n \in 0 .. MaxEvents : Event(n) # Response(id) BY <1>3, <1>4
<1> QED BY <1>1, <1>2, <1>4, <1>5, <1>6, <1>8, <1>9, <1>10 DEF IsFed

\* try_send puts a message behind everything that is on its way.
LEMMA Put ==
    ASSUME NEW M, NEW w \in Seq(M), NEW q \in Seq(M), NEW m \in M
    PROVE  /\ w \o Append(q, m) = Append(w \o q, m)
           /\ w \o q \in Seq(M)
<1>1. Append(q, m) = q \o <<m>> BY AppendIsConcat
<1>2. w \o q \in Seq(M) BY ConcatProperties
<1>3. Append(w \o q, m) = (w \o q) \o <<m>> BY <1>2, AppendIsConcat
<1>4. <<m>> \in Seq(M) OBVIOUS
<1> QED BY <1>1, <1>2, <1>3, <1>4, ConcatAssociative

\* The writer takes the oldest message: everything stays on its way.
LEMMA Take ==
    ASSUME NEW M, NEW q \in Seq(M), q # <<>>
    PROVE  <<Head(q)>> \o Tail(q) = <<>> \o q
<1>1. Head(q) \in M /\ Tail(q) \in Seq(M) /\ Len(Tail(q)) = Len(q) - 1
      /\ \A i \in 1 .. Len(Tail(q)) : Tail(q)[i] = q[i + 1]
  BY HeadTailProperties
<1>2. <<Head(q)>> \in Seq(M) /\ Len(<<Head(q)>>) = 1 /\ <<Head(q)>>[1] = q[1]
  BY <1>1
<1>3. PICK t : t = <<Head(q)>> \o Tail(q) OBVIOUS
<1>4. /\ t \in Seq(M) /\ Len(t) = Len(q)
      /\ \A i \in 1 .. Len(q) : t[i] = IF i <= 1 THEN <<Head(q)>>[i] ELSE Tail(q)[i - 1]
  BY <1>1, <1>2, <1>3, ConcatProperties
<1>5. ASSUME NEW i \in 1 .. Len(q) PROVE t[i] = q[i]
  <2>1. CASE i = 1 BY <2>1, <1>2, <1>4
  <2>2. CASE i # 1
    <3>1. i - 1 \in 1 .. Len(Tail(q)) BY <2>2, <1>1
    <3> QED BY <3>1, <2>2, <1>1, <1>4
  <2> QED BY <2>1, <2>2
<1>6. t = q BY <1>4, <1>5, SeqEqual
<1> QED BY <1>3, <1>6, ConcatEmptySeq

\* The client reads the message that the writer holds.
LEMMA Read ==
    ASSUME NEW M, NEW m \in M, NEW q \in Seq(M)
    PROVE  LET s == <<m>> \o q IN
           /\ s \in Seq(M) /\ Len(s) = Len(q) + 1 /\ s[1] = m
           /\ \A i \in 1 .. Len(q) : s[i + 1] = q[i]
<1>1. <<m>> \in Seq(M) /\ Len(<<m>>) = 1 /\ <<m>>[1] = m OBVIOUS
<1>2. PICK s : s = <<m>> \o q OBVIOUS
<1>3. /\ s \in Seq(M) /\ Len(s) = 1 + Len(q)
      /\ \A i \in 1 .. 1 + Len(q) : s[i] = IF i <= 1 THEN <<m>>[i] ELSE q[i - 1]
  BY <1>1, <1>2, ConcatProperties
<1>4. Len(q) \in Nat OBVIOUS
<1>5. s[1] = m BY <1>1, <1>3, <1>4
<1>6. ASSUME NEW i \in 1 .. Len(q) PROVE s[i + 1] = q[i]
  <2>1. i + 1 \in 1 .. 1 + Len(q) /\ ~(i + 1 <= 1) /\ (i + 1) - 1 = i BY <1>4
  <2> QED BY <2>1, <1>3
<1>7. Len(s) = Len(q) + 1 BY <1>3, <1>4
<1> QED BY <1>2, <1>3, <1>5, <1>6, <1>7

-----------------------------------------------------------------------------
(* Counting a message *)

LEMMA PositionsFinite ==
    ASSUME NEW M, NEW s \in Seq(M), NEW x
    PROVE  IsFiniteSet(Positions(s, x)) /\ Cardinality(Positions(s, x)) \in Nat
<1>1. Len(s) \in Nat OBVIOUS
<1>2. IsFiniteSet(1 .. Len(s)) BY <1>1, FS_Interval
<1>3. Positions(s, x) \subseteq 1 .. Len(s) BY DEF Positions
<1> QED BY <1>2, <1>3, FS_Subset, FS_CardinalityType

\* Nothing is in an empty sequence.
LEMMA PositionsEmpty ==
    ASSUME NEW x PROVE Cardinality(Positions(<<>>, x)) = 0
<1>1. Positions(<<>>, x) = {} BY DEF Positions
<1> QED BY <1>1, FS_EmptySet

\* An append adds one position of its own element and none of another.
LEMMA PositionsAppend ==
    ASSUME NEW M, NEW s \in Seq(M), NEW m \in M, NEW x
    PROVE  Cardinality(Positions(Append(s, m), x)) =
               Cardinality(Positions(s, x)) + (IF m = x THEN 1 ELSE 0)
<1>1. /\ Len(s) \in Nat /\ Len(Append(s, m)) = Len(s) + 1 /\ Append(s, m)[Len(s) + 1] = m
      /\ \A i \in 1 .. Len(s) : Append(s, m)[i] = s[i]
  BY AppendProperties
<1>2. CASE m = x
  <2>1. Positions(Append(s, m), x) = Positions(s, x) \cup {Len(s) + 1}
    BY <1>1, <1>2 DEF Positions
  <2>2. Len(s) + 1 \notin Positions(s, x) BY <1>1 DEF Positions
  <2> QED BY <1>2, <2>1, <2>2, PositionsFinite, FS_AddElement
<1>3. CASE m # x
  <2>1. Positions(Append(s, m), x) = Positions(s, x)
    BY <1>1, <1>3 DEF Positions
  <2> QED BY <1>3, <2>1, PositionsFinite
<1> QED BY <1>2, <1>3

\* The message that the writer holds stands before the queue.
Leads(m, q, s) == s = <<m>> \o q

\* Taking the first message away shifts the others.
LEMMA PositionsCons ==
    ASSUME NEW M, NEW q \in Seq(M), NEW m \in M, NEW x, NEW s,
           Leads(m, q, s)
    PROVE  /\ m = x => Cardinality(Positions(s, x)) = Cardinality(Positions(q, x)) + 1
           /\ m # x => Cardinality(Positions(s, x)) = Cardinality(Positions(q, x))
<1>1. /\ s \in Seq(M) /\ Len(s) = Len(q) + 1 /\ s[1] = m /\ Len(q) \in Nat
      /\ \A i \in 1 .. Len(q) : s[i + 1] = q[i]
  BY Read DEF Leads
<1>2. PICK Q : Q = Positions(q, x) OBVIOUS
<1>3. PICK R : R = Positions(s, x) \ {1} OBVIOUS
<1>4. PICK f : f = [i \in Q |-> i + 1] OBVIOUS
<1>5. Q \subseteq Nat /\ \A i \in Q : i \in 1 .. Len(q) /\ q[i] = x
  BY <1>1, <1>2 DEF Positions
<1>6. ASSUME NEW j \in R PROVE j - 1 \in Q /\ f[j - 1] = j
  <2>1. j \in 1 .. Len(s) /\ s[j] = x /\ j # 1 BY <1>3 DEF Positions
  <2>2. j - 1 \in 1 .. Len(q) /\ (j - 1) + 1 = j BY <1>1, <2>1
  <2>3. q[j - 1] = x BY <1>1, <2>1, <2>2
  <2>4. j - 1 \in Q BY <1>2, <2>2, <2>3 DEF Positions
  <2> QED BY <1>4, <2>2, <2>4
<1>7. ASSUME NEW i \in Q PROVE i + 1 \in R
  <2>1. i + 1 \in 1 .. Len(s) /\ i + 1 # 1 BY <1>1, <1>5
  <2>2. s[i + 1] = x BY <1>1, <1>5
  <2> QED BY <1>3, <2>1, <2>2 DEF Positions
<1>8. ExistsBijection(Q, R)
  <2>1. f \in [Q -> R] BY <1>4, <1>7
  <2>2. \A i, j \in Q : f[i] = f[j] => i = j BY <1>4, <1>5
  <2>3. \A j \in R : \E i \in Q : f[i] = j BY <1>6
  <2>4. f \in Bijection(Q, R) BY <2>1, <2>2, <2>3, Fun_IsBij
  <2> QED BY <2>4 DEF ExistsBijection
<1>9. IsFiniteSet(Q) /\ Cardinality(Q) \in Nat BY <1>2, PositionsFinite
<1>10. IsFiniteSet(R) /\ Cardinality(R) = Cardinality(Q)
  BY <1>8, <1>9, FS_Bijection
<1>11. CASE m = x
  <2>1. Positions(s, x) = R \cup {1} BY <1>1, <1>3, <1>11 DEF Positions
  <2>2. 1 \notin R BY <1>3
  <2> QED BY <1>2, <1>9, <1>10, <1>11, <2>1, <2>2, FS_AddElement
<1>12. CASE m # x
  <2>1. Positions(s, x) = R BY <1>1, <1>3, <1>12 DEF Positions
  <2> QED BY <1>2, <1>9, <1>10, <1>12, <2>1
<1> QED BY <1>11, <1>12

-----------------------------------------------------------------------------
(* The order of events *)

\* A message that is no event of the feed changes nothing.
LEMMA OrderAppend ==
    ASSUME NEW M, NEW s \in Seq(M), NEW m \in M, NEW a \in Nat, NEW b \in Nat,
           InOrder(s, a, b), ~IsFed(m)
    PROVE  InOrder(Append(s, m), a, b)
<1>1. PICK t : t = Append(s, m) OBVIOUS
<1>2. /\ Len(s) \in Nat /\ Len(t) = Len(s) + 1 /\ t[Len(s) + 1] = m
      /\ \A i \in 1 .. Len(s) : t[i] = s[i]
  BY <1>1, AppendProperties
<1>3. ASSUME NEW i \in 1 .. Len(t), IsFed(t[i]) PROVE i \in 1 .. Len(s) /\ t[i] = s[i]
  BY <1>2, <1>3
<1>4. \A i \in 1 .. Len(t) : IsFed(t[i]) => t[i].n \in a + 1 .. b
  BY <1>3 DEF InOrder
<1>5. ASSUME NEW n \in a + 1 .. b PROVE \E i \in 1 .. Len(t) : t[i] = Event(n)
  <2>1. PICK i \in 1 .. Len(s) : s[i] = Event(n) BY DEF InOrder
  <2>2. i \in 1 .. Len(t) /\ t[i] = Event(n) BY <1>2, <2>1
  <2> QED BY <2>2
<1>6. ASSUME NEW i \in 1 .. Len(t), NEW j \in 1 .. Len(t), i < j, IsFed(t[i]), IsFed(t[j])
      PROVE  t[i].n < t[j].n
  BY <1>3, <1>6 DEF InOrder
<1> QED BY <1>1, <1>4, <1>5, <1>6 DEF InOrder

\* The next event goes behind all earlier ones.
LEMMA OrderNext ==
    ASSUME NEW M, NEW s \in Seq(M), NEW a \in Nat, NEW b \in Nat, Event(b + 1) \in M,
           a <= b, InOrder(s, a, b), Event(b + 1).n = b + 1
    PROVE  InOrder(Append(s, Event(b + 1)), a, b + 1)
<1>1. PICK m \in M : m = Event(b + 1) OBVIOUS
<1>2. PICK t : t = Append(s, m) OBVIOUS
<1>3. /\ Len(s) \in Nat /\ Len(t) = Len(s) + 1 /\ t[Len(s) + 1] = m
      /\ \A i \in 1 .. Len(s) : t[i] = s[i]
  BY <1>2, AppendProperties
<1>4. ASSUME NEW i \in 1 .. Len(t) PROVE i = Len(s) + 1 \/ (i \in 1 .. Len(s) /\ t[i] = s[i])
  BY <1>3
<1>5. m.n = b + 1 BY <1>1
<1>6. ASSUME NEW i \in 1 .. Len(t), IsFed(t[i]) PROVE t[i].n \in a + 1 .. b + 1
  <2>1. CASE i = Len(s) + 1 BY <1>3, <1>5, <2>1
  <2>2. CASE i \in 1 .. Len(s) /\ t[i] = s[i]
    <3>1. t[i].n \in a + 1 .. b BY <1>6, <2>2 DEF InOrder
    <3> QED BY <3>1
  <2> QED BY <1>4, <2>1, <2>2
<1>7. ASSUME NEW n \in a + 1 .. b + 1 PROVE \E i \in 1 .. Len(t) : t[i] = Event(n)
  <2>1. CASE n = b + 1
    <3>1. Len(s) + 1 \in 1 .. Len(t) BY <1>3
    <3> QED BY <1>1, <1>3, <2>1, <3>1
  <2>2. CASE n # b + 1
    <3>1. n \in a + 1 .. b BY <2>2
    <3>2. PICK i \in 1 .. Len(s) : s[i] = Event(n) BY <3>1 DEF InOrder
    <3>3. i \in 1 .. Len(t) /\ t[i] = Event(n) BY <1>3, <3>2
    <3> QED BY <3>3
  <2> QED BY <2>1, <2>2
<1>8. ASSUME NEW i \in 1 .. Len(t), NEW j \in 1 .. Len(t), i < j, IsFed(t[i]), IsFed(t[j])
      PROVE  t[i].n < t[j].n
  <2>1. i \in 1 .. Len(s) /\ t[i] = s[i] BY <1>3, <1>4, <1>8
  <2>2. s[i].n \in a + 1 .. b BY <1>8, <2>1 DEF InOrder
  <2>3. CASE j = Len(s) + 1 BY <1>3, <1>5, <2>1, <2>2, <2>3
  <2>4. CASE j \in 1 .. Len(s) /\ t[j] = s[j] BY <1>8, <2>1, <2>4 DEF InOrder
  <2> QED BY <1>4, <2>3, <2>4
<1> QED BY <1>1, <1>2, <1>6, <1>7, <1>8 DEF InOrder

\* The first message is the event the client waits for, or none of the feed.
LEMMA OrderFirst ==
    ASSUME NEW M, NEW q \in Seq(M), NEW m \in M, NEW s, s = <<m>> \o q,
           NEW a \in Nat, NEW b \in Nat, InOrder(s, a, b), \A n : Event(n).n = n
    PROVE  /\ IsFed(m) => m.n = a + 1 /\ m.n <= b /\ InOrder(q, a + 1, b)
           /\ ~IsFed(m) => InOrder(q, a, b)
<1>1. /\ Len(s) = Len(q) + 1 /\ s[1] = m /\ Len(q) \in Nat
      /\ \A i \in 1 .. Len(q) : s[i + 1] = q[i]
  BY Read
<1>2. ASSUME NEW i \in 1 .. Len(q) PROVE i + 1 \in 1 .. Len(s) /\ s[i + 1] = q[i]
  BY <1>1
<1>3. ASSUME NEW i \in 1 .. Len(s), i # 1
      PROVE  i - 1 \in 1 .. Len(q) /\ q[i - 1] = s[i]
  <2>1. i - 1 \in 1 .. Len(q) /\ (i - 1) + 1 = i BY <1>1, <1>3
  <2> QED BY <1>1, <2>1
<1>4. ASSUME NEW i \in 1 .. Len(q), NEW j \in 1 .. Len(q), i < j, IsFed(q[i]), IsFed(q[j])
      PROVE  q[i].n < q[j].n
  <2>1. i + 1 < j + 1 BY <1>4
  <2> QED BY <1>2, <1>4, <2>1 DEF InOrder
<1>5. \A i \in 1 .. Len(q) : IsFed(q[i]) => q[i].n \in a + 1 .. b
  BY <1>2 DEF InOrder
<1>6. 1 \in 1 .. Len(s) BY <1>1
<1>7. ASSUME IsFed(m) PROVE m.n = a + 1 /\ m.n <= b /\ InOrder(q, a + 1, b)
  <2>1. m.n \in a + 1 .. b BY <1>1, <1>6, <1>7 DEF InOrder
  <2>2. a + 1 \in a + 1 .. b /\ a + 1 > 0 BY <2>1
  <2>3. PICK i \in 1 .. Len(s) : s[i] = Event(a + 1) BY <2>2 DEF InOrder
  <2>4. s[i].n = a + 1 BY <2>3
  <2>5. m.n = a + 1
    <3>1. CASE i = 1 BY <1>1, <2>4, <3>1
    <3>2. CASE i # 1
      <4>1. 1 < i BY <3>2, <1>1
      <4>2. IsFed(s[i]) BY <2>2, <2>3, <2>4 DEF IsFed, Event
      <4>3. m.n < a + 1 BY <1>1, <1>6, <1>7, <2>4, <4>1, <4>2 DEF InOrder
      <4> QED BY <2>1, <4>3
    <3> QED BY <3>1, <3>2
  <2>6. ASSUME NEW k \in 1 .. Len(q), IsFed(q[k]) PROVE q[k].n \in a + 2 .. b
    <3>1. 1 < k + 1 BY <1>1
    <3>2. m.n < q[k].n BY <1>1, <1>2, <1>6, <1>7, <2>6, <3>1 DEF InOrder
    <3> QED BY <1>5, <2>5, <2>6, <3>2
  <2>7. ASSUME NEW n \in a + 2 .. b PROVE \E k \in 1 .. Len(q) : q[k] = Event(n)
    <3>1. n \in a + 1 .. b /\ n # a + 1 BY <2>7
    <3>2. PICK k \in 1 .. Len(s) : s[k] = Event(n) BY <3>1 DEF InOrder
    <3>3. s[k].n = n BY <3>2
    <3>4. k # 1 BY <1>1, <2>5, <3>1, <3>3
    <3> QED BY <1>3, <3>2, <3>4
  <2>8. a + 2 .. b = a + 1 + 1 .. b OBVIOUS
  <2>9. InOrder(q, a + 1, b) BY <1>4, <2>6, <2>7, <2>8 DEF InOrder
  <2> QED BY <2>1, <2>5, <2>9
<1>8. ASSUME ~IsFed(m) PROVE InOrder(q, a, b)
  <2>1. ASSUME NEW n \in a + 1 .. b PROVE \E k \in 1 .. Len(q) : q[k] = Event(n)
    <3>1. PICK k \in 1 .. Len(s) : s[k] = Event(n) BY DEF InOrder
    <3>2. IsFed(s[k])
      <4>1. n > 0 BY <2>1
      <4> QED BY <3>1, <4>1 DEF IsFed, Event
    <3>3. k # 1 BY <1>1, <1>8, <3>2
    <3> QED BY <1>3, <3>1, <3>3
  <2> QED BY <1>4, <1>5, <2>1 DEF InOrder
<1> QED BY <1>7, <1>8

-----------------------------------------------------------------------------
(* Three ways in which a step treats what is on its way *)

Carried == QueueInv /\ AnswerInv /\ NoEventSkipped /\ delivered.event <= cursor

\* The types of what the queue lemmas speak about.
LEMMA Types ==
    ASSUME TypeOK
    PROVE  /\ writing \in Seq(Messages) /\ outgoing \in Seq(Messages) /\ Unread \in Seq(Messages)
           /\ cursor \in Nat /\ delivered.event \in Nat
           /\ \A id \in Ids : accepted[id] \in Nat /\ delivered.answers[id] \in Nat
           /\ \A id \in Ids : Queued(id) \in Nat /\ Owed(id) \in {0, 1}
<1>0. {MaxFrames, MaxEvents} \subseteq Nat BY CapacityAssumption
<1>1. writing \in Seq(Messages) /\ outgoing \in Seq(Messages) BY DEF TypeOK
<1>2. Unread \in Seq(Messages) BY <1>1, ConcatProperties DEF Unread
<1>3. cursor \in Nat
  <2>1. feed \in Seq({"Other", "DaemonShuttingDown"}) /\ cursor \in 0 .. Len(feed) BY DEF TypeOK
  <2>2. Len(feed) \in Nat BY <2>1, LenProperties
  <2> QED BY <2>1, <2>2
<1>4. /\ delivered.event \in 0 .. MaxEvents /\ delivered.answers \in [Ids -> 0 .. MaxFrames]
      /\ accepted \in [Ids -> 0 .. MaxFrames]
  BY DEF TypeOK
<1>5. \A id \in Ids : Queued(id) \in Nat BY <1>2, PositionsFinite DEF Queued
<1> QED BY <1>0, <1>1, <1>2, <1>3, <1>4, <1>5 DEF Owed

\* Nothing on its way is touched, and the phase moves only while nothing is.
Untouched ==
    /\ UNCHANGED <<requests, accepted, cursor, outgoing, writing, delivered>>
    /\ phase' = phase \/ (phase # "closed" /\ outgoing = <<>> /\ writing = <<>>)

\* A step that touches no queue, cursor or request keeps what the queues carry.
LEMMA IdleStep ==
    ASSUME IInv, Untouched
    PROVE  Carried'
<1>1. UNCHANGED <<requests, accepted, cursor, outgoing, writing, delivered>> BY DEF Untouched
<1>2. TypeOK /\ QueueInv /\ AnswerInv /\ NoEventSkipped /\ delivered.event <= cursor
  BY DEF IInv, LimitInv
<1>3. \A id \in Ids : Queued(id)' = Queued(id) /\ Owed(id)' = Owed(id)
  BY <1>1 DEF Queued, Owed, Unread
<1>4. Unread' = Unread BY <1>1 DEF Unread
<1>5. CASE phase' = phase
  <2>1. QueueInv' BY <1>1, <1>2, <1>5 DEF QueueInv
  <2>2. AnswerInv' BY <1>1, <1>2, <1>3, <1>5 DEF AnswerInv
  <2>3. NoEventSkipped' BY <1>1, <1>2, <1>4, <1>5 DEF NoEventSkipped
  <2> QED BY <1>1, <1>2, <2>1, <2>2, <2>3 DEF Carried
<1>6. CASE phase # "closed" /\ outgoing = <<>> /\ writing = <<>>
  <2>1. QueueInv' BY <1>1, <1>6 DEF QueueInv
  <2>2. AnswerInv'
    <3> SUFFICES ASSUME NEW id \in Ids
                 PROVE  /\ accepted'[id] = delivered'.answers[id] + Queued(id)' + Owed(id)'
                        /\ delivered'.answers[id] <= accepted'[id]
      BY DEF AnswerInv
    <3>1. accepted[id] = delivered.answers[id] + Queued(id) + Owed(id)
      BY <1>2, <1>6 DEF AnswerInv
    <3> QED BY <1>1, <1>2, <1>3, <3>1, Types
  <2>3. NoEventSkipped' BY <1>1, <1>2, <1>4, <1>6 DEF NoEventSkipped
  <2> QED BY <1>1, <1>2, <2>1, <2>2, <2>3 DEF Carried
<1> QED BY <1>5, <1>6 DEF Untouched

\* The writer is aborted with what it held.
LEMMA BreakStep ==
    ASSUME IInv, NEW r, Breaks(r), phase # "closed", accepted' = accepted,
           cursor' \in Nat, cursor <= cursor'
    PROVE  Carried'
<1>1. /\ phase' = "closed" /\ outgoing' = <<>> /\ writing' = <<>> /\ delivered' = delivered
  BY DEF Breaks, Ends
<1>2. TypeOK /\ AnswerInv /\ delivered.event <= cursor BY DEF IInv, LimitInv
<1>3. ASSUME NEW id \in Ids PROVE delivered.answers[id] <= accepted[id]
  <2>1. accepted[id] = delivered.answers[id] + Queued(id) + Owed(id) BY <1>2 DEF AnswerInv
  <2> QED BY <1>2, <2>1, Types
<1>4. AnswerInv' BY <1>1, <1>3 DEF AnswerInv
<1>5. delivered'.event <= cursor' BY <1>1, <1>2, Types
<1> QED BY <1>1, <1>4, <1>5 DEF Carried, QueueInv, NoEventSkipped

\* One message joins the queue: an answer that was owed, the next event, or the
\* announcement of the shutdown.
Sent(m) ==
    /\ phase = "serving" /\ phase' \in {"serving", "flushing"}
    /\ outgoing' = Append(outgoing, m)
    /\ UNCHANGED <<writing, delivered, accepted>>
    /\ \/ ~IsFed(m) /\ cursor' = cursor
       \/ m = Event(cursor + 1) /\ cursor' = cursor + 1
    /\ \A id \in Ids : Owed(id)' + (IF m = Response(id) THEN 1 ELSE 0) = Owed(id)

\* A message that is put into the writer's queue when it is due keeps what the queues carry in order.
LEMMA SendStep ==
    ASSUME IInv, NEW m \in Messages, Sent(m)
    PROVE  Carried'
<1>1. /\ phase = "serving" /\ phase' \in {"serving", "flushing"}
      /\ outgoing' = Append(outgoing, m) /\ UNCHANGED <<writing, delivered, accepted>>
  BY DEF Sent
<1>2. TypeOK /\ AnswerInv /\ delivered.event <= cursor /\ InOrder(Unread, delivered.event, cursor)
  BY <1>1 DEF IInv, LimitInv, NoEventSkipped
<1>3. Unread' = Append(Unread, m) BY <1>1, <1>2, Types, Put DEF Unread
<1>4. AnswerInv'
  <2> SUFFICES ASSUME NEW id \in Ids
               PROVE  accepted'[id] = delivered'.answers[id] + Queued(id)' + Owed(id)'
    BY <1>1 DEF AnswerInv
  <2>1. accepted[id] = delivered.answers[id] + Queued(id) + Owed(id) BY <1>1, <1>2 DEF AnswerInv
  <2>2. Queued(id)' = Queued(id) + (IF m = Response(id) THEN 1 ELSE 0)
    BY <1>2, <1>3, Types, PositionsAppend DEF Queued
  <2>3. Owed(id)' + (IF m = Response(id) THEN 1 ELSE 0) = Owed(id) BY DEF Sent
  <2>4. Owed(id)' \in {0, 1} BY DEF Owed
  <2>5. accepted[id] \in Nat /\ delivered.answers[id] \in Nat /\ Queued(id) \in Nat /\ Owed(id) \in {0, 1}
    BY <1>2, Types
  <2>6. accepted'[id] = accepted[id] /\ delivered'.answers[id] = delivered.answers[id] BY <1>1
  <2>7. CASE m = Response(id) BY <2>1, <2>2, <2>3, <2>4, <2>5, <2>6, <2>7
  <2>8. CASE m # Response(id) BY <2>1, <2>2, <2>3, <2>4, <2>5, <2>6, <2>8
  <2> QED BY <2>7, <2>8
<1>5. InOrder(Unread', delivered.event, cursor') /\ delivered.event <= cursor'
  <2>1. CASE ~IsFed(m) /\ cursor' = cursor
    BY <1>2, <1>3, <2>1, Types, OrderAppend
  <2>2. CASE m = Event(cursor + 1) /\ cursor' = cursor + 1
    <3>1. InOrder(Append(Unread, Event(cursor + 1)), delivered.event, cursor + 1)
      BY <1>2, <2>2, Types, OrderNext, MessageFacts
    <3> QED BY <1>2, <1>3, <2>2, <3>1, Types
  <2> QED BY <2>1, <2>2 DEF Sent
<1> QED BY <1>1, <1>4, <1>5 DEF Carried, QueueInv, NoEventSkipped

-----------------------------------------------------------------------------
(* Each action preserves the invariant *)

Phases == {"authenticating", "answering", "serving", "flushing", "closed"}
Results == {"none", "ok", "Frame", "AuthenticationTimeout", "AuthenticationFailed",
            "DuplicateAuthentication", "DuplicateRequestId", "OutgoingQueueFull", "EventLagged"}

\* The parts of TypeOK that the actions change together.
ConnectionOK ==
    /\ phase \in Phases /\ result \in Results
    /\ wire \in Seq(Pieces \X Frames) /\ open \in BOOLEAN /\ frames \in 0 .. MaxFrames
    /\ reader \in {"start", "length", "prefix", "astray"}
PendingOK ==
    /\ requests \subseteq outstanding_ids /\ outstanding_ids \subseteq Ids
    /\ IsFiniteSet(requests) /\ Cardinality(requests) <= MaxOutstanding
    /\ accepted \in [Ids -> 0 .. MaxFrames]
WriterOK ==
    /\ outgoing \in Seq(Messages) /\ Len(outgoing) <= QueueCapacity
    /\ writing \in Seq(Messages) /\ Len(writing) <= 1
    /\ delivered \in [event : 0 .. MaxEvents, answers : [Ids -> 0 .. MaxFrames]]
FeedOK ==
    /\ feed \in Seq({"Other", "DaemonShuttingDown"}) /\ Len(feed) <= MaxEvents
    /\ cursor \in 0 .. Len(feed)
    /\ shutdown_event_queued \in BOOLEAN /\ daemon \in {"running", "announced", "signalled"}

\* IInv taken apart by what the actions change.
LEMMA Parts ==
    ASSUME IInv
    PROVE  ConnectionOK /\ PendingOK /\ WriterOK /\ FeedOK /\ FrameInv /\ Carried
BY DEF IInv, TypeOK, LimitInv, Carried, ConnectionOK, PendingOK, WriterOK, FeedOK, Phases, Results

\* The same parts together are IInv.
LEMMA Whole ==
    ASSUME ConnectionOK', PendingOK', WriterOK', FeedOK', FrameInv', Carried'
    PROVE  IInv'
BY DEF IInv, TypeOK, LimitInv, Carried, ConnectionOK, PendingOK, WriterOK, FeedOK, Phases, Results

\* The numbers the arithmetic of the actions is about.
LEMMA Numbers ==
    ASSUME IInv
    PROVE  /\ MaxFrames \in Nat /\ MaxEvents \in Nat /\ MaxOutstanding \in Nat /\ QueueCapacity \in Nat
           /\ QueueCapacity > 0
           /\ frames \in Nat /\ Len(wire) \in Nat /\ Len(feed) \in Nat /\ Len(outgoing) \in Nat
           /\ Taken(reader) \in 0 .. 2 /\ Taken("start") = 0 /\ Taken("length") = 1
           /\ Taken("prefix") = 2 /\ Taken("astray") = 0
           /\ \A id \in Ids : accepted[id] \in Nat
           /\ TypeOK
<1>1. /\ MaxFrames \in Nat /\ MaxEvents \in Nat /\ MaxOutstanding \in Nat /\ QueueCapacity \in Nat
      /\ QueueCapacity > 0
  BY CapacityAssumption
<1>2. TypeOK BY DEF IInv
<1>3. Len(wire) \in Nat /\ Len(feed) \in Nat /\ Len(outgoing) \in Nat
  BY <1>2, LenProperties DEF TypeOK
<1>4. frames \in Nat /\ \A id \in Ids : accepted[id] \in Nat BY <1>1, <1>2 DEF TypeOK
<1>5. /\ Taken("start") = 0 /\ Taken("length") = 1 /\ Taken("prefix") = 2 /\ Taken("astray") = 0
      /\ Taken(reader) \in 0 .. 2
  BY <1>2 DEF TypeOK, Taken
<1> QED BY <1>1, <1>2, <1>3, <1>4, <1>5

\* A read future that is dropped loses pieces, never gains one.
LEMMA FrameRest ==
    ASSUME IInv, UNCHANGED <<wire, frames, accepted>>, reader' \in {reader, "start"}
    PROVE  FrameInv'
<1> SUFFICES ASSUME NEW id \in Ids
             PROVE  3 * accepted'[id] + Len(wire') + Taken(reader') <= 3 * frames'
  BY DEF FrameInv
<1>1. 3 * accepted[id] + Len(wire) + Taken(reader) <= 3 * frames BY DEF IInv, FrameInv
<1>2. Taken(reader') \in {0, Taken(reader)} BY Numbers
<1>3. accepted[id] \in Nat /\ Len(wire) \in Nat /\ frames \in Nat /\ Taken(reader) \in 0 .. 2 BY Numbers
<1>4. Taken(reader') <= Taken(reader) /\ Taken(reader') \in Nat BY <1>2, <1>3
<1> QED BY <1>1, <1>3, <1>4

\* A break keeps everything but the writer's queue.
LEMMA BreakRest ==
    ASSUME IInv, NEW r \in Results, Breaks(r), UNCHANGED <<wire, client>>
    PROVE  ConnectionOK' /\ WriterOK'
<1>1. ConnectionOK /\ WriterOK BY Parts
<1>2. <<>> \in Seq(Messages) /\ Len(<<>>) = 0 BY EmptySeq
<1>3. 0 <= QueueCapacity BY Numbers
<1> QED BY <1>1, <1>2, <1>3 DEF ConnectionOK, WriterOK, Breaks, Ends, client, Phases

\* A client that writes a frame keeps IInv.
LEMMA ClientSendsStep ==
    ASSUME IInv, NEW f \in Frames, ClientSends(f)
    PROVE  IInv'
<1>1. ConnectionOK /\ PendingOK /\ WriterOK /\ FeedOK /\ FrameInv /\ Carried BY Parts
<1>2. PICK three : three = << <<"length", f>>, <<"gth", f>>, <<"payload", f>> >> OBVIOUS
<1>3. three \in Seq(Pieces \X Frames) /\ Len(three) = 3 BY <1>2 DEF Pieces
<1>4. wire' = wire \o three BY <1>2 DEF ClientSends
<1>5. wire' \in Seq(Pieces \X Frames) /\ Len(wire') = Len(wire) + 3
  <2>1. PICK P : P = Pieces \X Frames OBVIOUS
  <2>2. wire \in Seq(P) /\ three \in Seq(P) BY <1>1, <1>3, <2>1 DEF ConnectionOK
  <2>3. wire' \in Seq(P) /\ Len(wire') = Len(wire) + Len(three) BY <1>4, <2>2, ConcatProperties
  <2> QED BY <1>3, <2>1, <2>3
<1>6. frames' = frames + 1 /\ frames < MaxFrames /\ UNCHANGED <<server, open, loop, writer, outside>>
  BY DEF ClientSends
<1>7. ConnectionOK'
  BY <1>1, <1>5, <1>6, Numbers DEF ConnectionOK, server, loop
<1>8. PendingOK' /\ WriterOK' /\ FeedOK'
  BY <1>1, <1>6 DEF PendingOK, WriterOK, FeedOK, loop, pending, followed, writer, outside
<1>9. Carried' BY <1>6, IdleStep DEF Untouched, server, loop, pending, followed, writer
<1>10. FrameInv'
  <2> SUFFICES ASSUME NEW id \in Ids
               PROVE  3 * accepted'[id] + Len(wire') + Taken(reader') <= 3 * frames'
    BY DEF FrameInv
  <2>1. 3 * accepted[id] + Len(wire) + Taken(reader) <= 3 * frames BY <1>1 DEF FrameInv
  <2>2. accepted' = accepted /\ reader' = reader BY <1>6 DEF loop, pending
  <2>3. accepted[id] \in Nat /\ Len(wire) \in Nat /\ frames \in Nat /\ Taken(reader) \in 0 .. 2 BY Numbers
  <2>4. Len(wire') = Len(wire) + 3 /\ frames' = frames + 1 BY <1>5, <1>6
  <2> QED BY <2>1, <2>2, <2>3, <2>4
<1> QED BY <1>7, <1>8, <1>9, <1>10, Whole

\* The client closing its end, and the daemon's events and shutdown.
LEMMA OutsideStep ==
    ASSUME IInv, ClientCloses \/ Emits \/ AnnouncesShutdown \/ SignalsShutdown
    PROVE  IInv'
<1>1. ConnectionOK /\ PendingOK /\ WriterOK /\ FeedOK /\ FrameInv /\ Carried BY Parts
<1>2. UNCHANGED <<server, wire, frames, loop, writer>>
  BY DEF ClientCloses, Emits, AnnouncesShutdown, SignalsShutdown, client
<1>3. open' \in BOOLEAN
  BY <1>1 DEF ClientCloses, Emits, AnnouncesShutdown, SignalsShutdown, client, ConnectionOK
<1>4. ConnectionOK' BY <1>1, <1>2, <1>3 DEF ConnectionOK, server, loop
<1>5. PendingOK' /\ WriterOK' BY <1>1, <1>2 DEF PendingOK, WriterOK, loop, pending, writer
<1>6. FeedOK'
  <2>1. cursor' = cursor /\ shutdown_event_queued' = shutdown_event_queued
    BY <1>2 DEF loop, followed
  <2>2. CASE ClientCloses \/ SignalsShutdown
    BY <1>1, <2>1, <2>2 DEF FeedOK, ClientCloses, SignalsShutdown, outside
  <2>3. ASSUME NEW e \in {"Other", "DaemonShuttingDown"}, feed' = Append(feed, e), Len(feed) < MaxEvents,
               daemon' \in {"running", "announced", "signalled"}
        PROVE  FeedOK'
    <3>1. feed' \in Seq({"Other", "DaemonShuttingDown"}) /\ Len(feed') = Len(feed) + 1
      BY <1>1, <2>3, AppendProperties DEF FeedOK
    <3> QED BY <1>1, <2>1, <2>3, <3>1, Numbers DEF FeedOK
  <2>4. CASE Emits
    <3>1. Len(feed) < MaxEvents BY <2>4, Numbers DEF Emits
    <3> QED BY <1>1, <2>3, <2>4, <3>1 DEF Emits, FeedOK
  <2>5. CASE AnnouncesShutdown BY <2>3, <2>5 DEF AnnouncesShutdown
  <2> QED BY <2>2, <2>4, <2>5
<1>7. Carried' BY <1>2, IdleStep DEF Untouched, server, loop, pending, followed, writer
<1>8. FrameInv' BY <1>2, FrameRest DEF loop, pending
<1> QED BY <1>4, <1>5, <1>6, <1>7, <1>8, Whole

\* Authentication: nothing has been queued yet.
LEMMA AuthenticationStep ==
    ASSUME IInv, ReadsFirstFrame \/ WritesAuthenticated \/ AuthenticationFails
    PROVE  IInv'
<1>1. ConnectionOK /\ PendingOK /\ WriterOK /\ FeedOK /\ FrameInv /\ Carried BY Parts
<1>2. UNCHANGED <<client, loop, writer, outside>> /\ phase \in {"authenticating", "answering"}
  BY DEF ReadsFirstFrame, WritesAuthenticated, AuthenticationFails
<1>3. phase' \in Phases /\ result' \in Results
  <2>1. CASE ReadsFirstFrame
    BY <1>1, <2>1 DEF ReadsFirstFrame, Ends, ConnectionOK, Phases, Results
  <2>2. CASE WritesAuthenticated BY <1>1, <2>2 DEF WritesAuthenticated, ConnectionOK, Phases
  <2>3. CASE AuthenticationFails
    BY <2>3 DEF AuthenticationFails, Ends, Phases, Results
  <2> QED BY <2>1, <2>2, <2>3
<1>4. wire' \in Seq(Pieces \X Frames) /\ Len(wire') <= Len(wire) /\ Len(wire') \in Nat
  <2>1. CASE wire' = wire BY <1>1, <2>1, Numbers DEF ConnectionOK
  <2>2. CASE Len(wire) >= 3 /\ wire' = SubSeq(wire, 4, Len(wire))
    <3>1. wire \in Seq(Pieces \X Frames) /\ Len(wire) \in Nat BY <1>1, Numbers DEF ConnectionOK
    <3>2. \A i \in 4 .. Len(wire) : wire[i] \in Pieces \X Frames BY <3>1, ElementOfSeq
    <3>3. /\ wire' \in Seq(Pieces \X Frames)
          /\ Len(wire') = IF 4 <= Len(wire) THEN Len(wire) - 4 + 1 ELSE 0
      BY <2>2, <3>1, <3>2, SubSeqProperties
    <3> QED BY <2>2, <3>1, <3>3
  <2> QED BY <2>1, <2>2 DEF ReadsFirstFrame, WritesAuthenticated, AuthenticationFails
<1>5. ConnectionOK' BY <1>1, <1>2, <1>3, <1>4 DEF ConnectionOK, client, loop
<1>6. PendingOK' /\ WriterOK' /\ FeedOK'
  BY <1>1, <1>2 DEF PendingOK, WriterOK, FeedOK, loop, pending, followed, writer, outside
<1>7. Carried'
  <2>1. outgoing = <<>> /\ writing = <<>> BY <1>1, <1>2 DEF Carried, QueueInv
  <2> QED BY <1>2, <2>1, IdleStep DEF Untouched, loop, pending, followed, writer
<1>8. FrameInv'
  <2> SUFFICES ASSUME NEW id \in Ids
               PROVE  3 * accepted'[id] + Len(wire') + Taken(reader') <= 3 * frames'
    BY DEF FrameInv
  <2>1. 3 * accepted[id] + Len(wire) + Taken(reader) <= 3 * frames BY <1>1 DEF FrameInv
  <2>2. accepted' = accepted /\ reader' = reader /\ frames' = frames BY <1>2 DEF loop, pending, client
  <2>3. accepted[id] \in Nat /\ Len(wire) \in Nat /\ frames \in Nat /\ Taken(reader) \in 0 .. 2 BY Numbers
  <2> QED BY <1>4, <2>1, <2>2, <2>3
<1> QED BY <1>5, <1>6, <1>7, <1>8, Whole

\* What try_send is given: an owed answer or the next event.
Due(m) ==
    /\ \/ ~IsFed(m) /\ cursor' = cursor
       \/ m = Event(cursor + 1) /\ cursor' = cursor + 1
    /\ \A id \in Ids : Owed(id)' + (IF m = Response(id) THEN 1 ELSE 0) = Owed(id)

\* One message more in a queue that has room.
LEMMA QueueGrows ==
    ASSUME IInv, NEW m \in Messages, HasRoom, outgoing' = Append(outgoing, m),
           UNCHANGED <<writing, delivered>>
    PROVE  WriterOK'
<1>1. WriterOK BY Parts
<1>2. outgoing' \in Seq(Messages) /\ Len(outgoing') = Len(outgoing) + 1
  BY <1>1, AppendProperties DEF WriterOK
<1>3. Len(outgoing') <= QueueCapacity BY <1>2, Numbers DEF HasRoom
<1> QED BY <1>1, <1>2, <1>3 DEF WriterOK

\* try_send, whether the queue has room or the client is dropped.
LEMMA TrySendStep ==
    ASSUME IInv, phase = "serving", NEW m \in Messages, try_send(m), Due(m),
           UNCHANGED <<wire, client, accepted>>
    PROVE  ConnectionOK' /\ WriterOK' /\ FrameInv' /\ Carried'
<1>1. ConnectionOK /\ WriterOK BY Parts
<1>2. reader' = "start" BY DEF try_send, Breaks
<1>3. FrameInv' BY <1>2, FrameRest DEF client
<1>4. CASE HasRoom
  <2>1. /\ outgoing' = Append(outgoing, m) /\ reader' = "start"
        /\ UNCHANGED <<server, writing, delivered>>
    BY <1>4 DEF try_send
  <2>2. ConnectionOK' BY <1>1, <2>1 DEF ConnectionOK, server, client
  <2>3. Carried' BY <2>1, SendStep DEF Sent, Due, server
  <2> QED BY <1>3, <1>4, <2>1, <2>2, <2>3, QueueGrows
<1>5. CASE ~HasRoom
  <2>1. Breaks("OutgoingQueueFull") /\ "OutgoingQueueFull" \in Results BY <1>5 DEF try_send, Results
  <2>2. cursor \in Nat BY Types, Numbers
  <2>3. cursor' \in Nat /\ cursor <= cursor' BY <2>2 DEF Due
  <2>4. Carried' BY <2>1, <2>3, BreakStep
  <2> QED BY <1>3, <2>1, <2>4, BreakRest
<1> QED BY <1>4, <1>5

\* The branches that end the connection and those of the flush that do.
LEMMA CutStep ==
    ASSUME IInv, NEW r \in Results, Breaks(r), phase # "closed",
           UNCHANGED <<wire, client, pending, followed, outside>>
    PROVE  IInv'
<1>1. PendingOK /\ FeedOK BY Parts
<1>2. PendingOK' /\ FeedOK' BY <1>1 DEF PendingOK, FeedOK, pending, followed, outside
<1>3. FrameInv' BY FrameRest DEF Breaks, client, pending
<1>4. cursor \in Nat BY Types, Numbers
<1>5. Carried' BY <1>4, BreakStep DEF pending, followed
<1> QED BY <1>2, <1>3, <1>5, BreakRest, Whole

\* The shutdown branch keeps IInv.
LEMMA ShutdownStep ==
    ASSUME IInv, ShutdownBranch
    PROVE  IInv'
<1>1. ConnectionOK /\ PendingOK /\ WriterOK /\ FeedOK /\ FrameInv /\ Carried BY Parts
<1>2. phase = "serving" /\ UNCHANGED <<wire, client, pending, followed, outside>>
  BY DEF ShutdownBranch
<1>3. CASE Unannounced => HasRoom
  <2>1. /\ phase' = "flushing" /\ result' = "ok" /\ reader' = "start"
        /\ outgoing' = IF Unannounced THEN Append(outgoing, Event(0)) ELSE outgoing
        /\ UNCHANGED <<writing, delivered>>
    BY <1>3 DEF ShutdownBranch
  <2>2. ConnectionOK' BY <1>1, <1>2, <2>1 DEF ConnectionOK, client, Phases, Results
  <2>3. PendingOK' /\ FeedOK' BY <1>1, <1>2 DEF PendingOK, FeedOK, pending, followed, outside
  <2>4. FrameInv' BY <1>2, <2>1, FrameRest DEF client, pending
  <2>5. CASE Unannounced
    <3>1. Event(0) \in Messages /\ ~IsFed(Event(0)) /\ \A id \in Ids : Event(0) # Response(id)
      <4>1. 0 \in 0 .. MaxEvents BY Numbers
      <4> QED BY <4>1, MessageFacts
    <3>2. ASSUME NEW id \in Ids
          PROVE  Owed(id)' + (IF Event(0) = Response(id) THEN 1 ELSE 0) = Owed(id)
      BY <1>2, <3>1 DEF Owed, pending
    <3>3. Sent(Event(0))
      BY <1>2, <2>1, <2>5, <3>1, <3>2 DEF Sent, pending, followed
    <3>4. Carried' BY <3>1, <3>3, SendStep
    <3>5. WriterOK' BY <1>3, <2>1, <2>5, <3>1, QueueGrows
    <3> QED BY <2>2, <2>3, <2>4, <3>4, <3>5, Whole
  <2>6. CASE ~Unannounced
    <3>1. WriterOK' BY <1>1, <2>1, <2>6 DEF WriterOK
    <3>2. Carried'
      <4>1. /\ UNCHANGED <<requests, accepted, cursor, outgoing, writing, delivered>>
        BY <1>2, <2>1, <2>6 DEF pending, followed
      <4>2. Unread' = Unread BY <4>1 DEF Unread
      <4>3. \A id \in Ids : Queued(id)' = Queued(id) /\ Owed(id)' = Owed(id)
        BY <4>1, <4>2 DEF Queued, Owed
      <4>4. QueueInv' BY <2>1 DEF QueueInv
      <4>5. AnswerInv' BY <1>1, <1>2, <2>1, <4>1, <4>3 DEF AnswerInv, Carried
      <4>6. NoEventSkipped' BY <1>1, <1>2, <4>1, <4>2 DEF NoEventSkipped, Carried
      <4> QED BY <1>1, <4>1, <4>4, <4>5, <4>6 DEF Carried
    <3> QED BY <2>2, <2>3, <2>4, <3>1, <3>2, Whole
  <2> QED BY <2>5, <2>6
<1>4. CASE ~(Unannounced => HasRoom)
  <2>1. Breaks("OutgoingQueueFull") /\ "OutgoingQueueFull" \in Results
    BY <1>4 DEF ShutdownBranch, Results
  <2> QED BY <1>2, <2>1, CutStep
<1> QED BY <1>3, <1>4

\* The event that recv yields is the one after the last, or the client is cut.
LEMMA EventStep ==
    ASSUME IInv, EventBranch
    PROVE  IInv'
<1>1. ConnectionOK /\ PendingOK /\ WriterOK /\ FeedOK /\ FrameInv /\ Carried BY Parts
<1>2. phase = "serving" /\ cursor < Len(feed) /\ UNCHANGED <<wire, client, pending, outside>>
  BY DEF EventBranch
<1>3. CASE Lagged
  <2>1. Breaks("EventLagged") /\ UNCHANGED followed /\ "EventLagged" \in Results
    BY <1>3 DEF EventBranch, Results
  <2> QED BY <1>2, <2>1, CutStep
<1>4. CASE ~Lagged
  <2>1. NextEvent = cursor + 1 BY <1>4 DEF NextEvent, Lagged
  <2>2. /\ cursor' = cursor + 1 /\ try_send(Event(cursor + 1))
        /\ shutdown_event_queued' =
               (shutdown_event_queued \/ feed[NextEvent] = "DaemonShuttingDown")
    BY <1>4, <2>1 DEF EventBranch
  <2>3. cursor \in Nat /\ cursor + 1 \in 0 .. MaxEvents /\ cursor + 1 \in 0 .. Len(feed)
    BY <1>1, <1>2, Types, Numbers DEF FeedOK
  <2>4. PICK m \in Messages : m = Event(cursor + 1) BY <2>3, MessageFacts
  <2>5. \A id \in Ids : m # Response(id) BY <2>3, <2>4, MessageFacts
  <2>6. \A id \in Ids : Owed(id)' = Owed(id) BY <1>2 DEF Owed, pending
  <2>7. Due(m)
    <3>1. \A id \in Ids : Owed(id)' + (IF m = Response(id) THEN 1 ELSE 0) = Owed(id)
      BY <2>5, <2>6 DEF Owed
    <3> QED BY <2>2, <2>4, <3>1 DEF Due
  <2>8. ConnectionOK' /\ WriterOK' /\ FrameInv' /\ Carried'
    BY <1>2, <2>2, <2>4, <2>7, TrySendStep DEF pending
  <2>9. PendingOK' BY <1>1, <1>2 DEF PendingOK, pending
  <2>10. FeedOK' BY <1>1, <1>2, <2>2, <2>3 DEF FeedOK, outside
  <2> QED BY <2>8, <2>9, <2>10, Whole
<1> QED BY <1>3, <1>4

\* A response future that completes keeps IInv.
LEMMA CompletedStep ==
    ASSUME IInv, NEW id \in Ids, CompletedBranch(id)
    PROVE  IInv'
<1>1. ConnectionOK /\ PendingOK /\ WriterOK /\ FeedOK /\ FrameInv /\ Carried BY Parts
<1>2. /\ phase = "serving" /\ id \in requests /\ requests' = requests \ {id}
      /\ outstanding_ids' = outstanding_ids \ {id} /\ try_send(Response(id))
      /\ UNCHANGED <<wire, client, followed, accepted, outside>>
  BY DEF CompletedBranch, Released
<1>3. PICK m \in Messages : m = Response(id) BY MessageFacts
<1>4. ~IsFed(m) BY <1>3, MessageFacts
<1>5. Due(m)
  <2>1. ASSUME NEW d \in Ids PROVE Owed(d)' + (IF m = Response(d) THEN 1 ELSE 0) = Owed(d)
    <3>1. CASE d = id BY <1>2, <1>3, <3>1 DEF Owed
    <3>2. CASE d # id
      <4>1. m # Response(d) BY <1>3, <3>2 DEF Response
      <4>2. (d \in requests') = (d \in requests) BY <1>2, <3>2
      <4> QED BY <4>1, <4>2 DEF Owed
    <3> QED BY <3>1, <3>2
  <2> QED BY <1>2, <1>4, <2>1 DEF Due, followed
<1>6. ConnectionOK' /\ WriterOK' /\ FrameInv' /\ Carried' BY <1>2, <1>3, <1>5, TrySendStep
<1>7. PendingOK'
  <2>1. IsFiniteSet(requests) /\ Cardinality(requests) <= MaxOutstanding BY <1>1 DEF PendingOK
  <2>2. IsFiniteSet(requests') /\ Cardinality(requests') = Cardinality(requests) - 1
    BY <1>2, <2>1, FS_RemoveElement
  <2>3. Cardinality(requests') <= MaxOutstanding BY <2>1, <2>2, FS_CardinalityType, Numbers
  <2> QED BY <1>1, <1>2, <2>2, <2>3 DEF PendingOK
<1>8. FeedOK' BY <1>1, <1>2 DEF FeedOK, followed, outside
<1> QED BY <1>6, <1>7, <1>8, Whole

\* The piece that is read leaves the wire.
LEMMA WireTail ==
    ASSUME IInv, wire # <<>>, wire' = Tail(wire)
    PROVE  /\ wire' \in Seq(Pieces \X Frames) /\ Len(wire') = Len(wire) - 1
           /\ Len(wire) > 0 /\ Head(wire)[2] \in Frames
<1>1. PICK P : P = Pieces \X Frames OBVIOUS
<1>2. wire \in Seq(P) BY <1>1, Parts DEF ConnectionOK
<1>3. Tail(wire) \in Seq(P) /\ Len(Tail(wire)) = Len(wire) - 1 /\ Head(wire) \in P
  BY <1>2, HeadTailProperties
<1>4. Len(wire) > 0 BY <1>2, EmptySeq
<1> QED BY <1>1, <1>3, <1>4

\* A partial read keeps IInv.
LEMMA ReadsPieceStep ==
    ASSUME IInv, ReadsPiece
    PROVE  IInv'
<1>1. ConnectionOK /\ PendingOK /\ WriterOK /\ FeedOK /\ FrameInv /\ Carried BY Parts
<1>2. /\ wire # <<>> /\ wire' = Tail(wire)
      /\ UNCHANGED <<server, client, pending, followed, writer, outside>>
  BY DEF ReadsPiece
<1>3. wire' \in Seq(Pieces \X Frames) /\ Len(wire') = Len(wire) - 1 BY <1>2, WireTail
<1>4. /\ reader' \in {"start", "length", "prefix", "astray"}
      /\ Taken(reader') \in 0 .. 2 /\ Taken(reader') <= Taken(reader) + 1
  BY Numbers DEF ReadsPiece
<1>5. ConnectionOK' BY <1>1, <1>2, <1>3, <1>4 DEF ConnectionOK, server, client
<1>6. PendingOK' /\ WriterOK' /\ FeedOK'
  BY <1>1, <1>2 DEF PendingOK, WriterOK, FeedOK, pending, followed, writer, outside
<1>7. Carried' BY <1>2, IdleStep DEF Untouched, server, pending, followed, writer
<1>8. FrameInv'
  <2> SUFFICES ASSUME NEW id \in Ids
               PROVE  3 * accepted'[id] + Len(wire') + Taken(reader') <= 3 * frames'
    BY DEF FrameInv
  <2>1. 3 * accepted[id] + Len(wire) + Taken(reader) <= 3 * frames BY <1>1 DEF FrameInv
  <2>2. accepted' = accepted /\ frames' = frames BY <1>2 DEF pending, client
  <2>3. accepted[id] \in Nat /\ Len(wire) \in Nat /\ frames \in Nat /\ Taken(reader) \in 0 .. 2 BY Numbers
  <2>4. Len(wire') = Len(wire) - 1 /\ Taken(reader') \in 0 .. 2 /\ Taken(reader') <= Taken(reader) + 1
    BY <1>3, <1>4
  <2> QED BY <2>1, <2>2, <2>3, <2>4
<1> QED BY <1>5, <1>6, <1>7, <1>8, Whole

\* A request with a fresh ID is owed an answer; any other frame is the end.
LEMMA ReadsFrameStep ==
    ASSUME IInv, ReadsFrame
    PROVE  IInv'
<1>1. ConnectionOK /\ PendingOK /\ WriterOK /\ FeedOK /\ FrameInv /\ Carried BY Parts
<1>2. /\ phase = "serving" /\ Cardinality(requests) < MaxOutstanding /\ reader = "prefix"
      /\ wire # <<>> /\ wire' = Tail(wire) /\ UNCHANGED <<client, followed, outside>>
  BY DEF ReadsFrame, Reading
<1>3. PICK f \in Frames : f = Head(wire)[2] BY <1>2, WireTail
<1>4. wire' \in Seq(Pieces \X Frames) /\ Len(wire') = Len(wire) - 1 BY <1>2, WireTail
<1>5. FeedOK' BY <1>1, <1>2 DEF FeedOK, followed, outside
<1>6. CASE f.type = "Request" /\ f.id \notin outstanding_ids
  <2>1. /\ outstanding_ids' = outstanding_ids \cup {f.id} /\ requests' = requests \cup {f.id}
        /\ accepted' = [accepted EXCEPT ![f.id] = @ + 1] /\ reader' = "start"
        /\ UNCHANGED <<server, writer>>
    BY <1>3, <1>6 DEF ReadsFrame
  <2>2. PICK id \in Ids : id = f.id BY <1>6 DEF Frames, Requests, Others
  <2>3. id \notin requests BY <1>1, <1>6, <2>2 DEF PendingOK
  <2>4. 3 * accepted[id] + Len(wire) + 2 <= 3 * frames /\ Len(wire) > 0
    BY <1>1, <1>2, Numbers, WireTail DEF FrameInv
  <2>5. accepted[id] + 1 <= frames /\ accepted[id] + 1 \in 0 .. MaxFrames
    <3>1. accepted[id] \in Nat /\ Len(wire) \in Nat /\ frames \in Nat /\ MaxFrames \in Nat
          /\ frames <= MaxFrames
      BY <1>1, Numbers DEF ConnectionOK
    <3> QED BY <2>4, <3>1
  <2>6. /\ accepted'[id] = accepted[id] + 1 /\ \A d \in Ids : d # id => accepted'[d] = accepted[d]
        /\ accepted' \in [Ids -> 0 .. MaxFrames]
    BY <1>1, <2>1, <2>2, <2>5 DEF PendingOK
  <2>7. PendingOK'
    <3>1. IsFiniteSet(requests') /\ Cardinality(requests') = Cardinality(requests) + 1
      BY <1>1, <2>1, <2>2, <2>3, FS_AddElement DEF PendingOK
    <3>2. Cardinality(requests) \in Nat BY <1>1, FS_CardinalityType DEF PendingOK
    <3>3. Cardinality(requests') <= MaxOutstanding BY <1>2, <3>1, <3>2, Numbers
    <3> QED BY <1>1, <2>1, <2>2, <2>6, <3>1, <3>3 DEF PendingOK
  <2>8. ConnectionOK' BY <1>1, <1>2, <1>4, <2>1 DEF ConnectionOK, server, client
  <2>9. WriterOK' BY <1>1, <2>1 DEF WriterOK, writer
  <2>10. FrameInv'
    <3> SUFFICES ASSUME NEW d \in Ids
                 PROVE  3 * accepted'[d] + Len(wire') + Taken(reader') <= 3 * frames'
      BY DEF FrameInv
    <3>1. 3 * accepted[d] + Len(wire) + 2 <= 3 * frames BY <1>1, <1>2, Numbers DEF FrameInv
    <3>2. accepted'[d] \in {accepted[d], accepted[d] + 1} BY <2>6
    <3>3. frames' = frames /\ Taken(reader') = 0 BY <1>2, <2>1, Numbers DEF client
    <3>4. accepted[d] \in Nat /\ Len(wire) \in Nat /\ frames \in Nat BY Numbers
    <3>5. Len(wire') = Len(wire) - 1 BY <1>4
    <3> QED BY <3>1, <3>2, <3>3, <3>4, <3>5
  <2>11. Carried'
    <3>1. UNCHANGED <<phase, outgoing, writing, delivered, cursor>> BY <1>2, <2>1 DEF server, writer, followed
    <3>2. Unread' = Unread BY <3>1 DEF Unread
    <3>3. ASSUME NEW d \in Ids
          PROVE  accepted'[d] = delivered'.answers[d] + Queued(d)' + Owed(d)'
      <4>1. accepted[d] = delivered.answers[d] + Queued(d) + Owed(d)
        BY <1>1, <1>2 DEF Carried, AnswerInv
      <4>2. Queued(d)' = Queued(d) BY <3>2 DEF Queued
      <4>3. delivered.answers[d] \in Nat /\ Queued(d) \in Nat BY Types, Numbers
      <4>4. CASE d = id
        <5>1. Owed(d) = 0 /\ Owed(d)' = 1 BY <2>1, <2>2, <2>3, <4>4 DEF Owed
        <5> QED BY <2>6, <3>1, <4>1, <4>2, <4>3, <4>4, <5>1
      <4>5. CASE d # id
        <5>1. Owed(d)' = Owed(d) BY <2>1, <2>2, <4>5 DEF Owed
        <5> QED BY <2>6, <3>1, <4>1, <4>2, <4>5, <5>1
      <4> QED BY <4>4, <4>5
    <3>4. AnswerInv' BY <1>2, <3>1, <3>3 DEF AnswerInv
    <3>5. NoEventSkipped' /\ QueueInv'
      BY <1>1, <1>2, <3>1, <3>2 DEF NoEventSkipped, QueueInv, Carried
    <3> QED BY <1>1, <3>1, <3>4, <3>5 DEF Carried
  <2> QED BY <1>5, <2>7, <2>8, <2>9, <2>10, <2>11, Whole
<1>7. CASE ~(f.type = "Request" /\ f.id \notin outstanding_ids)
  <2>1. PICK r \in Results : Breaks(r) /\ UNCHANGED pending
    <3>1. "DuplicateRequestId" \in Results /\ "Frame" \in Results /\ "DuplicateAuthentication" \in Results
      BY DEF Results
    <3> QED BY <1>3, <1>7, <3>1 DEF ReadsFrame
  <2>2. PendingOK' BY <1>1, <2>1 DEF PendingOK, pending
  <2>3. ConnectionOK' /\ WriterOK'
    <3>1. <<>> \in Seq(Messages) /\ Len(<<>>) = 0 /\ 0 <= QueueCapacity BY EmptySeq, Numbers
    <3> QED BY <1>1, <1>2, <1>4, <2>1, <3>1 DEF ConnectionOK, WriterOK, Breaks, Ends, client, Phases
  <2>4. FrameInv'
    <3> SUFFICES ASSUME NEW d \in Ids
                 PROVE  3 * accepted'[d] + Len(wire') + Taken(reader') <= 3 * frames'
      BY DEF FrameInv
    <3>1. 3 * accepted[d] + Len(wire) + 2 <= 3 * frames BY <1>1, <1>2, Numbers DEF FrameInv
    <3>2. /\ frames' = frames /\ Taken(reader') = 0 /\ accepted' = accepted
      BY <1>2, <2>1, Numbers DEF client, Breaks, pending
    <3>3. accepted[d] \in Nat /\ Len(wire) \in Nat /\ frames \in Nat BY Numbers
    <3> QED BY <1>4, <3>1, <3>2, <3>3
  <2>5. Carried'
    <3>1. cursor \in Nat /\ cursor' = cursor BY <1>2, Types, Numbers DEF followed
    <3> QED BY <1>2, <2>1, <3>1, BreakStep DEF pending
  <2> QED BY <1>5, <2>2, <2>3, <2>4, <2>5, Whole
<1> QED BY <1>6, <1>7

\* The writer taking the next message keeps IInv.
LEMMA WriterTakesStep ==
    ASSUME IInv, WriterTakes
    PROVE  IInv'
<1>1. ConnectionOK /\ PendingOK /\ WriterOK /\ FeedOK /\ FrameInv /\ Carried BY Parts
<1>2. /\ phase \in {"serving", "flushing"} /\ writing = <<>> /\ outgoing # <<>>
      /\ writing' = <<Head(outgoing)>> /\ outgoing' = Tail(outgoing)
      /\ UNCHANGED <<server, wire, client, loop, delivered, outside>>
  BY DEF WriterTakes
<1>3. /\ Head(outgoing) \in Messages /\ Tail(outgoing) \in Seq(Messages)
      /\ Len(Tail(outgoing)) = Len(outgoing) - 1
  BY <1>1, <1>2, HeadTailProperties DEF WriterOK
<1>4. writing' \in Seq(Messages) /\ Len(writing') <= 1 BY <1>2, <1>3
<1>5. WriterOK' BY <1>1, <1>2, <1>3, <1>4, Numbers DEF WriterOK
<1>6. ConnectionOK' /\ PendingOK' /\ FeedOK'
  BY <1>1, <1>2 DEF ConnectionOK, PendingOK, FeedOK, server, client, loop, pending, followed, outside
<1>7. FrameInv' BY <1>2, FrameRest DEF client, loop, pending
<1>8. Carried'
  <2>1. Unread' = Unread BY <1>1, <1>2, Take DEF Unread, WriterOK
  <2>2. UNCHANGED <<phase, requests, accepted, delivered, cursor>>
    BY <1>2 DEF server, loop, pending, followed
  <2>3. \A id \in Ids : Queued(id)' = Queued(id) /\ Owed(id)' = Owed(id)
    BY <2>1, <2>2 DEF Queued, Owed
  <2>4. AnswerInv' BY <1>1, <2>2, <2>3 DEF AnswerInv, Carried
  <2>5. NoEventSkipped' BY <1>1, <2>1, <2>2 DEF NoEventSkipped, Carried
  <2>6. QueueInv' BY <1>2, <2>2 DEF QueueInv
  <2> QED BY <1>1, <2>2, <2>4, <2>5, <2>6 DEF Carried
<1> QED BY <1>5, <1>6, <1>7, <1>8, Whole

\* The client gets the oldest message: an answer it is owed once less, or the
\* event after the last it saw.
LEMMA ClientReadsStep ==
    ASSUME IInv, ClientReads
    PROVE  IInv'
<1>1. ConnectionOK /\ PendingOK /\ WriterOK /\ FeedOK /\ FrameInv /\ Carried BY Parts
<1>2. /\ writing # <<>> /\ writing' = <<>> /\ UNCHANGED <<server, wire, client, loop, outgoing, outside>>
  BY DEF ClientReads
<1>3. phase \in {"serving", "flushing"} BY <1>1, <1>2 DEF Carried, QueueInv
<1>4. writing \in Seq(Messages) /\ Len(writing) = 1
  <2>1. writing \in Seq(Messages) /\ Len(writing) <= 1 BY <1>1 DEF WriterOK
  <2>2. PICK n : n = Len(writing) OBVIOUS
  <2>3. n \in Nat \ {0} BY <1>2, <2>1, <2>2, EmptySeq
  <2>4. n = 1 BY <2>1, <2>2, <2>3
  <2> QED BY <2>1, <2>2, <2>4
<1>5. PICK m \in Messages : m = writing[1] BY <1>4, ElementOfSeq
<1>6. writing = <<m>>
  <2>1. <<m>> \in Seq(Messages) /\ Len(<<m>>) = 1 /\ <<m>>[1] = m OBVIOUS
  <2>2. ASSUME NEW i \in 1 .. Len(writing) PROVE writing[i] = <<m>>[i]
    <3>1. i = 1 BY <1>4
    <3> QED BY <1>5, <2>1, <3>1
  <2> QED BY <1>4, <2>1, <2>2, SeqEqual
<1>7. PICK s : s = <<m>> \o outgoing OBVIOUS
<1>8. Unread = s BY <1>6, <1>7 DEF Unread
<1>9. outgoing \in Seq(Messages) BY <1>1 DEF WriterOK
<1>10. Unread' = outgoing BY <1>2, <1>9, ConcatEmptySeq DEF Unread
<1>11. delivered' = IF m.type = "Response" THEN [delivered EXCEPT !.answers[m.id] = @ + 1]
                    ELSE [delivered EXCEPT !.event = IF m.n > 0 THEN m.n ELSE @]
  BY <1>5 DEF ClientReads
<1>12. UNCHANGED <<phase, requests, accepted, cursor>> BY <1>2 DEF server, loop, pending, followed
<1>13. cursor \in Nat /\ delivered.event \in Nat BY Types, Numbers
<1>14. InOrder(s, delivered.event, cursor) BY <1>1, <1>3, <1>8 DEF Carried, NoEventSkipped
<1>15. /\ IsFed(m) => m.n = delivered.event + 1 /\ m.n <= cursor
                      /\ InOrder(outgoing, delivered.event + 1, cursor)
       /\ ~IsFed(m) => InOrder(outgoing, delivered.event, cursor)
  BY <1>7, <1>9, <1>13, <1>14, OrderFirst, MessageFacts
<1>16. delivered \in [event : 0 .. MaxEvents, answers : [Ids -> 0 .. MaxFrames]]
  BY <1>1 DEF WriterOK
<1>17. ASSUME NEW id \in Ids
       PROVE  /\ accepted[id] = delivered.answers[id] + Queued(id) + Owed(id)
              /\ Queued(id) = Queued(id)' + (IF m = Response(id) THEN 1 ELSE 0)
              /\ Queued(id)' \in Nat /\ Owed(id)' = Owed(id)
  <2>1. accepted[id] = delivered.answers[id] + Queued(id) + Owed(id)
    BY <1>1, <1>3 DEF Carried, AnswerInv
  <2>2. Queued(id) = Queued(id)' + (IF m = Response(id) THEN 1 ELSE 0)
    <3>1. Queued(id) = Cardinality(Positions(s, Response(id))) BY <1>8 DEF Queued
    <3>2. Queued(id)' = Cardinality(Positions(outgoing, Response(id))) BY <1>10 DEF Queued
    <3>3. PICK x : x = Response(id) OBVIOUS
    <3>4. Leads(m, outgoing, s) BY <1>7 DEF Leads
    <3>5. /\ m = x => Cardinality(Positions(s, x)) = Cardinality(Positions(outgoing, x)) + 1
          /\ m # x => Cardinality(Positions(s, x)) = Cardinality(Positions(outgoing, x))
      BY <1>9, <3>4, PositionsCons
    <3>6. Cardinality(Positions(outgoing, x)) \in Nat BY <1>9, PositionsFinite
    <3> QED BY <3>1, <3>2, <3>3, <3>5, <3>6
  <2>3. Queued(id)' \in Nat BY <1>9, <1>10, PositionsFinite DEF Queued
  <2>4. Owed(id)' = Owed(id) BY <1>12 DEF Owed
  <2> QED BY <2>1, <2>2, <2>3, <2>4
<1>18. ASSUME m.type = "Response"
       PROVE  Carried' /\ delivered' \in [event : 0 .. MaxEvents, answers : [Ids -> 0 .. MaxFrames]]
  <2>1. PICK d \in Ids : d = m.id /\ m = Response(d) /\ ~IsFed(m) BY <1>18, MessageFacts
  <2>2. delivered' = [delivered EXCEPT !.answers[d] = @ + 1] BY <1>11, <1>18, <2>1
  <2>3. delivered.answers[d] \in Nat /\ Owed(d) \in {0, 1} /\ accepted[d] \in 0 .. MaxFrames
    BY <1>1, Types, Numbers DEF PendingOK
  <2>4. delivered.answers[d] + 1 \in 0 .. MaxFrames
    <3>1. accepted[d] = delivered.answers[d] + Queued(d)' + 1 + Owed(d) /\ Queued(d)' \in Nat
      <4>1. /\ accepted[d] = delivered.answers[d] + Queued(d) + Owed(d)
            /\ Queued(d) = Queued(d)' + 1 /\ Queued(d)' \in Nat
        BY <1>17, <2>1
      <4> QED BY <2>3, <4>1
    <3>2. MaxFrames \in Nat BY Numbers
    <3> QED BY <2>3, <3>1, <3>2
  <2>5. /\ delivered'.event = delivered.event /\ delivered'.answers[d] = delivered.answers[d] + 1
        /\ \A id \in Ids : id # d => delivered'.answers[id] = delivered.answers[id]
        /\ delivered' \in [event : 0 .. MaxEvents, answers : [Ids -> 0 .. MaxFrames]]
    BY <1>16, <2>2, <2>4
  <2>6. ASSUME NEW id \in Ids
        PROVE  accepted'[id] = delivered'.answers[id] + Queued(id)' + Owed(id)'
    <3>1. delivered.answers[id] \in Nat /\ Owed(id) \in {0, 1} BY Types, Numbers
    <3>2. CASE id = d
      <4>1. /\ accepted[d] = delivered.answers[d] + Queued(d) + Owed(d) /\ Owed(d)' = Owed(d)
            /\ Queued(d) = Queued(d)' + 1 /\ Queued(d)' \in Nat
        BY <1>17, <2>1
      <4> QED BY <1>12, <2>3, <2>5, <3>2, <4>1
    <3>3. CASE id # d
      <4>1. m # Response(id) BY <2>1, <3>3 DEF Response
      <4> QED BY <1>12, <1>17, <2>5, <3>1, <3>3, <4>1
    <3> QED BY <3>2, <3>3
  <2>7. AnswerInv' BY <1>3, <1>12, <2>6 DEF AnswerInv
  <2>8. NoEventSkipped' BY <1>10, <1>12, <1>15, <2>1, <2>5 DEF NoEventSkipped
  <2>9. Carried' BY <1>1, <1>3, <1>12, <2>5, <2>7, <2>8 DEF Carried, QueueInv
  <2> QED BY <2>5, <2>9
<1>19. ASSUME m.type # "Response"
       PROVE  Carried' /\ delivered' \in [event : 0 .. MaxEvents, answers : [Ids -> 0 .. MaxFrames]]
  <2>1. m.n \in 0 .. MaxEvents /\ m = Event(m.n) BY <1>19, MessageFacts
  <2>2. IsFed(m) = (m.n > 0)
    BY <2>1, MessageFacts DEF IsFed
  <2>3. delivered' = [delivered EXCEPT !.event = IF m.n > 0 THEN m.n ELSE @] BY <1>11, <1>19
  <2>4. /\ delivered'.answers = delivered.answers
        /\ delivered'.event = IF m.n > 0 THEN m.n ELSE delivered.event
        /\ delivered' \in [event : 0 .. MaxEvents, answers : [Ids -> 0 .. MaxFrames]]
    BY <1>16, <2>1, <2>3
  <2>5. ASSUME NEW id \in Ids
        PROVE  accepted'[id] = delivered'.answers[id] + Queued(id)' + Owed(id)'
    <3>1. m # Response(id) BY <2>1, MessageFacts
    <3>2. Queued(id) = Queued(id)' BY <1>17, <3>1
    <3> QED BY <1>12, <1>17, <2>4, <3>2
  <2>6. AnswerInv' BY <1>3, <1>12, <2>5 DEF AnswerInv
  <2>7. NoEventSkipped' /\ delivered'.event <= cursor'
    <3>1. delivered.event <= cursor BY <1>1 DEF Carried
    <3> QED BY <1>10, <1>12, <1>15, <2>2, <2>4, <3>1 DEF NoEventSkipped
  <2>8. Carried' BY <1>3, <1>12, <2>6, <2>7 DEF Carried, QueueInv
  <2> QED BY <2>4, <2>8
<1>20. WriterOK'
  <2>1. <<>> \in Seq(Messages) /\ Len(<<>>) = 0 BY EmptySeq
  <2> QED BY <1>1, <1>2, <1>18, <1>19, <2>1 DEF WriterOK
<1>21. ConnectionOK' /\ PendingOK' /\ FeedOK'
  BY <1>1, <1>2 DEF ConnectionOK, PendingOK, FeedOK, server, client, loop, pending, followed, outside
<1>22. FrameInv' BY <1>2, FrameRest DEF client, loop, pending
<1> QED BY <1>18, <1>19, <1>20, <1>21, <1>22, Whole

\* The end of a graceful shutdown: everything is written.
LEMMA FlushEndsStep ==
    ASSUME IInv, FlushEnds
    PROVE  IInv'
<1>1. ConnectionOK /\ PendingOK /\ WriterOK /\ FeedOK /\ FrameInv /\ Carried BY Parts
<1>2. /\ phase = "flushing" /\ outgoing = <<>> /\ writing = <<>> /\ phase' = "closed"
      /\ UNCHANGED <<result, wire, client, loop, writer, outside>>
  BY DEF FlushEnds
<1>3. ConnectionOK' BY <1>1, <1>2 DEF ConnectionOK, client, loop, Phases
<1>4. PendingOK' /\ WriterOK' /\ FeedOK'
  BY <1>1, <1>2 DEF PendingOK, WriterOK, FeedOK, loop, pending, followed, writer, outside
<1>5. FrameInv' BY <1>2, FrameRest DEF client, loop, pending
<1>6. Carried' BY <1>2, IdleStep DEF Untouched, loop, pending, followed, writer
<1> QED BY <1>3, <1>4, <1>5, <1>6, Whole

\* The branches that can only end the connection.
LEMMA EndStep ==
    ASSUME IInv, WriterBranch \/ ReadFails \/ FlushTimesOut
    PROVE  IInv'
<1>1. phase # "closed" /\ UNCHANGED <<wire, client, pending, followed, outside>>
  BY DEF WriterBranch, ReadFails, FlushTimesOut, Reading
<1>2. "Frame" \in Results /\ "ok" \in Results /\ "OutgoingQueueFull" \in Results BY DEF Results
<1>3. PICK r \in Results : Breaks(r)
  <2>1. CASE WriterBranch BY <1>2, <2>1 DEF WriterBranch
  <2>2. CASE ReadFails BY <1>2, <2>2 DEF ReadFails
  <2>3. CASE FlushTimesOut BY <1>2, <2>3 DEF FlushTimesOut
  <2> QED BY <2>1, <2>2, <2>3
<1> QED BY <1>1, <1>3, CutStep

-----------------------------------------------------------------------------
(* The theorems *)

LEMMA InitIInv == Init => IInv
<1> SUFFICES ASSUME Init PROVE IInv
  OBVIOUS
<1>1. MaxFrames \in Nat /\ MaxEvents \in Nat /\ MaxOutstanding \in Nat /\ QueueCapacity \in Nat
  BY CapacityAssumption
<1>2. /\ wire = <<>> /\ outgoing = <<>> /\ writing = <<>> /\ feed = <<>> /\ cursor = 0
      /\ requests = {} /\ outstanding_ids = {} /\ frames = 0 /\ reader = "start"
      /\ phase = "authenticating" /\ result = "none"
      /\ delivered = [event |-> 0, answers |-> [id \in Ids |-> 0]]
      /\ accepted = [id \in Ids |-> 0]
  BY DEF Init
<1>3. Len(<<>>) = 0 /\ IsFiniteSet({}) /\ Cardinality({}) = 0 BY FS_EmptySet
<1>4. TypeOK
  <2>1. wire \in Seq(Pieces \X Frames) /\ outgoing \in Seq(Messages) /\ writing \in Seq(Messages)
        /\ feed \in Seq({"Other", "DaemonShuttingDown"})
    BY <1>2, EmptySeq
  <2>2. /\ Len(outgoing) <= QueueCapacity /\ Len(writing) <= 1 /\ cursor \in 0 .. Len(feed)
        /\ Cardinality(requests) <= MaxOutstanding
    BY <1>1, <1>2, <1>3
  <2>3. /\ delivered \in [event : 0 .. MaxEvents, answers : [Ids -> 0 .. MaxFrames]]
        /\ accepted \in [Ids -> 0 .. MaxFrames] /\ frames \in 0 .. MaxFrames
    BY <1>1, <1>2
  <2> QED BY <1>2, <2>1, <2>2, <2>3 DEF Init, TypeOK
<1>5. delivered.event = 0 /\ \A id \in Ids : delivered.answers[id] = 0 /\ accepted[id] = 0 BY <1>2
<1>6. LimitInv BY <1>1, <1>2, <1>3, <1>5 DEF LimitInv
<1>7. FrameInv BY <1>2, <1>3, <1>5 DEF FrameInv, Taken
<1>8. QueueInv BY <1>2 DEF QueueInv
<1>9. Unread = <<>> BY <1>2, ConcatEmptySeq, EmptySeq DEF Unread
<1>10. AnswerInv
  <2>1. \A id \in Ids : Queued(id) = 0 /\ Owed(id) = 0 BY <1>2, <1>9, PositionsEmpty DEF Queued, Owed
  <2> QED BY <1>2, <1>5, <2>1 DEF AnswerInv
<1>11. NoEventSkipped
  <2>1. InOrder(<<>>, 0, 0) BY <1>3 DEF InOrder
  <2> QED BY <1>2, <1>5, <1>9, <2>1 DEF NoEventSkipped
<1> QED BY <1>4, <1>6, <1>7, <1>8, <1>10, <1>11 DEF IInv

\* Every step of the client task, the writer, the client and the supervisor keeps IInv.
LEMMA NextIInv == IInv /\ [Next]_vars => IInv'
<1> SUFFICES ASSUME IInv, [Next]_vars PROVE IInv'
  OBVIOUS
<1>1. ASSUME NEW f \in Frames, ClientSends(f) PROVE IInv' BY <1>1, ClientSendsStep
<1>2. CASE ClientCloses \/ Emits \/ AnnouncesShutdown \/ SignalsShutdown BY <1>2, OutsideStep
<1>3. CASE ReadsFirstFrame \/ WritesAuthenticated \/ AuthenticationFails BY <1>3, AuthenticationStep
<1>4. CASE ShutdownBranch BY <1>4, ShutdownStep
<1>5. CASE EventBranch BY <1>5, EventStep
<1>6. ASSUME NEW id \in Ids, CompletedBranch(id) PROVE IInv' BY <1>6, CompletedStep
<1>7. CASE ReadsPiece BY <1>7, ReadsPieceStep
<1>8. CASE ReadsFrame BY <1>8, ReadsFrameStep
<1>9. CASE WriterTakes BY <1>9, WriterTakesStep
<1>10. CASE ClientReads BY <1>10, ClientReadsStep
<1>11. CASE FlushEnds BY <1>11, FlushEndsStep
<1>12. CASE WriterBranch \/ ReadFails \/ FlushTimesOut BY <1>12, EndStep
<1>13. CASE UNCHANGED vars
  <2>1. UNCHANGED <<server, wire, client, loop, writer, outside>> BY <1>13 DEF vars
  <2>2. ConnectionOK /\ PendingOK /\ WriterOK /\ FeedOK BY Parts
  <2>3. ConnectionOK' /\ PendingOK' /\ WriterOK' /\ FeedOK'
    BY <2>1, <2>2 DEF ConnectionOK, PendingOK, WriterOK, FeedOK, server, client, loop, pending,
                      followed, writer, outside
  <2>4. FrameInv' BY <2>1, FrameRest DEF client, loop, pending
  <2>5. Carried' BY <2>1, IdleStep DEF Untouched, server, loop, pending, followed, writer
  <2> QED BY <2>3, <2>4, <2>5, Whole
<1> QED BY <1>1, <1>2, <1>3, <1>4, <1>5, <1>6, <1>7, <1>8, <1>9, <1>10, <1>11, <1>12, <1>13 DEF Next

\* Frames, queue, pending requests and the client's view of events and answers
\* fit together after every branch of serve_client and every step around it.
THEOREM InductiveInvariant == Spec => []IInv
BY InitIInv, NextIInv, PTL DEF Spec

\* The variables keep their types, and the writer's queue and the outstanding
\* requests their limits, for any number of frames and events.
THEOREM TypeCorrect == Spec => []TypeOK
<1>1. IInv => TypeOK BY DEF IInv
<1> QED BY <1>1, InductiveInvariant, PTL

\* A client that is not cut off gets every event once and in order, whatever the
\* capacities of the broadcast channel and of the queue.
THEOREM Events == Spec => []NoEventSkipped
<1>1. IInv => NoEventSkipped BY DEF IInv
<1> QED BY <1>1, InductiveInvariant, PTL

\* A served client has one answer, queued, delivered or still to come, for each
\* request that was taken off the wire.
THEOREM Answers == Spec => []AnswersKept
<1>1. IInv => AnswersKept BY DEF IInv, AnswerInv, AnswersKept, Queued, Owed
<1> QED BY <1>1, InductiveInvariant, PTL

=============================================================================
