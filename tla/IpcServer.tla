----------------------------- MODULE IpcServer -----------------------------
(***************************************************************************)
(* One local IPC client served by serve_client                             *)
(* (crates/rift-daemon/src/ipc_server.rs): authentication, the select!     *)
(* loop over shutdown, writer, broadcast events, completed requests and    *)
(* incoming frames, the writer task behind its bounded queue, and the      *)
(* flush of a graceful shutdown.  The daemon appears as the events it      *)
(* emits, the requests it answers and the order of shutdown_runtime.       *)
(*                                                                         *)
(* A frame travels in three pieces: the first bytes of its length, the     *)
(* rest of the length, and the payload.  The read is a branch of the       *)
(* select!: when another branch wins, the future is dropped with the       *)
(* pieces it has read.  The select! is biased, but a higher branch may     *)
(* become ready just after it was polled, so no order is imposed here.     *)
(***************************************************************************)
EXTENDS Integers, Sequences, FiniteSets

CONSTANTS
    Ids,              \* request IDs a client may choose
    MaxOutstanding,   \* MAX_OUTSTANDING_REQUESTS
    QueueCapacity,    \* OUTGOING_QUEUE_CAPACITY
    EventCapacity,    \* EVENT_QUEUE_CAPACITY of the broadcast channel
    MaxFrames,        \* bound on the frames the client sends
    MaxEvents         \* bound on the events the daemon emits

ASSUME CapacityAssumption ==
    /\ {MaxOutstanding, QueueCapacity, EventCapacity} \subseteq Nat \ {0}
    /\ {MaxFrames, MaxEvents} \subseteq Nat

VARIABLES
    phase,            \* where serve_client is
    result,           \* what it returned, or will return
    wire,             \* pieces the client has written and nobody has read
    open,             \* the client still holds its end of the stream
    frames,           \* number of frames the client has sent
    reader,           \* progress of the current read_json_frame future
    requests,         \* IDs whose response futures are pending
    outstanding_ids,
    outgoing,         \* the mpsc queue to the writer task
    writing,          \* the message the writer is writing, if any
    feed,             \* events emitted since this client subscribed
    cursor,           \* events this client's receiver has taken
    shutdown_event_queued,
    daemon,           \* how far shutdown_runtime is
    delivered,        \* what the client has read: events so far, answers by ID
    accepted          \* history: requests taken off the wire, by ID

server == <<phase, result>>
client == <<open, frames>>
pending == <<requests, outstanding_ids, accepted>>
followed == <<shutdown_event_queued, cursor>>
loop == <<reader, pending, followed>>
writer == <<outgoing, writing, delivered>>
outside == <<feed, daemon>>
vars == <<server, wire, client, loop, writer, outside>>

Requests == [type : {"Request"}, id : Ids]
\* A frame with a wrong or right token, and one that does not parse.
Others == [type : {"Authenticate", "BadToken", "Malformed"}]
Frames == Requests \cup Others
Pieces == {"length", "gth", "payload"}

\* ServerMessage: a Response or Error to a request, or the n-th event of the
\* feed; event 0 is the DaemonShuttingDown that serve_client queues itself.
Response(id) == [type |-> "Response", id |-> id]
Event(n) == [type |-> "Event", n |-> n]
Messages == {Response(id) : id \in Ids} \cup {Event(n) : n \in 0 .. MaxEvents}

\* Everything on its way to the client, oldest first.
Unread == writing \o outgoing

Init ==
    /\ phase = "authenticating" /\ result = "none"
    /\ wire = <<>> /\ open = TRUE /\ frames = 0
    /\ reader = "start"
    /\ requests = {} /\ outstanding_ids = {}
    /\ outgoing = <<>> /\ writing = <<>>
    /\ delivered = [event |-> 0, answers |-> [id \in Ids |-> 0]]
    /\ feed = <<>> /\ cursor = 0 /\ shutdown_event_queued = FALSE
    /\ daemon = "running"
    /\ accepted = [id \in Ids |-> 0]

-----------------------------------------------------------------------------
(* The client and the daemon around the connection. *)

ClientSends(f) ==
    /\ open /\ phase # "closed"
    /\ frames < MaxFrames
    /\ f.type = "BadToken" => frames = 0   \* later, the token is not looked at
    /\ frames' = frames + 1
    /\ wire' = wire \o << <<"length", f>>, <<"gth", f>>, <<"payload", f>> >>
    /\ UNCHANGED <<server, open, loop, writer, outside>>

ClientCloses ==
    /\ open
    /\ open' = FALSE
    /\ UNCHANGED <<server, wire, frames, loop, writer, outside>>

Emits ==
    /\ daemon # "signalled"
    /\ Len(feed) < MaxEvents - (IF daemon = "running" THEN 1 ELSE 0)
    /\ feed' = Append(feed, "Other")
    /\ UNCHANGED <<server, wire, client, loop, writer, daemon>>

\* shutdown_runtime announces itself, emits what it closes and then sets the
\* watch that every client task selects on.
AnnouncesShutdown ==
    /\ daemon = "running" /\ Len(feed) < MaxEvents
    /\ daemon' = "announced"
    /\ feed' = Append(feed, "DaemonShuttingDown")
    /\ UNCHANGED <<server, wire, client, loop, writer>>

SignalsShutdown ==
    /\ daemon = "announced"
    /\ daemon' = "signalled"
    /\ UNCHANGED <<server, wire, client, loop, writer, feed>>

-----------------------------------------------------------------------------
(* Authentication: one frame, one answer, each within its timeout. *)

Ends(r) == phase' = "closed" /\ result' = r

ReadsFirstFrame ==
    /\ phase = "authenticating"
    /\ Len(wire) >= 3
    /\ wire' = SubSeq(wire, 4, Len(wire))
    /\ CASE wire[1][2].type = "Authenticate" -> phase' = "answering" /\ UNCHANGED result
         [] wire[1][2].type = "Malformed"    -> Ends("Frame")
         [] OTHER                            -> Ends("AuthenticationFailed")
    /\ UNCHANGED <<client, loop, writer, outside>>

WritesAuthenticated ==
    /\ phase = "answering" /\ open
    /\ phase' = "serving"
    /\ UNCHANGED <<result, wire, client, loop, writer, outside>>

AuthenticationFails ==
    /\ phase \in {"authenticating", "answering"}
    /\ \/ Ends("AuthenticationTimeout")
       \/ ~open /\ (phase = "authenticating" => wire = <<>>) /\ Ends("Frame")
    /\ UNCHANGED <<wire, client, loop, writer, outside>>

-----------------------------------------------------------------------------
(* The select! loop.  A branch that does not break starts the next          *)
(* iteration with a fresh read future.                                      *)

\* break, followed by abort_all on the writer: what is queued is discarded,
\* and the pending futures go with the function.
Breaks(r) ==
    /\ Ends(r)
    /\ reader' = "start"
    /\ outgoing' = <<>> /\ writing' = <<>>
    /\ UNCHANGED delivered

\* A plausible slip: the queue takes one message more.
HasRoomForOneMore == Len(outgoing) <= QueueCapacity

HasRoom == Len(outgoing) < QueueCapacity

\* A plausible slip: a full queue loses the message and keeps the client.
TrySendOrDrop(m) ==
    /\ outgoing' = IF HasRoom THEN Append(outgoing, m) ELSE outgoing
    /\ reader' = "start"
    /\ UNCHANGED <<server, writing, delivered>>

\* try_send of one message, the connection's end when the queue is full.
try_send(m) ==
    IF HasRoom
    THEN /\ outgoing' = Append(outgoing, m)
         /\ reader' = "start"
         /\ UNCHANGED <<server, writing, delivered>>
    ELSE Breaks("OutgoingQueueFull")

Unannounced == ~shutdown_event_queued

\* shutdown.changed(): queue the announcement unless the event came first.
ShutdownBranch ==
    /\ phase = "serving" /\ daemon = "signalled"
    /\ IF Unannounced => HasRoom
       THEN /\ phase' = "flushing" /\ result' = "ok" /\ reader' = "start"
            /\ outgoing' = IF Unannounced THEN Append(outgoing, Event(0)) ELSE outgoing
            /\ UNCHANGED <<writing, delivered>>
       ELSE Breaks("OutgoingQueueFull")
    /\ UNCHANGED <<wire, client, pending, followed, outside>>

\* writer_tasks.join_next(), in the loop or in the flush: the writer ends early
\* when the client is gone, the system fails the write, or no frame takes the
\* message.
WriterBranch ==
    /\ phase \in {"serving", "flushing"} /\ writing # <<>>
    /\ Breaks("Frame")
    /\ UNCHANGED <<wire, client, pending, followed, outside>>

\* A plausible slip: the number of missed events is ignored.
NeverLagged == FALSE

\* The broadcast channel keeps the last EventCapacity events.
Lagged == Len(feed) - cursor > EventCapacity

\* The event recv() yields: the next one, or the oldest that is still kept.
NextEvent == IF Len(feed) - cursor > EventCapacity
             THEN Len(feed) - EventCapacity + 1 ELSE cursor + 1

EventBranch ==
    /\ phase = "serving" /\ cursor < Len(feed)
    /\ IF Lagged
       THEN Breaks("EventLagged") /\ UNCHANGED followed
       ELSE /\ cursor' = NextEvent
            /\ shutdown_event_queued' =
                   (shutdown_event_queued \/ feed[NextEvent] = "DaemonShuttingDown")
            /\ try_send(Event(NextEvent))
    /\ UNCHANGED <<wire, client, pending, outside>>

Released(id) == outstanding_ids \ {id}

\* requests.next(): a response future is ready, with a result or an error.
CompletedBranch(id) ==
    /\ phase = "serving" /\ id \in requests
    /\ requests' = requests \ {id}
    /\ outstanding_ids' = Released(id)
    /\ try_send(Response(id))
    /\ UNCHANGED <<wire, client, followed, accepted, outside>>

\* The read branch is only polled below the limit of outstanding requests.
Reading == phase = "serving" /\ Cardinality(requests) < MaxOutstanding

\* One read() of read_json_frame that does not complete the frame.  A future
\* that starts inside a length takes its last bytes and the first of the
\* payload for a length, and may wait for that much payload ("astray").
ReadsPiece ==
    /\ Reading /\ wire # <<>>
    /\ \/ reader = "start" /\ Head(wire)[1] = "length" /\ reader' = "length"
       \/ reader = "start" /\ Head(wire)[1] = "gth" /\ reader' = "astray"
       \/ reader = "length" /\ reader' = "prefix"
       \/ reader = "astray" /\ UNCHANGED reader
    /\ wire' = Tail(wire)
    /\ UNCHANGED <<server, client, pending, followed, writer, outside>>

\* The future completes with a frame.
ReadsFrame ==
    /\ Reading /\ reader = "prefix" /\ wire # <<>>
    /\ wire' = Tail(wire)
    /\ LET f == Head(wire)[2] IN
       IF f.type = "Request" /\ f.id \notin outstanding_ids
       THEN /\ outstanding_ids' = outstanding_ids \cup {f.id}
            /\ requests' = requests \cup {f.id}
            /\ accepted' = [accepted EXCEPT ![f.id] = @ + 1]
            /\ reader' = "start"
            /\ UNCHANGED <<server, writer>>
       ELSE /\ Breaks(CASE f.type = "Request"   -> "DuplicateRequestId"
                        [] f.type = "Malformed" -> "Frame"
                        [] OTHER                -> "DuplicateAuthentication")
            /\ UNCHANGED pending
    /\ UNCHANGED <<client, followed, outside>>

\* The future completes with an error: a length read from the middle of a frame
\* exceeds the limit or frames no JSON, or the stream ends.
ReadFails ==
    /\ Reading
    /\ \/ reader = "start" /\ wire # <<>> /\ Head(wire)[1] # "length" /\ Breaks("Frame")
       \/ reader = "astray" /\ Breaks("Frame")
       \/ ~open /\ wire = <<>> /\ Breaks(IF reader = "start" THEN "ok" ELSE "Frame")
    /\ UNCHANGED <<wire, client, pending, followed, outside>>

-----------------------------------------------------------------------------
(* writer_loop and the end of a graceful shutdown. *)

WriterTakes ==
    /\ phase \in {"serving", "flushing"}
    /\ writing = <<>> /\ outgoing # <<>>
    /\ writing' = <<Head(outgoing)>> /\ outgoing' = Tail(outgoing)
    /\ UNCHANGED <<server, wire, client, loop, delivered, outside>>

\* The client reads the message: nothing else makes a slow client's write end.
ClientReads ==
    /\ open /\ writing # <<>>
    /\ writing' = <<>>
    /\ LET m == writing[1] IN
       delivered' = IF m.type = "Response" THEN [delivered EXCEPT !.answers[m.id] = @ + 1]
                    ELSE [delivered EXCEPT !.event = IF m.n > 0 THEN m.n ELSE @]
    /\ UNCHANGED <<server, wire, client, loop, outgoing, outside>>

\* The queue is closed: the writer ends after its last message.
FlushEnds ==
    /\ phase = "flushing" /\ outgoing = <<>> /\ writing = <<>>
    /\ phase' = "closed"
    /\ UNCHANGED <<result, wire, client, loop, writer, outside>>

\* A plausible slip: the flush waits for the writer without a deadline.
FlushWaits ==
    /\ phase = "flushing" /\ outgoing = <<>> /\ writing = <<>>
    /\ Breaks("OutgoingQueueFull")
    /\ UNCHANGED <<wire, client, pending, followed, outside>>

\* One second for a client that does not read, then abort_all.
FlushTimesOut ==
    /\ phase = "flushing"
    /\ Breaks("OutgoingQueueFull")
    /\ UNCHANGED <<wire, client, pending, followed, outside>>

-----------------------------------------------------------------------------
Next ==
    \/ \E f \in Frames : ClientSends(f)
    \/ ClientCloses
    \/ Emits
    \/ AnnouncesShutdown
    \/ SignalsShutdown
    \/ ReadsFirstFrame
    \/ WritesAuthenticated
    \/ AuthenticationFails
    \/ ShutdownBranch
    \/ WriterBranch
    \/ EventBranch
    \/ \E id \in Ids : CompletedBranch(id)
    \/ ReadsPiece
    \/ ReadsFrame
    \/ ReadFails
    \/ WriterTakes
    \/ ClientReads
    \/ FlushEnds
    \/ FlushTimesOut

Spec == Init /\ [][Next]_vars

\* The runtime polls a task whose branch is ready and fires its timers; the
\* client owes nothing.
FairSpec ==
    /\ Spec
    /\ WF_vars(SignalsShutdown)
    /\ WF_vars(AuthenticationFails)
    /\ WF_vars(ShutdownBranch)
    /\ WF_vars(FlushEnds)
    /\ WF_vars(FlushTimesOut)

-----------------------------------------------------------------------------
(* Properties. *)

\* The variables keep their types, the queue and the request set their limits.
TypeOK ==
    /\ phase \in {"authenticating", "answering", "serving", "flushing", "closed"}
    /\ result \in {"none", "ok", "Frame", "AuthenticationTimeout", "AuthenticationFailed",
                   "DuplicateAuthentication", "DuplicateRequestId", "OutgoingQueueFull",
                   "EventLagged"}
    /\ wire \in Seq(Pieces \X Frames) /\ open \in BOOLEAN /\ frames \in 0 .. MaxFrames
    /\ reader \in {"start", "length", "prefix", "astray"}
    /\ requests \subseteq outstanding_ids /\ outstanding_ids \subseteq Ids
    /\ Cardinality(requests) <= MaxOutstanding
    /\ outgoing \in Seq(Messages) /\ Len(outgoing) <= QueueCapacity
    /\ writing \in Seq(Messages) /\ Len(writing) <= 1
    /\ delivered \in [event : 0 .. MaxEvents, answers : [Ids -> 0 .. MaxFrames]]
    /\ feed \in Seq({"Other", "DaemonShuttingDown"}) /\ cursor \in 0 .. Len(feed)
    /\ shutdown_event_queued \in BOOLEAN
    /\ daemon \in {"running", "announced", "signalled"}
    /\ accepted \in [Ids -> 0 .. MaxFrames]

\* Where m stands in s.
Positions(s, m) == {i \in 1 .. Len(s) : s[i] = m}

\* The events of the feed in s are those after a and up to b, each once, in order.
IsFed(m) == m.type = "Event" /\ m.n > 0
InOrder(s, a, b) ==
    /\ \A i \in 1 .. Len(s) : IsFed(s[i]) => s[i].n \in a + 1 .. b
    /\ \A n \in a + 1 .. b : \E i \in 1 .. Len(s) : s[i] = Event(n)
    /\ \A i, j \in 1 .. Len(s) :
          i < j /\ IsFed(s[i]) /\ IsFed(s[j]) => s[i].n < s[j].n

\* A connected client misses no event and sees them in order: the loop that
\* takes them from the broadcast channel and the queue behind it disconnect a
\* client rather than skip one.
NoEventSkipped == phase # "closed" => InOrder(Unread, delivered.event, cursor)

\* Every request taken off the wire is pending, queued or answered, once, as
\* long as the client is served: interleaved events and answers lose none.
AnswersKept ==
    phase = "serving" =>
        \A id \in Ids :
            accepted[id] = delivered.answers[id] + Cardinality(Positions(Unread, Response(id)))
                           + (IF id \in requests THEN 1 ELSE 0)

\* Requests are read frame by frame, whatever answers and events are due at the
\* same time: no read starts in the middle of a frame.
FramesReadWhole ==
    phase = "serving" /\ reader = "start" /\ wire # <<>> => Head(wire)[1] = "length"

\* Whatever the client does or fails to do, its task ends after a shutdown is
\* signalled: no client holds up shutdown_runtime's join.
ServerLetsGo == (daemon = "signalled") ~> (phase = "closed")
=============================================================================
