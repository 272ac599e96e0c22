---------------------------- MODULE ServerSession ----------------------------
(***************************************************************************)
(* The server's end of its connections: network/session.cpp, the accept    *)
(* loop of network/server.cpp and the framing of                           *)
(* common/src/packet_framing.cpp.                                          *)
(*                                                                         *)
(* One thread runs the completion handlers of all sessions one after the   *)
(* other.  A handler of one session calls send() on others: to process a   *)
(* message or a disconnect is to make some calls of send() on every        *)
(* session (module Lobby says which).  A handler is one action.            *)
(*                                                                         *)
(* asio is external, as in module NetworkClient: an operation waits until  *)
(* it completes or its socket is closed, and completions are handled in    *)
(* the order they come.  When the link to a client breaks, reads and       *)
(* writes fail sooner or later; a write may seem to succeed before.        *)
(*                                                                         *)
(* An exception that leaves a handler leaves io_context::run and is caught *)
(* in main, which returns: the process ends, and with it every connection. *)
(***************************************************************************)
EXTENDS Naturals, Sequences, FiniteSets, SequencesExt

CONSTANTS
    Conn,           \* connections, each accepted once
    Length,         \* lengths that headers of clients announce
    MaxPacketSize,  \* poker::network::MAX_PACKET_SIZE
    MaxRequests,    \* bound: packets that all clients send
    MaxSends        \* bound: packets sent to one session

ASSUME ConnAssumption == IsFiniteSet(Conn)
ASSUME BoundAssumption ==
    Length \subseteq Nat /\ MaxPacketSize \in Nat /\ MaxRequests \in Nat /\ MaxSends \in Nat

VARIABLES
    running,            \* main is in io_context::run
    accepted,           \* connections that have a Session
    closed,             \* closed_
    notified,           \* calls of IMessageProcessor::on_disconnect
    write_queue,        \* write_queue_
    write_in_progress,  \* write_in_progress_
    waiting,            \* asio operations that have not completed
    ready,              \* completions that have not been handled
    up,                 \* links that work
    inbox,              \* lengths of the packets the server has not read
    sent,               \* history: packets accepted by send(), numbered
    got,                \* history: packets the client has received
    requests            \* bound: packets clients have sent

session == <<closed, notified, write_queue, write_in_progress, sent>>
vars == <<running, accepted, session, waiting, ready, up, inbox, got, requests>>

Op(kind, c) == [op |-> kind, c |-> c, packet |-> 0]
WriteOp(c, p) == [op |-> "write", c |-> c, packet |-> p]
Completion(o, ec, length) ==
    [op |-> o.op, c |-> o.c, packet |-> o.packet, ec |-> ec, length |-> length]

Init ==
    /\ running = TRUE /\ accepted = {} /\ up = {}
    /\ closed = [c \in Conn |-> FALSE] /\ notified = [c \in Conn |-> 0]
    /\ write_queue = [c \in Conn |-> <<>>]
    /\ write_in_progress = [c \in Conn |-> FALSE]
    /\ waiting = {} /\ ready = <<>>
    /\ inbox = [c \in Conn |-> <<>>]
    /\ sent = [c \in Conn |-> 0] /\ got = [c \in Conn |-> <<>>]
    /\ requests = 0
-----------------------------------------------------------------------------
(* The member functions, as functions on a record w of what they change. *)

World == [closed |-> closed, notified |-> notified, queue |-> write_queue,
          writing |-> write_in_progress, sent |-> sent, waiting |-> waiting,
          ready |-> ready]
Taken == [World EXCEPT !.ready = Tail(@)]

Becomes(world) ==
    \E w \in {world} :
        /\ closed' = w.closed /\ notified' = w.notified
        /\ write_queue' = w.queue /\ write_in_progress' = w.writing /\ sent' = w.sent
        /\ waiting' = w.waiting /\ ready' = w.ready

\* do_write on every session of S.
do_write(w, S) ==
    LET idle == {c \in S : ~w.closed[c] /\ ~w.writing[c] /\ w.queue[c] # <<>>} IN
    [w EXCEPT !.writing = [c \in Conn |-> c \in idle \/ w.writing[c]],
              !.waiting = @ \cup {WriteOp(c, Head(w.queue[c])) : c \in idle}]

\* n[c] calls of send() on session c; calls on a closed session and messages
\* that are too large for a packet (they count as no call) have no effect.
send(w, n) ==
    LET k(c) == IF w.closed[c] THEN 0 ELSE n[c]
        fresh(c) == [i \in 1..k(c) |-> w.sent[c] + i]
    IN  do_write([w EXCEPT !.queue = [c \in Conn |-> w.queue[c] \o fresh(c)],
                           !.sent = [c \in Conn |-> w.sent[c] + k(c)]],
                 {c \in Conn : k(c) > 0})

\* The calls of send() one handler may make, none on sessions that do not
\* exist.
Bursts ==
    {n \in [Conn -> 0..MaxSends] :
        \A c \in Conn : sent[c] + n[c] <= MaxSends /\ (c \notin accepted => n[c] = 0)}

do_read_header(w, c) ==
    IF w.closed[c] THEN w ELSE [w EXCEPT !.waiting = @ \cup {Op("header", c)}]

do_read_body(w, c) ==
    IF w.closed[c] THEN w ELSE [w EXCEPT !.waiting = @ \cup {Op("body", c)}]

\* Closing the socket: what waits on it completes with an error.
Cancelled(w, c) ==
    LET ops == SetToSeq({o \in w.waiting : o.c = c /\ o.op # "write"})
               \o SetToSeq({o \in w.waiting : o.c = c /\ o.op = "write"})
    IN  [w EXCEPT !.waiting = {o \in @ : o.c # c},
                  !.ready = @ \o [i \in DOMAIN ops |-> Completion(ops[i], "aborted", 0)]]

\* close_session.  on_disconnect tells others, the session itself is closed.
close_session(w, c, n) ==
    IF w.closed[c] THEN w
    ELSE Cancelled(send([w EXCEPT !.closed[c] = TRUE,
                                  !.notified[c] = IF @ = 0 THEN 1 ELSE @], n), c)

\* decode_packet_length and is_valid_packet_length.
decode_packet_length(length) == length > 0 /\ length <= MaxPacketSize
-----------------------------------------------------------------------------
(* The completion handlers. *)

Handle(kind) == running /\ ready # <<>> /\ Head(ready).op = kind
Who == Head(ready).c
Result == Head(ready).ec

\* mutant: a failed read is tried again.
RunHeaderRetries ==
    /\ Handle("header")
    /\ \E n \in Bursts :
         Becomes(IF closed[Who] THEN Taken
                 ELSE IF Result # "ok" THEN do_read_header(Taken, Who)
                 ELSE IF decode_packet_length(Head(ready).length)
                      THEN do_read_body(Taken, Who)
                 ELSE close_session(Taken, Who, n))
    /\ UNCHANGED <<running, accepted, up, inbox, got, requests>>

RunHeader ==
    /\ Handle("header")
    /\ \E n \in Bursts :
         Becomes(IF closed[Who] THEN Taken
                 ELSE IF Result = "ok" /\ decode_packet_length(Head(ready).length)
                      THEN do_read_body(Taken, Who)
                 ELSE close_session(Taken, Who, n))
    /\ UNCHANGED <<running, accepted, up, inbox, got, requests>>

\* mutant: after a message the session does not read on.
RunBodyStops ==
    /\ Handle("body")
    /\ \E n \in Bursts :
         Becomes(IF closed[Who] THEN Taken
                 ELSE IF Result = "ok" THEN send(Taken, n)
                 ELSE close_session(Taken, Who, n))
    /\ UNCHANGED <<running, accepted, up, inbox, got, requests>>

\* The exception reaches main: nothing else runs, nobody is told.
Ends ==
    /\ running' = FALSE /\ up' = {}
    /\ UNCHANGED <<accepted, session, waiting, ready, inbox, got, requests>>

\* on_message makes calls of send(), then the next packet is read.
RunBody ==
    /\ Handle("body")
    /\ \E n \in Bursts :
         Becomes(IF closed[Who] THEN Taken
                 ELSE IF Result = "ok" THEN do_read_header(send(Taken, n), Who)
                 ELSE close_session(Taken, Who, n))
    /\ UNCHANGED <<running, accepted, up, inbox, got, requests>>

\* process_message throws: JSON without a text "type", or bytes that are no
\* UTF-8 quoted in the answer to them.
RunBodyThrows == Handle("body") /\ ~closed[Who] /\ Result = "ok" /\ Ends

\* mutant: the packet that was written stays at the front of the queue.
RunWriteNoPop ==
    LET w == [Taken EXCEPT !.writing[Who] = FALSE] IN
    /\ Handle("write")
    /\ \E n \in Bursts :
         Becomes(IF closed[Who] THEN w
                 ELSE IF Result = "ok" THEN do_write(w, {Who})
                 ELSE close_session(w, Who, n))
    /\ UNCHANGED <<running, accepted, up, inbox, got, requests>>

\* mutant: the next packet is not written.
RunWriteStops ==
    LET w == [Taken EXCEPT !.writing[Who] = FALSE] IN
    /\ Handle("write")
    /\ \E n \in Bursts :
         Becomes(IF closed[Who] THEN w
                 ELSE IF Result = "ok" THEN [w EXCEPT !.queue[Who] = Tail(@)]
                 ELSE close_session(w, Who, n))
    /\ UNCHANGED <<running, accepted, up, inbox, got, requests>>

RunWrite ==
    LET w == [Taken EXCEPT !.writing[Who] = FALSE] IN
    /\ Handle("write")
    /\ \E n \in Bursts :
         Becomes(IF closed[Who] THEN w
                 ELSE IF Result = "ok"
                 THEN do_write([w EXCEPT !.queue[Who] = IF @ = <<>> THEN @ ELSE Tail(@)],
                               {Who})
                 ELSE close_session(w, Who, n))
    /\ UNCHANGED <<running, accepted, up, inbox, got, requests>>

RunHandler == RunHeader \/ RunBody \/ RunBodyThrows \/ RunWrite

\* start_accept: a Session is made and reads its first header.  The client may
\* be gone before that.
Accept(c) ==
    /\ running /\ c \notin accepted
    /\ accepted' = accepted \cup {c} /\ up' \in {up, up \cup {c}}
    /\ Becomes(do_read_header(World, c))
    /\ UNCHANGED <<running, inbox, got, requests>>

\* remote_endpoint throws when the connection was reset before it was accepted.
AcceptThrows(c) == running /\ c \notin accepted /\ Ends
-----------------------------------------------------------------------------
(* The network and the clients, external. *)

ClientSends(c, length) ==
    /\ c \in up /\ requests < MaxRequests
    /\ requests' = requests + 1
    /\ inbox' = [inbox EXCEPT ![c] = Append(@, length)]
    /\ UNCHANGED <<running, accepted, session, waiting, ready, up, got>>

LinkBreaks(c) ==
    /\ c \in up /\ up' = up \ {c}
    /\ UNCHANGED <<running, accepted, session, waiting, ready, inbox, got, requests>>

Completes(o, ec, length) ==
    /\ running
    /\ waiting' = waiting \ {o}
    /\ ready' = Append(ready, Completion(o, ec, length))
    /\ UNCHANGED <<running, accepted, session, up, requests>>

\* A header tells the length of the packet whose body is read next.
ReadCompletes ==
    \E o \in {x \in waiting : x.op # "write"} :
        \/ /\ inbox[o.c] # <<>> /\ Completes(o, "ok", Head(inbox[o.c]))
           /\ inbox' = IF o.op = "body" THEN [inbox EXCEPT ![o.c] = Tail(@)] ELSE inbox
           /\ UNCHANGED got
        \/ o.c \notin up /\ Completes(o, "error", 0) /\ UNCHANGED <<inbox, got>>

WriteCompletes ==
    \E o \in {x \in waiting : x.op = "write"} :
        \/ /\ o.c \in up /\ Completes(o, "ok", 0)
           /\ got' = [got EXCEPT ![o.c] = Append(@, o.packet)]
           /\ UNCHANGED inbox
        \/ /\ o.c \notin up
           /\ \E ec \in {"ok", "error"} : Completes(o, ec, 0)
           /\ UNCHANGED <<inbox, got>>

Next ==
    \/ \E c \in Conn : Accept(c) \/ AcceptThrows(c) \/ LinkBreaks(c)
    \/ \E c \in Conn, length \in Length : ClientSends(c, length)
    \/ RunHandler \/ ReadCompletes \/ WriteCompletes

\* The thread runs what is ready, and a read that can complete does.
Spec ==
    /\ Init /\ [][Next]_vars
    /\ WF_vars(RunHandler) /\ WF_vars(ReadCompletes)
-----------------------------------------------------------------------------
(* Properties. *)

\* Every variable has its type, and a session is closed if and only if the
\* processor has been told, once: a second on_disconnect would free the name
\* of another login, a missing one would leave a ghost at the table.
TypeOK ==
    /\ running \in BOOLEAN /\ accepted \subseteq Conn /\ up \subseteq accepted
    /\ closed \in [Conn -> BOOLEAN] /\ write_in_progress \in [Conn -> BOOLEAN]
    /\ \A c \in Conn : notified[c] = (IF closed[c] THEN 1 ELSE 0)
    /\ \A o \in waiting : o.op \in {"header", "body", "write"} /\ o.c \in accepted

\* The operations of session c that its handlers have not seen the end of.
Pending(c, kinds) ==
    Cardinality({o \in waiting : o.c = c /\ o.op \in kinds})
    + Cardinality({i \in DOMAIN ready : ready[i].c = c /\ ready[i].op \in kinds})

\* An open session has exactly one read under way, whatever its handlers did;
\* without one nobody would notice that the client is gone.  A closed session
\* has nothing waiting on its socket, and its end was reported once (TypeOK).
OpenSessionListens ==
    /\ TypeOK
    /\ \A c \in accepted : ~closed[c] => Pending(c, {"header", "body"}) = 1
    /\ \A o \in waiting : ~closed[o.c]

\* A packet in the queue of an open session is being written: exactly one
\* write is under way, it is the front of the queue, and the flag knows it.
QueueIsWritten ==
    \A c \in accepted : ~closed[c] =>
        /\ write_queue[c] # <<>> <=> write_in_progress[c]
        /\ Pending(c, {"write"}) = (IF write_in_progress[c] THEN 1 ELSE 0)
        /\ \A o \in waiting : o.c = c /\ o.op = "write" => o.packet = Head(write_queue[c])

\* A session is a packet link: in order, each packet once, closed for good.
Link == INSTANCE PacketLink
IsPacketLink == Link!Spec

\* When the link to a client breaks the session is closed, and the processor
\* told, sooner or later, unless an exception has ended the process: then no
\* on_disconnect is called, and what the tables hold is as it was last saved.
LossIsNoticed == \A c \in Conn : c \in accepted /\ c \notin up ~> closed[c] \/ ~running
=============================================================================
