---------------------------- MODULE NetworkClient ----------------------------
(***************************************************************************)
(* The client's connection: client/src/network_client.cpp, the thread that *)
(* runs its callbacks (client/src/main.cpp) and the parts of               *)
(* client/src/poker_ui.cpp and client/src/client_view_state.cpp that react *)
(* to it or drive it.                                                      *)
(*                                                                         *)
(* Two threads share the client object without a lock.  The io thread runs *)
(* the completion handlers of asio one after the other; the UI thread      *)
(* calls reconnect() directly.  A handler is one action; reconnect() on    *)
(* the UI thread is two, its two calls, between which handlers may run.    *)
(*                                                                         *)
(* asio is external: an operation waits until it completes or its socket   *)
(* is closed, then its completion joins the queue `ready' that the io      *)
(* thread works off in order; a completion already in the queue cannot be  *)
(* cancelled.  io_context::run returns when nothing waits and nothing is   *)
(* ready.  A host name resolves to one endpoint.                           *)
(***************************************************************************)
EXTENDS Naturals, Sequences, FiniteSets, SequencesExt

CONSTANTS
    MaxRequests,    \* bound: reconnects the user asks for
    MaxLogins,      \* bound: Join is clicked only before that many packets
    MaxSends        \* bound: other messages only before that many packets

ASSUME BoundsNat == MaxRequests \in Nat /\ MaxLogins \in Nat /\ MaxSends \in Nat

VARIABLES
    client,         \* the members of NetworkClient and of the UI, see Init
    waiting,        \* asio operations that have not completed
    ready,          \* completions the io thread has not handled
    io_running,     \* io.run() has not returned
    ui,             \* what the UI thread is doing: ready, close, begin
    peer,           \* by socket: is the link up, what has the server received
    requests,       \* bound: reconnects asked for so far
    sends,          \* history: packets are numbered in the order of send()
    overlap         \* history: an attempt began before an earlier one had ended

vars == <<client, waiting, ready, io_running, ui, peer, requests, sends, overlap>>

Socket == 1..(MaxRequests + 1)
Op(kind, sock) == [op |-> kind, sock |-> sock, packet |-> 0]
WriteOp(sock, p) == [op |-> "write", sock |-> sock, packet |-> p]
Completion(o, ec) == [op |-> o.op, sock |-> o.sock, packet |-> o.packet, ec |-> ec]

\* main() calls start() before the io thread exists: the first attempt is on
\* its way.
Init ==
    /\ client = [connection_state |-> "Connecting", closed |-> FALSE,
                 write_queue |-> <<>>, write_in_progress |-> FALSE, sock |-> 1,
                 screen |-> "Login", connection |-> "Connecting",
                 pending_auto_login |-> FALSE, endpoint_edited |-> FALSE]
    /\ waiting = {Op("resolve", 1)} /\ ready = <<>> /\ io_running = TRUE
    /\ ui = "ready"
    /\ peer = [s \in Socket |-> [up |-> FALSE, welcomed |-> FALSE, got |-> <<>>]]
    /\ requests = 0 /\ sends = 0 /\ overlap = FALSE
-----------------------------------------------------------------------------
(* The member functions.  They call each other, so each is a function on a
   record w of the client, the waiting and the ready operations and the two
   histories. *)

World == [c |-> client, waiting |-> waiting, ready |-> ready, sends |-> sends,
          overlap |-> overlap]

\* A packet is read in two operations, its header and its body.
Reads == {"header", "body"}

Cancelled(w, ops) ==
    LET dead == SetToSeq({o \in ops : o.op \in Reads}) \o SetToSeq({o \in ops : o.op \notin Reads})
    IN  [w EXCEPT !.waiting = @ \ ops,
                  !.ready = @ \o [i \in DOMAIN dead |-> Completion(dead[i], "aborted")]]

close_socket(w) ==
    Cancelled(w, {o \in w.waiting : o.op \in Reads \cup {"connect", "write"} /\ o.sock = w.c.sock})

cancel_connect_timeout(w) == Cancelled(w, {o \in w.waiting : o.op = "timer"})

\* ClientViewState::set_connection, as connection_handler_ calls it.
set_connection(w) ==
    LET status == w.c.connection_state IN
    [w EXCEPT !.c.connection = status,
              !.c.screen = CASE status = "Failed" -> "Login"
                             [] status = "Disconnected" -> "Disconnected"
                             [] OTHER -> @]

\* mutant: the UI is not told that the connection is gone.
close_connectionSilent(w, notify) ==
    LET w1 == close_socket(cancel_connect_timeout(w))
        w2 == [w1 EXCEPT !.c.closed = TRUE, !.c.write_queue = <<>>,
                         !.c.write_in_progress = FALSE]
        w3 == [w2 EXCEPT !.c.connection_state = "Disconnected"]
    IN  IF w.c.connection_state \in {"Connected", "Connecting"} THEN w3 ELSE w2

close_connection(w, notify) ==
    LET w1 == close_socket(cancel_connect_timeout(w))
        w2 == [w1 EXCEPT !.c.closed = TRUE, !.c.write_queue = <<>>,
                         !.c.write_in_progress = FALSE]
        w3 == [w2 EXCEPT !.c.connection_state = "Disconnected"]
    IN  IF notify /\ w.c.connection_state \in {"Connected", "Connecting"}
        THEN set_connection(w3)
        ELSE IF w.c.connection_state = "Connecting" THEN w3 ELSE w2

\* The resolve or the connect of an attempt is under way, or has ended and its
\* handler is still to run.  Nothing cancels a resolve, and nothing tells the
\* handlers of one attempt from those of the next.
Unfinished(w) ==
    \/ \E o \in w.waiting : o.op \in {"resolve", "connect"}
    \/ \E i \in DOMAIN w.ready :
          w.ready[i].op \in {"resolve", "connect"} /\ w.ready[i].ec # "aborted"

begin_connect(w) ==
    IF w.c.connection_state = "Connecting" THEN w
    ELSE LET w1 == close_socket(w)
             s == w.c.sock + 1
         IN  set_connection([w1 EXCEPT !.c.sock = s, !.c.closed = FALSE,
                                       !.c.connection_state = "Connecting",
                                       !.waiting = @ \cup {Op("resolve", s)},
                                       !.overlap = @ \/ Unfinished(w1)])

\* send(): the packet is queued by a handler that is posted to the io thread.
send(w) ==
    [w EXCEPT !.sends = @ + 1,
              !.ready = Append(@, [op |-> "post", sock |-> w.c.sock,
                                   packet |-> w.sends + 1, ec |-> "ok"])]

\* Between the two calls of reconnect() the socket is closed and the state may
\* still be Connected; a write then fails at once.
do_write(w) ==
    LET o == WriteOp(w.c.sock, Head(w.c.write_queue)) IN
    IF w.c.connection_state # "Connected" \/ w.c.write_in_progress \/ w.c.write_queue = <<>>
    THEN w
    ELSE IF w.c.closed
         THEN [w EXCEPT !.c.write_in_progress = TRUE,
                        !.ready = Append(@, Completion(o, "error"))]
         ELSE [w EXCEPT !.c.write_in_progress = TRUE, !.waiting = @ \cup {o}]

\* asio: the socket is open, from the start of its connect to the next close.
is_open(w) ==
    \/ w.c.connection_state = "Connected"
    \/ \E o \in w.waiting : o.op = "connect" /\ o.sock = w.c.sock
    \/ \E i \in DOMAIN w.ready : /\ w.ready[i].op = "connect" /\ w.ready[i].sock = w.c.sock
                                /\ w.ready[i].ec # "aborted"

do_read_header(w) ==
    IF w.c.closed \/ w.c.connection_state # "Connected" THEN w
    ELSE [w EXCEPT !.waiting = @ \cup {Op("header", w.c.sock)}]

\* The handler of a header that comes from an earlier socket gets past the one
\* check of do_read_body; asio rejects a read of a socket that is not open, and
\* the completion of a rejected read is posted at once.
do_read_body(w) ==
    IF w.c.closed THEN w
    ELSE IF is_open(w) THEN [w EXCEPT !.waiting = @ \cup {Op("body", w.c.sock)}]
         ELSE [w EXCEPT !.ready = Append(@, Completion(Op("rejected", w.c.sock), "error"))]

\* PokerUI::submit_login with a valid name and password.
submit_login(w) ==
    IF w.c.connection_state # "Connected" THEN w
    ELSE IF w.c.endpoint_edited
         THEN begin_connect(close_connection(
                [w EXCEPT !.c.endpoint_edited = FALSE,
                          !.c.pending_auto_login = TRUE], FALSE))
         ELSE send(w)

\* PokerUI::on_connection_changed for the state Connected.
on_connected(w) ==
    LET w1 == set_connection([w EXCEPT !.c.connection_state = "Connected"]) IN
    IF w.c.pending_auto_login
    THEN submit_login([w1 EXCEPT !.c.pending_auto_login = FALSE])
    ELSE w1

\* mutant: packets queued while connecting wait for the next send.
on_connect_resultNoFlush(w, ec) ==
    IF w.c.closed THEN w
    ELSE CASE ec = "ok" -> do_read_header(on_connected(w))
           [] ec = "aborted" -> w
           [] OTHER -> set_connection([w EXCEPT !.c.closed = TRUE,
                                                !.c.connection_state = "Failed",
                                                !.c.write_queue = <<>>])

\* mutant: a failed attempt is not reported.
on_connect_resultIgnoresErrors(w, ec) ==
    IF w.c.closed THEN w
    ELSE CASE ec = "ok" -> do_read_header(do_write(on_connected(w)))
           [] OTHER -> w

on_connect_result(w, ec) ==
    IF w.c.closed THEN w
    ELSE CASE ec = "ok" -> do_read_header(do_write(on_connected(w)))
           [] ec = "aborted" -> w
           [] OTHER -> set_connection([w EXCEPT !.c.closed = TRUE,
                                                !.c.connection_state = "Failed",
                                                !.c.write_queue = <<>>])
-----------------------------------------------------------------------------
(* The io thread: completion handlers. *)

Becomes(world) ==
    \E w \in {world} :
        /\ client' = w.c /\ waiting' = w.waiting /\ ready' = w.ready
        /\ sends' = w.sends /\ overlap' = w.overlap

\* The handler of the oldest completion runs.
Handle(kind) == io_running /\ ready # <<>> /\ Head(ready).op = kind
Taken == [World EXCEPT !.ready = Tail(@)]
Result == Head(ready).ec

RunResolve ==
    /\ Handle("resolve")
    /\ Becomes(IF client.closed THEN Taken
               ELSE IF Result # "ok" THEN on_connect_result(Taken, Result)
               ELSE LET w == close_socket(cancel_connect_timeout(Taken))
                    IN  [w EXCEPT !.waiting = @ \cup {Op("timer", client.sock),
                                                      Op("connect", client.sock)}])
    /\ UNCHANGED <<io_running, ui, peer, requests>>

RunTimer ==
    /\ Handle("timer")
    /\ Becomes(IF Result = "aborted" \/ client.closed
                  \/ client.connection_state # "Connecting"
               THEN Taken ELSE on_connect_result(close_socket(Taken), "timed_out"))
    /\ UNCHANGED <<io_running, ui, peer, requests>>

\* async_connect looks at socket_ again before it reports: a result that finds
\* the socket closed, or replaced by one not yet open, is operation_aborted.
RunConnect ==
    /\ Handle("connect")
    /\ Becomes(on_connect_result(cancel_connect_timeout(Taken),
                                 IF is_open(World) THEN Result ELSE "aborted"))
    /\ UNCHANGED <<io_running, ui, peer, requests>>

\* The result "error" is also a length that is not accepted.
RunHeader ==
    /\ Handle("header")
    /\ Becomes(IF client.closed THEN Taken
               ELSE IF Result = "ok" THEN do_read_body(Taken)
               ELSE close_connection(Taken, TRUE))
    /\ UNCHANGED <<io_running, ui, peer, requests>>

\* On Welcome the UI opens the lobby and asks for the list of rooms.
RunBody ==
    /\ Handle("body") \/ Handle("rejected")
    /\ Becomes(IF client.closed THEN Taken
               ELSE CASE Result = "message" -> do_read_header(Taken)
                      [] Result = "welcome" ->
                           do_read_header(send([Taken EXCEPT !.c.screen = "Lobby"]))
                      [] OTHER -> close_connection(Taken, TRUE))
    /\ UNCHANGED <<io_running, ui, peer, requests>>

\* mutant: a handled write leaves its packet at the front of the queue.
RunWriteNoPop ==
    LET w == [Taken EXCEPT !.c.write_in_progress = FALSE] IN
    /\ Handle("write")
    /\ Becomes(IF client.connection_state # "Connected" THEN w
               ELSE IF Result = "ok" THEN do_write(w)
               ELSE close_connection(w, TRUE))
    /\ UNCHANGED <<io_running, ui, peer, requests>>

RunWrite ==
    LET w == [Taken EXCEPT !.c.write_in_progress = FALSE] IN
    /\ Handle("write")
    /\ Becomes(IF client.connection_state # "Connected" THEN w
               ELSE IF Result = "ok"
               THEN do_write([w EXCEPT !.c.write_queue = IF @ = <<>> THEN @ ELSE Tail(@)])
               ELSE close_connection(w, TRUE))
    /\ UNCHANGED <<io_running, ui, peer, requests>>

\* mutant: a write is started although one is in progress.
RunPostUnchecked ==
    LET w == [Taken EXCEPT !.c.write_queue = Append(@, Head(ready).packet)] IN
    /\ Handle("post")
    /\ Becomes(CASE client.connection_state = "Connecting" -> w
                 [] client.connection_state = "Connected" ->
                      do_write([w EXCEPT !.c.write_in_progress = FALSE])
                 [] OTHER -> Taken)
    /\ UNCHANGED <<io_running, ui, peer, requests>>

RunPost ==
    LET w == [Taken EXCEPT !.c.write_queue = Append(@, Head(ready).packet)] IN
    /\ Handle("post")
    /\ Becomes(CASE client.connection_state = "Connecting" -> w
                 [] client.connection_state = "Connected" -> do_write(w)
                 [] OTHER -> Taken)
    /\ UNCHANGED <<io_running, ui, peer, requests>>

RunHandler ==
    RunResolve \/ RunTimer \/ RunConnect \/ RunHeader \/ RunBody \/ RunWrite \/ RunPost

\* main.cpp:65: io.run() returns once it is out of work, and the thread ends.
IoReturns ==
    /\ io_running /\ waiting = {} /\ ready = <<>>
    /\ io_running' = FALSE
    /\ UNCHANGED <<client, waiting, ready, ui, peer, requests, sends, overlap>>
-----------------------------------------------------------------------------
(* The network, external. *)

Completes(o, ec) ==
    /\ io_running /\ o \in waiting
    /\ waiting' = waiting \ {o}
    /\ ready' = Append(ready, Completion(o, ec))
    /\ UNCHANGED <<client, io_running, ui, requests, sends, overlap>>

AttemptCompletes ==
    \E o \in {x \in waiting : x.op \in {"resolve", "connect"}}, ec \in {"ok", "error"} :
        /\ Completes(o, ec)
        /\ peer' = IF o.op = "connect" /\ ec = "ok" THEN [peer EXCEPT ![o.sock].up = TRUE]
                   ELSE peer

TimerExpires ==
    \E o \in {x \in waiting : x.op = "timer"} : Completes(o, "ok") /\ UNCHANGED peer

\* The server's answer to a login is Welcome, the first packet being a login.
ReadCompletes ==
    \E o \in {x \in waiting : x.op \in Reads} :
        \/ /\ peer[o.sock].up
           /\ Completes(o, IF o.op = "header" THEN "ok" ELSE "message")
           /\ UNCHANGED peer
        \/ /\ o.op = "body"
           /\ peer[o.sock].up /\ peer[o.sock].got # <<>> /\ ~peer[o.sock].welcomed
           /\ Completes(o, "welcome")
           /\ peer' = [peer EXCEPT ![o.sock].welcomed = TRUE]
        \/ /\ Completes(o, "error")
           /\ peer' = [peer EXCEPT ![o.sock].up = FALSE]

WriteCompletes ==
    \E o \in {x \in waiting : x.op = "write"} :
        \/ /\ peer[o.sock].up
           /\ Completes(o, "ok")
           /\ peer' = [peer EXCEPT ![o.sock].got = Append(@, o.packet)]
        \/ /\ Completes(o, "error")
           /\ peer' = [peer EXCEPT ![o.sock].up = FALSE]
-----------------------------------------------------------------------------
(* The UI thread. *)

\* The user changes host or port in the login form.
EditEndpoint ==
    /\ ui = "ready" /\ client.screen = "Login" /\ ~client.endpoint_edited
    /\ requests < MaxRequests /\ requests' = requests + 1
    /\ client' = [client EXCEPT !.endpoint_edited = TRUE]
    /\ UNCHANGED <<waiting, ready, io_running, ui, peer, sends, overlap>>

\* The Join button: submit_login on the UI thread.
ClickJoin ==
    /\ ui = "ready" /\ client.screen = "Login" /\ client.connection_state = "Connected"
    /\ \/ /\ client.endpoint_edited
          /\ client' = [client EXCEPT !.endpoint_edited = FALSE, !.pending_auto_login = TRUE]
          /\ ui' = "close"
          /\ UNCHANGED <<waiting, ready, sends, overlap>>
       \/ /\ ~client.endpoint_edited
          /\ sends < MaxLogins
          /\ Becomes(send(World))
          /\ UNCHANGED ui
    /\ UNCHANGED <<io_running, peer, requests>>

\* The Reconnect button of the Disconnected screen.
ClickReconnect(has_password) ==
    /\ ui = "ready" /\ client.screen = "Disconnected"
    /\ requests < MaxRequests /\ requests' = requests + 1
    /\ client' = [client EXCEPT !.pending_auto_login = has_password,
                                !.connection = "Connecting", !.screen = "Login"]
    /\ ui' = "close"
    /\ UNCHANGED <<waiting, ready, io_running, peer, sends, overlap>>

\* NetworkClient::reconnect, called by the UI thread: its two calls.
UiClose ==
    /\ ui = "close" /\ ui' = "begin"
    /\ Becomes(close_connection(World, FALSE))
    /\ UNCHANGED <<io_running, peer, requests>>

UiBegin ==
    /\ ui = "begin" /\ ui' = "ready"
    /\ Becomes(begin_connect(World))
    /\ UNCHANGED <<io_running, peer, requests>>

\* Any message the user sends from the lobby or the table.
UserSends ==
    /\ ui = "ready" /\ client.screen = "Lobby" /\ sends < MaxSends
    /\ Becomes(send(World))
    /\ UNCHANGED <<io_running, ui, peer, requests>>

Next ==
    \/ RunHandler \/ IoReturns
    \/ AttemptCompletes \/ TimerExpires \/ ReadCompletes \/ WriteCompletes
    \/ EditEndpoint \/ ClickJoin \/ (\E b \in BOOLEAN : ClickReconnect(b))
    \/ UiClose \/ UiBegin \/ UserSends

\* The io thread runs what is ready and returns when it has nothing to do, the
\* UI thread finishes what it began, and an attempt to resolve or connect ends:
\* the connect timeout or the operating system sees to that.  Nothing is
\* assumed of the server's messages or of the user.
Spec ==
    /\ Init /\ [][Next]_vars
    /\ WF_vars(RunHandler) /\ WF_vars(IoReturns)
    /\ WF_vars(AttemptCompletes \/ TimerExpires)
    /\ WF_vars(UiClose \/ UiBegin)
-----------------------------------------------------------------------------
(* Properties. *)

\* Every variable has its type, and closed_ agrees with connection_state_: the
\* handlers ask the one or the other, and reconnect() assigns them one after
\* the other on a thread of its own.
TypeOK ==
    /\ client.connection_state \in {"Disconnected", "Connecting", "Connected", "Failed"}
    /\ client.connection \in {"Disconnected", "Connecting", "Connected", "Failed"}
    /\ client.screen \in {"Login", "Lobby", "Disconnected"}
    /\ client.sock \in Socket
    /\ \A o \in waiting : o.op \in {"resolve", "timer", "connect", "header", "body", "write"}
    /\ io_running \in BOOLEAN /\ ui \in {"ready", "close", "begin"}
    /\ ui # "begin" =>
         (client.closed <=> client.connection_state \in {"Disconnected", "Failed"})

\* What an operation of these kinds on the socket in use still has ahead of it:
\* to complete, or its handler.
Pending(kinds) ==
    Cardinality({o \in waiting : o.op \in kinds /\ o.sock = client.sock})
    + Cardinality({i \in DOMAIN ready : ready[i].op \in kinds /\ ready[i].sock = client.sock})

\* asio allows one read and one write at a time on a socket; a second one would
\* mix the bytes of two packets.  Handlers start the next read when the last or
\* the connect is done, and the next write when write_in_progress_ is clear, but
\* they cannot tell whose completion they handle: those of sockets long closed
\* run too.  It is enough that no attempt begins before the last has ended: the
\* read such a handler starts on the next socket (network_client.cpp:181) is
\* rejected, so nothing is read or written before the socket is connected.
OneOperationAtATime ==
    ~overlap /\ ~client.closed =>
        /\ Pending({"header", "body", "rejected"}) <= 1
        /\ Pending({"write"}) <= 1
        /\ Pending({"resolve", "connect"}) <= 1
        /\ Pending({"resolve", "connect"}) = 1 => Pending({"header", "body", "write"}) = 0

\* On a live connection a queued packet is being written: no packet waits for
\* another send() to push it out, and write_in_progress_ never stays set with
\* no write under way.
NoStuckPacket ==
    client.connection_state = "Connected" /\ ~client.closed =>
        /\ client.write_queue # <<>> => client.write_in_progress
        /\ client.write_in_progress =>
             \/ \E o \in waiting : o.op = "write" /\ o.sock = client.sock
             \/ \E i \in DOMAIN ready : ready[i].op = "write"

\* The server sees the packets of a connection in the order of the calls of
\* send(), each once, however often the client has reconnected before, as long
\* as no attempt began before the last had ended.
InOrderOnce ==
    ~overlap =>
    \A s \in Socket : \A i, j \in DOMAIN peer[s].got :
        i < j => peer[s].got[i] < peer[s].got[j]

\* What the UI shows is the state of the connection, except while the UI
\* thread is inside reconnect(), and closed_ agrees with both (TypeOK).
ViewMatchesConnection ==
    TypeOK /\ (ui = "ready" => client.connection = client.connection_state)

\* An attempt to connect that the io thread is there to see comes to an end:
\* a timeout racing a late answer, and callbacks of an earlier attempt, leave
\* no attempt without an outcome.
AttemptEnds ==
    client.connection_state = "Connecting" /\ io_running ~>
        client.connection_state # "Connecting"

\* "Reconnect opens a new TCP session" (README.md:93): what the Reconnect
\* button starts ends in a connection or in an error the user is shown.
ReconnectEnds ==
    ui = "close" /\ client.connection = "Connecting" ~>
        ui = "ready" /\ client.connection_state # "Connecting"
=============================================================================
