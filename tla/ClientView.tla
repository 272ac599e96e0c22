----------------------------- MODULE ClientView -----------------------------
(***************************************************************************)
(* What one client shows and lets its user do, against what the server     *)
(* expects of it: client/src/client_view_state.cpp and the handlers of     *)
(* client/src/poker_ui.cpp, with the messages between them and the server  *)
(* under way in both directions.                                           *)
(*                                                                         *)
(* The server is seen from this one connection: is it logged in, in a      *)
(* room, is a game on, and which prompt (YourTurn) of it is unanswered.    *)
(* It sends what lobby.cpp, room.cpp and game_session.cpp send to this     *)
(* connection, in their order; the other players are free to act, join and *)
(* leave.  Messages that only add to the log (ActionEvent, HandResult,     *)
(* RoomList) are left out.  Prompts are numbered; a prompt's number stands *)
(* for its list of actions.                                                *)
(***************************************************************************)
EXTENDS Naturals, Sequences

CONSTANTS
    MaxPrompts,     \* bound: prompts sent to this client
    MaxUp,          \* bound: requests of the client under way
    MaxDown,        \* bound: messages under way to the client when the server
                    \* takes up something new
    MaxLosses       \* bound: connections lost

ASSUME BoundsNat ==
    MaxPrompts \in Nat /\ MaxUp \in Nat /\ MaxDown \in Nat /\ MaxLosses \in Nat

VARIABLES
    screen,         \* ClientViewState::screen
    your_turn,      \* ClientViewState::your_turn; 0 is an empty optional
    action_pending, \* PokerUI::action_pending_
    saved,          \* PokerUI::saved_your_turn_; 0 is an empty optional
    can_start,      \* ClientViewState: this player is host of two or more
    up,             \* requests under way to the server, in order
    down,           \* messages under way to the client, in order
    room,           \* server: none, alone (in a room), waiting (with others)
                    \* or game
    host,           \* server: this player is the host of the room
    turn,           \* server: the unanswered prompt, or 0
    prompts,        \* server: the number of prompts sent
    logged_in,      \* server: the connection has logged in
    losses,         \* bound: connections lost so far
    orphaned        \* history: join_room left a room and then failed

view == <<screen, your_turn, action_pending, saved, can_start>>
server == <<room, host, turn, prompts, logged_in, orphaned>>
vars == <<view, up, down, server, losses>>

Msg(type) == [type |-> type, prompt |-> 0, start |-> FALSE]
YourTurn(p) == [Msg("YourTurn") EXCEPT !.prompt = p]
Action(p) == [Msg("PlayerAction") EXCEPT !.prompt = p]

\* JoinedRoom tells whether a game is on, who is there and who is the host.
JoinedRoom(where, is_host) ==
    [Msg(IF where = "game" THEN "JoinedGame" ELSE "JoinedRoom")
        EXCEPT !.start = is_host /\ where # "alone"]

Init ==
    /\ screen = "Login" /\ your_turn = 0 /\ action_pending = FALSE /\ saved = 0
    /\ can_start = FALSE /\ up = <<>> /\ down = <<>>
    /\ room = "none" /\ host = FALSE /\ turn = 0 /\ prompts = 0 /\ logged_in = FALSE
    /\ losses = 0 /\ orphaned = FALSE
-----------------------------------------------------------------------------
(* The client receives: PokerUI::add_server_message, which first calls
   ClientViewState::apply_message. *)

Arrives(type) == down # <<>> /\ Head(down).type = type

ReceiveWelcome ==
    /\ Arrives("Welcome") /\ down' = Tail(down)
    /\ screen' = "Lobby"
    /\ UNCHANGED <<your_turn, action_pending, saved, can_start, up, server, losses>>

\* An update of the table's members keeps the table on screen if a game is on.
ReceiveJoined ==
    /\ Arrives("JoinedRoom") \/ Arrives("JoinedGame")
    /\ down' = Tail(down) /\ can_start' = Head(down).start
    /\ \/ /\ Arrives("JoinedGame") /\ screen = "InGame"
          /\ UNCHANGED <<screen, your_turn>>
       \/ /\ ~(Arrives("JoinedGame") /\ screen = "InGame")
          /\ screen' = "WaitingRoom" /\ your_turn' = 0
    /\ UNCHANGED <<action_pending, saved, up, server, losses>>

\* mutant: an update of the table always takes the prompt away.
ReceiveStateClears ==
    /\ Arrives("GameStateUpdate") /\ down' = Tail(down)
    /\ screen' = "InGame"
    /\ your_turn' = 0 /\ action_pending' = FALSE /\ saved' = 0
    /\ UNCHANGED <<can_start, up, server, losses>>

\* An update answers a pending action; without one the prompt stays.
ReceiveState ==
    /\ Arrives("GameStateUpdate") /\ down' = Tail(down)
    /\ screen' = "InGame"
    /\ IF action_pending
       THEN your_turn' = 0 /\ action_pending' = FALSE /\ saved' = 0
       ELSE UNCHANGED <<your_turn, action_pending, saved>>
    /\ UNCHANGED <<can_start, up, server, losses>>

ReceiveYourTurn ==
    /\ Arrives("YourTurn") /\ down' = Tail(down)
    /\ your_turn' = Head(down).prompt
    /\ screen' = "InGame"
    /\ action_pending' = FALSE /\ saved' = 0
    /\ UNCHANGED <<can_start, up, server, losses>>

\* mutant: the client stays on the table it has left.
ReceiveLeftStays ==
    /\ Arrives("LeftRoom") /\ down' = Tail(down)
    /\ can_start' = FALSE /\ your_turn' = 0 /\ action_pending' = FALSE /\ saved' = 0
    /\ UNCHANGED <<screen, up, server, losses>>

ReceiveLeft ==
    /\ Arrives("LeftRoom") /\ down' = Tail(down)
    /\ screen' = "Lobby"
    /\ can_start' = FALSE /\ your_turn' = 0 /\ action_pending' = FALSE /\ saved' = 0
    /\ UNCHANGED <<up, server, losses>>

\* An error puts the prompt back that the pending action has taken away.
ReceiveError ==
    /\ Arrives("Error") /\ down' = Tail(down)
    /\ your_turn' = IF action_pending /\ saved # 0 THEN saved ELSE your_turn
    /\ action_pending' = FALSE /\ saved' = 0
    /\ UNCHANGED <<screen, can_start, up, server, losses>>

Receive ==
    \/ ReceiveWelcome \/ ReceiveJoined \/ ReceiveState \/ ReceiveYourTurn
    \/ ReceiveLeft \/ ReceiveError
-----------------------------------------------------------------------------
(* The user.  Requests leave in the order they are made. *)

Request(m) == Len(up) < MaxUp /\ up' = Append(up, m)

SubmitLogin ==
    /\ screen = "Login" /\ Request(Msg("Login"))
    /\ UNCHANGED <<view, down, server, losses>>

CreateRoom ==
    /\ screen = "Lobby" /\ Request(Msg("CreateRoom"))
    /\ UNCHANGED <<view, down, server, losses>>

\* The room is chosen from a list that may be out of date.
JoinRoom ==
    /\ screen = "Lobby" /\ Request(Msg("JoinRoom"))
    /\ UNCHANGED <<view, down, server, losses>>

LeaveRoom ==
    /\ screen \in {"WaitingRoom", "InGame"} /\ Request(Msg("LeaveRoom"))
    /\ UNCHANGED <<view, down, server, losses>>

StartGame ==
    /\ screen = "WaitingRoom" /\ can_start /\ Request(Msg("StartGame"))
    /\ UNCHANGED <<view, down, server, losses>>

send_action ==
    /\ your_turn # 0
    /\ Request(Action(your_turn))
    /\ saved' = your_turn /\ action_pending' = TRUE /\ your_turn' = 0
    /\ UNCHANGED <<screen, can_start, down, server, losses>>

\* The keys for fold, check and call ask for the screen, ...
HotkeyAction == screen = "InGame" /\ send_action

\* ... an amount typed in and the presets only for a prompt.
SubmitRaise == send_action
PresetRaise == send_action

\* The Reconnect button, up to the new connection.
Reconnect ==
    /\ screen = "Disconnected"
    /\ screen' = "Login" /\ your_turn' = 0 /\ can_start' = FALSE
    /\ UNCHANGED <<action_pending, saved, up, down, server, losses>>
-----------------------------------------------------------------------------
(* The server. *)

\* The server sends `first', the state of the table if `update', a prompt if
\* this player is asked now, then `last'.
Sends(first, update, ask, last) ==
    /\ ask => prompts < MaxPrompts
    /\ prompts' = IF ask THEN prompts + 1 ELSE prompts
    /\ turn' = IF ask THEN prompts + 1 ELSE 0
    /\ down' = down \o first
                    \o (IF update THEN <<Msg("GameStateUpdate")>> ELSE <<>>)
                    \o (IF ask THEN <<YourTurn(prompts + 1)>> ELSE <<>>)
                    \o last

\* It answers with `msgs'; whose turn it is stays as it is.
Answers(msgs) == down' = down \o msgs /\ UNCHANGED <<turn, prompts>>

Free == Len(down) < MaxDown
Serve(type) == Free /\ up # <<>> /\ Head(up).type = type /\ up' = Tail(up)

ServeLogin ==
    /\ Serve("Login")
    /\ \/ /\ ~logged_in /\ logged_in' = TRUE /\ Answers(<<Msg("Welcome")>>)
       \/ /\ Answers(<<Msg("Error")>>) /\ UNCHANGED logged_in
    /\ UNCHANGED <<view, room, host, orphaned, losses>>

\* Room::add_player tells the members, and starts the game of a full room.
AddsPlayer(is_host) ==
    \/ /\ room' = "waiting"
       /\ Sends(<<JoinedRoom("waiting", is_host)>>, FALSE, FALSE, <<>>)
    \/ /\ room' = "game"
       /\ \E ask \in BOOLEAN : Sends(<<JoinedRoom("waiting", is_host)>>, TRUE, ask, <<>>)

\* create_room leaves the old room without a word to the client.
ServeCreateRoom ==
    /\ Serve("CreateRoom")
    /\ \/ /\ room' = "alone" /\ host' = TRUE
          /\ Sends(<<JoinedRoom("alone", TRUE)>>, FALSE, FALSE, <<>>)
       \/ Answers(<<Msg("Error")>>) /\ UNCHANGED <<room, host>>
    /\ UNCHANGED <<view, logged_in, orphaned, losses>>

\* join_room: refused outright, nothing to do as the player is in that room,
\* or the old room is left, and then the new one is entered or not.
ServeJoinRoom ==
    /\ Serve("JoinRoom")
    /\ \/ Answers(<<Msg("Error")>>) /\ UNCHANGED <<room, host, orphaned>>
       \/ room # "none" /\ Answers(<<>>) /\ UNCHANGED <<room, host, orphaned>>
       \/ AddsPlayer(FALSE) /\ host' = FALSE /\ UNCHANGED orphaned
       \/ /\ room' = "none" /\ host' = FALSE
          /\ Sends(<<Msg("Error")>>, FALSE, FALSE, <<>>)
          /\ orphaned' = (orphaned \/ room # "none")
    /\ UNCHANGED <<view, logged_in, losses>>

ServeLeaveRoom ==
    /\ Serve("LeaveRoom")
    /\ room' = "none" /\ host' = FALSE
    /\ Sends(<<Msg("LeftRoom")>>, FALSE, FALSE, <<>>)
    /\ UNCHANGED <<view, logged_in, orphaned, losses>>

\* A start may also be refused because a player is short of chips.
ServeStartGame ==
    /\ Serve("StartGame")
    /\ \/ /\ room = "waiting" /\ host /\ room' = "game"
          /\ \E ask \in BOOLEAN : Sends(<<>>, TRUE, ask, <<>>)
       \/ Answers(<<Msg("Error")>>) /\ UNCHANGED room
    /\ UNCHANGED <<view, host, logged_in, orphaned, losses>>

\* An action is accepted when it is this player's turn.  It may also be refused
\* if it was chosen on an earlier prompt.  Without a game it is ignored.
ServeAction ==
    /\ Serve("PlayerAction")
    /\ \/ /\ room = "game" /\ turn # 0
          /\ \E update, ask \in BOOLEAN : Sends(<<>>, update, ask, <<>>)
       \/ /\ room = "game" /\ turn # Head(up).prompt /\ Answers(<<Msg("Error")>>)
       \/ /\ room \in {"alone", "waiting"} /\ Answers(<<>>)
       \/ /\ room = "none" /\ Answers(<<Msg("Error")>>)
    /\ UNCHANGED <<view, room, host, logged_in, orphaned, losses>>

\* Other players of the room: one acts, ...
OtherActs ==
    /\ Free /\ room = "game" /\ turn = 0
    /\ \E update, ask \in BOOLEAN : Sends(<<>>, update, ask, <<>>)
    /\ UNCHANGED <<view, up, room, host, logged_in, orphaned, losses>>

\* ... one joins, which may fill the room, or starts the game as its host, ...
OtherJoinsOrStarts ==
    /\ Free
    /\ \/ room \in {"alone", "waiting"} /\ AddsPlayer(host)
       \/ /\ room = "waiting" /\ ~host
          /\ room' = "game" /\ \E ask \in BOOLEAN : Sends(<<>>, TRUE, ask, <<>>)
    /\ UNCHANGED <<view, up, host, logged_in, orphaned, losses>>

\* ... one leaves, perhaps the host: the hand goes on, the next street or the
\* next hand begins, or this player is alone and the game is over.
OtherLeaves ==
    /\ Free /\ room \in {"waiting", "game"}
    /\ host' \in {host, TRUE}
    /\ \/ /\ room = "game" /\ UNCHANGED room
          /\ Answers(<<Msg("GameStateUpdate"), JoinedRoom("game", host')>>)
       \/ /\ room = "game" /\ UNCHANGED room
          /\ \E update, ask \in BOOLEAN :
                Sends(<<>>, update, ask, <<JoinedRoom("game", host')>>)
       \/ /\ room = "waiting" /\ UNCHANGED room
          /\ Answers(<<JoinedRoom("waiting", host')>>)
       \/ /\ room' = "alone" /\ host'
          /\ Sends(<<>>, FALSE, FALSE, <<JoinedRoom("alone", TRUE)>>)
    /\ UNCHANGED <<view, up, logged_in, orphaned, losses>>

\* The connection breaks: what was under way is lost, the server removes the
\* player, ClientViewState::set_connection(Disconnected) runs.
ConnectionLost ==
    /\ losses < MaxLosses /\ losses' = losses + 1
    /\ screen # "Disconnected"
    /\ screen' = "Disconnected" /\ your_turn' = 0 /\ can_start' = FALSE
    /\ up' = <<>> /\ down' = <<>>
    /\ room' = "none" /\ host' = FALSE /\ turn' = 0
    /\ logged_in' = FALSE /\ orphaned' = FALSE
    /\ UNCHANGED <<action_pending, saved, prompts>>

Next ==
    \/ Receive
    \/ SubmitLogin \/ CreateRoom \/ JoinRoom \/ LeaveRoom \/ StartGame
    \/ HotkeyAction \/ SubmitRaise \/ PresetRaise \/ Reconnect
    \/ ServeLogin \/ ServeCreateRoom \/ ServeJoinRoom \/ ServeLeaveRoom
    \/ ServeStartGame \/ ServeAction
    \/ OtherActs \/ OtherJoinsOrStarts \/ OtherLeaves \/ ConnectionLost

Spec == Init /\ [][Next]_vars
-----------------------------------------------------------------------------
(* Properties. *)

\* Nothing is under way: the client has seen all the server has done and the
\* other way round.
Quiet == up = <<>> /\ down = <<>>

\* Every variable has its type, and a pending action has saved its prompt: the
\* two members are always set and reset together.
TypeOK ==
    /\ screen \in {"Login", "Lobby", "WaitingRoom", "InGame", "Disconnected"}
    /\ your_turn \in 0..MaxPrompts /\ saved \in 0..MaxPrompts
    /\ action_pending = (saved # 0)
    /\ room \in {"none", "alone", "waiting", "game"} /\ turn \in 0..prompts
    /\ turn # 0 => room = "game"
    /\ room # "none" => logged_in
    /\ logged_in \in BOOLEAN

\* A prompt is never lost: once everything has arrived, the client shows the
\* prompt the server is waiting on, whatever actions, errors, departures and
\* updates crossed it (poker_ui.cpp:249-295).  A lost one would stop the table,
\* for the server has no timeout on a turn.
PromptIsShown == Quiet /\ turn # 0 => your_turn = turn

\* Once everything has arrived the screen is the one for where the server has
\* the player, unless join_room left one room and could not enter the other:
\* the client is told of the error only.  The prompt and its saved copy agree at
\* all times (TypeOK).
ScreenMatchesServer ==
    /\ TypeOK
    /\ Quiet /\ screen # "Disconnected" /\ ~orphaned =>
        /\ room = "none" => screen \in {"Login", "Lobby"}
        /\ room \in {"alone", "waiting"} => screen = "WaitingRoom"
        /\ room = "game" => screen = "InGame"
=============================================================================
