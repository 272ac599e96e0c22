-------------------------------- MODULE Lobby --------------------------------
(***************************************************************************)
(* Connections, logins, rooms and the lobby of the server:                 *)
(* messaging/handshake_message_processor.cpp,                              *)
(* messaging/lobby_message_processor.cpp, network/player_name_registry.cpp,*)
(* network/connection_registry.cpp, game/lobby.cpp, game/room.cpp and the  *)
(* queries of storage/user_repository.cpp they make.                       *)
(*                                                                         *)
(* One message or one disconnect is one action: the server runs a handler  *)
(* to completion on its only thread.  A handler that first leaves a room   *)
(* and then enters another changes the lobby twice, so the lobby is one    *)
(* record and a handler composes functions on it.                          *)
(*                                                                         *)
(* The table inside a room is an abstraction of module GameSession that    *)
(* keeps only where the chips are: blinds are posted, a player bets, a     *)
(* hand ends and the next is dealt, a player leaves.  Any player may bet   *)
(* and any division of the pot is possible, so it allows what GameSession  *)
(* allows, and more.  A request that is refused changes nothing and is a   *)
(* stuttering step.                                                        *)
(***************************************************************************)
EXTENDS SidePots, Integers, Sequences, SequencesExt, FiniteSetsExt

CONSTANTS
    Conn,               \* connection objects (Session)
    Name,               \* user names as clients spell them
    Account,            \* rows of the users table
    AccountOf,          \* the row a spelling selects (COLLATE NOCASE)
    StartingChips,      \* poker::STARTING_CHIPS
    SmallBlind,         \* poker::SMALL_BLIND
    BigBlind,           \* poker::BIG_BLIND
    Capacity,           \* values of max_players clients ask for
    MaxRoomId,          \* bound: rooms created in one behaviour
    MaxMoney,           \* bound: chips in play at which no game starts any more
    NoName              \* the name of a connection that has not logged in

ASSUME ConnAssumption == IsFiniteSet(Conn)
ASSUME NameAssumption ==
    IsFiniteSet(Account) /\ AccountOf \in [Name -> Account] /\ NoName \notin Name
ASSUME ChipAssumption ==
    /\ SmallBlind \in Nat \ {0} /\ BigBlind \in Nat \ {0}
    /\ StartingChips \in Nat
ASSUME RoomAssumption == Capacity \subseteq Nat /\ MaxRoomId \in Nat
ASSUME MoneyAssumption == MaxMoney \in Nat /\ MaxMoney >= StartingChips * Cardinality(Account)

VARIABLES
    connected,      \* connections with an open socket
    name,           \* player_name_ of each connection, NoName before login
    names,          \* PlayerNameRegistry::names_
    registered,     \* ConnectionRegistry::connections_
    accounts,       \* rows that exist in the users table
    next_room_id,   \* Lobby::next_room_id_
    lobby,          \* [rooms, player_rooms, chips]: Lobby::rooms_ by id,
                    \* Lobby::player_rooms_ and the chips column of users
    twice           \* history: an account was online on two connections

vars == <<connected, name, names, registered, accounts, next_room_id, lobby, twice>>

RoomId == 1..MaxRoomId
EmptyFcn == [c \in {} |-> 0]
Acct(c) == AccountOf[name[c]]

(* The players of a room's game and what is in front of them.  No game and
   an empty game_session_ pointer are the same thing. *)
NoGame == [on |-> FALSE, stack |-> EmptyFcn, pot |-> 0]

Without(f, c) == [x \in DOMAIN f \ {c} |-> f[x]]
With(f, c, v) == [x \in DOMAIN f \cup {c} |-> IF x = c THEN v ELSE f[x]]

Init ==
    /\ connected = {} /\ name = [c \in Conn |-> NoName]
    /\ names = {} /\ registered = {} /\ accounts = {}
    /\ next_room_id = 1 /\ twice = FALSE
    /\ lobby = [rooms |-> EmptyFcn, player_rooms |-> EmptyFcn,
                chips |-> [a \in Account |-> 0]]
-----------------------------------------------------------------------------
(* The table of a room. *)

\* persist_all_chips: balances are written by name, in seat order.
SaveAll(chips, members, stack) ==
    [a \in Account |->
        LET seats == {i \in DOMAIN members : Acct(members[i]) = a} IN
        IF seats = {} THEN chips[a] ELSE stack[members[Max(seats)]]]

\* The blinds are posted by s and b.
Posted(stack, s, b) ==
    [on |-> TRUE,
     stack |-> [stack EXCEPT ![s] = @ - MinOf(@, SmallBlind),
                             ![b] = @ - MinOf(@, BigBlind)],
     pot |-> MinOf(stack[s], SmallBlind) + MinOf(stack[b], BigBlind)]

\* What is in front of the players once two of them have posted the blinds.
Dealt(stack) ==
    UNION {{Posted(stack, s, b) : b \in DOMAIN stack \ {s}} : s \in DOMAIN stack}

\* try_start_new_hand: the next hand, or the end of the game.
NextHand(stack) ==
    IF Cardinality({c \in DOMAIN stack : stack[c] > 0}) >= 2 THEN Dealt(stack)
    ELSE {[on |-> TRUE, stack |-> stack, pot |-> 0]}

\* award_all_pots: players receive chips of the pot, all of them or, when part
\* of the pot is claimed by nobody, fewer.
Awarded(stack, pot) ==
    {[c \in DOMAIN stack |-> stack[c] + gain[c]] :
        gain \in {g \in [DOMAIN stack -> 0..pot] : SumOver(g, DOMAIN stack) <= pot}}
-----------------------------------------------------------------------------
(* Room and Lobby as functions on the lobby record. *)

\* Room::load_player_bankrolls
Bankrolls(l, members) ==
    [c \in ToSet(members) |-> l.chips[Acct(c)]]

CanStart(l, members) == \A c \in ToSet(members) : l.chips[Acct(c)] >= BigBlind

\* Room::start_game: the bankrolls are loaded, the first hand is dealt.
StartedGames(l, id) ==
    LET r == l.rooms[id] IN
    IF ~CanStart(l, r.members) THEN {l}
    ELSE {[l EXCEPT !.rooms[id].game = g,
                    !.chips = SaveAll(l.chips, r.members, g.stack)] :
            g \in Dealt(Bankrolls(l, r.members))}

\* Room::add_player, and player_rooms_.insert of its callers.
Added(l, id, c) ==
    LET m == Append(l.rooms[id].members, c)
        l1 == [l EXCEPT !.rooms[id].members = m,
                        !.player_rooms = With(@, c, id)]
    IN  IF Len(m) = l.rooms[id].max THEN StartedGames(l1, id) ELSE {l1}

\* std::find in players_.
Place(r, c) ==
    CHOOSE i \in DOMAIN r.members : r.members[i] = c /\ \A j \in 1..(i - 1) : r.members[j] # c

\* players_ once player c is erased.
Rest(r, c) == RemoveAt(r.members, Place(r, c))

\* mutant: the balance of a player who leaves is not saved.
SavedLeaverForgotten(l, r, c) == l.chips

\* erase_player_state: the stack of a player who leaves is saved.
SavedLeaver(l, r, c) == [l.chips EXCEPT ![Acct(c)] = r.game.stack[c]]

\* GameSession::remove_player: the hand goes on, or one player is left in it,
\* who is awarded the pot, and the next hand starts.  With fewer than two
\* players at the table Room::remove_player resets the session.
GamesAfterLeave(l, r, c) ==
    LET rest == Rest(r, c)
        stack == Without(r.game.stack, c)
        chips == SavedLeaver(l, r, c)
        goes_on == {[game |-> [r.game EXCEPT !.stack = stack], chips |-> chips]}
        dealt == {[game |-> g, chips |-> SaveAll(chips, rest, g.stack)] :
                    g \in UNION {NextHand(s) : s \in Awarded(stack, r.game.pot)}}
        ended == {[game |-> NoGame, chips |-> SaveAll(chips, rest, s)] :
                    s \in Awarded(stack, r.game.pot)}
    IN  IF Len(rest) >= 2 THEN goes_on \cup dealt ELSE ended

\* mutant: a room keeps its host when the host leaves.
NewHostKept(r, c) == r.host

\* Room::remove_player: the host's role passes to the first player left.
NewHost(r, c) == IF c = r.host THEN Head(Rest(r, c)) ELSE r.host

\* Lobby::leave_room and Room::remove_player.
Left(l, c) ==
    IF c \notin DOMAIN l.player_rooms THEN {l}
    ELSE
    LET id == l.player_rooms[c]
        r == l.rooms[id]
        after == IF r.game.on THEN GamesAfterLeave(l, r, c)
                 ELSE {[game |-> r.game, chips |-> l.chips]}
    IN  {[rooms |->
            IF Rest(r, c) = <<>> THEN Without(l.rooms, id)
            ELSE [l.rooms EXCEPT ![id] = [r EXCEPT !.members = Rest(r, c),
                                                   !.game = a.game,
                                                   !.host = NewHost(r, c)]],
          player_rooms |-> Without(l.player_rooms, c),
          chips |-> a.chips] : a \in after}

\* Lobby::check_player_bankroll
HasBankroll(l, c) == l.chips[Acct(c)] >= BigBlind
Playing(l) == {c \in DOMAIN l.player_rooms : l.rooms[l.player_rooms[c]].game.on}

\* All the money there is: balances of accounts that are not playing, stacks
\* and pots.
Money(l) ==
    SumOver(l.chips, Account \ {Acct(c) : c \in Playing(l)})
    + SumOver([c \in Playing(l) |-> l.rooms[l.player_rooms[c]].game.stack[c]], Playing(l))
    + SumOver([id \in DOMAIN l.rooms |-> l.rooms[id].game.pot], DOMAIN l.rooms)

\* A balance two connections play with is counted at both tables and grows with
\* every game; MaxMoney ends that, and nothing else reaches it.
Bounded == Money(lobby) <= MaxMoney
-----------------------------------------------------------------------------
(* Connections and logins. *)

Connect(c) ==
    /\ c \notin connected
    /\ connected' = connected \cup {c}
    /\ name' = [name EXCEPT ![c] = NoName]
    /\ UNCHANGED <<names, registered, accounts, next_room_id, lobby, twice>>

\* PlayerNameRegistry::try_register: names are compared as they are spelled.
try_register(n) == n \notin names

\* handle_login and finish_authentication.  An unknown name creates the
\* account before the registry is asked; a known one needs its password.
Login(c, n, password_ok) ==
    LET a == AccountOf[n] IN
    /\ c \in connected /\ name[c] = NoName
    /\ a \in accounts => password_ok
    /\ accounts' = accounts \cup {a}
    /\ lobby' = IF a \in accounts THEN lobby
                ELSE [lobby EXCEPT !.chips[a] = StartingChips]
    /\ IF try_register(n)
       THEN /\ names' = names \cup {n}
            /\ name' = [name EXCEPT ![c] = n]
            /\ registered' = registered \cup {c}
            /\ twice' = (twice \/ \E d \in registered : Acct(d) = a)
       ELSE UNCHANGED <<name, names, registered, twice>>
    /\ UNCHANGED <<connected, next_room_id>>

\* mutant: a connection that is closed keeps its seat.
DisconnectKeepsSeat(c) ==
    /\ c \in connected
    /\ connected' = connected \ {c}
    /\ names' = names \ {name[c]}
    /\ registered' = registered \ {c}
    /\ name' = [name EXCEPT ![c] = NoName]
    /\ UNCHANGED <<accounts, next_room_id, lobby, twice>>

\* Session::close_session and HandshakeMessageProcessor::on_disconnect.
Disconnect(c) ==
    /\ c \in connected
    /\ connected' = connected \ {c}
    /\ names' = names \ {name[c]}
    /\ registered' = registered \ {c}
    /\ lobby' \in Left(lobby, c)
    /\ name' = [name EXCEPT ![c] = NoName]
    /\ UNCHANGED <<accounts, next_room_id, twice>>
-----------------------------------------------------------------------------
(* Messages of connections that have logged in. *)

LoggedIn(c) == c \in connected /\ name[c] # NoName

CreateRoom(c, max) ==
    /\ LoggedIn(c)
    /\ max >= 2 /\ HasBankroll(lobby, c)
    /\ next_room_id <= MaxRoomId
    /\ next_room_id' = next_room_id + 1
    /\ \E l \in Left(lobby, c) :
         lobby' \in Added([l EXCEPT !.rooms = With(@, next_room_id,
                              [host |-> c, max |-> max, members |-> <<>>,
                               game |-> NoGame])],
                          next_room_id, c)
    /\ UNCHANGED <<connected, name, names, registered, accounts, twice>>

\* mutant: a full room whose game could not start takes another player.
MayJoinFull(l, id) == id \in DOMAIN l.rooms /\ ~l.rooms[id].game.on

\* The checks of join_room on the room itself.
MayJoin(l, id) ==
    /\ id \in DOMAIN l.rooms
    /\ ~l.rooms[id].game.on
    /\ Len(l.rooms[id].members) < l.rooms[id].max

\* Lobby::join_room.  The current room is left before the new one is looked at.
JoinRoom(c, id) ==
    /\ LoggedIn(c)
    /\ HasBankroll(lobby, c)
    /\ c \in DOMAIN lobby.player_rooms => lobby.player_rooms[c] # id
    /\ Bounded
    /\ \E l \in Left(lobby, c) :
         IF MayJoin(l, id) THEN lobby' \in Added(l, id, c) ELSE lobby' = l
    /\ UNCHANGED <<connected, name, names, registered, accounts, next_room_id, twice>>

LeaveRoom(c) ==
    /\ LoggedIn(c)
    /\ lobby' \in Left(lobby, c)
    /\ UNCHANGED <<connected, name, names, registered, accounts, next_room_id, twice>>

\* Lobby::start_game and Room::try_start_game.
StartGame(c) ==
    /\ LoggedIn(c) /\ Bounded
    /\ c \in DOMAIN lobby.player_rooms
    /\ LET id == lobby.player_rooms[c]
           r == lobby.rooms[id]
       IN  /\ ~r.game.on /\ c = r.host /\ Len(r.members) >= 2
           /\ lobby' \in StartedGames(lobby, id)
    /\ UNCHANGED <<connected, name, names, registered, accounts, next_room_id, twice>>

\* A PlayerAction that puts chips in the pot.
Bet(c, n) ==
    /\ LoggedIn(c)
    /\ c \in DOMAIN lobby.player_rooms
    /\ LET id == lobby.player_rooms[c] IN
       /\ lobby.rooms[id].game.on
       /\ n \in 1..lobby.rooms[id].game.stack[c]
       /\ lobby' = [lobby EXCEPT !.rooms[id].game.stack[c] = @ - n,
                                 !.rooms[id].game.pot = @ + n]
    /\ UNCHANGED <<connected, name, names, registered, accounts, next_room_id, twice>>

\* A PlayerAction that ends the hand.
EndHand(c) ==
    /\ LoggedIn(c)
    /\ c \in DOMAIN lobby.player_rooms
    /\ LET id == lobby.player_rooms[c]
           r == lobby.rooms[id]
       IN  /\ r.game.on
           /\ \E s \in Awarded(r.game.stack, r.game.pot) : \E g \in NextHand(s) :
                lobby' = [lobby EXCEPT !.rooms[id].game = g,
                                       !.chips = SaveAll(@, r.members, g.stack)]
    /\ UNCHANGED <<connected, name, names, registered, accounts, next_room_id, twice>>

Next ==
    \E c \in Conn :
        \/ Connect(c) \/ Disconnect(c)
        \/ \E n \in Name, ok \in BOOLEAN : Login(c, n, ok)
        \/ \E max \in Capacity : CreateRoom(c, max)
        \/ \E id \in RoomId : JoinRoom(c, id)
        \/ LeaveRoom(c) \/ StartGame(c)
        \/ \E n \in 1..MaxMoney : Bet(c, n)
        \/ EndHand(c)

Spec == Init /\ [][Next]_vars
-----------------------------------------------------------------------------
(* Properties. *)

\* Every variable has its type; in particular no saved balance goes below
\* zero, whatever a player does with rooms in the middle of a hand.
TypeOK ==
    /\ connected \subseteq Conn /\ name \in [Conn -> Name \cup {NoName}]
    /\ names \subseteq Name /\ registered \subseteq Conn /\ accounts \subseteq Account
    /\ next_room_id \in Nat /\ twice \in BOOLEAN
    /\ DOMAIN lobby.rooms \subseteq RoomId
    /\ DOMAIN lobby.player_rooms \subseteq Conn
    /\ lobby.chips \in [Account -> Nat]

\* player_rooms_ of the lobby and players_ of the rooms, two structures that
\* create_room, join_room and leave_room update one after the other, agree:
\* nobody is in two rooms or in one room twice, no empty room is kept, and
\* every room has one of its own players as host.
RoomsAgree ==
    /\ TypeOK
    /\ \A c \in DOMAIN lobby.player_rooms : lobby.player_rooms[c] \in DOMAIN lobby.rooms
    /\ \A id \in DOMAIN lobby.rooms :
         LET r == lobby.rooms[id] IN
         /\ ToSet(r.members) = {c \in DOMAIN lobby.player_rooms : lobby.player_rooms[c] = id}
         /\ Len(r.members) = Cardinality(ToSet(r.members))
         /\ r.host \in ToSet(r.members)

\* A running game seats exactly the players of its room, never fewer than
\* two (nobody joins a table in play), and no room exceeds max_players, also
\* when a room is full but its automatic start failed (Room::add_player).
GamesAgree ==
    \A id \in DOMAIN lobby.rooms :
        LET r == lobby.rooms[id] IN
        /\ r.game.on => DOMAIN r.game.stack = ToSet(r.members) /\ Len(r.members) >= 2
        /\ Len(r.members) <= r.max

\* A connection that is gone leaves nothing behind: its name is free, it gets
\* no broadcasts and it sits in no room (HandshakeMessageProcessor::on_disconnect).
NoGhosts ==
    /\ DOMAIN lobby.player_rooms \subseteq {c \in Conn : LoggedIn(c)}
    /\ registered = {c \in Conn : LoggedIn(c)}
    /\ names = {name[c] : c \in registered}

\* "Account is already online" (error_codes.h:67): an account is logged in on
\* one connection at most.  PlayerNameRegistry::try_register compares names with
\* their case, the users table does not.
OneLoginPerAccount ==
    \A c, d \in registered : Acct(c) = Acct(d) => c = d

\* Chips come from STARTING_CHIPS of new accounts only.  While a hand is
\* played the database still holds the balance from before the bets, so a
\* player who bets and then leaves, joins another room or disconnects must
\* not find the bet in the account again.  An account that was online twice
\* is the one exception: each of its connections plays with the whole balance.
MoneyIsGranted == ~twice => Money(lobby) <= StartingChips * Cardinality(accounts)
=============================================================================
