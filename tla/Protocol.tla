------------------------------ MODULE Protocol ------------------------------
(***************************************************************************)
(* The messages and their JSON form: common/include/poker/protocol.h and   *)
(* common/src/protocol.cpp.                                                *)
(*                                                                         *)
(* The members of every structure, the keys its to_json writes and the     *)
(* keys its from_json looks for are three tables: the functions are        *)
(* written by hand, and nothing but these lines makes them agree.  JSON    *)
(* objects are records, JSON arrays sequences, and the text of a card is   *)
(* the sequence of its characters.  Names and other texts are values that  *)
(* JSON carries as they are.                                               *)
(***************************************************************************)
EXTENDS Naturals, Sequences, SequencesExt, FiniteSets

CONSTANTS
    null,           \* JSON's null
    nullopt,        \* std::nullopt
    Invalid         \* what from_json returns when it throws

\* The type of a member: a single value, or a std::vector of them.
One(of) == [of |-> of, list |-> FALSE]
Many(of) == [of |-> of, list |-> TRUE]
Empty == [m \in {} |-> One("text")]

\* Several members of one type.
All(S, type) == [m \in S |-> type]

ClientMembers ==
    [Login |-> All({"username", "password"}, One("text")),
     CreateRoom |-> [room_name |-> One("text"), max_players |-> One("uint8")],
     JoinRoom |-> [room_id |-> One("number")],
     LeaveRoom |-> Empty, ListRooms |-> Empty, StartGame |-> Empty,
     PlayerAction |-> [action |-> One("Action"), amount |-> One("optional")]]

ServerMembers ==
    [Welcome |-> [player_name |-> One("text"), chips |-> One("number"), is_new_account |-> One("bool")],
     RoomInfo |-> All({"current_players", "max_players"}, One("uint8")) @@
        [room_id |-> One("number"), room_name |-> One("text"), in_game |-> One("bool")],
     RoomList |-> [rooms |-> Many("RoomInfo")],
     JoinedRoom |->
        [room_id |-> One("number"), player_names |-> Many("text"), host_name |-> One("text"),
         max_players |-> One("uint8"), in_game |-> One("bool")],
     PlayerState |-> All({"chips", "round_bet"}, One("number")) @@
        All({"folded", "all_in", "is_dealer", "is_small_blind", "is_big_blind"}, One("bool")) @@
        [name |-> One("text"), hole_cards |-> Many("Card")],
     GameStateUpdate |-> All({"general_cards", "your_cards"}, Many("Card")) @@
        [phase |-> One("GamePhase"), active_player_name |-> One("text"), total_pot |-> One("number"),
         current_bet |-> One("number"), players |-> Many("PlayerState")],
     YourTurn |-> All({"min_amount", "max_amount", "to_call", "your_chips"}, One("number")) @@
        [available_actions |-> Many("Action")],
     ActionEvent |-> [player_name |-> One("text"), action |-> One("Action"), amount |-> One("optional")],
     Error |-> [code |-> One("number"), description |-> One("text")],
     LeftRoom |-> [room_id |-> One("number"), your_chips |-> One("number"), has_your_chips |-> One("bool")],
     HandResult |-> [winner_names |-> Many("text"), pot_amount |-> One("number"),
                     winner_hand_labels |-> Many("text")]]

Members == ClientMembers @@ ServerMembers
-----------------------------------------------------------------------------
(* to_json: the keys that are written, with the member each is taken from. *)

Keys(S) == [k \in S |-> k]

ClientWrites ==
    [Login |-> Keys({"username", "password"}),
     CreateRoom |-> Keys({"room_name", "max_players"}),
     JoinRoom |-> Keys({"room_id"}),
     LeaveRoom |-> Keys({}), ListRooms |-> Keys({}), StartGame |-> Keys({}),
     PlayerAction |-> Keys({"action", "amount"})]

RoomWrites ==
    [Welcome |-> Keys({"player_name", "chips", "is_new_account"}),
     RoomInfo |-> Keys({"room_id", "room_name", "current_players", "max_players", "in_game"}),
     RoomList |-> Keys({"rooms"}),
     JoinedRoom |-> Keys({"room_id", "player_names", "host_name", "max_players", "in_game"})]

TableWrites ==
    [PlayerState |-> Keys({"name", "chips", "round_bet", "folded", "all_in", "is_dealer",
                           "is_small_blind", "is_big_blind", "hole_cards"}),
     GameStateUpdate |-> Keys({"general_cards", "your_cards", "phase", "active_player_name",
                               "total_pot", "current_bet", "players"}),
     YourTurn |-> Keys({"available_actions", "min_amount", "max_amount", "to_call", "your_chips"}),
     ActionEvent |-> Keys({"player_name", "action", "amount"})]

ResultWrites ==
    [Error |-> Keys({"code", "description"}),
     LeftRoom |-> Keys({"room_id", "your_chips", "has_your_chips"}),
     HandResult |-> Keys({"winner_names", "pot_amount", "winner_hand_labels"})]

Writes == ClientWrites @@ RoomWrites @@ TableWrites @@ ResultWrites
-----------------------------------------------------------------------------
(* from_json: where a member is taken from, and what it becomes without it. *)

At(key) == [key |-> key, else |-> Invalid, unless_null |-> FALSE]
IfContains(key, else) == [key |-> key, else |-> else, unless_null |-> FALSE]
IfNotNull(key) == [key |-> key, else |-> nullopt, unless_null |-> TRUE]

AtAll(S) == [m \in S |-> At(m)]
EachIfContains(S, else) == [m \in S |-> IfContains(m, else)]

ClientReads ==
    [Login |-> AtAll({"username", "password"}),
     CreateRoom |-> AtAll({"room_name", "max_players"}),
     JoinRoom |-> AtAll({"room_id"}),
     LeaveRoom |-> AtAll({}), ListRooms |-> AtAll({}), StartGame |-> AtAll({}),
     PlayerAction |-> [action |-> At("action"), amount |-> IfNotNull("amount")]]

\* mutant: in_game of a room is demanded like the members before it.
RoomReadsDemanding ==
    [Welcome |-> [player_name |-> At("player_name"), chips |-> IfContains("chips", 0),
                  is_new_account |-> IfContains("is_new_account", FALSE)],
     RoomInfo |-> AtAll({"room_id", "room_name", "current_players", "max_players", "in_game"}),
     RoomList |-> AtAll({"rooms"}),
     JoinedRoom |-> AtAll({"room_id", "player_names", "host_name", "max_players"}) @@
        [in_game |-> IfContains("in_game", FALSE)]]

RoomReads ==
    [Welcome |-> [player_name |-> At("player_name"), chips |-> IfContains("chips", 0),
                  is_new_account |-> IfContains("is_new_account", FALSE)],
     RoomInfo |-> AtAll({"room_id", "room_name", "current_players", "max_players"}) @@
        [in_game |-> IfContains("in_game", FALSE)],
     RoomList |-> AtAll({"rooms"}),
     JoinedRoom |-> AtAll({"room_id", "player_names", "host_name", "max_players"}) @@
        [in_game |-> IfContains("in_game", FALSE)]]

TableReads ==
    [PlayerState |-> AtAll({"name", "chips", "round_bet", "folded", "all_in"}) @@
        EachIfContains({"is_dealer", "is_small_blind", "is_big_blind"}, FALSE) @@
        [hole_cards |-> IfContains("hole_cards", <<>>)],
     GameStateUpdate |-> AtAll({"general_cards", "your_cards", "phase", "active_player_name", "total_pot"}) @@
        [current_bet |-> IfContains("current_bet", 0), players |-> IfContains("players", <<>>)],
     YourTurn |-> AtAll({"available_actions", "min_amount", "max_amount"}) @@
        EachIfContains({"to_call", "your_chips"}, 0),
     ActionEvent |-> AtAll({"player_name", "action"}) @@ [amount |-> IfNotNull("amount")]]

ResultReads ==
    [Error |-> AtAll({"code", "description"}),
     LeftRoom |-> [room_id |-> At("room_id"), your_chips |-> IfContains("your_chips", 0),
                   has_your_chips |-> IfContains("has_your_chips", FALSE)],
     HandResult |-> AtAll({"winner_names", "pot_amount"}) @@
        [winner_hand_labels |-> IfContains("winner_hand_labels", <<>>)]]

Reads == ClientReads @@ RoomReads @@ TableReads @@ ResultReads
-----------------------------------------------------------------------------
(* The type of a message: as to_json writes it, and as from_json tells it. *)

ClientTag ==
    [Login |-> "login", CreateRoom |-> "create_room", JoinRoom |-> "join_room",
     LeaveRoom |-> "leave_room", ListRooms |-> "list_rooms", StartGame |-> "start_game",
     PlayerAction |-> "player_action"]

ClientOfTag ==
    [login |-> "Login", create_room |-> "CreateRoom", join_room |-> "JoinRoom",
     leave_room |-> "LeaveRoom", list_rooms |-> "ListRooms", start_game |-> "StartGame",
     player_action |-> "PlayerAction"]

ServerTag ==
    [Welcome |-> "welcome", RoomList |-> "room_list", JoinedRoom |-> "joined_room",
     GameStateUpdate |-> "game_state_update", YourTurn |-> "your_turn",
     Error |-> "error", LeftRoom |-> "left_room", HandResult |-> "hand_result",
     ActionEvent |-> "action_event"]

ServerOfTag ==
    [welcome |-> "Welcome", room_list |-> "RoomList", joined_room |-> "JoinedRoom",
     game_state_update |-> "GameStateUpdate", your_turn |-> "YourTurn",
     error |-> "Error", left_room |-> "LeftRoom", hand_result |-> "HandResult",
     action_event |-> "ActionEvent"]
-----------------------------------------------------------------------------
(* Single values. *)

\* NLOHMANN_JSON_SERIALIZE_ENUM: pairs in the order of the macro.
ActionNames ==
    <<<<"Fold", "fold">>, <<"Check", "check">>, <<"Call", "call">>, <<"Raise", "raise">>>>

GamePhaseNames ==
    <<<<"PreFlop", "preflop">>, <<"Flop", "flop">>, <<"Turn", "turn">>, <<"River", "river">>,
      <<"Showdown", "showdown">>>>

\* Both directions fall back to the first pair.
EnumPair(pairs, i, x) ==
    IF \E k \in DOMAIN pairs : pairs[k][i] = x
    THEN CHOOSE pair \in ToSet(pairs) : pair[i] = x
    ELSE pairs[1]

\* Card::to_string: a card is a pair of indices, of its rank and of its suit.
SUIT_SYMBOLS == <<"C", "D", "H", "S">>
RANK_SYMBOLS ==
    <<<<"2">>, <<"3">>, <<"4">>, <<"5">>, <<"6">>, <<"7">>, <<"8">>, <<"9">>, <<"1", "0">>,
      <<"J">>, <<"Q">>, <<"K">>, <<"A">>>>
CardText(card) == Append(RANK_SYMBOLS[card[1] + 1], SUIT_SYMBOLS[card[2] + 1])

\* mutant: a rank is one character.
CardOfOneChar(text) ==
    LET suits == {i \in DOMAIN SUIT_SYMBOLS : SUIT_SYMBOLS[i] = Last(text)}
        ranks == {i \in DOMAIN RANK_SYMBOLS : RANK_SYMBOLS[i] = <<text[1]>>}
    IN  IF Len(text) < 2 \/ suits = {} \/ ranks = {} THEN Invalid
        ELSE <<(CHOOSE r \in ranks : TRUE) - 1, (CHOOSE s \in suits : TRUE) - 1>>

\* from_json for Card: the last character is the suit, the others the rank.
CardOf(text) ==
    LET suits == {i \in DOMAIN SUIT_SYMBOLS : SUIT_SYMBOLS[i] = Last(text)}
        ranks == {i \in DOMAIN RANK_SYMBOLS : RANK_SYMBOLS[i] = Front(text)}
    IN  IF Len(text) < 2 \/ suits = {} \/ ranks = {} THEN Invalid
        ELSE <<(CHOOSE r \in ranks : TRUE) - 1, (CHOOSE s \in suits : TRUE) - 1>>

\* std::optional<uint32_t> is written as a number or as null.
EncodeValue(of, v) ==
    CASE of = "Card" -> CardText(v)
      [] of = "Action" -> EnumPair(ActionNames, 1, v)[2]
      [] of = "GamePhase" -> EnumPair(GamePhaseNames, 1, v)[2]
      [] of = "optional" -> IF v = nullopt THEN null ELSE v
      [] OTHER -> v

\* Numbers keep their width: max_players and current_players are bytes.
DecodeValue(of, j) ==
    CASE of = "Card" -> CardOf(j)
      [] of = "Action" -> EnumPair(ActionNames, 2, j)[1]
      [] of = "GamePhase" -> EnumPair(GamePhaseNames, 2, j)[1]
      [] of = "uint8" -> j % 256
      [] OTHER -> j
-----------------------------------------------------------------------------
(* Structures and messages. *)

Each(type, Op(_, _), v) ==
    IF type.list THEN [i \in DOMAIN v |-> Op(type.of, v[i])] ELSE Op(type.of, v)

\* to_json of structure s with the values of its members encoded by Enc; a peer
\* of an earlier version does not have the members unknown.
EncodeFields(s, unknown, Enc(_, _), v) ==
    [k \in {k \in DOMAIN Writes[s] : Writes[s][k] \notin unknown} |->
        Each(Members[s][Writes[s][k]], Enc, v[Writes[s][k]])]

\* from_json of structure s, with the values of its members decoded by Dec.
DecodeFields(s, Dec(_, _), j) ==
    LET Found(m) == /\ Reads[s][m].key \in DOMAIN j
                    /\ Reads[s][m].unless_null => j[Reads[s][m].key] # null
        Decoded == [m \in DOMAIN Members[s] |->
            IF Found(m) THEN Each(Members[s][m], Dec, j[Reads[s][m].key]) ELSE Reads[s][m].else]
        Bad(m) == \/ Decoded[m] = Invalid
                  \/ Members[s][m].list /\ \E i \in DOMAIN Decoded[m] : Decoded[m][i] = Invalid
    IN  IF \E m \in DOMAIN Members[s] : Bad(m) THEN Invalid ELSE Decoded

\* The values of members that are structures themselves.
EncodeInner(of, v, unknown) ==
    IF of \in DOMAIN Members THEN EncodeFields(of, unknown[of], EncodeValue, v) ELSE EncodeValue(of, v)

DecodeInner(of, j) ==
    IF of \in DOMAIN Members THEN DecodeFields(of, DecodeValue, j) ELSE DecodeValue(of, j)

\* A message is a pair of the name of its structure and its members; unknown
\* are the members that the sender's version does not have.
to_json(sender, msg, unknown) ==
    [type |-> (IF sender = "client" THEN ClientTag ELSE ServerTag)[msg[1]],
     data |-> EncodeFields(msg[1], unknown[msg[1]], LAMBDA of, x : EncodeInner(of, x, unknown), msg[2])]

from_json(sender, j) ==
    LET of_tag == IF sender = "client" THEN ClientOfTag ELSE ServerOfTag IN
    IF j.type \notin DOMAIN of_tag THEN Invalid
    ELSE LET data == DecodeFields(of_tag[j.type], DecodeInner, j.data)
         IN  IF data = Invalid THEN Invalid ELSE <<of_tag[j.type], data>>
=============================================================================
