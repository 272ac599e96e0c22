------------------------------- MODULE MCWire -------------------------------
EXTENDS Wire

Ace == <<12, 3>>
Ten == <<8, 0>>
Nobody == [x \in {} |-> 0]

SomePlayer(b, cards) ==
    [name |-> "ann", chips |-> 7, round_bet |-> 2, folded |-> ~b, all_in |-> b, is_dealer |-> b,
     is_small_blind |-> ~b, is_big_blind |-> b, hole_cards |-> cards]

FromClient ==
    {<<"Login", [username |-> "ann", password |-> "secret"]>>,
     <<"CreateRoom", [room_name |-> "r", max_players |-> 255]>>,
     <<"CreateRoom", [room_name |-> "r", max_players |-> 2]>>,
     <<"JoinRoom", [room_id |-> 1]>>,
     <<"LeaveRoom", Nobody>>, <<"ListRooms", Nobody>>, <<"StartGame", Nobody>>,
     <<"PlayerAction", [action |-> "Raise", amount |-> 0]>>,
     <<"PlayerAction", [action |-> "Raise", amount |-> 40]>>}
    \cup {<<"PlayerAction", [action |-> a, amount |-> nullopt]>> : a \in {"Fold", "Check", "Call"}}

FromServer ==
    {<<"Welcome", [player_name |-> "ann", chips |-> 1000, is_new_account |-> TRUE]>>,
     <<"RoomList", [rooms |-> <<>>]>>,
     <<"RoomList", [rooms |-> <<[room_id |-> 1, room_name |-> "r", current_players |-> 2,
                                 max_players |-> 255, in_game |-> TRUE]>>]>>,
     <<"JoinedRoom", [room_id |-> 1, player_names |-> <<"ann", "bob">>, host_name |-> "bob",
                      max_players |-> 6, in_game |-> TRUE]>>,
     <<"YourTurn", [available_actions |-> <<"Fold", "Call", "Raise">>, min_amount |-> 40,
                    max_amount |-> 90, to_call |-> 20, your_chips |-> 90]>>,
     <<"Error", [code |-> 7, description |-> "room is full"]>>,
     <<"LeftRoom", [room_id |-> 1, your_chips |-> 750, has_your_chips |-> TRUE]>>,
     <<"HandResult", [winner_names |-> <<"ann">>, pot_amount |-> 60,
                      winner_hand_labels |-> <<"Pair">>]>>,
     <<"ActionEvent", [player_name |-> "ann", action |-> "Raise", amount |-> 40]>>,
     <<"ActionEvent", [player_name |-> "ann", action |-> "Fold", amount |-> nullopt]>>}
    \cup {<<"GameStateUpdate", [general_cards |-> IF ph = "PreFlop" THEN <<>> ELSE <<Ten, <<0, 1>>, <<9, 2>>>>,
            your_cards |-> <<Ace, Ten>>, phase |-> ph, active_player_name |-> "ann",
            total_pot |-> 60, current_bet |-> 20,
            players |-> <<SomePlayer(TRUE, <<>>), SomePlayer(FALSE, <<Ten, Ace>>)>>]>> :
            ph \in {"PreFlop", "Flop", "Turn", "River", "Showdown"}}

MCMessages == [client |-> FromClient, server |-> FromServer]
=============================================================================
