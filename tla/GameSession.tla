----------------------------- MODULE GameSession -----------------------------
(***************************************************************************)
(* The betting engine of one table, server/src/game/game_session.cpp.      *)
(*                                                                         *)
(* The server runs every handler to completion on one thread, so between   *)
(* two client messages a session is idle.  Each private member function    *)
(* ends in a call of the next one (apply_action -> next_phase ->           *)
(* do_showdown -> award_all_pots -> try_start_new_hand -> start -> ...);   *)
(* `pc' names the function that runs next, one function is one action, and *)
(* a client message is taken only when pc = "idle".  A handler is thus a   *)
(* chain of actions nothing can interrupt.                                 *)
(*                                                                         *)
(* Seat indices are the code's, from 0.  The players of a hand, their      *)
(* chips and what they bet are kept exactly; cards are abstracted to the   *)
(* ranking of the hands that a showdown reveals.                           *)
(***************************************************************************)
EXTENDS SidePots, Integers, Sequences, SequencesExt, FiniteSetsExt

CONSTANTS
    Player,             \* the accounts that sit at the table
    SeatOrder,          \* players_ as Room::start_game builds it
    Bankroll,           \* balances a player can bring to the table
    SmallBlind,         \* poker::SMALL_BLIND
    BigBlind,           \* poker::BIG_BLIND
    UIntRange,          \* 2^32: unsigned subtraction wraps at it
    MaxRaise,           \* bound: the largest raise total a client names
    NoPlayer            \* nobody

ASSUME PlayerAssumption == IsFiniteSet(Player) /\ NoPlayer \notin Player
\* Room::try_start_game needs two players; a connection is in a room once.
ASSUME SeatAssumption ==
    /\ SeatOrder \in Seq(Player)
    /\ Len(SeatOrder) >= 2
    /\ \A i, j \in 1..Len(SeatOrder) : SeatOrder[i] = SeatOrder[j] => i = j
ASSUME BlindAssumption ==
    /\ SmallBlind \in Nat \ {0}
    /\ BigBlind \in Nat \ {0}
    /\ SmallBlind <= BigBlind
\* Room::load_player_bankrolls refuses to start with less than a big blind.
ASSUME BankrollAssumption == Bankroll \subseteq {n \in Nat : n >= BigBlind}
ASSUME BoundAssumption == UIntRange \in Nat /\ MaxRaise \in Nat

VARIABLES
    pc,                     \* the function that runs next, or "idle"
    after_award,            \* where award_all_pots returns to
    leaver,                 \* the player remove_player is removing
    players,                \* players_
    chips,                  \* chips_
    round_bets,             \* round_bets_
    total_contributed,      \* total_contributed_; a missing entry is 0
    folded_players,         \* folded_players_
    all_in_players,         \* all_in_players_
    players_acted,          \* players_acted_
    pot,                    \* pot_
    current_bet,            \* current_bet_
    last_raise_increment,   \* last_raise_increment_
    dealer_index,           \* dealer_index_
    current_player_index,   \* current_player_index_
    phase,                  \* phase_
    remaining,              \* compute_side_pots: chips in no pot yet
    eligible,               \* compute_side_pots: who can win the next pot
    strength,               \* how the hands rank, once they are compared
    db,                     \* users.chips of the database
    asked,                  \* history: who holds an unanswered YourTurn
    stake,                  \* history: the stacks when the pot was last empty
    game_over               \* history: try_start_new_hand has given up

table == <<players, chips, round_bets, total_contributed, pot>>
status == <<folded_players, all_in_players, players_acted>>
betting == <<current_bet, last_raise_increment>>
turn == <<dealer_index, current_player_index, phase>>
award == <<after_award, remaining, eligible, strength>>
history == <<asked, stake, game_over>>
vars == <<pc, leaver, table, status, betting, turn, award, db, history>>

Phase == {"PreFlop", "Flop", "Turn", "River", "Showdown"}
-----------------------------------------------------------------------------
(* Seats. *)

Seated == {players[i] : i \in DOMAIN players}
Count == Len(players)
PlayerAt(i) == players[i + 1]
After(i, k) == (i + k) % Count
Current == PlayerAt(current_player_index)

sb_index == IF Count = 2 THEN dealer_index ELSE After(dealer_index, 1)
bb_index == IF Count = 2 THEN After(dealer_index, 1) ELSE After(dealer_index, 2)
first_to_act_preflop == IF Count = 2 THEN dealer_index ELSE After(bb_index, 1)

\* The first seat from dealer + 1 on whose player can act, or the dealer.
first_to_act_postflop(can_act) ==
    After(dealer_index, Min({k \in 1..Count :
        k = Count \/ PlayerAt(After(dealer_index, k)) \in can_act}))

\* The next seat whose player can act, or the current seat again.
find_next_active_player(can_act) ==
    After(current_player_index, Min({k \in 1..Count :
        k = Count \/ PlayerAt(After(current_player_index, k)) \in can_act}))

Active == Seated \ folded_players
CanAct == Seated \ (folded_players \cup all_in_players)
WithChips == {p \in Seated : chips[p] > 0}

is_round_complete ==
    \/ Cardinality(Active) <= 1
    \/ \A p \in Active :
         /\ round_bets[p] >= current_bet \/ p \in all_in_players
         /\ p \in CanAct => p \in players_acted

\* a - b on uint32_t.
Minus(a, b) == IF a >= b THEN a - b ELSE UIntRange + a - b
-----------------------------------------------------------------------------
Init ==
    /\ pc = "start"
    /\ after_award = "try_start" /\ leaver = NoPlayer
    /\ players = SeatOrder
    /\ chips \in [Seated -> Bankroll]
    /\ round_bets = [p \in Seated |-> 0]
    /\ total_contributed = [p \in Player |-> 0]
    /\ folded_players = {} /\ all_in_players = {} /\ players_acted = {}
    /\ pot = 0 /\ current_bet = 0 /\ last_raise_increment = 0
    /\ dealer_index = 0 /\ current_player_index = 0 /\ phase = "PreFlop"
    /\ remaining = <<>> /\ eligible = {} /\ strength = <<>>
    /\ db = [p \in Player |-> IF p \in Seated THEN chips[p] ELSE 0]
    /\ asked = NoPlayer
    /\ stake = chips /\ game_over = FALSE
-----------------------------------------------------------------------------
(* Dealing a hand and moving through its streets. *)

\* contribute: what player p really puts in of `amount'.
Actual(p, amount) == MinOf(amount, chips[p])

\* mutant: what was asked for, not what was paid, is booked on the player.
contributeBooksRequest(p, amount) ==
    LET actual == Actual(p, amount) IN
    /\ chips' = [chips EXCEPT ![p] = @ - actual]
    /\ round_bets' = [round_bets EXCEPT ![p] = @ + actual]
    /\ total_contributed' = [total_contributed EXCEPT ![p] = @ + amount]
    /\ pot' = pot + actual
    /\ all_in_players' =
         IF chips[p] = actual THEN all_in_players \cup {p} ELSE all_in_players

contribute(p, amount) ==
    LET actual == Actual(p, amount) IN
    /\ chips' = [chips EXCEPT ![p] = @ - actual]
    /\ round_bets' = [round_bets EXCEPT ![p] = @ + actual]
    /\ total_contributed' = [total_contributed EXCEPT ![p] = @ + actual]
    /\ pot' = pot + actual
    /\ all_in_players' =
         IF chips[p] = actual THEN all_in_players \cup {p} ELSE all_in_players

\* persist_all_chips: the balance of everyone at the table goes to the database.
PersistAll(stacks) == [p \in Player |-> IF p \in Seated THEN stacks[p] ELSE db[p]]

\* post_blinds and the per-hand reset of start.  The two blinds are different
\* players, so the two calls of contribute are one simultaneous assignment.
Blind == [p \in Seated |->
    CASE p = PlayerAt(sb_index) -> Actual(p, SmallBlind)
      [] p = PlayerAt(bb_index) -> Actual(p, BigBlind)
      [] OTHER -> 0]

\* mutant: who has folded is not forgotten when a new hand is dealt.
StartKeepsFolded ==
    /\ pc = "start"
    /\ chips' = [p \in Seated |-> chips[p] - Blind[p]]
    /\ round_bets' = Blind
    /\ total_contributed' = [p \in Player |-> IF p \in Seated THEN Blind[p] ELSE 0]
    /\ pot' = Blind[PlayerAt(sb_index)] + Blind[PlayerAt(bb_index)]
    /\ all_in_players' =
         {p \in {PlayerAt(sb_index), PlayerAt(bb_index)} : chips[p] = Blind[p]}
    /\ players_acted' = {}
    /\ current_bet' = Blind[PlayerAt(bb_index)]
    /\ last_raise_increment' = BigBlind
    /\ current_player_index' = first_to_act_preflop
    /\ phase' = "PreFlop"
    /\ db' = PersistAll(chips')
    /\ stake' = chips /\ game_over' = FALSE
    /\ asked' = NoPlayer
    /\ pc' = "ask"
    /\ UNCHANGED <<folded_players, players, dealer_index, leaver, award>>

Start ==
    /\ pc = "start"
    /\ chips' = [p \in Seated |-> chips[p] - Blind[p]]
    /\ round_bets' = Blind
    /\ total_contributed' = [p \in Player |-> IF p \in Seated THEN Blind[p] ELSE 0]
    /\ pot' = Blind[PlayerAt(sb_index)] + Blind[PlayerAt(bb_index)]
    /\ all_in_players' =
         {p \in {PlayerAt(sb_index), PlayerAt(bb_index)} : chips[p] = Blind[p]}
    /\ folded_players' = {} /\ players_acted' = {}
    /\ current_bet' = Blind[PlayerAt(bb_index)]
    /\ last_raise_increment' = BigBlind
    /\ current_player_index' = first_to_act_preflop
    /\ phase' = "PreFlop"
    /\ db' = PersistAll(chips')
    /\ stake' = chips /\ game_over' = FALSE
    /\ asked' = NoPlayer
    /\ pc' = "ask"
    /\ UNCHANGED <<players, dealer_index, leaver, award>>

\* mutant: an all-in player is asked to act.
AskCurrentPlayerAllIn ==
    /\ pc = "ask"
    /\ \/ /\ Current \in Active
          /\ asked' = Current
          /\ pc' = "idle"
          /\ UNCHANGED current_player_index
       \/ /\ Current \notin Active
          /\ current_player_index' = find_next_active_player(CanAct)
          /\ pc' = IF is_round_complete THEN "next_phase" ELSE "ask"
          /\ UNCHANGED asked
    /\ UNCHANGED <<leaver, table, status, betting, dealer_index, phase, award, db, stake, game_over>>

\* ask_current_player: prompt the current player, or pass on the turn.
AskCurrentPlayer ==
    /\ pc = "ask"
    /\ \/ /\ Current \in CanAct
          /\ asked' = Current
          /\ pc' = "idle"
          /\ UNCHANGED current_player_index
       \/ /\ Current \notin CanAct
          /\ current_player_index' = find_next_active_player(CanAct)
          /\ pc' = IF is_round_complete THEN "next_phase" ELSE "ask"
          /\ UNCHANGED asked
    /\ UNCHANGED <<leaver, table, status, betting, dealer_index, phase, award, db, stake, game_over>>

NextStreet == [PreFlop |-> "Flop", Flop |-> "Turn", Turn |-> "River"]

\* mutant: the bets of the last street are not cleared.
NextPhaseKeepsBets ==
    /\ pc = "next_phase"
    /\ \/ /\ Cardinality(Active) = 1
          /\ pc' = "award" /\ after_award' = "try_start"
          /\ UNCHANGED <<round_bets, betting, players_acted, current_player_index, phase>>
       \/ /\ Cardinality(Active) # 1
          /\ current_bet' = 0
          /\ last_raise_increment' = BigBlind
          /\ UNCHANGED round_bets
          /\ \/ /\ phase \in DOMAIN NextStreet
                /\ phase' = NextStreet[phase]
                /\ current_player_index' = first_to_act_postflop(CanAct)
                /\ players_acted' = {}
                /\ pc' = "ask"
             \/ /\ phase \notin DOMAIN NextStreet
                /\ pc' = IF phase = "River" THEN "showdown" ELSE "idle"
                /\ UNCHANGED <<phase, current_player_index, players_acted>>
          /\ UNCHANGED after_award
    /\ UNCHANGED <<leaver, players, chips, total_contributed, pot, folded_players,
                   all_in_players, dealer_index, remaining, eligible, strength,
                   db, history>>

NextPhase ==
    /\ pc = "next_phase"
    /\ \/ /\ Cardinality(Active) = 1
          /\ pc' = "award" /\ after_award' = "try_start"
          /\ UNCHANGED <<round_bets, betting, players_acted, current_player_index, phase>>
       \/ /\ Cardinality(Active) # 1
          /\ current_bet' = 0
          /\ last_raise_increment' = BigBlind
          /\ round_bets' = [p \in Seated |-> 0]
          /\ \/ /\ phase \in DOMAIN NextStreet
                /\ phase' = NextStreet[phase]
                /\ current_player_index' = first_to_act_postflop(CanAct)
                /\ players_acted' = {}
                /\ pc' = "ask"
             \/ /\ phase \notin DOMAIN NextStreet
                /\ pc' = IF phase = "River" THEN "showdown" ELSE "idle"
                /\ UNCHANGED <<phase, current_player_index, players_acted>>
          /\ UNCHANGED after_award
    /\ UNCHANGED <<leaver, players, chips, total_contributed, pot, folded_players,
                   all_in_players, dealer_index, remaining, eligible, strength,
                   db, history>>

\* do_showdown: with nobody left in the hand there is nothing to award.
DoShowdown ==
    /\ pc = "showdown"
    /\ phase' = "Showdown"
    /\ pc' = IF Active = {} THEN "try_start" ELSE "award"
    /\ after_award' = "try_start"
    /\ UNCHANGED <<leaver, table, status, betting, dealer_index, current_player_index,
                   remaining, eligible, strength, db, history>>
-----------------------------------------------------------------------------
(* Paying the pots: award_all_pots. *)

\* mutant: players who folded compete for the pots.
AwardBeginFoldedCompete ==
    /\ pc = "award"
    /\ \/ /\ pot = 0
          /\ pc' = after_award
          /\ UNCHANGED <<remaining, eligible, strength>>
       \/ /\ pot # 0
          /\ remaining' = [p \in Seated |-> total_contributed[p]]
          /\ eligible' = Seated
          /\ strength' \in [Seated -> 1..Count]
          /\ pc' = "pay_pot"
    /\ UNCHANGED <<after_award, leaver, table, status, betting, turn, db, history>>

\* compute_side_pots is called once, before the first payment; its loop and
\* the loop over its result touch different data, so one turn of the one is
\* taken together with one turn of the other.
AwardBegin ==
    /\ pc = "award"
    /\ \/ /\ pot = 0
          /\ pc' = after_award
          /\ UNCHANGED <<remaining, eligible, strength>>
       \/ /\ pot # 0
          /\ remaining' = [p \in Seated |-> total_contributed[p]]
          /\ eligible' = Active
          /\ strength' \in [Active -> 1..Cardinality(Active)]
          /\ pc' = "pay_pot"
    /\ UNCHANGED <<after_award, leaver, table, status, betting, turn, db, history>>

\* find_winners_among: the best hands of the contenders.
Winners == {p \in eligible : \A q \in eligible : strength[q] <= strength[p]}

\* winners.front(): the winner in the lowest seat takes the odd chips.
FirstWinner ==
    PlayerAt(Min({i \in 0..(Count - 1) : PlayerAt(i) \in Winners}))

\* mutant: every winner of a split pot gets the odd chips.
PrizeRoundsUp(p, amount) ==
    IF p \notin Winners THEN 0
    ELSE (amount \div Cardinality(Winners)) + (amount % Cardinality(Winners))

Prize(p, amount) ==
    IF p \notin Winners THEN 0
    ELSE amount \div Cardinality(Winners)
         + (IF p = FirstWinner THEN amount % Cardinality(Winners) ELSE 0)

PayPot ==
    /\ pc = "pay_pot"
    /\ \E m \in {remaining[p] : p \in Unpaid(remaining, eligible)} :
         /\ IsMinBet(remaining, eligible, m)
         /\ chips' = [p \in Seated |-> chips[p] + Prize(p, PotAmount(remaining, m))]
         /\ remaining' = TakeLayer(remaining, m)
    /\ eligible' = StillEligible(remaining', eligible)
    /\ UNCHANGED <<pc, leaver, players, round_bets, total_contributed, pot, status,
                   betting, turn, after_award, strength, db, history>>

\* mutant: the pot is not emptied after the award.
AwardEndKeepsPot ==
    /\ pc = "pay_pot"
    /\ Unpaid(remaining, eligible) = {}
    /\ db' = IF \E p \in Seated : remaining[p] # total_contributed[p]
             THEN PersistAll(chips) ELSE db
    /\ total_contributed' = [p \in Player |-> 0]
    /\ remaining' = <<>> /\ eligible' = {} /\ strength' = <<>>
    /\ asked' = NoPlayer
    /\ stake' = chips
    /\ pc' = after_award
    /\ UNCHANGED <<leaver, players, chips, round_bets, pot, status, betting, turn,
                   after_award, game_over>>

\* After the last pot: balances are saved if a pot was paid, the pot is empty.
AwardEnd ==
    /\ pc = "pay_pot"
    /\ Unpaid(remaining, eligible) = {}
    /\ db' = IF \E p \in Seated : remaining[p] # total_contributed[p]
             THEN PersistAll(chips) ELSE db
    /\ pot' = 0
    /\ total_contributed' = [p \in Player |-> 0]
    /\ remaining' = <<>> /\ eligible' = {} /\ strength' = <<>>
    /\ asked' = NoPlayer
    /\ stake' = chips
    /\ pc' = after_award
    /\ UNCHANGED <<leaver, players, chips, round_bets, status, betting, turn,
                   after_award, game_over>>

\* try_start_new_hand and start_new_hand.
TryStartNewHand ==
    /\ pc = "try_start"
    /\ \/ /\ Cardinality(WithChips) >= 2
          /\ dealer_index' = After(dealer_index, 1)
          /\ pc' = "start"
          /\ UNCHANGED game_over
       \/ /\ Cardinality(WithChips) < 2
          /\ pc' = "idle"
          /\ game_over' = TRUE
          /\ UNCHANGED dealer_index
    /\ UNCHANGED <<leaver, table, status, betting, current_player_index, phase, award,
                   db, asked, stake>>
-----------------------------------------------------------------------------
(* Client messages. *)

\* mutant: only raises are recorded, so a round of checks never completes.
RecordOnlyRaises(p, action) ==
    /\ players_acted' = IF action = "Raise" THEN {p} ELSE players_acted
    /\ asked' = NoPlayer
    /\ IF Cardinality(Active') = 1
       THEN /\ pc' = "award"
            /\ after_award' = "try_start"
            /\ UNCHANGED current_player_index
       ELSE /\ current_player_index' = find_next_active_player(CanAct')
            /\ pc' = IF is_round_complete' THEN "next_phase" ELSE "ask"
            /\ UNCHANGED after_award

\* The tail of apply_action: the next function once the action is recorded.
RecordAndAdvance(p, action) ==
    /\ players_acted' = IF action = "Raise" THEN {p} ELSE players_acted \cup {p}
    /\ asked' = NoPlayer
    /\ IF Cardinality(Active') = 1
       THEN /\ pc' = "award"
            /\ after_award' = "try_start"
            /\ UNCHANGED current_player_index
       ELSE /\ current_player_index' = find_next_active_player(CanAct')
            /\ pc' = IF is_round_complete' THEN "next_phase" ELSE "ask"
            /\ UNCHANGED after_award

Turn(p) == pc = "idle" /\ p \in Seated /\ p = Current

Fold(p) ==
    /\ Turn(p)
    /\ folded_players' = folded_players \cup {p}
    /\ UNCHANGED <<table, all_in_players, betting>>
    /\ RecordAndAdvance(p, "Fold")
    /\ UNCHANGED <<leaver, dealer_index, phase, remaining, eligible, strength, db, stake, game_over>>

Check(p) ==
    /\ Turn(p)
    /\ current_bet = round_bets[p]
    /\ UNCHANGED <<table, folded_players, all_in_players, betting>>
    /\ RecordAndAdvance(p, "Check")
    /\ UNCHANGED <<leaver, dealer_index, phase, remaining, eligible, strength, db, stake, game_over>>

\* mutant: a call forgets what the player has already bet in this round.
ToCallForgetsBet(p) == current_bet

\* The amount a call asks for; the subtraction is unsigned.
ToCall(p) == Minus(current_bet, round_bets[p])

Call(p) ==
    /\ Turn(p)
    /\ \/ ToCall(p) > 0 /\ contribute(p, ToCall(p))
       \/ ToCall(p) = 0 /\ UNCHANGED <<chips, round_bets, total_contributed, pot,
                                        all_in_players>>
    /\ UNCHANGED <<players, folded_players, betting>>
    /\ RecordAndAdvance(p, "Call")
    /\ UNCHANGED <<leaver, dealer_index, phase, remaining, eligible, strength, db, stake, game_over>>

\* The checks of a raise to `amount'.
ValidRaise(p, amount) ==
    /\ amount > current_bet
    /\ amount > round_bets[p]
    /\ \/ amount >= current_bet + last_raise_increment
       \/ amount >= round_bets[p] + chips[p]
    /\ amount - round_bets[p] <= chips[p]

Raise(p, amount) ==
    /\ Turn(p)
    /\ ValidRaise(p, amount)
    /\ contribute(p, amount - round_bets[p])
    /\ current_bet' = amount
    /\ last_raise_increment' = amount - current_bet
    /\ UNCHANGED <<players, folded_players>>
    /\ RecordAndAdvance(p, "Raise")
    /\ UNCHANGED <<leaver, dealer_index, phase, remaining, eligible, strength, db, stake, game_over>>

\* The amounts a client may name, up to the bound MaxRaise.  (Without it a
\* player left alone after the game is over could raise, win the pot back and
\* raise again for ever: award_all_pots does not reset round_bets_.)
RaiseAmounts == 0..MaxRaise

\* An action out of turn or against the rules is answered with an error and
\* changes nothing.
RejectAction(p, action, amount) ==
    /\ pc = "idle" /\ p \in Seated
    /\ CASE p # Current -> TRUE
         [] p = Current /\ action = "Check" -> current_bet # round_bets[p]
         [] p = Current /\ action = "Raise" -> ~ValidRaise(p, amount)
         [] OTHER -> FALSE
    /\ UNCHANGED vars
-----------------------------------------------------------------------------
(* A player leaves: remove_player, up to and from the award it may cause. *)

RemovePlayer(p) ==
    /\ pc = "idle" /\ p \in Seated
    /\ folded_players' = folded_players \cup {p}
    /\ leaver' = p
    /\ after_award' = "erase"
    /\ UNCHANGED <<table, all_in_players, players_acted, betting, turn, remaining,
                   eligible, strength, db, history>>
    /\ pc' = IF Cardinality(Active') = 1 THEN "award" ELSE "erase"

IndexOf(p) == CHOOSE i \in 0..(Count - 1) : PlayerAt(i) = p

\* mutant: an index past the last seat is not wrapped.
FixIndexNoWrap(i, removed_index) == IF removed_index < i THEN i - 1 ELSE i

\* fix_indices_after_removal, for an index that was i.
FixIndex(i, removed_index) ==
    IF i >= Count - 1 THEN 0
    ELSE IF removed_index < i THEN i - 1 ELSE i

\* The rest of remove_player.  When fewer than two players remain Room resets
\* its game_session_ (room.cpp:97-99): the session has ended.
ErasePlayer ==
    LET stay == Seated \ {leaver} IN
    /\ pc = "erase"
    /\ db' = [db EXCEPT ![leaver] = chips[leaver]]
    /\ players' = RemoveAt(players, IndexOf(leaver) + 1)
    /\ chips' = [p \in stay |-> chips[p]]
    /\ round_bets' = [p \in stay |-> round_bets[p]]
    /\ total_contributed' = [total_contributed EXCEPT ![leaver] = 0]
    /\ folded_players' = folded_players \ {leaver}
    /\ all_in_players' = all_in_players \ {leaver}
    /\ players_acted' = players_acted \ {leaver}
    /\ dealer_index' = FixIndex(dealer_index, IndexOf(leaver))
    /\ current_player_index' = FixIndex(current_player_index, IndexOf(leaver))
    /\ asked' = IF asked = leaver THEN NoPlayer ELSE asked
    /\ leaver' = NoPlayer
    /\ UNCHANGED <<pot, betting, phase, award, stake, game_over>>
    /\ pc' = IF Count' < 2 THEN "ended"
             ELSE IF Cardinality(Active') = 1 THEN "try_start"
             ELSE IF is_round_complete' THEN "next_phase"
             ELSE IF leaver = Current THEN "ask" ELSE "idle"
-----------------------------------------------------------------------------
Message ==
    \E p \in Player :
        \/ Fold(p)
        \/ Check(p)
        \/ Call(p)
        \/ \E amount \in RaiseAmounts : Raise(p, amount)
        \/ \E action \in {"Fold", "Check", "Call"} : RejectAction(p, action, 0)
        \/ \E amount \in RaiseAmounts : RejectAction(p, "Raise", amount)

Leave == \E p \in Player : RemovePlayer(p)

\* What the running handler does next.
Step ==
    \/ Start \/ AskCurrentPlayer \/ NextPhase \/ DoShowdown
    \/ AwardBegin \/ PayPot \/ AwardEnd \/ TryStartNewHand
    \/ ErasePlayer

Next == Message \/ Leave \/ Step

Spec == Init /\ [][Next]_vars

\* The player holding the prompt answers it.
Answer ==
    \E p \in Player :
        /\ p = asked
        /\ \/ Fold(p) \/ Check(p) \/ Call(p)
           \/ \E amount \in RaiseAmounts : Raise(p, amount)

FairSpec == Spec /\ WF_vars(Step) /\ WF_vars(Answer)
-----------------------------------------------------------------------------
(* Properties. *)

\* Every variable has its type: above all, the two seat indices that index
\* players_ without a check (game_session.cpp:197, 281, 496) stay in range
\* while players leave, and no unsigned stack or bet goes below zero.
TypeOK ==
    /\ pc \in {"start", "ask", "idle", "next_phase", "showdown", "award", "pay_pot",
               "try_start", "erase", "ended"}
    /\ after_award \in {"try_start", "erase"}
    /\ leaver \in Seated \cup {NoPlayer}
    /\ players \in Seq(Player)
    /\ chips \in [Seated -> Nat]
    /\ round_bets \in [Seated -> Nat]
    /\ total_contributed \in [Player -> Nat]
    /\ folded_players \subseteq Seated
    /\ all_in_players \subseteq Seated
    /\ players_acted \subseteq Seated
    /\ pot \in Nat /\ current_bet \in Nat /\ last_raise_increment \in Nat
    /\ dealer_index \in 0..(Count - 1)
    /\ current_player_index \in 0..(Count - 1)
    /\ phase \in Phase
    /\ db \in [Player -> Nat]
    /\ asked \in Seated \cup {NoPlayer}
    /\ game_over \in BOOLEAN

(* The parts of the inductive invariant that TypeOK and StackLedger need. *)

\* A player has one seat, and the handlers run only at a table of two or more.
SeatsSound ==
    /\ \A i, j \in DOMAIN players : players[i] = players[j] => i = j
    /\ Count >= 1
    /\ pc # "ended" => Count >= 2

\* While remove_player runs, the player it removes still has a seat.
LeaverSeated ==
    pc = "erase" \/ (pc \in {"award", "pay_pot"} /\ after_award = "erase") =>
        leaver \in Seated

\* While award_all_pots runs, only players who have not folded compete.
AwardSound ==
    pc = "pay_pot" => remaining \in [Seated -> Nat] /\ eligible \subseteq Active

\* Everyone at the table has a starting stack on record.
StakeSound == Seated \subseteq DOMAIN stake /\ \A p \in Seated : stake[p] \in Nat

\* Until the pots are paid, what a player has in front plus what the player
\* has put in is the stack the hand was started with: no sequence of blinds,
\* calls, raises, all-ins and departures loses or doubles a player's chips
\* (contribute, erase_player_state).  Paying the pots only adds to it.
StackLedger ==
    /\ pc # "pay_pot" => \A p \in Seated : chips[p] + total_contributed[p] = stake[p]
    /\ \A p \in Seated : chips[p] + total_contributed[p] >= stake[p]

\* The inductive invariant of the proofs.
IndInv == TypeOK /\ SeatsSound /\ LeaverSeated /\ AwardSound /\ StakeSound /\ StackLedger

\* Nobody who has folded receives chips, not even a player who is folded by
\* leaving in the middle of an award (award_all_pots, remove_player).
OnlyContendersGain ==
    \A p \in Seated \cap Seated' : chips'[p] > chips[p] => p \notin folded_players

FoldedNeverPaid == [][OnlyContendersGain]_vars

\* Nobody has left since the pot was last empty.
Undisturbed == leaver = NoPlayer /\ DOMAIN stake = Seated

\* pot_, which is displayed, and total_contributed_, from which the pots are
\* computed, are updated apart.  They agree as long as nobody leaves; after
\* erase_player_state drops a leaver's entry the pot holds the larger amount.
PotBacked ==
    /\ pot >= SumOver(total_contributed, Seated)
    /\ Undisturbed => pot = SumOver(total_contributed, Seated)

\* The part of the pot that award_all_pots has not handed out.
InPot == IF pc = "pay_pot"
         THEN pot - (SumOver(total_contributed, Seated) - SumOver(remaining, Seated))
         ELSE pot
\* All chips of the players: stacks, the pot, the saved balances of those who left.
Wealth == SumOver(chips, Seated) + InPot + SumOver(db, Player \ Seated)

\* Player p has put in more than anyone who can still win.
Uncalled(p) == \A q \in Active : total_contributed[p] > total_contributed[q]

\* No step creates a chip.  Chips disappear only when award_all_pots empties
\* pot_, and then only because someone left during the hand or folded a bet
\* that nobody called.
ChipsConserved ==
    [][/\ Wealth' <= Wealth
       /\ Wealth' < Wealth =>
            /\ pc = "pay_pot" /\ pot' = 0
            /\ DOMAIN stake # Seated \/ \E p \in folded_players : Uncalled(p)]_vars

\* When the server waits for a message in a hand nobody has left, it has
\* prompted the player whose action it will accept, and that player can act.
SomeoneIsAsked ==
    pc = "idle" /\ ~game_over /\ Undisturbed =>
        asked = Current /\ Current \in CanAct

\* The big blind could not even cover the small blind.  current_bet_ is then
\* less than the small blind's bet, and the small blind's call wraps around.
ShortBigBlind ==
    LET bb == PlayerAt(bb_index) IN
    bb \in all_in_players /\ total_contributed[bb] < SmallBlind

\* At a showdown every player with chips left has put in as much as anyone:
\* is_round_complete let no street end with a bet unanswered.
EqualStakesAtShowdown ==
    pc = "showdown" /\ Undisturbed /\ ~ShortBigBlind =>
        \A p, q \in Active : p \notin all_in_players => total_contributed[p] >= total_contributed[q]

\* When the server waits for an action in a hand nobody has left, the player
\* whose action it accepts never has more in than the bet to be called, so that
\* the unsigned current_bet_ - bet of ask_current_player and of a call does
\* not wrap around.
NeverBetAhead ==
    pc = "idle" /\ ~game_over /\ Undisturbed /\ ~ShortBigBlind =>
        round_bets[Current] <= current_bet

\* The betting engine does what a table promises: every chip that leaves a
\* stack is in the pot, the pot pays only players in the hand, a hand begins
\* only when the pot of the last one is gone and every winner's balance on disk
\* covers the stack, and a player who leaves in whatever state of the hand
\* takes home exactly the stack (the whole of game_session.cpp, seen through
\* chips_, folded_players_ and the database).
AsTable == INSTANCE Table WITH stack <- chips, pot <- InPot, out <- folded_players,
                               account <- db, over <- game_over,
                               left <- DOMAIN stake # Seated
IsTable == AsTable!Spec

\* "The session continues if at least two players remain" (README.md:147): if
\* every prompted player answers, the hand that is being played comes to its end,
\* the pot is paid out or the session is over.
HandIsResolved == asked # NoPlayer ~> (pot = 0 \/ pc = "ended")

\* If every prompted player answers, a hand comes to its end, unless somebody
\* leaves it: ask_current_player and next_phase, which call each other, pass over
\* players who have folded or are all-in and still find the one who is to act or
\* the end of the street, and no order of raises keeps a round open for ever.
HandEndsUnlessLeft ==
    asked # NoPlayer ~> (pot = 0 \/ pc = "ended" \/ DOMAIN stake # Seated)
=============================================================================
