------------------------- MODULE GameSessionProofs -------------------------
(***************************************************************************)
(* Proofs about the table of GameSession, for every set of players, every  *)
(* seating, bankroll, pair of blinds and raise bound.                      *)
(*                                                                         *)
(* One lemma per action shows that it keeps the inductive invariant IndInv; *)
(* NextInv puts them together.  The lemmas before InitInv are about the    *)
(* operators that actions share: searching a seat and erasing one.         *)
(*                                                                         *)
(* The second half is about whose turn it is, where the chips are, and     *)
(* that the table implements Table.  It adds to IndInv, one after the other: *)
(*                                                                         *)
(*   HandGoesOn    what the order of the handlers says about who is still  *)
(*                 in the hand, whose turn it is and which street it is;   *)
(*   StreetLevel   nobody is ahead of the bet, and nobody who can act is   *)
(*                 behind in the streets before;                           *)
(*   MoneyInv      the pot against the contributions, the pots that are    *)
(*                 paid against the rest, balances against stacks.         *)
(***************************************************************************)
EXTENDS GameSession, ChipSums

(* Going round the table from a seat ends at a seat, and a seat has a player. *)
LEMMA IndexTypes ==
  ASSUME players \in Seq(Player), Count >= 1, NEW i \in 0..(Count - 1), NEW k \in Nat
  PROVE  /\ After(i, k) \in 0..(Count - 1)
         /\ PlayerAt(i) \in Seated
         /\ Seated \subseteq Player
BY DEF After, Count, PlayerAt, Seated

(* Every function that picks a seat (the blinds, the first to act before and
   after the flop, the next to act) returns an index into players_. *)
LEMMA TurnTypes ==
  ASSUME players \in Seq(Player), Count >= 1, NEW C,
         dealer_index \in 0..(Count - 1), current_player_index \in 0..(Count - 1)
  PROVE  /\ find_next_active_player(C) \in 0..(Count - 1)
         /\ first_to_act_postflop(C) \in 0..(Count - 1)
         /\ first_to_act_preflop \in 0..(Count - 1)
         /\ sb_index \in 0..(Count - 1)
         /\ bb_index \in 0..(Count - 1)
<1>0. Count \in Nat
  BY DEF Count
<1>1. ASSUME NEW i \in 0..(Count - 1)
      PROVE  Min({k \in 1..Count : k = Count \/ PlayerAt(After(i, k)) \in C}) \in Nat
  <2> DEFINE K == {k \in 1..Count : k = Count \/ PlayerAt(After(i, k)) \in C}
  <2>1. K \in SUBSET Nat /\ Count \in K
    BY <1>0
  <2>2. QED BY <2>1, MinInSet
<1>2. find_next_active_player(C) \in 0..(Count - 1)
  BY <1>1, IndexTypes DEF find_next_active_player
<1>3. first_to_act_postflop(C) \in 0..(Count - 1)
  BY <1>1, IndexTypes DEF first_to_act_postflop
<1>4. sb_index \in 0..(Count - 1) /\ bb_index \in 0..(Count - 1)
  BY IndexTypes DEF sb_index, bb_index
<1>5. first_to_act_preflop \in 0..(Count - 1)
  BY <1>4, IndexTypes DEF first_to_act_preflop
<1>6. QED BY <1>2, <1>3, <1>4, <1>5

(* As long as players_ is not touched nobody gains or loses a seat. *)
LEMMA SeatedUnchanged ==
  ASSUME UNCHANGED players
  PROVE  Seated' = Seated /\ Count' = Count
BY DEF Seated, Count

(* A session that Room::start_game has just built satisfies the invariant. *)
LEMMA InitInv == Init => IndInv
<1> SUFFICES ASSUME Init PROVE IndInv
  OBVIOUS
<1>1. players \in Seq(Player) /\ Count >= 2 /\ Count \in Nat
  BY SeatAssumption DEF Init, Count
<1>2. Seated \subseteq Player
  BY <1>1 DEF Seated, Count
<1>3. chips \in [Seated -> Nat]
  BY BankrollAssumption DEF Init
<1>4. TypeOK
  <2>1. db \in [Player -> Nat]
    BY <1>3 DEF Init
  <2>2. 0 \in 0..(Count - 1)
    BY <1>1
  <2>3. /\ round_bets \in [Seated -> Nat]
        /\ total_contributed \in [Player -> Nat]
    BY DEF Init
  <2>4. QED BY <1>1, <1>3, <2>1, <2>2, <2>3 DEF Init, TypeOK, Phase
<1>5. SeatsSound /\ LeaverSeated /\ AwardSound
  BY <1>1, SeatAssumption DEF Init, SeatsSound, LeaverSeated, AwardSound, Count
<1>6. StakeSound /\ StackLedger
  BY <1>2, <1>3 DEF Init, StakeSound, StackLedger
<1>7. QED BY <1>4, <1>5, <1>6 DEF IndInv

(* Dealing a hand: a blind is never more than the stack it is taken from, and
   what leaves a stack is booked as contributed. *)
LEMMA StartInv == IndInv /\ Start => IndInv'
<1> SUFFICES ASSUME IndInv, Start PROVE IndInv'
  OBVIOUS
<1> USE DEF IndInv
<1>1. Seated' = Seated /\ Count' = Count /\ players \in Seq(Player) /\ Count \in Nat /\ Count >= 1
  BY SeatedUnchanged DEF Start, Count, TypeOK, SeatsSound
<1>2. /\ PlayerAt(sb_index) \in Seated /\ PlayerAt(bb_index) \in Seated
      /\ first_to_act_preflop \in 0..(Count - 1)
      /\ Seated \subseteq Player
  <2>1. dealer_index \in 0..(Count - 1) /\ current_player_index \in 0..(Count - 1)
    BY DEF TypeOK
  <2>2. /\ sb_index \in 0..(Count - 1) /\ bb_index \in 0..(Count - 1)
        /\ first_to_act_preflop \in 0..(Count - 1)
    BY <1>1, <2>1, TurnTypes
  <2>3. QED BY <1>1, <2>2, IndexTypes
<1>3. ASSUME NEW p \in Seated
      PROVE  Blind[p] \in Nat /\ Blind[p] <= chips[p] /\ chips[p] \in Nat
  <2>1. chips[p] \in Nat
    BY DEF TypeOK
  <2>2. QED BY <2>1, BlindAssumption DEF Blind, Actual, MinOf
<1>4. Blind \in [Seated -> Nat]
  BY <1>3 DEF Blind
<1>5. chips' \in [Seated -> Nat]
  BY <1>3 DEF Start
<1>6. /\ round_bets' \in [Seated -> Nat]
      /\ total_contributed' \in [Player -> Nat]
      /\ pot' \in Nat /\ current_bet' \in Nat
  BY <1>2, <1>4 DEF Start
<1>7. db' \in [Player -> Nat]
  BY <1>1, <1>5 DEF Start, PersistAll, TypeOK
<1>8. TypeOK'
  BY <1>1, <1>2, <1>5, <1>6, <1>7, BlindAssumption DEF Start, TypeOK, award, Phase
<1>9. SeatsSound' /\ LeaverSeated' /\ AwardSound'
  BY <1>1 DEF Start, SeatsSound, LeaverSeated, AwardSound
<1>10. StakeSound' /\ StackLedger'
  <2>1. stake' = chips /\ DOMAIN chips = Seated
    BY DEF Start, TypeOK
  <2>2. \A p \in Seated : chips'[p] + total_contributed'[p] = stake'[p]
    BY <1>2, <1>3, <2>1 DEF Start
  <2>3. QED BY <1>1, <1>3, <2>1, <2>2 DEF Start, StakeSound, StackLedger
<1>11. QED BY <1>8, <1>9, <1>10

(* Prompting a player, or passing on the turn, only moves the turn. *)
LEMMA AskInv == IndInv /\ AskCurrentPlayer => IndInv'
<1> SUFFICES ASSUME IndInv, AskCurrentPlayer PROVE IndInv'
  OBVIOUS
<1> USE DEF IndInv
<1>1. Seated' = Seated /\ Count' = Count /\ players \in Seq(Player) /\ Count \in Nat /\ Count >= 1
  BY SeatedUnchanged DEF AskCurrentPlayer, Count, TypeOK, SeatsSound, table
<1>2. current_player_index' \in 0..(Count - 1) /\ asked' \in Seated \cup {NoPlayer}
  <2>1. dealer_index \in 0..(Count - 1) /\ current_player_index \in 0..(Count - 1)
    BY DEF TypeOK
  <2>2. find_next_active_player(CanAct) \in 0..(Count - 1)
    BY <1>1, <2>1, TurnTypes
  <2>3. QED BY <2>1, <2>2 DEF AskCurrentPlayer, TypeOK, CanAct
<1>3. TypeOK'
  BY <1>1, <1>2 DEF AskCurrentPlayer, TypeOK, table, status, betting, award
<1>4. SeatsSound' /\ LeaverSeated' /\ AwardSound' /\ StakeSound' /\ StackLedger'
  BY <1>1 DEF AskCurrentPlayer, table, SeatsSound, LeaverSeated, AwardSound, StakeSound, StackLedger
<1>5. QED BY <1>3, <1>4

(* A new street clears the bets of the round and leaves stacks and
   contributions alone. *)
LEMMA NextPhaseInv == IndInv /\ NextPhase => IndInv'
<1> SUFFICES ASSUME IndInv, NextPhase PROVE IndInv'
  OBVIOUS
<1> USE DEF IndInv
<1>1. Seated' = Seated /\ Count' = Count /\ players \in Seq(Player) /\ Count \in Nat /\ Count >= 1
  BY SeatedUnchanged DEF NextPhase, Count, TypeOK, SeatsSound
<1>2. current_player_index' \in 0..(Count - 1) /\ phase' \in Phase
  <2>1. /\ dealer_index \in 0..(Count - 1) /\ current_player_index \in 0..(Count - 1)
        /\ phase \in Phase
    BY DEF TypeOK
  <2>2. first_to_act_postflop(CanAct) \in 0..(Count - 1)
    BY <1>1, <2>1, TurnTypes
  <2>3. \A s \in DOMAIN NextStreet : NextStreet[s] \in Phase
    BY DEF NextStreet, Phase
  <2>4. QED BY <2>1, <2>2, <2>3 DEF NextPhase
<1>3. /\ round_bets' \in [Seated -> Nat] /\ players_acted' \subseteq Seated
      /\ current_bet' \in Nat /\ last_raise_increment' \in Nat
  BY BlindAssumption DEF NextPhase, TypeOK, betting
<1>4. TypeOK'
  BY <1>1, <1>2, <1>3 DEF NextPhase, TypeOK, history
<1>5. SeatsSound' /\ LeaverSeated' /\ AwardSound' /\ StakeSound' /\ StackLedger'
  BY <1>1 DEF NextPhase, history, SeatsSound, LeaverSeated, AwardSound, StakeSound, StackLedger
<1>6. QED BY <1>4, <1>5

(* do_showdown itself moves no chips. *)
LEMMA DoShowdownInv == IndInv /\ DoShowdown => IndInv'
<1> SUFFICES ASSUME IndInv, DoShowdown PROVE IndInv'
  OBVIOUS
<1> USE DEF IndInv
<1>1. Seated' = Seated /\ Count' = Count
  BY SeatedUnchanged DEF DoShowdown, table
<1>2. TypeOK'
  BY <1>1 DEF DoShowdown, TypeOK, table, status, betting, history, Phase
<1>3. SeatsSound' /\ LeaverSeated' /\ AwardSound' /\ StakeSound' /\ StackLedger'
  BY <1>1 DEF DoShowdown, table, history, SeatsSound, LeaverSeated, AwardSound, StakeSound, StackLedger
<1>4. QED BY <1>2, <1>3

(* compute_side_pots starts from what everyone contributed, with the players
   who have not folded as contenders. *)
LEMMA AwardBeginInv == IndInv /\ AwardBegin => IndInv'
<1> SUFFICES ASSUME IndInv, AwardBegin PROVE IndInv'
  OBVIOUS
<1> USE DEF IndInv
<1>1. Seated' = Seated /\ Count' = Count /\ Active' = Active
  BY SeatedUnchanged DEF AwardBegin, table, status, Active
<1>2. Seated \subseteq Player
  BY DEF Seated, TypeOK
<1>3. TypeOK'
  BY <1>1 DEF AwardBegin, TypeOK, table, status, betting, turn, history
<1>4. AwardSound'
  BY <1>1, <1>2 DEF AwardBegin, TypeOK, AwardSound
<1>5. SeatsSound' /\ LeaverSeated' /\ StakeSound' /\ StackLedger'
  BY <1>1 DEF AwardBegin, TypeOK, table, history, SeatsSound, LeaverSeated, StakeSound, StackLedger
<1>6. QED BY <1>3, <1>4, <1>5

(* What one pot pays a player is a number of chips, and nothing to a player
   who is not among the eligible. *)
LEMMA PrizeType ==
  ASSUME NEW p, NEW amount \in Nat, IsFiniteSet(eligible)
  PROVE  Prize(p, amount) \in Nat /\ (p \notin eligible => Prize(p, amount) = 0)
<1>1. CASE p \notin Winners
  BY <1>1 DEF Prize
<1>2. CASE p \in Winners
  <2>1. IsFiniteSet(Winners)
    BY FS_Subset DEF Winners
  <2>2. Cardinality(Winners) \in Nat \ {0}
    BY <1>2, <2>1, FS_CardinalityType, FS_EmptySet
  <2>3. /\ amount \div Cardinality(Winners) \in Nat
        /\ amount % Cardinality(Winners) \in Nat
    BY <2>2
  <2>4. p \in eligible
    BY <1>2 DEF Winners
  <2>5. QED BY <1>2, <2>3, <2>4 DEF Prize
<1>3. QED BY <1>1, <1>2

(* Paying a pot adds to stacks only, never to the stack of a player who folded,
   and leaves fewer contenders. *)
LEMMA PayPotStep ==
  ASSUME IndInv, PayPot
  PROVE  /\ \A p \in Seated :
              /\ chips[p] \in Nat /\ chips'[p] \in Nat /\ chips'[p] >= chips[p]
              /\ p \in folded_players => chips'[p] = chips[p]
         /\ chips' \in [Seated -> Nat]
         /\ remaining' \in [Seated -> Nat]
         /\ eligible' \subseteq eligible
<1> USE DEF IndInv
<1>1. /\ remaining \in [Seated -> Nat] /\ eligible \subseteq Active
      /\ Seated \subseteq Player /\ chips \in [Seated -> Nat]
  BY DEF PayPot, AwardSound, TypeOK, Seated
<1>2. IsFiniteSet(Seated) /\ IsFiniteSet(eligible)
  BY <1>1, PlayerAssumption, FS_Subset DEF Active
<1>3. PICK m \in {remaining[p] : p \in Unpaid(remaining, eligible)} :
        /\ chips' = [p \in Seated |-> chips[p] + Prize(p, PotAmount(remaining, m))]
        /\ remaining' = TakeLayer(remaining, m)
  BY DEF PayPot
<1>4. m \in Nat
  BY <1>1 DEF Unpaid, Active
<1>5. PotAmount(remaining, m) \in Nat
  <2>1. \A p \in Seated : Layer(remaining, m)[p] \in Nat
    BY <1>1, <1>4 DEF Layer, MinOf
  <2>2. QED BY <1>1, <1>2, <2>1, SumOverType DEF PotAmount
<1>6. \A p : /\ Prize(p, PotAmount(remaining, m)) \in Nat
             /\ p \notin eligible => Prize(p, PotAmount(remaining, m)) = 0
  BY <1>2, <1>5, PrizeType
<1>7. \A p \in Seated :
         /\ chips[p] \in Nat /\ chips'[p] \in Nat /\ chips'[p] >= chips[p]
         /\ p \in folded_players => chips'[p] = chips[p]
  BY <1>1, <1>3, <1>6 DEF Active
<1>8. chips' \in [Seated -> Nat]
  BY <1>3, <1>7
<1>9. remaining' \in [Seated -> Nat]
  BY <1>1, <1>3, <1>4 DEF TakeLayer, MinOf
<1>10. eligible' \subseteq eligible
  BY DEF PayPot, StillEligible
<1>11. QED BY <1>7, <1>8, <1>9, <1>10

(* Paying one pot keeps the invariant: stacks only grow. *)
LEMMA PayPotInv == IndInv /\ PayPot => IndInv'
<1> SUFFICES ASSUME IndInv, PayPot PROVE IndInv'
  OBVIOUS
<1> USE DEF IndInv
<1>1. Seated' = Seated /\ Count' = Count /\ Active' = Active
  BY SeatedUnchanged DEF PayPot, status, Active
<1>2. TypeOK'
  BY <1>1, PayPotStep DEF PayPot, TypeOK, status, betting, turn, history
<1>3. AwardSound'
  BY <1>1, PayPotStep DEF PayPot, AwardSound
<1>4. SeatsSound' /\ LeaverSeated' /\ StakeSound'
  BY <1>1 DEF PayPot, history, SeatsSound, LeaverSeated, StakeSound
<1>5. StackLedger'
  <2>1. ASSUME NEW p \in Seated
        PROVE  chips'[p] + total_contributed'[p] >= stake'[p]
    <3>1. /\ chips[p] + total_contributed[p] >= stake[p]
          /\ total_contributed[p] \in Nat /\ stake[p] \in Nat
      BY DEF StackLedger, StakeSound, TypeOK, Seated
    <3>2. chips[p] \in Nat /\ chips'[p] \in Nat /\ chips'[p] >= chips[p]
      BY PayPotStep
    <3>3. QED BY <3>1, <3>2 DEF PayPot, history
  <2>2. QED BY <1>1, <2>1 DEF PayPot, StackLedger
<1>6. QED BY <1>2, <1>3, <1>4, <1>5

(* After the last pot the contributions are cleared and the stacks become the
   starting stacks of whatever comes next. *)
LEMMA AwardEndInv == IndInv /\ AwardEnd => IndInv'
<1> SUFFICES ASSUME IndInv, AwardEnd PROVE IndInv'
  OBVIOUS
<1> USE DEF IndInv
<1>1. Seated' = Seated /\ Count' = Count
  BY SeatedUnchanged DEF AwardEnd
<1>2. db' \in [Player -> Nat]
  BY DEF AwardEnd, PersistAll, TypeOK
<1>3. TypeOK'
  BY <1>1, <1>2 DEF AwardEnd, TypeOK, status, betting, turn
<1>4. SeatsSound' /\ LeaverSeated' /\ AwardSound' /\ StakeSound'
  BY <1>1 DEF AwardEnd, TypeOK, SeatsSound, LeaverSeated, AwardSound, StakeSound
<1>5. StackLedger'
  <2>1. \A p \in Seated : chips[p] \in Nat /\ total_contributed'[p] = 0
    BY DEF AwardEnd, TypeOK, Seated
  <2>2. QED BY <1>1, <2>1 DEF AwardEnd, StackLedger
<1>6. QED BY <1>3, <1>4, <1>5

(* Moving the dealer button, or giving up, keeps the invariant. *)
LEMMA TryStartInv == IndInv /\ TryStartNewHand => IndInv'
<1> SUFFICES ASSUME IndInv, TryStartNewHand PROVE IndInv'
  OBVIOUS
<1> USE DEF IndInv
<1>1. Seated' = Seated /\ Count' = Count /\ players \in Seq(Player) /\ Count \in Nat /\ Count >= 1
  BY SeatedUnchanged DEF TryStartNewHand, Count, TypeOK, SeatsSound, table
<1>2. dealer_index' \in 0..(Count - 1)
  BY <1>1, IndexTypes DEF TryStartNewHand, TypeOK
<1>3. TypeOK'
  BY <1>1, <1>2 DEF TryStartNewHand, TypeOK, table, status, betting, award
<1>4. SeatsSound' /\ LeaverSeated' /\ AwardSound' /\ StakeSound' /\ StackLedger'
  BY <1>1 DEF TryStartNewHand, table, SeatsSound, LeaverSeated, AwardSound, StakeSound, StackLedger
<1>5. QED BY <1>3, <1>4

(* The tail of apply_action keeps the bookkeeping of turns in range. *)
LEMMA RecordStep ==
  ASSUME IndInv, NEW p, NEW a, Turn(p), UNCHANGED players, RecordAndAdvance(p, a)
  PROVE  /\ players_acted' \subseteq Seated
         /\ current_player_index' \in 0..(Count - 1)
         /\ asked' = NoPlayer
         /\ pc' \in {"award", "next_phase", "ask"}
         /\ after_award' \in {"try_start", "erase"}
         /\ pc' = "award" => after_award' = "try_start"
<1> USE DEF IndInv
<1>1. players \in Seq(Player) /\ Count \in Nat /\ Count >= 1
  BY DEF Count, TypeOK, SeatsSound
<1>2. dealer_index \in 0..(Count - 1) /\ current_player_index \in 0..(Count - 1)
  BY DEF TypeOK
<1>3. find_next_active_player(CanAct') \in 0..(Count - 1)
  BY <1>1, <1>2, TurnTypes
<1>4. QED BY <1>2, <1>3 DEF RecordAndAdvance, Turn, TypeOK

(* What contribute moves: from the stack to the bet, never more than the
   player has. *)
LEMMA ContributeStep ==
  ASSUME IndInv, NEW p \in Seated, NEW amount \in Nat, contribute(p, amount)
  PROVE  /\ chips' \in [Seated -> Nat]
         /\ round_bets' \in [Seated -> Nat]
         /\ total_contributed' \in [Player -> Nat]
         /\ pot' \in Nat
         /\ all_in_players' \subseteq Seated
         /\ \A q \in Seated :
              /\ chips'[q] + total_contributed'[q] = chips[q] + total_contributed[q]
              /\ chips'[q] <= chips[q]
<1> USE DEF IndInv
<1>1. /\ chips \in [Seated -> Nat] /\ round_bets \in [Seated -> Nat]
      /\ total_contributed \in [Player -> Nat] /\ pot \in Nat
      /\ Seated \subseteq Player /\ all_in_players \subseteq Seated
  BY DEF TypeOK, Seated
<1>2. Actual(p, amount) \in Nat /\ Actual(p, amount) <= chips[p]
  BY <1>1 DEF Actual, MinOf
<1>3. chips' = [chips EXCEPT ![p] = chips[p] - Actual(p, amount)]
  BY DEF contribute
<1>4. total_contributed' = [total_contributed EXCEPT ![p] = total_contributed[p] + Actual(p, amount)]
  BY DEF contribute
<1>5. /\ round_bets' = [round_bets EXCEPT ![p] = round_bets[p] + Actual(p, amount)]
      /\ pot' = pot + Actual(p, amount)
      /\ all_in_players' \subseteq all_in_players \cup {p}
  BY DEF contribute
<1>6. chips' \in [Seated -> Nat]
  BY <1>1, <1>2, <1>3
<1>7. ASSUME NEW q \in Seated
      PROVE  /\ chips'[q] + total_contributed'[q] = chips[q] + total_contributed[q]
             /\ chips'[q] <= chips[q]
  <2>1. CASE q = p
    BY <2>1, <1>1, <1>2, <1>3, <1>4
  <2>2. CASE q # p
    BY <2>2, <1>1, <1>3, <1>4
  <2>3. QED BY <2>1, <2>2
<1>8. total_contributed' \in [Player -> Nat]
  BY <1>1, <1>2, <1>4
<1>9. round_bets' \in [Seated -> Nat] /\ pot' \in Nat
  BY <1>1, <1>2, <1>5
<1>10. all_in_players' \subseteq Seated
  BY <1>1, <1>5
<1>11. QED BY <1>6, <1>7, <1>8, <1>9, <1>10

(* A fold keeps the invariant. *)
LEMMA FoldInv == ASSUME NEW p PROVE IndInv /\ Fold(p) => IndInv'
<1> SUFFICES ASSUME IndInv, Fold(p) PROVE IndInv'
  OBVIOUS
<1> USE DEF IndInv
<1>1. Seated' = Seated /\ Count' = Count /\ UNCHANGED players /\ pc = "idle" /\ p \in Seated
  BY SeatedUnchanged DEF Fold, table, Turn
<1>2. TypeOK'
  BY <1>1, RecordStep DEF Fold, TypeOK, table, betting
<1>3. SeatsSound' /\ LeaverSeated' /\ AwardSound' /\ StakeSound' /\ StackLedger'
  BY <1>1, RecordStep DEF Fold, table, SeatsSound, LeaverSeated, AwardSound, StakeSound, StackLedger
<1>4. QED BY <1>2, <1>3

(* A check keeps the invariant. *)
LEMMA CheckInv == ASSUME NEW p PROVE IndInv /\ Check(p) => IndInv'
<1> SUFFICES ASSUME IndInv, Check(p) PROVE IndInv'
  OBVIOUS
<1> USE DEF IndInv
<1>1. Seated' = Seated /\ Count' = Count /\ UNCHANGED players /\ pc = "idle"
  BY SeatedUnchanged DEF Check, table, Turn
<1>2. TypeOK'
  BY <1>1, RecordStep DEF Check, TypeOK, table, betting
<1>3. SeatsSound' /\ LeaverSeated' /\ AwardSound' /\ StakeSound' /\ StackLedger'
  BY <1>1, RecordStep DEF Check, table, SeatsSound, LeaverSeated, AwardSound, StakeSound, StackLedger
<1>4. QED BY <1>2, <1>3

(* A call moves at most the caller's stack, even when the unsigned difference
   that it asks for has wrapped around. *)
LEMMA CallInv == ASSUME NEW p PROVE IndInv /\ Call(p) => IndInv'
<1> SUFFICES ASSUME IndInv, Call(p) PROVE IndInv'
  OBVIOUS
<1> USE DEF IndInv
<1>1. Seated' = Seated /\ Count' = Count /\ UNCHANGED players /\ pc = "idle" /\ p \in Seated
  BY SeatedUnchanged DEF Call, Turn
<1>2. ToCall(p) \in Nat \/ ~(ToCall(p) > 0 /\ contribute(p, ToCall(p)))
  BY <1>1, BoundAssumption DEF ToCall, Minus, TypeOK
<1>3. /\ chips' \in [Seated -> Nat]
      /\ round_bets' \in [Seated -> Nat]
      /\ total_contributed' \in [Player -> Nat]
      /\ pot' \in Nat
      /\ all_in_players' \subseteq Seated
      /\ \A q \in Seated : chips'[q] + total_contributed'[q] = chips[q] + total_contributed[q]
  <2>1. CASE ToCall(p) > 0 /\ contribute(p, ToCall(p))
    BY <1>1, <1>2, <2>1, ContributeStep
  <2>2. CASE UNCHANGED <<chips, round_bets, total_contributed, pot, all_in_players>>
    BY <2>2 DEF TypeOK
  <2>3. QED BY <2>1, <2>2 DEF Call
<1>4. TypeOK'
  BY <1>1, <1>3, RecordStep DEF Call, TypeOK, betting
<1>5. SeatsSound' /\ LeaverSeated' /\ AwardSound' /\ StakeSound'
  BY <1>1, RecordStep DEF Call, SeatsSound, LeaverSeated, AwardSound, StakeSound
<1>6. StackLedger'
  <2>1. \A q \in Seated : chips[q] + total_contributed[q] = stake[q] /\ stake[q] \in Nat
    BY <1>1 DEF StackLedger, StakeSound
  <2>2. QED BY <1>1, <1>3, <2>1 DEF Call, StackLedger
<1>7. QED BY <1>4, <1>5, <1>6

(* A valid raise asks for a positive amount that the stack covers. *)
LEMMA RaiseInv ==
  ASSUME NEW p, NEW amount \in RaiseAmounts
  PROVE  IndInv /\ Raise(p, amount) => IndInv'
<1> SUFFICES ASSUME IndInv, Raise(p, amount) PROVE IndInv'
  OBVIOUS
<1> USE DEF IndInv
<1>1. /\ Seated' = Seated /\ Count' = Count /\ UNCHANGED players
      /\ pc = "idle" /\ p \in Seated /\ amount \in Nat
  BY SeatedUnchanged, BoundAssumption DEF Raise, Turn, RaiseAmounts
<1>2. amount - round_bets[p] \in Nat /\ amount - current_bet \in Nat
  BY <1>1 DEF Raise, ValidRaise, TypeOK
<1>3. contribute(p, amount - round_bets[p])
  BY DEF Raise
<1>4. /\ chips' \in [Seated -> Nat]
      /\ round_bets' \in [Seated -> Nat]
      /\ total_contributed' \in [Player -> Nat]
      /\ pot' \in Nat
      /\ all_in_players' \subseteq Seated
      /\ \A q \in Seated : chips'[q] + total_contributed'[q] = chips[q] + total_contributed[q]
  BY <1>1, <1>2, <1>3, ContributeStep
<1>5. TypeOK'
  BY <1>1, <1>2, <1>4, RecordStep DEF Raise, TypeOK
<1>6. SeatsSound' /\ LeaverSeated' /\ AwardSound' /\ StakeSound'
  BY <1>1, RecordStep DEF Raise, SeatsSound, LeaverSeated, AwardSound, StakeSound
<1>7. StackLedger'
  <2>1. \A q \in Seated : chips[q] + total_contributed[q] = stake[q] /\ stake[q] \in Nat
    BY <1>1 DEF StackLedger, StakeSound
  <2>2. QED BY <1>1, <1>4, <2>1 DEF Raise, StackLedger
<1>8. QED BY <1>5, <1>6, <1>7

(* Marking a departing player as folded keeps the invariant. *)
LEMMA RemovePlayerInv == ASSUME NEW p PROVE IndInv /\ RemovePlayer(p) => IndInv'
<1> SUFFICES ASSUME IndInv, RemovePlayer(p) PROVE IndInv'
  OBVIOUS
<1> USE DEF IndInv
<1>1. Seated' = Seated /\ Count' = Count /\ pc = "idle" /\ p \in Seated
  BY SeatedUnchanged DEF RemovePlayer, table
<1>2. TypeOK'
  BY <1>1 DEF RemovePlayer, TypeOK, table, betting, turn, history
<1>3. SeatsSound' /\ LeaverSeated' /\ AwardSound' /\ StakeSound' /\ StackLedger'
  BY <1>1 DEF RemovePlayer, table, history, SeatsSound, LeaverSeated, AwardSound, StakeSound, StackLedger
<1>4. QED BY <1>2, <1>3

(* Taking one player out of the seats: everyone else keeps a seat, nobody
   gets a second one. *)
LEMMA UnseatStep ==
  ASSUME IndInv, ErasePlayer
  PROVE  /\ players' \in Seq(Player)
         /\ Count' = Count - 1
         /\ Seated' = Seated \ {leaver}
         /\ \A i, j \in DOMAIN players' : players'[i] = players'[j] => i = j
<1> USE DEF IndInv
<1>1. /\ players \in Seq(Player) /\ leaver \in Seated
      /\ \A i, j \in 1..Len(players) : players[i] = players[j] => i = j
  <2>1. players \in Seq(Player) /\ leaver \in Seated
    BY DEF ErasePlayer, TypeOK, LeaverSeated
  <2>2. DOMAIN players = 1..Len(players)
    BY <2>1
  <2>3. QED BY <2>1, <2>2 DEF SeatsSound
<1> DEFINE r == IndexOf(leaver) + 1
           n == Len(players)
<1>2. r \in 1..n /\ players[r] = leaver
  <2>1. PICK k \in 1..n : players[k] = leaver
    BY <1>1 DEF Seated
  <2>2. k - 1 \in 0..(Count - 1) /\ PlayerAt(k - 1) = leaver
    BY <2>1 DEF Count, PlayerAt
  <2>3. IndexOf(leaver) \in 0..(Count - 1) /\ PlayerAt(IndexOf(leaver)) = leaver
    BY <2>2 DEF IndexOf
  <2>4. QED BY <2>3 DEF Count, PlayerAt
<1>3. /\ players' \in Seq(Player)
      /\ Len(players') = n - 1
      /\ \A j \in 1..(n - 1) : players'[j] = IF j < r THEN players[j] ELSE players[j + 1]
  BY <1>1, <1>2, RemoveAtProps DEF ErasePlayer
<1> HIDE DEF r
<1>4. DOMAIN players' = 1..(n - 1) /\ DOMAIN players = 1..n /\ n \in Nat
  BY <1>1, <1>3
<1>5. \A i, j \in DOMAIN players' : players'[i] = players'[j] => i = j
  BY <1>1, <1>2, <1>3, <1>4
<1>6. ASSUME NEW q \in Seated' PROVE q \in Seated \ {leaver}
  <2>1. PICK j \in 1..(n - 1) : players'[j] = q
    BY <1>4 DEF Seated
  <2>2. CASE j < r
    <3>1. j \in 1..n /\ j # r /\ q = players[j]
      BY <2>1, <2>2, <1>2, <1>3
    <3>2. QED BY <3>1, <1>1, <1>2, <1>4 DEF Seated
  <2>3. CASE ~(j < r)
    <3>1. j + 1 \in 1..n /\ j + 1 # r /\ q = players[j + 1]
      BY <2>1, <2>3, <1>2, <1>3
    <3>2. QED BY <3>1, <1>1, <1>2, <1>4 DEF Seated
  <2>4. QED BY <2>2, <2>3
<1>7. ASSUME NEW q \in Seated \ {leaver} PROVE q \in Seated'
  <2>1. PICK k \in 1..n : players[k] = q /\ k # r
    BY <1>2, <1>4 DEF Seated
  <2>2. CASE k < r
    <3>1. k \in 1..(n - 1) /\ players'[k] = q
      BY <2>1, <2>2, <1>2, <1>3
    <3>2. QED BY <3>1, <1>4 DEF Seated
  <2>3. CASE ~(k < r)
    <3>1. k - 1 \in 1..(n - 1) /\ ~(k - 1 < r) /\ (k - 1) + 1 = k
      BY <2>1, <2>3, <1>2
    <3>2. players'[k - 1] = q
      BY <2>1, <3>1, <1>3
    <3>3. QED BY <3>1, <3>2, <1>4 DEF Seated
  <2>4. QED BY <2>2, <2>3
<1>8. Seated' = Seated \ {leaver}
  BY <1>6, <1>7
<1>9. QED BY <1>3, <1>4, <1>5, <1>8 DEF Count

(* Erasing the departing player keeps both indices inside the shorter table and
   the ledger of everyone who stays. *)
LEMMA ErasePlayerInv == IndInv /\ ErasePlayer => IndInv'
<1> SUFFICES ASSUME IndInv, ErasePlayer PROVE IndInv'
  OBVIOUS
<1> USE DEF IndInv
<1>1. /\ players' \in Seq(Player)
      /\ Count' = Count - 1
      /\ Seated' = Seated \ {leaver}
      /\ \A i, j \in DOMAIN players' : players'[i] = players'[j] => i = j
  BY UnseatStep
<1>2. Count \in Nat /\ Count >= 2 /\ leaver \in Seated /\ Seated \subseteq Player
  <2>1. pc = "erase" /\ players \in Seq(Player)
    BY DEF ErasePlayer, TypeOK
  <2>2. Count >= 2 /\ leaver \in Seated
    BY <2>1 DEF SeatsSound, LeaverSeated
  <2>3. Count \in Nat /\ Seated \subseteq Player
    BY <2>1 DEF Count, Seated
  <2>4. QED BY <2>2, <2>3
<1>3. IndexOf(leaver) \in 0..(Count - 1)
  <2>0. DOMAIN players = 1..Count
    BY DEF Count, TypeOK
  <2>1. PICK k \in 1..Count : players[k] = leaver
    BY <1>2, <2>0 DEF Seated
  <2>2. k - 1 \in 0..(Count - 1) /\ PlayerAt(k - 1) = leaver
    BY <1>2, <2>1 DEF PlayerAt
  <2>3. QED BY <2>2 DEF IndexOf
<1>4. \A i \in 0..(Count - 1) : FixIndex(i, IndexOf(leaver)) \in 0..(Count - 2)
  BY <1>2, <1>3 DEF FixIndex
<1>5. dealer_index' \in 0..(Count' - 1) /\ current_player_index' \in 0..(Count' - 1)
  <2>1. dealer_index \in 0..(Count - 1) /\ current_player_index \in 0..(Count - 1)
    BY DEF TypeOK
  <2>2. /\ dealer_index' \in 0..(Count - 2)
        /\ current_player_index' \in 0..(Count - 2)
    BY <1>4, <2>1 DEF ErasePlayer
  <2>3. Count' - 1 = Count - 2
    BY <1>1, <1>2
  <2>4. QED BY <2>2, <2>3
<1>6. pc' \in {"ended", "try_start", "next_phase", "ask", "idle"} /\ (Count' < 2 => pc' = "ended")
  BY DEF ErasePlayer
<1>7. /\ chips' \in [Seated' -> Nat] /\ round_bets' \in [Seated' -> Nat]
      /\ total_contributed' \in [Player -> Nat] /\ db' \in [Player -> Nat]
  BY <1>1, <1>2 DEF ErasePlayer, TypeOK
<1>8. /\ folded_players' \subseteq Seated' /\ all_in_players' \subseteq Seated'
      /\ players_acted' \subseteq Seated' /\ asked' \in Seated' \cup {NoPlayer}
      /\ leaver' \in Seated' \cup {NoPlayer}
  BY <1>1 DEF ErasePlayer, TypeOK
<1>9. TypeOK'
  BY <1>1, <1>5, <1>6, <1>7, <1>8 DEF ErasePlayer, TypeOK, betting, award
<1>10. SeatsSound' /\ LeaverSeated' /\ AwardSound'
  <2>1. Count' \in Nat /\ Count' >= 1
    BY <1>1, <1>2
  <2>2. QED BY <1>1, <1>6, <2>1 DEF SeatsSound, LeaverSeated, AwardSound
<1>11. StakeSound' /\ StackLedger'
  <2>1. \A q \in Seated' : /\ q \in Seated /\ chips'[q] = chips[q]
                           /\ total_contributed'[q] = total_contributed[q]
    BY <1>1, <1>2 DEF ErasePlayer, TypeOK
  <2>2. \A q \in Seated : /\ chips[q] + total_contributed[q] = stake[q]
                          /\ chips[q] + total_contributed[q] >= stake[q]
                          /\ stake[q] \in Nat /\ q \in DOMAIN stake
    BY DEF ErasePlayer, StackLedger, StakeSound
  <2>3. stake' = stake
    BY DEF ErasePlayer
  <2>4. QED BY <1>6, <2>1, <2>2, <2>3 DEF StakeSound, StackLedger
<1>12. QED BY <1>9, <1>10, <1>11

(* A message that changes nothing keeps the invariant. *)
LEMMA StutterInv == IndInv /\ UNCHANGED vars => IndInv'
<1> SUFFICES ASSUME IndInv, UNCHANGED vars PROVE IndInv'
  OBVIOUS
<1> USE DEF IndInv, vars, table, status, betting, turn, award, history
<1>1. Seated' = Seated /\ Count' = Count /\ Active' = Active
  BY DEF Seated, Count, Active
<1>2. TypeOK'
  BY <1>1 DEF TypeOK
<1>3. SeatsSound' /\ LeaverSeated' /\ AwardSound' /\ StakeSound' /\ StackLedger'
  BY <1>1 DEF SeatsSound, LeaverSeated, AwardSound, StakeSound, StackLedger
<1>4. QED BY <1>2, <1>3

(* Every step of the session keeps the invariant: one case per action. *)
LEMMA NextInv == IndInv /\ [Next]_vars => IndInv'
<1> SUFFICES ASSUME IndInv, [Next]_vars PROVE IndInv'
  OBVIOUS
<1>1. CASE Step
  BY <1>1, StartInv, AskInv, NextPhaseInv, DoShowdownInv, AwardBeginInv, PayPotInv,
     AwardEndInv, TryStartInv, ErasePlayerInv DEF Step
<1>2. CASE Message
  <2>1. PICK p \in Player :
          \/ Fold(p) \/ Check(p) \/ Call(p)
          \/ \E amount \in RaiseAmounts : Raise(p, amount)
          \/ UNCHANGED vars
    BY <1>2 DEF Message, RejectAction
  <2>2. QED BY <2>1, FoldInv, CheckInv, CallInv, RaiseInv, StutterInv
<1>3. CASE Leave
  BY <1>3, RemovePlayerInv DEF Leave
<1>4. CASE UNCHANGED vars
  BY <1>4, StutterInv
<1>5. QED BY <1>1, <1>2, <1>3, <1>4 DEF Next

(* The parts of IndInv hold in every reachable state of the table, for any
   players, seats, bankrolls, blinds and raise bound. *)
THEOREM InductiveInvariant == Spec => []IndInv
<1>1. Init => IndInv
  BY InitInv
<1>2. IndInv /\ [Next]_vars => IndInv'
  BY NextInv
<1>3. QED BY <1>1, <1>2, PTL DEF Spec

(* The unchecked indexings of players_ are in range and no unsigned stack, bet
   or pot goes below zero, whoever leaves and whenever. *)
THEOREM TypeCorrect == Spec => []TypeOK
<1>1. IndInv => TypeOK
  BY DEF IndInv
<1>2. QED BY <1>1, InductiveInvariant, PTL

(* Until the pots are paid a player's stack and contribution add up to the stack
   of the hand's start; no order of bets, all-ins and departures changes that. *)
THEOREM LedgerHolds == Spec => []StackLedger
<1>1. IndInv => StackLedger
  BY DEF IndInv
<1>2. QED BY <1>1, InductiveInvariant, PTL

(* Of all steps only PayPot adds to a stack, and it pays nobody who folded. *)
LEMMA GainStep == IndInv /\ [Next]_vars => [OnlyContendersGain]_vars
<1> SUFFICES ASSUME IndInv, Next, NEW p \in Seated \cap Seated', chips'[p] > chips[p]
             PROVE  p \notin folded_players
  BY DEF OnlyContendersGain
<1>0. chips[p] \in Nat
  BY DEF IndInv, TypeOK
<1>1. CASE PayPot
  BY <1>1, PayPotStep, <1>0
<1>2. CASE UNCHANGED chips
  BY <1>0, <1>2
<1>3. CASE Start
  <2>1. Actual(p, SmallBlind) \in Nat /\ Actual(p, BigBlind) \in Nat
    BY <1>0, BlindAssumption DEF Actual, MinOf
  <2>2. QED BY <1>0, <1>3, <2>1 DEF Start, Blind
<1>4. ASSUME NEW q, Call(q) PROVE p \notin folded_players
  <2>1. q \in Seated
    BY <1>4 DEF Call, Turn
  <2>2. current_bet \in Nat /\ round_bets[q] \in Nat
    BY <2>1 DEF IndInv, TypeOK
  <2>3. (UNCHANGED chips) \/ (ToCall(q) > 0 /\ contribute(q, ToCall(q)))
    BY <1>4 DEF Call
  <2>4. CASE contribute(q, ToCall(q)) /\ ToCall(q) > 0
    <3>1. ToCall(q) \in Nat
      BY <2>2, <2>4, BoundAssumption DEF ToCall, Minus
    <3>2. chips'[p] \in Nat /\ chips'[p] <= chips[p]
      BY <2>1, <2>4, <3>1, ContributeStep
    <3>3. QED BY <1>0, <3>2
  <2>5. QED BY <1>2, <2>3, <2>4
<1>5. ASSUME NEW q, NEW amount \in RaiseAmounts, Raise(q, amount) PROVE p \notin folded_players
  <2>1. q \in Seated /\ amount - round_bets[q] \in Nat /\ contribute(q, amount - round_bets[q])
    BY <1>5, BoundAssumption DEF Raise, Turn, ValidRaise, RaiseAmounts, IndInv, TypeOK
  <2>2. chips'[p] \in Nat /\ chips'[p] <= chips[p]
    BY <2>1, ContributeStep
  <2>3. QED BY <1>0, <2>2
<1>6. CASE ErasePlayer
  <2>1. chips'[p] = chips[p]
    BY <1>6, UnseatStep DEF ErasePlayer
  <2>2. QED BY <1>0, <2>1
<1>7. CASE Step
  BY <1>1, <1>2, <1>3, <1>6, <1>7 DEF Step, AskCurrentPlayer, NextPhase, DoShowdown, AwardBegin,
     AwardEnd, TryStartNewHand, table
<1>8. CASE Message
  <2>1. PICK q \in Player :
          \/ UNCHANGED chips \/ Call(q)
          \/ \E amount \in RaiseAmounts : Raise(q, amount)
    BY <1>8 DEF Message, RejectAction, Fold, Check, table, vars
  <2>2. QED BY <1>2, <1>4, <1>5, <2>1
<1>9. CASE Leave
  BY <1>2, <1>9 DEF Leave, RemovePlayer, table
<1>10. QED BY <1>7, <1>8, <1>9 DEF Next

(* award_all_pots pays no chips to a player who has folded, whether by an action
   or by leaving. *)
THEOREM FoldedGainNothing == Spec => FoldedNeverPaid
<1>1. IndInv /\ [Next]_vars => [OnlyContendersGain]_vars
  BY GainStep
<1>2. QED BY <1>1, InductiveInvariant, PTL DEF Spec, FoldedNeverPaid
-----------------------------------------------------------------------------
(* Turns and money. *)

\* Nobody has been erased from the table since the pot was last empty.
Intact == DOMAIN stake = Seated

\* remove_player is running.
Removing == pc = "erase" \/ (pc \in {"award", "pay_pot"} /\ after_award = "erase")

HandGoesOn ==
    /\ pc = "ask" => Cardinality(Active) # 1
    /\ pc = "next_phase" => is_round_complete
    /\ pc = "showdown" => phase = "River" /\ \A p \in Seated : round_bets[p] = 0
    /\ phase = "Showdown" /\ ~game_over =>
         pc \in {"award", "pay_pot", "try_start", "start"} /\ ~Removing
    /\ Active = {} => /\ pc \in {"idle", "try_start"} => phase = "Showdown"
                      /\ pc \notin {"award", "pay_pot"}
    /\ game_over \/ pc \in {"award", "pay_pot", "try_start"} =>
         phase = "Showdown" \/ Cardinality(Active) <= 1
    /\ pc = "idle" /\ ~game_over /\ Intact => asked = Current /\ Current \in CanAct
    /\ Removing => leaver \in folded_players

TurnInv == IndInv /\ HandGoesOn
-----------------------------------------------------------------------------
(* Whose turn it is. *)

(* The players in the hand are finitely many. *)
LEMMA ActiveFinite ==
  ASSUME IndInv
  PROVE  /\ IsFiniteSet(Seated) /\ IsFiniteSet(Active) /\ Seated \subseteq Player
         /\ Cardinality(Active) \in Nat
         /\ Cardinality(Active) = 1 <=> \E x : Active = {x}
         /\ Cardinality(Active) = 0 <=> Active = {}
         /\ \A S \in SUBSET Active : /\ IsFiniteSet(S) /\ Cardinality(S) \in Nat
                                     /\ Cardinality(S) <= Cardinality(Active)
                                     /\ Cardinality(S) = 1 <=> \E x : S = {x}
                                     /\ Cardinality(S) = 0 <=> S = {}
<1>1. Seated \subseteq Player
  BY DEF IndInv, TypeOK, Seated
<1>2. IsFiniteSet(Seated)
  BY <1>1, PlayerAssumption, FS_Subset
<1>3. IsFiniteSet(Active)
  BY <1>2, FS_Subset DEF Active
<1>4. \A S \in SUBSET Active : /\ IsFiniteSet(S) /\ Cardinality(S) \in Nat
                               /\ Cardinality(S) <= Cardinality(Active)
  BY <1>3, FS_Subset, FS_CardinalityType
<1>5. \A S \in SUBSET Active : /\ Cardinality(S) = 1 <=> \E x : S = {x}
                               /\ Cardinality(S) = 0 <=> S = {}
  BY <1>4, FS_Singleton, FS_EmptySet
<1>6. QED BY <1>1, <1>2, <1>3, <1>4, <1>5

(* A table has at least two players until the session has ended. *)
LEMMA TwoSeated ==
  ASSUME IndInv, pc # "ended"
  PROVE  \E p, q \in Seated : p # q
<1>1. players \in Seq(Player) /\ Len(players) >= 2 /\ 1 \in DOMAIN players /\ 2 \in DOMAIN players
  <2>1. players \in Seq(Player)
    BY DEF IndInv, TypeOK
  <2>2. Len(players) >= 2
    BY DEF IndInv, SeatsSound, Count
  <2>3. QED BY <2>1, <2>2
<1>2. players[1] # players[2]
  BY <1>1 DEF IndInv, SeatsSound
<1>3. QED BY <1>1, <1>2 DEF Seated

(* The session begins before its first hand. *)
LEMMA InitTurn == Init => HandGoesOn
BY DEF Init, HandGoesOn, Removing

(* A new hand begins with everybody in it. *)
LEMMA StartTurn == TurnInv /\ Start => HandGoesOn'
<1> SUFFICES ASSUME TurnInv, Start PROVE HandGoesOn'
  OBVIOUS
<1>1. IndInv /\ Seated' = Seated
  BY SeatedUnchanged DEF TurnInv, Start
<1>2. Active' = Seated
  BY <1>1 DEF Active, Start
<1>3. pc # "ended"
  BY DEF Start
<1>4. ~\E x : Seated = {x}
  BY <1>1, <1>3, TwoSeated
<1>5. Cardinality(Seated) # 1 /\ Seated # {}
  BY <1>1, <1>3, <1>4, ActiveFinite, TwoSeated, FS_Singleton
<1>6. pc' = "ask" /\ phase' = "PreFlop" /\ game_over' = FALSE
  BY DEF Start
<1>7. QED BY <1>2, <1>5, <1>6 DEF HandGoesOn, Removing

(* ask_current_player prompts a player who can act, or passes on the turn. *)
LEMMA AskTurn == TurnInv /\ AskCurrentPlayer => HandGoesOn'
<1> SUFFICES ASSUME TurnInv, AskCurrentPlayer PROVE HandGoesOn'
  OBVIOUS
<1>1. IndInv /\ Seated' = Seated /\ Count' = Count
  BY SeatedUnchanged DEF TurnInv, AskCurrentPlayer, table
<1>2. /\ UNCHANGED <<folded_players, all_in_players, players_acted, round_bets, current_bet, phase,
                    game_over, players, stake, leaver>>
      /\ pc = "ask"
  BY DEF AskCurrentPlayer, table, status, betting
<1>3. Active' = Active /\ CanAct' = CanAct
  BY <1>1, <1>2 DEF Active, CanAct
<1>4. is_round_complete' = is_round_complete
  BY <1>1, <1>2, <1>3 DEF is_round_complete
<1>5. CASE Current \in CanAct /\ asked' = Current /\ pc' = "idle" /\ UNCHANGED current_player_index
  <2>1. Current' = Current
    BY <1>2, <1>5 DEF Current, PlayerAt
  <2>2. Active # {} /\ Cardinality(Active) # 1
    BY <1>2, <1>5 DEF CanAct, Active, TurnInv, HandGoesOn
  <2>3. QED BY <1>2, <1>3, <1>5, <2>1, <2>2 DEF TurnInv, HandGoesOn, Removing
<1>6. CASE pc' = IF is_round_complete THEN "next_phase" ELSE "ask"
  <2>1. Cardinality(Active) # 1
    BY <1>2 DEF TurnInv, HandGoesOn
  <2>2. QED BY <1>2, <1>3, <1>4, <1>6, <2>1 DEF TurnInv, HandGoesOn, Removing
<1>7. QED BY <1>5, <1>6 DEF AskCurrentPlayer

(* The next street, the showdown, or nothing when the game is over. *)
LEMMA NextPhaseTurn == TurnInv /\ NextPhase => HandGoesOn'
<1> SUFFICES ASSUME TurnInv, NextPhase PROVE HandGoesOn'
  OBVIOUS
<1>1. IndInv /\ Seated' = Seated /\ Count' = Count
  BY SeatedUnchanged DEF TurnInv, NextPhase
<1>2. UNCHANGED <<folded_players, game_over, leaver>> /\ pc = "next_phase" /\ phase \in Phase
  BY <1>1 DEF NextPhase, history, IndInv, TypeOK
<1>3. Active' = Active
  BY <1>1, <1>2 DEF Active
<1>4. phase = "Showdown" => game_over
  BY <1>2 DEF TurnInv, HandGoesOn
<1>5. CASE Cardinality(Active) = 1 /\ pc' = "award" /\ after_award' = "try_start" /\ phase' = phase
  <2>1. Active # {}
    BY <1>1, <1>5, ActiveFinite
  <2>2. QED BY <1>2, <1>3, <1>4, <1>5, <2>1 DEF HandGoesOn, Removing
<1>6. CASE Cardinality(Active) # 1 /\ phase \in DOMAIN NextStreet /\ phase' = NextStreet[phase] /\ pc' = "ask"
  <2>1. phase # "Showdown" /\ phase' # "Showdown"
    BY <1>2, <1>6 DEF NextStreet, Phase
  <2>2. game_over => Cardinality(Active) <= 1
    BY <2>1 DEF TurnInv, HandGoesOn
  <2>3. QED BY <1>2, <1>3, <1>6, <2>1, <2>2 DEF HandGoesOn, Removing
<1>7. CASE /\ Cardinality(Active) # 1 /\ phase \notin DOMAIN NextStreet
           /\ pc' = (IF phase = "River" THEN "showdown" ELSE "idle") /\ phase' = phase
           /\ round_bets' = [p \in Seated |-> 0]
  <2>1. phase = "River" \/ phase = "Showdown"
    BY <1>2, <1>7 DEF NextStreet, Phase
  <2>2. game_over => phase = "Showdown" \/ Cardinality(Active) <= 1
    BY DEF TurnInv, HandGoesOn
  <2>3. \A p \in Seated' : round_bets'[p] = 0
    BY <1>1, <1>7
  <2>4. QED BY <1>2, <1>3, <1>4, <1>7, <2>1, <2>2, <2>3 DEF HandGoesOn, Removing
<1>8. QED BY <1>5, <1>6, <1>7 DEF NextPhase

(* do_showdown is the end of the hand. *)
LEMMA DoShowdownTurn == TurnInv /\ DoShowdown => HandGoesOn'
<1> SUFFICES ASSUME TurnInv, DoShowdown PROVE HandGoesOn'
  OBVIOUS
<1>1. Active' = Active
  BY SeatedUnchanged DEF DoShowdown, table, status, Active
<1>2. QED BY <1>1 DEF DoShowdown, HandGoesOn, Removing

(* The award begins, or there is nothing to award. *)
LEMMA AwardBeginTurn == TurnInv /\ AwardBegin => HandGoesOn'
<1> SUFFICES ASSUME TurnInv, AwardBegin PROVE HandGoesOn'
  OBVIOUS
<1>1. Active' = Active
  BY SeatedUnchanged DEF AwardBegin, table, status, Active
<1>2. /\ UNCHANGED <<folded_players, game_over, leaver, phase, after_award>> /\ pc = "award"
      /\ pc' \in {after_award, "pay_pot"} /\ after_award \in {"try_start", "erase"}
  BY DEF AwardBegin, status, turn, history, TurnInv, IndInv, TypeOK
<1>3. Active # {} /\ (phase = "Showdown" \/ Cardinality(Active) <= 1)
  BY <1>2 DEF TurnInv, HandGoesOn
<1>4. /\ after_award = "erase" => leaver \in folded_players
      /\ phase = "Showdown" /\ ~game_over => after_award = "try_start"
  BY <1>2 DEF TurnInv, HandGoesOn, Removing
<1>5. QED BY <1>1, <1>2, <1>3, <1>4 DEF HandGoesOn, Removing

(* Paying a pot changes nothing about turns. *)
LEMMA PayPotTurn == TurnInv /\ PayPot => HandGoesOn'
<1> SUFFICES ASSUME TurnInv, PayPot PROVE HandGoesOn'
  OBVIOUS
<1>1. Active' = Active
  BY SeatedUnchanged DEF PayPot, status, Active
<1>2. UNCHANGED <<pc, folded_players, game_over, leaver, phase, after_award>> /\ pc = "pay_pot"
  BY DEF PayPot, status, turn, history
<1>3. QED BY <1>1, <1>2 DEF TurnInv, HandGoesOn, Removing

(* After the award the session removes the leaver or tries a new hand. *)
LEMMA AwardEndTurn == TurnInv /\ AwardEnd => HandGoesOn'
<1> SUFFICES ASSUME TurnInv, AwardEnd PROVE HandGoesOn'
  OBVIOUS
<1>1. Active' = Active
  BY SeatedUnchanged DEF AwardEnd, status, Active
<1>2. /\ UNCHANGED <<folded_players, game_over, leaver, phase, after_award>> /\ pc = "pay_pot"
      /\ pc' = after_award /\ after_award \in {"try_start", "erase"}
  BY DEF AwardEnd, status, turn, TurnInv, IndInv, TypeOK
<1>3. Active # {} /\ (phase = "Showdown" \/ Cardinality(Active) <= 1)
  BY <1>2 DEF TurnInv, HandGoesOn
<1>4. /\ after_award = "erase" => leaver \in folded_players
      /\ phase = "Showdown" /\ ~game_over => after_award = "try_start"
  BY <1>2 DEF TurnInv, HandGoesOn, Removing
<1>5. QED BY <1>1, <1>2, <1>3, <1>4 DEF HandGoesOn, Removing

(* A new hand, or the game is over. *)
LEMMA TryStartTurn == TurnInv /\ TryStartNewHand => HandGoesOn'
<1> SUFFICES ASSUME TurnInv, TryStartNewHand PROVE HandGoesOn'
  OBVIOUS
<1>1. Active' = Active
  BY SeatedUnchanged DEF TryStartNewHand, table, status, Active
<1>2. /\ UNCHANGED <<folded_players, leaver, phase, after_award>> /\ pc = "try_start"
      /\ \/ pc' = "start" /\ game_over' = game_over
         \/ pc' = "idle" /\ game_over' = TRUE
  BY DEF TryStartNewHand, status, award
<1>3. QED BY <1>1, <1>2 DEF TurnInv, HandGoesOn, Removing

(* The tail of apply_action: how the hand goes on depends on who is left. *)
LEMMA RecordTurn ==
  ASSUME TurnInv, NEW p, NEW a, Turn(p), RecordAndAdvance(p, a),
         UNCHANGED <<players, leaver, phase, game_over>>, folded_players \subseteq folded_players'
  PROVE  HandGoesOn'
<1>1. IndInv /\ Seated' = Seated /\ pc = "idle"
  BY SeatedUnchanged DEF TurnInv, Turn
<1>2. Active' \subseteq Active
  BY <1>1 DEF Active
<1>3. /\ Cardinality(Active') \in Nat /\ Cardinality(Active') <= Cardinality(Active)
      /\ Cardinality(Active) \in Nat
      /\ Cardinality(Active') = 0 <=> Active' = {}
  BY <1>1, <1>2, ActiveFinite
<1>4. \/ pc' = "award" /\ after_award' = "try_start" /\ Cardinality(Active') = 1
      \/ pc' = "next_phase" /\ is_round_complete' /\ Cardinality(Active') # 1
      \/ pc' = "ask" /\ Cardinality(Active') # 1
  BY DEF RecordAndAdvance
<1>5. phase = "Showdown" => game_over
  BY <1>1 DEF TurnInv, HandGoesOn
<1>6. game_over => phase = "Showdown" \/ Cardinality(Active) <= 1
  BY DEF TurnInv, HandGoesOn
<1>7. QED BY <1>3, <1>4, <1>5, <1>6 DEF HandGoesOn, Removing

(* Every action of a player keeps the order of turns. *)
LEMMA ActionTurn ==
  ASSUME TurnInv, NEW p, Fold(p) \/ Check(p) \/ Call(p) \/ \E amount \in RaiseAmounts : Raise(p, amount)
  PROVE  HandGoesOn'
<1>1. /\ UNCHANGED <<players, leaver, phase, game_over>> /\ folded_players \subseteq folded_players'
      /\ Turn(p) /\ \E a \in {"Fold", "Check", "Call", "Raise"} : RecordAndAdvance(p, a)
  BY DEF Fold, Check, Call, Raise, table
<1>2. QED BY <1>1, RecordTurn

(* A player who leaves is out of the hand first. *)
LEMMA RemovePlayerTurn == ASSUME NEW p PROVE TurnInv /\ RemovePlayer(p) => HandGoesOn'
<1> SUFFICES ASSUME TurnInv, RemovePlayer(p) PROVE HandGoesOn'
  OBVIOUS
<1>1. IndInv /\ Seated' = Seated /\ pc = "idle"
  BY SeatedUnchanged DEF TurnInv, RemovePlayer, table
<1>2. Active' \subseteq Active
  BY <1>1 DEF Active, RemovePlayer
<1>3. /\ Cardinality(Active') \in Nat /\ Cardinality(Active') <= Cardinality(Active)
      /\ Cardinality(Active) \in Nat
      /\ Cardinality(Active') = 0 <=> Active' = {}
  BY <1>1, <1>2, ActiveFinite
<1>4. /\ \/ pc' = "award" /\ Cardinality(Active') = 1
         \/ pc' = "erase" /\ Cardinality(Active') # 1
      /\ leaver' \in folded_players' /\ UNCHANGED <<phase, game_over>>
  BY DEF RemovePlayer, turn, history
<1>5. phase = "Showdown" => game_over
  BY <1>1 DEF TurnInv, HandGoesOn
<1>6. game_over => phase = "Showdown" \/ Cardinality(Active) <= 1
  BY DEF TurnInv, HandGoesOn
<1>7. QED BY <1>3, <1>4, <1>5, <1>6 DEF HandGoesOn, Removing

(* The players in the hand are the same after the leaver's seat is gone. *)
LEMMA EraseActive ==
  ASSUME TurnInv, ErasePlayer
  PROVE  /\ Active' = Active
         /\ leaver \in Seated /\ leaver \in folded_players
         /\ Seated' = Seated \ {leaver}
         /\ ~Intact'
<1>1. IndInv /\ leaver \in folded_players /\ leaver \in Seated
  BY DEF TurnInv, HandGoesOn, Removing, ErasePlayer, IndInv, LeaverSeated
<1>2. Seated' = Seated \ {leaver}
  BY <1>1, UnseatStep
<1>3. Active' = Active
  BY <1>1, <1>2 DEF Active, ErasePlayer
<1>4. leaver \in DOMAIN stake' /\ leaver \notin Seated'
  BY <1>1, <1>2 DEF ErasePlayer, IndInv, StakeSound
<1>5. QED BY <1>1, <1>2, <1>3, <1>4 DEF Intact

(* After a seat is gone the hand goes on, whoever is now the current player. *)
LEMMA ErasePlayerTurn == TurnInv /\ ErasePlayer => HandGoesOn'
<1> SUFFICES ASSUME TurnInv, ErasePlayer PROVE HandGoesOn'
  OBVIOUS
<1>1. Active' = Active /\ ~Intact' /\ IndInv
  BY EraseActive DEF TurnInv
<1>2. UNCHANGED <<phase, game_over, after_award>> /\ pc = "erase"
  BY DEF ErasePlayer, award
<1>3. \/ pc' = "ended"
      \/ pc' = "try_start" /\ Cardinality(Active') = 1
      \/ pc' = "next_phase" /\ is_round_complete'
      \/ pc' \in {"ask", "idle"} /\ ~is_round_complete'
  BY DEF ErasePlayer
<1>4. ~is_round_complete' => ~(Cardinality(Active') <= 1)
  BY DEF is_round_complete
<1>5. /\ Cardinality(Active) \in Nat /\ (Cardinality(Active) = 0 <=> Active = {})
  BY <1>1, ActiveFinite
<1>6. /\ phase = "Showdown" => game_over
      /\ game_over => phase = "Showdown" \/ Cardinality(Active) <= 1
  BY <1>2 DEF TurnInv, HandGoesOn
<1>7. QED BY <1>1, <1>2, <1>3, <1>4, <1>5, <1>6 DEF HandGoesOn, Removing

(* A rejected message changes nothing. *)
LEMMA StutterTurn == TurnInv /\ UNCHANGED vars => HandGoesOn'
<1> SUFFICES ASSUME TurnInv, UNCHANGED vars PROVE HandGoesOn'
  OBVIOUS
<1> USE DEF vars, table, status, betting, turn, award, history
<1>1. Seated' = Seated /\ Count' = Count
  BY SeatedUnchanged
<1>2. Active' = Active /\ CanAct' = CanAct /\ Current' = Current /\ Intact' = Intact
      /\ Removing' = Removing
  BY <1>1 DEF Active, CanAct, Current, PlayerAt, Intact, Removing
<1>3. is_round_complete' = is_round_complete
  BY <1>1, <1>2 DEF is_round_complete
<1>4. QED BY <1>1, <1>2, <1>3 DEF TurnInv, HandGoesOn

(* The order of the handlers keeps HandGoesOn: one case per action. *)
LEMMA TurnHolds == Spec => []TurnInv
<1>1. Init => TurnInv
  BY InitInv, InitTurn DEF TurnInv
<1>2. TurnInv /\ [Next]_vars => TurnInv'
  <2> SUFFICES ASSUME TurnInv, [Next]_vars PROVE HandGoesOn'
    BY NextInv DEF TurnInv
  <2>1. CASE Step
    BY <2>1, StartTurn, AskTurn, NextPhaseTurn, DoShowdownTurn, AwardBeginTurn, PayPotTurn,
       AwardEndTurn, TryStartTurn, ErasePlayerTurn DEF Step
  <2>2. CASE Message
    BY <2>2, ActionTurn, StutterTurn DEF Message, RejectAction
  <2>3. CASE Leave
    BY <2>3, RemovePlayerTurn DEF Leave
  <2>4. QED BY <2>1, <2>2, <2>3, StutterTurn DEF Next
<1>3. QED BY <1>1, <1>2, PTL DEF Spec

(* Whenever the server waits in a hand that nobody has left, it waits for the
   player it has prompted, and that player can act. *)
THEOREM PromptedPlayerCanAct == Spec => []SomeoneIsAsked
<1>1. TurnInv => SomeoneIsAsked
  BY DEF TurnInv, HandGoesOn, SomeoneIsAsked, Undisturbed, Intact
<1>2. QED BY <1>1, TurnHolds, PTL
-----------------------------------------------------------------------------
(* Nobody is ahead of the bet, nobody who can act is behind. *)

\* A street of a hand is being played.
InHand == pc \in {"ask", "idle", "next_phase", "showdown"} /\ ~game_over

\* The part of a player's contribution that was put in before this street.
EarlierStreets(p) == total_contributed[p] - round_bets[p]

StreetLevel ==
    InHand /\ Intact /\ ~ShortBigBlind =>
        /\ \A p \in Seated : round_bets[p] <= current_bet
        /\ \A p \in CanAct, q \in Seated : EarlierStreets(p) >= EarlierStreets(q)

BetInv == TurnInv /\ StreetLevel

(* Walking k <= n seats round a table of n seats passes its end at most once. *)
LEMMA AfterWraps ==
  ASSUME NEW n \in Nat, NEW i \in 0..(n - 1), NEW k \in 0..n
  PROVE  (i + k) % n = IF i + k < n THEN i + k ELSE i + k - n
<1>1. CASE i + k < n
  BY <1>1
<1>2. CASE ~(i + k < n)
  BY <1>2
<1>3. QED BY <1>1, <1>2

(* The two blinds are two players. *)
LEMMA BlindsDiffer ==
  ASSUME IndInv, pc # "ended"
  PROVE  /\ PlayerAt(sb_index) \in Seated /\ PlayerAt(bb_index) \in Seated
         /\ PlayerAt(sb_index) # PlayerAt(bb_index)
<1>1. /\ players \in Seq(Player) /\ Count \in Nat /\ Count >= 2 /\ DOMAIN players = 1..Count
      /\ dealer_index \in 0..(Count - 1) /\ current_player_index \in 0..(Count - 1)
  BY DEF IndInv, TypeOK, SeatsSound, Count
<1>2. sb_index \in 0..(Count - 1) /\ bb_index \in 0..(Count - 1)
  BY <1>1, TurnTypes
<1>3. After(dealer_index, 1) = IF dealer_index + 1 < Count THEN dealer_index + 1 ELSE dealer_index + 1 - Count
  BY <1>1, AfterWraps DEF After
<1>4. After(dealer_index, 2) = IF dealer_index + 2 < Count THEN dealer_index + 2 ELSE dealer_index + 2 - Count
  BY <1>1, AfterWraps DEF After
<1>5. sb_index # bb_index
  BY <1>1, <1>3, <1>4 DEF sb_index, bb_index
<1>6. PlayerAt(sb_index) # PlayerAt(bb_index)
  BY <1>1, <1>2, <1>5 DEF IndInv, SeatsSound, PlayerAt
<1>7. QED BY <1>1, <1>2, <1>6, IndexTypes

(* What contribute does to the books: what a player really puts in is added
   to the bet of the street, to the contribution and to the pot. *)
LEMMA ContributeBooks ==
  ASSUME IndInv, NEW p \in Seated, NEW amount \in Nat, contribute(p, amount)
  PROVE  /\ Actual(p, amount) \in Nat /\ Actual(p, amount) <= amount /\ Actual(p, amount) <= chips[p]
         /\ chips'[p] = chips[p] - Actual(p, amount)
         /\ round_bets'[p] = round_bets[p] + Actual(p, amount)
         /\ total_contributed'[p] = total_contributed[p] + Actual(p, amount)
         /\ pot' = pot + Actual(p, amount)
         /\ \A q \in Seated \ {p} : /\ chips'[q] = chips[q] /\ round_bets'[q] = round_bets[q]
                                    /\ total_contributed'[q] = total_contributed[q]
         /\ all_in_players \subseteq all_in_players'
<1>1. /\ chips \in [Seated -> Nat] /\ round_bets \in [Seated -> Nat]
      /\ total_contributed \in [Player -> Nat] /\ Seated \subseteq Player
  BY DEF IndInv, TypeOK, Seated
<1>2. Actual(p, amount) \in Nat /\ Actual(p, amount) <= amount /\ Actual(p, amount) <= chips[p]
  BY <1>1 DEF Actual, MinOf
<1>3. /\ chips' = [chips EXCEPT ![p] = chips[p] - Actual(p, amount)]
      /\ round_bets' = [round_bets EXCEPT ![p] = round_bets[p] + Actual(p, amount)]
      /\ total_contributed' = [total_contributed EXCEPT ![p] = total_contributed[p] + Actual(p, amount)]
      /\ pot' = pot + Actual(p, amount)
      /\ all_in_players \subseteq all_in_players'
  BY DEF contribute
<1>4. QED BY <1>1, <1>2, <1>3

(* Who posts the big blind does not change while dealer and seats do not. *)
LEMMA BigBlindStays ==
  ASSUME UNCHANGED <<players, dealer_index>>
  PROVE  PlayerAt(bb_index)' = PlayerAt(bb_index) /\ PlayerAt(sb_index)' = PlayerAt(sb_index)
BY DEF PlayerAt, bb_index, sb_index, After, Count

(* A hand begins level: the blinds are all there is. *)
LEMMA StartStreet == BetInv /\ Start => StreetLevel'
<1> SUFFICES ASSUME BetInv, Start, ~ShortBigBlind'
             PROVE  /\ \A p \in Seated' : round_bets'[p] <= current_bet'
                    /\ \A p \in CanAct', q \in Seated' : EarlierStreets(p)' >= EarlierStreets(q)'
  BY DEF StreetLevel
<1> DEFINE sb == PlayerAt(sb_index)
           bb == PlayerAt(bb_index)
<1>1. IndInv /\ Seated' = Seated /\ pc # "ended" /\ Seated \subseteq Player
  BY SeatedUnchanged, ActiveFinite DEF BetInv, TurnInv, Start
<1>2. sb \in Seated /\ bb \in Seated /\ sb # bb
  BY <1>1, BlindsDiffer
<1>3. PlayerAt(bb_index)' = bb
  BY BigBlindStays DEF Start
<1>4. /\ round_bets' = Blind /\ current_bet' = Blind[bb]
      /\ \A p \in Seated : total_contributed'[p] = Blind[p]
      /\ all_in_players' = {p \in {sb, bb} : chips[p] = Blind[p]}
  BY <1>1 DEF Start
<1> HIDE DEF sb, bb
<1>5. /\ Blind[bb] = MinOf(BigBlind, chips[bb]) /\ Blind[sb] = MinOf(SmallBlind, chips[sb])
      /\ \A p \in Seated : p # sb /\ p # bb => Blind[p] = 0
  BY <1>2 DEF Blind, Actual, sb, bb
<1>6. \A p \in Seated : chips[p] \in Nat
  BY <1>1 DEF IndInv, TypeOK
<1>7. ~(bb \in all_in_players' /\ total_contributed'[bb] < SmallBlind)
  BY <1>3 DEF ShortBigBlind
<1>8. Blind[bb] \in Nat /\ Blind[sb] \in Nat /\ Blind[sb] <= Blind[bb]
  <2>1. Blind[bb] \in Nat /\ Blind[sb] \in Nat /\ Blind[sb] <= SmallBlind
    BY <1>2, <1>5, <1>6, BlindAssumption DEF MinOf
  <2>2. CASE bb \notin all_in_players'
    <3>1. chips[bb] # Blind[bb]
      BY <1>4, <2>2
    <3>2. Blind[bb] = BigBlind
      BY <1>2, <1>5, <1>6, <3>1, BlindAssumption DEF MinOf
    <3>3. QED BY <2>1, <3>2, BlindAssumption
  <2>3. CASE ~(Blind[bb] < SmallBlind)
    BY <2>1, <2>3, BlindAssumption
  <2>4. QED BY <1>2, <1>4, <1>7, <2>1, <2>2, <2>3
<1>9. \A p \in Seated : Blind[p] \in Nat /\ Blind[p] <= Blind[bb]
  BY <1>5, <1>8
<1>10. \A p \in Seated : EarlierStreets(p)' = 0
  BY <1>4, <1>9 DEF EarlierStreets
<1>11. CanAct' \subseteq Seated
  BY <1>1 DEF CanAct
<1>12. QED BY <1>1, <1>4, <1>9, <1>10, <1>11

(* Passing on the turn moves no chips. *)
LEMMA AskStreet == BetInv /\ AskCurrentPlayer => StreetLevel'
<1> SUFFICES ASSUME BetInv, AskCurrentPlayer PROVE StreetLevel'
  OBVIOUS
<1> USE DEF AskCurrentPlayer, table, status, betting
<1>1. Seated' = Seated /\ CanAct' = CanAct
  BY SeatedUnchanged DEF CanAct
<1>2. ShortBigBlind' = ShortBigBlind /\ Intact' = Intact
  BY <1>1, BigBlindStays DEF ShortBigBlind, Intact
<1>3. InHand' => InHand
  BY DEF InHand
<1>4. \A p : EarlierStreets(p)' = EarlierStreets(p)
  BY DEF EarlierStreets
<1>5. QED BY <1>1, <1>2, <1>3, <1>4 DEF BetInv, StreetLevel

(* is_round_complete ends a street only when every player who can act has
   called, so that the next street begins level. *)
LEMMA NextPhaseStreet == BetInv /\ NextPhase => StreetLevel'
<1> SUFFICES ASSUME BetInv, NextPhase, InHand', Intact', ~ShortBigBlind'
             PROVE  /\ \A p \in Seated' : round_bets'[p] <= current_bet'
                    /\ \A p \in CanAct', q \in Seated' : EarlierStreets(p)' >= EarlierStreets(q)'
  BY DEF StreetLevel
<1>1. /\ UNCHANGED <<players, dealer_index, stake, total_contributed, folded_players, all_in_players, game_over>>
      /\ pc = "next_phase"
  BY DEF NextPhase, history
<1>2. Seated' = Seated /\ CanAct' = CanAct /\ Seated \subseteq Player /\ CanAct \subseteq Active
      /\ IndInv
  BY <1>1, SeatedUnchanged, ActiveFinite DEF CanAct, Active, BetInv, TurnInv
<1>3. ~ShortBigBlind /\ Intact /\ InHand
  BY <1>1, <1>2, BigBlindStays DEF ShortBigBlind, Intact, InHand
<1>4. /\ \A p \in Seated : round_bets[p] <= current_bet
      /\ \A p \in CanAct, q \in Seated : EarlierStreets(p) >= EarlierStreets(q)
  BY <1>3 DEF BetInv, StreetLevel
<1>5. /\ current_bet' = 0 /\ round_bets' = [p \in Seated |-> 0] /\ Cardinality(Active) # 1
  BY DEF NextPhase, InHand
<1>6. ASSUME NEW p \in CanAct PROVE round_bets[p] >= current_bet
  <2>1. is_round_complete
    BY <1>1 DEF BetInv, TurnInv, HandGoesOn
  <2>2. p \in Active /\ p \notin all_in_players
    BY DEF CanAct, Active
  <2>3. ~(Cardinality(Active) <= 1)
    BY <1>2, <1>5, <2>2, ActiveFinite
  <2>4. QED BY <2>1, <2>2, <2>3 DEF is_round_complete
<1>7. \A p \in Seated : total_contributed[p] \in Nat /\ round_bets[p] \in Nat
  BY <1>2 DEF IndInv, TypeOK
<1>8. ASSUME NEW p \in CanAct, NEW q \in Seated PROVE total_contributed[p] >= total_contributed[q]
  <2>1. p \in Seated /\ current_bet \in Nat
    BY <1>2 DEF CanAct, IndInv, TypeOK
  <2>2. total_contributed[p] - round_bets[p] >= total_contributed[q] - round_bets[q]
    BY <1>4 DEF EarlierStreets
  <2>3. QED BY <1>4, <1>6, <1>7, <2>1, <2>2
<1>9. \A p \in Seated : EarlierStreets(p)' = total_contributed[p]
  BY <1>1, <1>5, <1>7 DEF EarlierStreets
<1>10. QED BY <1>2, <1>5, <1>8, <1>9 DEF CanAct

(* A bet of the player whose turn it is keeps the street level, as long as it
   is not more than the bet to be called afterwards. *)
LEMMA BetStreet ==
  ASSUME BetInv, NEW p, Turn(p), NEW amount \in Nat, contribute(p, amount),
         UNCHANGED <<players, dealer_index, stake, folded_players, game_over>>,
         current_bet' \in Nat, current_bet <= current_bet',
         InHand', Intact', ~ShortBigBlind',
         InHand /\ Intact /\ ~ShortBigBlind => round_bets[p] + amount <= current_bet'
  PROVE  /\ \A q \in Seated' : round_bets'[q] <= current_bet'
         /\ \A r \in CanAct', q \in Seated' : EarlierStreets(r)' >= EarlierStreets(q)'
<1>1. /\ IndInv /\ p \in Seated /\ pc = "idle" /\ Seated' = Seated /\ p = Current
      /\ Seated \subseteq Player
  BY SeatedUnchanged, ActiveFinite DEF BetInv, TurnInv, Turn
<1>2. Intact /\ InHand
  BY <1>1 DEF Intact, InHand
<1>3. p \in CanAct
  BY <1>1, <1>2 DEF BetInv, TurnInv, HandGoesOn, InHand
<1>4. /\ Actual(p, amount) \in Nat /\ Actual(p, amount) <= amount
      /\ round_bets'[p] = round_bets[p] + Actual(p, amount)
      /\ total_contributed'[p] = total_contributed[p] + Actual(p, amount)
      /\ \A q \in Seated \ {p} : /\ round_bets'[q] = round_bets[q]
                                 /\ total_contributed'[q] = total_contributed[q]
      /\ all_in_players \subseteq all_in_players'
  BY <1>1, ContributeBooks
<1>5. ~ShortBigBlind
  <2> SUFFICES ASSUME ShortBigBlind PROVE FALSE
    OBVIOUS
  <2> DEFINE bb == PlayerAt(bb_index)
  <2>1. bb \in all_in_players /\ total_contributed[bb] < SmallBlind /\ bb \in Seated
    BY <1>1, BlindsDiffer DEF ShortBigBlind
  <2>2. bb # p
    BY <1>3, <2>1 DEF CanAct
  <2>3. PlayerAt(bb_index)' = bb
    BY BigBlindStays
  <2> HIDE DEF bb
  <2>4. bb \in all_in_players' /\ total_contributed'[bb] < SmallBlind
    BY <1>4, <2>1, <2>2
  <2>5. QED BY <2>3, <2>4 DEF ShortBigBlind
<1>6. /\ \A q \in Seated : round_bets[q] <= current_bet
      /\ \A r \in CanAct, q \in Seated : EarlierStreets(r) >= EarlierStreets(q)
      /\ round_bets[p] + amount <= current_bet'
  BY <1>2, <1>5 DEF BetInv, StreetLevel
<1>7. \A q \in Seated : total_contributed[q] \in Nat /\ round_bets[q] \in Nat /\ current_bet \in Nat
  BY <1>1 DEF IndInv, TypeOK
<1>8. ASSUME NEW q \in Seated PROVE round_bets'[q] <= current_bet'
  <2>1. CASE q = p
    BY <1>1, <1>4, <1>6, <1>7, <2>1
  <2>2. CASE q # p
    BY <1>4, <1>6, <1>7, <2>2
  <2>3. QED BY <2>1, <2>2
<1>9. ASSUME NEW q \in Seated PROVE EarlierStreets(q)' = EarlierStreets(q)
  <2>1. CASE q = p
    BY <1>1, <1>4, <1>7, <2>1 DEF EarlierStreets
  <2>2. CASE q # p
    BY <1>4, <2>2 DEF EarlierStreets
  <2>3. QED BY <2>1, <2>2
<1>10. CanAct' \subseteq CanAct /\ CanAct \subseteq Seated
  BY <1>1, <1>4 DEF CanAct
<1>11. QED BY <1>1, <1>6, <1>8, <1>9, <1>10

(* Folding, checking, or calling a bet that is already matched moves no chip,
   and nobody joins those who can act. *)
LEMMA PassStreet ==
  ASSUME BetInv, NEW p, Turn(p), InHand', Intact', ~ShortBigBlind', folded_players \subseteq folded_players',
         UNCHANGED <<players, dealer_index, stake, game_over, round_bets, total_contributed, all_in_players,
                     current_bet>>
  PROVE  /\ \A q \in Seated' : round_bets'[q] <= current_bet'
         /\ \A r \in CanAct', q \in Seated' : EarlierStreets(r)' >= EarlierStreets(q)'
<1>1. Seated' = Seated /\ pc = "idle"
  BY SeatedUnchanged DEF Turn
<1>2. CanAct' \subseteq CanAct
  BY <1>1 DEF CanAct
<1>3. InHand /\ Intact /\ ~ShortBigBlind
  BY <1>1, BigBlindStays DEF InHand, Intact, ShortBigBlind
<1>4. \A q : EarlierStreets(q)' = EarlierStreets(q)
  BY DEF EarlierStreets
<1>5. QED BY <1>1, <1>2, <1>3, <1>4 DEF BetInv, StreetLevel

(* An action of a player keeps the street level; above all a call, whose
   unsigned subtraction cannot wrap around when nobody is ahead of the bet. *)
LEMMA ActionStreet ==
  ASSUME BetInv, NEW p, Fold(p) \/ Check(p) \/ Call(p) \/ \E amount \in RaiseAmounts : Raise(p, amount)
  PROVE  StreetLevel'
<1> SUFFICES ASSUME InHand', Intact', ~ShortBigBlind'
             PROVE  /\ \A q \in Seated' : round_bets'[q] <= current_bet'
                    /\ \A r \in CanAct', q \in Seated' : EarlierStreets(r)' >= EarlierStreets(q)'
  BY DEF StreetLevel
<1>1. Turn(p) /\ UNCHANGED <<players, dealer_index, stake, game_over>>
  BY DEF Fold, Check, Call, Raise, table
<1>2. /\ IndInv /\ p \in Seated /\ round_bets[p] \in Nat /\ current_bet \in Nat
      /\ UIntRange \in Nat
  BY <1>1, BoundAssumption DEF BetInv, TurnInv, IndInv, TypeOK, Turn
<1>3. CASE Fold(p) \/ Check(p)
  BY <1>1, <1>3, PassStreet DEF Fold, Check, table, betting
<1>4. CASE Call(p)
  <2>1. UNCHANGED <<folded_players, current_bet>>
    BY <1>4 DEF Call, betting
  <2>2. CASE ToCall(p) = 0 /\ UNCHANGED <<round_bets, total_contributed, all_in_players>>
    BY <1>1, <2>1, <2>2, PassStreet
  <2>3. CASE ToCall(p) > 0 /\ contribute(p, ToCall(p))
    <3>1. ASSUME InHand, Intact, ~ShortBigBlind PROVE round_bets[p] <= current_bet
      BY <1>2, <3>1 DEF BetInv, StreetLevel
    <3>2. CASE round_bets[p] <= current_bet
      <4>1. ToCall(p) \in Nat /\ round_bets[p] + ToCall(p) = current_bet
        BY <1>2, <3>2 DEF ToCall, Minus
      <4>2. current_bet' \in Nat /\ current_bet <= current_bet' /\ round_bets[p] + ToCall(p) <= current_bet'
        BY <1>2, <2>1, <4>1
      <4> HIDE DEF ToCall
      <4>3. QED BY <1>1, <2>1, <2>3, <4>1, <4>2, BetStreet
    <3>3. CASE ~(round_bets[p] <= current_bet)
      <4>1. Intact /\ InHand /\ pc = "idle"
        BY <1>1, SeatedUnchanged DEF Intact, InHand, Turn
      <4>2. ShortBigBlind
        BY <3>1, <3>3, <4>1
      <4>3. p \in CanAct
        BY <1>1, <4>1 DEF BetInv, TurnInv, HandGoesOn, InHand, Turn
      <4> DEFINE bb == PlayerAt(bb_index)
      <4>4. bb \in all_in_players /\ total_contributed[bb] < SmallBlind /\ bb \in Seated
        BY <1>2, <4>1, <4>2, BlindsDiffer DEF ShortBigBlind
      <4>5. bb # p /\ PlayerAt(bb_index)' = bb
        BY <1>1, <4>3, <4>4, BigBlindStays DEF CanAct
      <4> HIDE DEF bb
      <4>6. bb \in all_in_players' /\ total_contributed'[bb] = total_contributed[bb]
        BY <1>2, <2>3, <4>4, <4>5 DEF contribute
      <4>7. QED BY <4>4, <4>5, <4>6 DEF ShortBigBlind
    <3>4. QED BY <3>2, <3>3
  <2>4. QED BY <1>4, <2>2, <2>3 DEF Call
<1>5. ASSUME NEW amount \in RaiseAmounts, Raise(p, amount)
      PROVE  /\ \A q \in Seated' : round_bets'[q] <= current_bet'
             /\ \A r \in CanAct', q \in Seated' : EarlierStreets(r)' >= EarlierStreets(q)'
  <2>1. /\ contribute(p, amount - round_bets[p]) /\ UNCHANGED folded_players /\ current_bet' = amount
        /\ amount > current_bet /\ amount > round_bets[p]
    BY <1>5 DEF Raise, ValidRaise
  <2>2. amount \in Nat
    BY BoundAssumption DEF RaiseAmounts
  <2>3. /\ amount - round_bets[p] \in Nat /\ round_bets[p] + (amount - round_bets[p]) <= current_bet'
        /\ current_bet' \in Nat /\ current_bet <= current_bet'
    BY <1>2, <2>1, <2>2
  <2>4. QED BY <1>1, <2>1, <2>3, BetStreet
<1>6. QED BY <1>3, <1>4, <1>5

(* Nobody is ahead of the bet, along every hand that nobody leaves. *)
LEMMA BetHolds == Spec => []BetInv
<1>1. Init => BetInv
  <2>1. Init => ~InHand
    BY DEF Init, InHand
  <2>2. QED BY <2>1, InitInv, InitTurn DEF BetInv, TurnInv, StreetLevel
<1>2. BetInv /\ TurnInv' /\ [Next]_vars => BetInv'
  <2> SUFFICES ASSUME BetInv, TurnInv', [Next]_vars PROVE StreetLevel'
    BY DEF BetInv
  <2>1. CASE Start \/ AskCurrentPlayer \/ NextPhase
    BY <2>1, StartStreet, AskStreet, NextPhaseStreet
  <2>2. CASE DoShowdown \/ AwardBegin \/ PayPot \/ AwardEnd \/ TryStartNewHand
    <3>1. ~InHand'
      BY <2>2 DEF DoShowdown, AwardBegin, PayPot, AwardEnd, TryStartNewHand, InHand, BetInv, TurnInv,
                  IndInv, TypeOK
    <3>2. QED BY <3>1 DEF StreetLevel
  <2>3. CASE ErasePlayer
    BY <2>3, EraseActive DEF BetInv, StreetLevel
  <2>4. CASE Leave
    <3>1. ~InHand'
      BY <2>4 DEF Leave, RemovePlayer, InHand
    <3>2. QED BY <3>1 DEF StreetLevel
  <2>5. CASE UNCHANGED vars
    <3> USE <2>5 DEF vars, table, status, betting, turn, award, history
    <3>1. Seated' = Seated /\ CanAct' = CanAct /\ Intact' = Intact /\ InHand' = InHand
      BY SeatedUnchanged DEF CanAct, Intact, InHand
    <3>2. ShortBigBlind' = ShortBigBlind
      BY BigBlindStays DEF ShortBigBlind
    <3>3. \A p : EarlierStreets(p)' = EarlierStreets(p)
      BY DEF EarlierStreets
    <3>4. QED BY <3>1, <3>2, <3>3 DEF BetInv, StreetLevel
  <2>6. CASE Message
    BY <2>5, <2>6, ActionStreet DEF Message, RejectAction
  <2>7. QED BY <2>1, <2>2, <2>3, <2>4, <2>5, <2>6 DEF Next, Step
<1>3. QED BY <1>1, <1>2, TurnHolds, PTL DEF Spec

(* In a hand that nobody has left the player to act is never ahead of the bet,
   so that the amount to call does not wrap around. *)
THEOREM NobodyBetsAhead == Spec => []NeverBetAhead
<1>1. BetInv => NeverBetAhead
  <2> SUFFICES ASSUME BetInv, pc = "idle", ~game_over, Undisturbed, ~ShortBigBlind
               PROVE  round_bets[Current] <= current_bet
    BY DEF NeverBetAhead
  <2>1. Current \in Seated
    BY DEF BetInv, TurnInv, HandGoesOn, Undisturbed, Intact, CanAct
  <2>2. QED BY <2>1 DEF BetInv, StreetLevel, InHand, Undisturbed, Intact
<1>2. QED BY <1>1, BetHolds, PTL

(* At a showdown everybody who is not all-in has put in as much as anybody. *)
THEOREM ShowdownIsEqual == Spec => []EqualStakesAtShowdown
<1>1. BetInv => EqualStakesAtShowdown
  <2> SUFFICES ASSUME BetInv, pc = "showdown", Undisturbed, ~ShortBigBlind,
                      NEW p \in Active, NEW q \in Active, p \notin all_in_players
               PROVE  total_contributed[p] >= total_contributed[q]
    BY DEF EqualStakesAtShowdown
  <2>1. IndInv /\ p \in Seated /\ q \in Seated /\ p \in CanAct /\ Seated \subseteq Player
    BY ActiveFinite DEF BetInv, TurnInv, Active, CanAct
  <2>2. /\ total_contributed[p] \in Nat /\ total_contributed[q] \in Nat
        /\ round_bets[p] \in Nat /\ round_bets[q] \in Nat
    BY <2>1 DEF IndInv, TypeOK
  <2>3. CASE game_over
    <3>1. Cardinality(Active) <= 1
      BY <2>3 DEF BetInv, TurnInv, HandGoesOn
    <3>2. Active # {}
      OBVIOUS
    <3>3. Cardinality(Active) = 1
      BY <2>1, <3>1, <3>2, ActiveFinite
    <3>4. p = q
      BY <2>1, <3>3, ActiveFinite
    <3>5. QED BY <2>2, <3>4
  <2>4. CASE ~game_over
    <3>1. /\ total_contributed[p] - round_bets[p] >= total_contributed[q] - round_bets[q]
      BY <2>1, <2>4 DEF BetInv, StreetLevel, InHand, Undisturbed, Intact, EarlierStreets
    <3>2. round_bets[p] = 0 /\ round_bets[q] = 0
      BY <2>1 DEF BetInv, TurnInv, HandGoesOn
    <3>3. QED BY <2>2, <3>1, <3>2
  <2>5. QED BY <2>3, <2>4
<1>2. QED BY <1>1, BetHolds, PTL
-----------------------------------------------------------------------------
(* Where the chips are. *)

\* The pot is what the players put in, and more once a contributor has left.
PotCovers ==
    /\ pot >= SumOver(total_contributed, Seated)
    /\ Intact => pot = SumOver(total_contributed, Seated)

\* Where the pot has been paid out.
PotGone ==
    /\ pc \in {"start", "try_start"} => pot = 0
    /\ pc \in {"erase", "idle"} /\ Cardinality(Active) = 1 => pot = 0
    /\ Active = {} /\ phase # "Showdown" => pot = 0

\* While the pots are paid, the layers are peeled off everybody alike, and
\* only a player without chips outside the pots stops competing.
AwardLevel ==
    pc = "pay_pot" =>
        /\ \A p \in Seated : remaining[p] <= total_contributed[p]
        /\ \A p, q \in Seated : remaining[q] > 0 =>
             total_contributed[p] - remaining[p] <= total_contributed[q] - remaining[q]
        /\ \A q \in Active \ eligible : remaining[q] = 0
        /\ \A p \in eligible : strength[p] \in 1..Cardinality(Active)

\* Unless a pot is being paid, the saved balances cover the stacks.
Covered ==
    (pc # "pay_pot" \/ \A p \in Seated : remaining[p] = total_contributed[p]) =>
        \A p \in Seated : db[p] >= chips[p]

MoneyInv == PotCovers /\ PotGone /\ AwardLevel /\ Covered

TableInv == TurnInv /\ MoneyInv

(* What the invariants say about the types of the amounts. *)
LEMMA MoneyTypes ==
  ASSUME IndInv
  PROVE  /\ IsFiniteSet(Seated) /\ Seated \subseteq Player
         /\ chips \in [Seated -> Nat] /\ total_contributed \in [Player -> Nat] /\ db \in [Player -> Nat]
         /\ pot \in Nat
         /\ SumOver(total_contributed, Seated) \in Nat /\ SumOver(chips, Seated) \in Nat
         /\ IsFiniteSet(Player \ Seated) /\ SumOver(db, Player \ Seated) \in Nat
<1>1. /\ IsFiniteSet(Seated) /\ Seated \subseteq Player
      /\ chips \in [Seated -> Nat] /\ total_contributed \in [Player -> Nat] /\ db \in [Player -> Nat]
      /\ pot \in Nat
  BY ActiveFinite DEF IndInv, TypeOK
<1>2. SumOver(total_contributed, Seated) \in Nat
  <2>1. \A p \in Seated : total_contributed[p] \in Nat
    BY <1>1
  <2>2. QED BY <1>1, <2>1, SumOverType
<1>3. SumOver(chips, Seated) \in Nat
  <2>1. \A p \in Seated : chips[p] \in Nat
    BY <1>1
  <2>2. QED BY <1>1, <2>1, SumOverType
<1>4. IsFiniteSet(Player \ Seated)
  BY PlayerAssumption, FS_Subset
<1>5. SumOver(db, Player \ Seated) \in Nat
  <2>1. \A p \in Player \ Seated : db[p] \in Nat
    BY <1>1
  <2>2. QED BY <1>4, <2>1, SumOverType
<1>6. QED BY <1>1, <1>2, <1>3, <1>4, <1>5

(* A pot has a winner among its contenders, and the odd chips go to one. *)
LEMMA SomeoneWins ==
  ASSUME TableInv, pc = "pay_pot", eligible # {}
  PROVE  /\ Winners \subseteq Seated /\ IsFiniteSet(Winners) /\ FirstWinner \in Winners
         /\ Cardinality(Winners) \in Nat /\ Cardinality(Winners) >= 1
<1> DEFINE n == Cardinality(Active)
<1>1. /\ IndInv /\ n \in Nat /\ eligible \subseteq Active /\ IsFiniteSet(Active) /\ Active \subseteq Seated
      /\ \A p \in eligible : strength[p] \in 1..n
  BY ActiveFinite DEF TableInv, TurnInv, MoneyInv, AwardLevel, IndInv, AwardSound, Active
<1> DEFINE D == {n - strength[p] : p \in eligible}
<1> HIDE DEF n
<1>2. D \in SUBSET Nat /\ D # {}
  BY <1>1
<1>3. PICK p \in eligible : n - strength[p] = Min(D)
  BY <1>2, MinInSet
<1>4. \A q \in eligible : n - strength[p] <= n - strength[q]
  <2>1. \A y \in D : Min(D) <= y
    BY <1>2, MinInSet
  <2>2. \A q \in eligible : n - strength[q] \in D
    OBVIOUS
  <2>3. QED BY <1>3, <2>1, <2>2
<1>5. p \in Winners
  BY <1>1, <1>4 DEF Winners
<1>6. Winners \subseteq Seated /\ IsFiniteSet(Winners)
  BY <1>1, FS_Subset DEF Winners
<1>7. Cardinality(Winners) \in Nat /\ Cardinality(Winners) >= 1
  BY <1>5, <1>6, FS_CardinalityType, FS_EmptySet
<1> DEFINE I == {i \in 0..(Count - 1) : PlayerAt(i) \in Winners}
<1>8. I \in SUBSET Nat /\ I # {}
  <2>1. PICK j \in DOMAIN players : players[j] = p
    BY <1>5, <1>6 DEF Seated
  <2>2. j \in 1..Count /\ Count \in Nat
    <3>1. players \in Seq(Player)
      BY <1>1 DEF IndInv, TypeOK
    <3>2. QED BY <3>1 DEF Count
  <2>3. j - 1 \in 0..(Count - 1) /\ PlayerAt(j - 1) = p
    BY <2>1, <2>2 DEF PlayerAt
  <2>4. QED BY <1>5, <2>2, <2>3
<1>9. Min(I) \in I
  BY <1>8, MinInSet
<1>10. FirstWinner \in Winners
  BY <1>9 DEF FirstWinner
<1>11. QED BY <1>6, <1>7, <1>10

(* Dividing a pot and giving the rest to one winner hands out the whole pot. *)
LEMMA PrizesAddUp ==
  ASSUME TableInv, pc = "pay_pot", eligible # {}, NEW amount \in Nat
  PROVE  /\ \A p \in Seated : Prize(p, amount) \in Nat
         /\ SumOver([p \in Seated |-> Prize(p, amount)], Seated) = amount
<1> DEFINE k == Cardinality(Winners)
           d == amount \div k
           r == amount % k
           base == [p \in Seated |-> IF p \in Winners THEN d ELSE 0]
           odd == [p \in Seated |-> IF p = FirstWinner THEN r ELSE 0]
           prize == [p \in Seated |-> Prize(p, amount)]
<1>1. /\ Winners \subseteq Seated /\ IsFiniteSet(Winners) /\ FirstWinner \in Winners
      /\ k \in Nat /\ k >= 1 /\ IsFiniteSet(Seated)
  BY SomeoneWins, MoneyTypes DEF TableInv, TurnInv
<1>2. d \in Nat /\ r \in Nat /\ k * d + r = amount
  <2>1. \A b \in Nat : b >= 1 => /\ amount \div b \in Nat /\ amount % b \in Nat
                                  /\ b * (amount \div b) + (amount % b) = amount
    OBVIOUS
  <2>2. QED BY <1>1, <2>1
<1>3. \A p \in Seated : Prize(p, amount) = base[p] + odd[p]
  BY <1>1, <1>2 DEF Prize
<1> HIDE DEF k, d, r
<1>4. \A p \in Seated : base[p] \in Nat /\ odd[p] \in Nat /\ prize[p] = base[p] + odd[p]
  BY <1>2, <1>3
<1>5. SumOver(prize, Seated) = SumOver(base, Seated) + SumOver(odd, Seated)
  <2> HIDE DEF base, odd, prize
  <2>1. QED BY <1>1, <1>4, SumAdd
<1>6. SumOver(odd, Seated) = r
  <2>1. FirstWinner \in Seated /\ odd[FirstWinner] = r /\ \A p \in Seated : p # FirstWinner => odd[p] = 0
    BY <1>1
  <2> HIDE DEF odd
  <2>2. QED BY <1>1, <1>2, <2>1, SumPoint
<1>7. SumOver(base, Seated) = k * d
  <2>1. /\ \A p \in Winners : base[p] = d
        /\ \A p \in Seated \ Winners : base[p] = 0
    BY <1>1
  <2> DEFINE L == Seated \ Winners
  <2>2. IsFiniteSet(L) /\ Winners \cap L = {} /\ Winners \cup L = Seated
    BY <1>1, FS_Subset
  <2> HIDE DEF base
  <2>3. SumOver(base, Winners) = k * d
    BY <1>1, <1>2, <2>1, SumConst DEF k
  <2>4. SumOver(base, L) = 0
    BY <1>4, <2>1, <2>2, SumZero
  <2> HIDE DEF L
  <2>5. SumOver(base, Winners \cup L) = SumOver(base, Winners) + SumOver(base, L)
    BY <1>1, <1>4, <2>2, SumDisjoint
  <2>6. SumOver(base, Winners \cup L) = SumOver(base, Seated)
    BY <2>2, Zenon
  <2>7. k * d \in Nat
    BY <1>1, <1>2
  <2>8. QED BY <2>3, <2>4, <2>5, <2>6, <2>7
<1>8. QED BY <1>2, <1>4, <1>5, <1>6, <1>7

(* A step that leaves seats, stacks, contributions, the pot and the balances
   alone, outside an award. *)
LEMMA QuietMoney ==
  ASSUME TableInv, UNCHANGED <<players, chips, total_contributed, pot, db, stake>>,
         pc # "pay_pot", pc' # "pay_pot"
  PROVE  PotCovers' /\ AwardLevel' /\ Covered' /\ InPot' = InPot /\ Wealth' = Wealth
<1>1. Seated' = Seated /\ Intact' = Intact
  BY SeatedUnchanged DEF Intact
<1>2. PotCovers'
  BY <1>1 DEF TableInv, MoneyInv, PotCovers
<1>3. AwardLevel' /\ Covered'
  BY <1>1 DEF TableInv, MoneyInv, AwardLevel, Covered
<1>4. InPot' = pot /\ InPot = pot
  BY DEF InPot
<1>5. Wealth' = Wealth
  BY <1>1, <1>4 DEF Wealth
<1>6. QED BY <1>2, <1>3, <1>4, <1>5

(* A bet moves chips from one stack to the pot. *)
LEMMA BetMoney ==
  ASSUME TableInv, NEW p \in Seated, NEW amount \in Nat, contribute(p, amount),
         UNCHANGED <<players, db, stake>>, pc # "pay_pot", pc' # "pay_pot"
  PROVE  /\ PotCovers' /\ AwardLevel' /\ Covered'
         /\ InPot = pot /\ InPot' = pot' /\ Wealth' = Wealth
         /\ chips' \in [Seated -> Nat] /\ chips'[p] <= chips[p]
         /\ \A q \in Seated \ {p} : chips'[q] = chips[q]
         /\ pot' + SumOver(chips', Seated) = pot + SumOver(chips, Seated)
<1> DEFINE a == Actual(p, amount)
<1>1. /\ IsFiniteSet(Seated) /\ Seated \subseteq Player
      /\ chips \in [Seated -> Nat] /\ total_contributed \in [Player -> Nat] /\ db \in [Player -> Nat]
      /\ pot \in Nat
      /\ SumOver(total_contributed, Seated) \in Nat /\ SumOver(chips, Seated) \in Nat
      /\ SumOver(db, Player \ Seated) \in Nat
  BY MoneyTypes DEF TableInv, TurnInv
<1>2. /\ a \in Nat /\ a <= chips[p] /\ pot' = pot + a
      /\ chips'[p] = chips[p] - a /\ total_contributed'[p] = total_contributed[p] + a
      /\ \A q \in Seated \ {p} : chips'[q] = chips[q] /\ total_contributed'[q] = total_contributed[q]
  BY ContributeBooks DEF TableInv, TurnInv
<1>3. chips' \in [Seated -> Nat] /\ total_contributed' \in [Player -> Nat]
  BY ContributeStep DEF TableInv, TurnInv
<1> HIDE DEF a
<1>4. Seated' = Seated /\ Intact' = Intact
  BY SeatedUnchanged DEF Intact
<1>5. SumOver(chips', Seated) = SumOver(chips, Seated) - a /\ SumOver(chips', Seated) \in Nat
  <2>1. \A q \in Seated : chips[q] \in Nat /\ chips'[q] \in Nat /\ (q # p => chips'[q] = chips[q])
    BY <1>1, <1>2, <1>3
  <2>2. SumOver(chips', Seated) + chips[p] = SumOver(chips, Seated) + chips'[p]
    BY <1>1, <2>1, SumUpdate
  <2>3. SumOver(chips', Seated) \in Nat
    BY <1>1, <2>1, SumOverType
  <2>4. QED BY <1>1, <1>2, <2>1, <2>2, <2>3
<1>6. SumOver(total_contributed', Seated) = SumOver(total_contributed, Seated) + a
  <2>1. \A q \in Seated : /\ total_contributed[q] \in Nat /\ total_contributed'[q] \in Nat
                           /\ (q # p => total_contributed'[q] = total_contributed[q])
    BY <1>1, <1>2, <1>3
  <2>2. SumOver(total_contributed', Seated) + total_contributed[p]
          = SumOver(total_contributed, Seated) + total_contributed'[p]
    BY <1>1, <2>1, SumUpdate
  <2>3. SumOver(total_contributed', Seated) \in Nat
    BY <1>1, <2>1, SumOverType
  <2>4. QED BY <1>1, <1>2, <2>1, <2>2, <2>3
<1>7. PotCovers'
  <2>1. /\ pot >= SumOver(total_contributed, Seated)
        /\ Intact => pot = SumOver(total_contributed, Seated)
    BY DEF TableInv, MoneyInv, PotCovers
  <2>2. /\ pot' >= SumOver(total_contributed', Seated)
        /\ Intact => pot' = SumOver(total_contributed', Seated)
    BY <1>1, <1>2, <1>6, <2>1
  <2>3. QED BY <1>4, <2>2 DEF PotCovers
<1>8. InPot = pot /\ InPot' = pot'
  BY DEF InPot
<1>9. Wealth' = Wealth
  <2>1. Wealth' = SumOver(chips', Seated) + pot' + SumOver(db, Player \ Seated)
    BY <1>4, <1>8 DEF Wealth
  <2>2. Wealth = SumOver(chips, Seated) + pot + SumOver(db, Player \ Seated)
    BY <1>8 DEF Wealth
  <2>3. QED BY <1>1, <1>2, <1>5, <2>1, <2>2
<1>10. chips'[p] <= chips[p]
  BY <1>1, <1>2
<1>11. Covered' /\ AwardLevel'
  <2>1. \A q \in Seated : db[q] >= chips[q] /\ db[q] \in Nat /\ chips[q] \in Nat /\ chips'[q] \in Nat
    BY <1>1, <1>3 DEF TableInv, MoneyInv, Covered
  <2>2. \A q \in Seated : db[q] >= chips'[q]
    BY <1>2, <1>10, <2>1
  <2>3. QED BY <1>4, <2>2 DEF Covered, AwardLevel
<1>12. QED BY <1>1, <1>2, <1>3, <1>5, <1>7, <1>8, <1>9, <1>10, <1>11

(* The blinds of a new hand are all that is in its pot. *)
LEMMA StartMoney ==
  ASSUME TableInv, Start
  PROVE  /\ MoneyInv'
         /\ InPot = 0 /\ InPot' = pot' /\ Wealth' = Wealth
         /\ chips' \in [Seated -> Nat] /\ \A p \in Seated : chips'[p] <= chips[p]
         /\ pot' + SumOver(chips', Seated) = SumOver(chips, Seated)
<1> DEFINE sb == PlayerAt(sb_index)
           bb == PlayerAt(bb_index)
<1>1. /\ IsFiniteSet(Seated) /\ Seated \subseteq Player
      /\ chips \in [Seated -> Nat] /\ db \in [Player -> Nat]
      /\ SumOver(chips, Seated) \in Nat /\ SumOver(db, Player \ Seated) \in Nat
      /\ IndInv /\ Seated' = Seated /\ pot = 0
  BY MoneyTypes, SeatedUnchanged DEF TableInv, TurnInv, MoneyInv, PotGone, Start
<1>2. sb \in Seated /\ bb \in Seated /\ sb # bb
  BY <1>1, BlindsDiffer DEF Start
<1>3. /\ chips' = [p \in Seated |-> chips[p] - Blind[p]] /\ pot' = Blind[sb] + Blind[bb]
      /\ total_contributed' = [p \in Player |-> IF p \in Seated THEN Blind[p] ELSE 0]
      /\ db' = PersistAll(chips') /\ pc' = "ask"
  BY DEF Start
<1> HIDE DEF sb, bb
<1>4. /\ Blind[bb] = MinOf(BigBlind, chips[bb]) /\ Blind[sb] = MinOf(SmallBlind, chips[sb])
      /\ \A p \in Seated : p # sb /\ p # bb => Blind[p] = 0
  BY <1>2 DEF Blind, Actual, sb, bb
<1>5. \A p \in Seated : Blind[p] \in Nat /\ Blind[p] <= chips[p]
  <2>1. /\ Blind[bb] \in Nat /\ Blind[bb] <= chips[bb]
        /\ Blind[sb] \in Nat /\ Blind[sb] <= chips[sb]
    BY <1>1, <1>2, <1>4, BlindAssumption DEF MinOf
  <2>2. QED BY <1>1, <1>4, <2>1
<1>6. \A p \in Seated : /\ chips'[p] \in Nat /\ chips'[p] <= chips[p] /\ chips[p] = chips'[p] + Blind[p]
                         /\ chips[p] \in Nat
  BY <1>1, <1>3, <1>5
<1>7. chips' \in [Seated -> Nat]
  BY <1>3, <1>6
<1>8. SumOver(chips, Seated) = SumOver(chips', Seated) + SumOver(Blind, Seated)
  BY <1>1, <1>5, <1>6, SumAdd
<1>9. SumOver(Blind, Seated) = Blind[sb] + Blind[bb]
  <2>1. SumOver(Blind, Seated) = SumOver(Blind, Seated \ {sb}) + Blind[sb]
    BY <1>1, <1>2, <1>5, SumSplit
  <2>2. IsFiniteSet(Seated \ {sb}) /\ bb \in Seated \ {sb} /\ \A p \in Seated \ {sb} : p # bb => Blind[p] = 0
    BY <1>1, <1>2, <1>4, FS_RemoveElement
  <2>3. SumOver(Blind, Seated \ {sb}) = Blind[bb]
    BY <1>2, <1>5, <2>2, SumPoint
  <2>4. QED BY <1>2, <1>5, <2>1, <2>3
<1>10. SumOver(total_contributed', Seated) = SumOver(Blind, Seated)
  <2>1. \A p \in Seated : total_contributed'[p] = Blind[p]
    BY <1>1, <1>3
  <2>2. QED BY <2>1, SumCong
<1>11. SumOver(chips', Seated) \in Nat /\ pot' \in Nat
  <2>1. SumOver(chips', Seated) \in Nat
    BY <1>1, <1>6, SumOverType
  <2>2. QED BY <1>2, <1>3, <1>5, <2>1
<1>12. pot' + SumOver(chips', Seated) = SumOver(chips, Seated)
  BY <1>3, <1>8, <1>9, <1>11
<1>13. InPot = 0 /\ InPot' = pot'
  BY <1>1, <1>3 DEF InPot, Start
<1>14. SumOver(db', Player \ Seated) = SumOver(db, Player \ Seated)
  <2>1. \A p \in Player \ Seated : db'[p] = db[p]
    BY <1>3 DEF PersistAll
  <2>2. QED BY <2>1, SumCong
<1>15. Wealth' = Wealth
  <2>1. Wealth' = SumOver(chips', Seated) + pot' + SumOver(db', Player \ Seated)
    BY <1>1, <1>13 DEF Wealth
  <2>2. Wealth = SumOver(chips, Seated) + 0 + SumOver(db, Player \ Seated)
    BY <1>13 DEF Wealth
  <2>3. QED BY <1>1, <1>11, <1>12, <1>14, <2>1, <2>2
<1>16. PotCovers'
  <2>1. pot' = SumOver(total_contributed', Seated)
    BY <1>3, <1>9, <1>10
  <2>2. QED BY <1>1, <1>11, <2>1 DEF PotCovers
<1>17. PotGone'
  <2>1. Active' # {}
    BY <1>1, <1>2 DEF Active, Start
  <2>2. QED BY <1>3, <2>1 DEF PotGone
<1>18. AwardLevel' /\ Covered'
  <2>1. \A p \in Seated : db'[p] >= chips'[p]
    BY <1>1, <1>3, <1>6 DEF PersistAll
  <2>2. QED BY <1>1, <1>3, <2>1 DEF AwardLevel, Covered
<1>19. QED BY <1>6, <1>7, <1>12, <1>13, <1>15, <1>16, <1>17, <1>18 DEF MoneyInv

(* When the award begins nothing of the pot is paid yet. *)
LEMMA AwardBeginMoney ==
  ASSUME TableInv, AwardBegin
  PROVE  MoneyInv' /\ InPot' = InPot /\ Wealth' = Wealth
<1>1. /\ UNCHANGED <<players, chips, total_contributed, pot, db, stake, phase, folded_players>> /\ pc = "award"
      /\ after_award \in {"try_start", "erase"} /\ IndInv
  BY DEF AwardBegin, table, status, turn, history, TableInv, TurnInv, IndInv, TypeOK
<1>2. Seated' = Seated /\ Active' = Active /\ Seated \subseteq Player
  BY <1>1, SeatedUnchanged, MoneyTypes DEF Active
<1>3. Active # {}
  BY <1>1 DEF TableInv, TurnInv, HandGoesOn
<1>4. CASE pot = 0 /\ pc' = after_award
  <2>1. PotGone'
    BY <1>1, <1>4 DEF PotGone
  <2>2. pc' # "pay_pot"
    BY <1>1, <1>4
  <2>3. QED BY <1>1, <2>1, <2>2, QuietMoney DEF MoneyInv
<1>5. CASE /\ remaining' = [p \in Seated |-> total_contributed[p]] /\ eligible' = Active
           /\ strength' \in [Active -> 1..Cardinality(Active)] /\ pc' = "pay_pot"
  <2>1. PotGone'
    BY <1>2, <1>3, <1>5 DEF PotGone
  <2>2. PotCovers'
    <3>1. Intact' = Intact
      BY <1>1, <1>2 DEF Intact
    <3>2. QED BY <1>1, <1>2, <3>1 DEF TableInv, MoneyInv, PotCovers
  <2>3. AwardLevel'
    <3>1. \A p \in Seated : remaining'[p] = total_contributed[p] /\ total_contributed[p] \in Nat
      BY <1>1, <1>2, <1>5 DEF IndInv, TypeOK
    <3>2. /\ \A p \in Seated : remaining'[p] <= total_contributed'[p]
          /\ \A p, q \in Seated : remaining'[q] > 0 =>
               total_contributed'[p] - remaining'[p] <= total_contributed'[q] - remaining'[q]
      BY <1>1, <3>1
    <3>3. \A p \in Active : strength'[p] \in 1..Cardinality(Active)
      BY <1>5
    <3>4. QED BY <1>2, <1>5, <3>2, <3>3 DEF AwardLevel
  <2>4. Covered'
    BY <1>1, <1>2 DEF TableInv, MoneyInv, Covered
  <2>5. InPot' = InPot
    <3>1. SumOver(remaining', Seated) = SumOver(total_contributed, Seated)
      BY <1>5, SumCong
    <3>2. InPot' = pot - (SumOver(total_contributed, Seated) - SumOver(remaining', Seated))
      BY <1>1, <1>2, <1>5 DEF InPot
    <3>3. SumOver(total_contributed, Seated) \in Nat /\ pot \in Nat
      BY <1>1, MoneyTypes
    <3>4. QED BY <1>1, <3>1, <3>2, <3>3 DEF InPot
  <2>6. Wealth' = Wealth
    BY <1>1, <1>2, <2>5 DEF Wealth
  <2>7. QED BY <2>1, <2>2, <2>3, <2>4, <2>5, <2>6 DEF MoneyInv
<1>6. QED BY <1>4, <1>5 DEF AwardBegin

(* What one turn of the loop pays is what it takes off the contributions. *)
LEMMA PayPotMoney ==
  ASSUME TableInv, PayPot
  PROVE  /\ MoneyInv'
         /\ Wealth' = Wealth
         /\ InPot' + SumOver(chips', Seated) = InPot + SumOver(chips, Seated)
<1>1. /\ UNCHANGED <<players, total_contributed, pot, db, stake, phase, folded_players, pc, strength>>
      /\ pc = "pay_pot" /\ IndInv
  BY DEF PayPot, status, turn, history, TableInv, TurnInv
<1>2. /\ Seated' = Seated /\ Active' = Active /\ Seated \subseteq Player /\ IsFiniteSet(Seated)
      /\ chips \in [Seated -> Nat] /\ total_contributed \in [Player -> Nat]
      /\ remaining \in [Seated -> Nat] /\ eligible \subseteq Active /\ Active \subseteq Seated
      /\ pot \in Nat /\ SumOver(total_contributed, Seated) \in Nat
      /\ SumOver(chips, Seated) \in Nat /\ SumOver(db, Player \ Seated) \in Nat
  BY <1>1, SeatedUnchanged, MoneyTypes DEF Active, IndInv, AwardSound
<1>3. PICK m \in {remaining[p] : p \in Unpaid(remaining, eligible)} :
        /\ chips' = [p \in Seated |-> chips[p] + Prize(p, PotAmount(remaining, m))]
        /\ remaining' = TakeLayer(remaining, m)
  BY DEF PayPot
<1>4. PICK w \in eligible : remaining[w] = m /\ m \in Nat /\ m > 0
  BY <1>2, <1>3 DEF Unpaid
<1> DEFINE layer == Layer(remaining, m)
           amount == PotAmount(remaining, m)
           prize == [p \in Seated |-> Prize(p, amount)]
<1>5. \A p \in Seated : /\ layer[p] \in Nat /\ layer[p] = MinOf(remaining[p], m)
                         /\ remaining'[p] \in Nat /\ remaining[p] = remaining'[p] + layer[p]
  BY <1>2, <1>3, <1>4 DEF Layer, TakeLayer, MinOf
<1>6. amount = SumOver(layer, Seated)
  BY <1>2 DEF PotAmount
<1> HIDE DEF layer
<1>7. amount \in Nat
  BY <1>2, <1>5, <1>6, SumOverType
<1> HIDE DEF amount
<1>8. SumOver(prize, Seated) = amount /\ \A p \in Seated : prize[p] \in Nat
  BY <1>1, <1>4, <1>7, PrizesAddUp
<1>9. \A p \in Seated : chips[p] \in Nat /\ chips'[p] = chips[p] + prize[p]
  BY <1>2, <1>3 DEF amount
<1> HIDE DEF prize
<1>10. SumOver(chips', Seated) = SumOver(chips, Seated) + amount
  <2>1. SumOver(chips', Seated) = SumOver(chips, Seated) + SumOver(prize, Seated)
    BY <1>2, <1>8, <1>9, SumAdd
  <2>2. QED BY <1>8, <2>1
<1>11. /\ SumOver(remaining, Seated) = SumOver(remaining', Seated) + amount
       /\ SumOver(remaining', Seated) \in Nat
  <2>1. SumOver(remaining, Seated) = SumOver(remaining', Seated) + SumOver(layer, Seated)
    BY <1>2, <1>5, SumAdd
  <2>2. SumOver(remaining', Seated) \in Nat
    BY <1>2, <1>5, SumOverType
  <2>3. QED BY <1>6, <2>1, <2>2
<1>12. InPot' = InPot - amount /\ InPot \in Int
  <2>1. InPot' = pot - (SumOver(total_contributed, Seated) - SumOver(remaining', Seated))
    BY <1>1, <1>2 DEF InPot
  <2>2. InPot = pot - (SumOver(total_contributed, Seated) - SumOver(remaining, Seated))
    BY <1>1 DEF InPot
  <2>3. QED BY <1>2, <1>7, <1>11, <2>1, <2>2
<1>13. InPot' + SumOver(chips', Seated) = InPot + SumOver(chips, Seated)
  BY <1>2, <1>7, <1>10, <1>12
<1>14. Wealth' = Wealth
  <2>1. Wealth' = SumOver(chips', Seated) + InPot' + SumOver(db, Player \ Seated)
    BY <1>1, <1>2 DEF Wealth
  <2>2. Wealth = SumOver(chips, Seated) + InPot + SumOver(db, Player \ Seated)
    BY DEF Wealth
  <2>3. QED BY <1>2, <1>7, <1>10, <1>12, <2>1, <2>2
<1>15. PotCovers' /\ PotGone'
  <2>1. Intact' = Intact
    BY <1>1, <1>2 DEF Intact
  <2>2. QED BY <1>1, <1>2, <2>1 DEF TableInv, MoneyInv, PotCovers, PotGone
<1>16. /\ \A p \in Seated : remaining[p] <= total_contributed[p]
       /\ \A p, q \in Seated : remaining[q] > 0 =>
            total_contributed[p] - remaining[p] <= total_contributed[q] - remaining[q]
       /\ \A q \in Active \ eligible : remaining[q] = 0
       /\ \A p \in eligible : strength[p] \in 1..Cardinality(Active)
  BY <1>1 DEF TableInv, MoneyInv, AwardLevel
<1>17. eligible' = {p \in eligible : remaining'[p] # 0}
  BY DEF PayPot, StillEligible
<1>18. \A p \in Seated : total_contributed[p] \in Nat /\ remaining[p] \in Nat
  BY <1>2
<1>19. AwardLevel'
  <2>1. ASSUME NEW p \in Seated PROVE remaining'[p] <= total_contributed[p]
    BY <1>5, <1>16, <1>18
  <2>2. ASSUME NEW p \in Seated, NEW q \in Seated, remaining'[q] > 0
        PROVE  total_contributed[p] - remaining'[p] <= total_contributed[q] - remaining'[q]
    <3>1. remaining[q] > 0 /\ layer[q] = m /\ layer[p] <= m
      BY <1>4, <1>5, <1>18, <2>2 DEF MinOf
    <3>2. total_contributed[p] - remaining[p] <= total_contributed[q] - remaining[q]
      BY <1>16, <3>1
    <3>3. QED BY <1>4, <1>5, <1>18, <3>1, <3>2
  <2>3. ASSUME NEW q \in Active \ eligible' PROVE remaining'[q] = 0
    <3>1. CASE q \in eligible
      BY <1>17, <3>1
    <3>2. CASE q \notin eligible
      BY <1>2, <1>5, <1>16, <1>18, <3>2
    <3>3. QED BY <3>1, <3>2
  <2>4. \A p \in eligible' : strength[p] \in 1..Cardinality(Active)
    BY <1>16, <1>17
  <2>5. QED BY <1>1, <1>2, <2>1, <2>2, <2>3, <2>4 DEF AwardLevel
<1>20. Covered'
  <2>1. w \in Seated /\ remaining'[w] # total_contributed[w]
    BY <1>2, <1>4, <1>5, <1>16, <1>18 DEF MinOf
  <2>2. QED BY <1>1, <1>2, <2>1 DEF Covered
<1>21. QED BY <1>13, <1>14, <1>15, <1>19, <1>20 DEF MoneyInv

(* When no contender has chips outside the pots, nobody still in the hand has. *)
LEMMA ContendersSettled ==
  ASSUME TableInv, pc = "pay_pot", Unpaid(remaining, eligible) = {}
  PROVE  \A q \in Active : remaining[q] = 0
<1>1. /\ IndInv /\ \A q \in Active \ eligible : remaining[q] = 0
      /\ remaining \in [Seated -> Nat] /\ Active \subseteq Seated
  BY DEF TableInv, TurnInv, IndInv, AwardSound, MoneyInv, AwardLevel, Active
<1>2. \A q \in eligible \cap Active : remaining[q] = 0
  BY <1>1 DEF Unpaid
<1>3. QED BY <1>1, <1>2

(* Closing the pot.  What is lost is what a leaver had put in, or a bet of a
   folded player that nobody in the hand had called. *)
LEMMA AwardEndMoney ==
  ASSUME TableInv, AwardEnd
  PROVE  /\ MoneyInv'
         /\ InPot \in Nat /\ InPot' = 0 /\ pc' # "pay_pot"
         /\ Wealth' <= Wealth
         /\ Wealth' < Wealth => DOMAIN stake # Seated \/ \E p \in folded_players : Uncalled(p)
         /\ \A p \in Seated : db'[p] >= chips[p]
         /\ db' = db \/ db' = PersistAll(chips)
<1>1. /\ UNCHANGED <<players, chips, phase, folded_players>> /\ pc = "pay_pot" /\ IndInv
      /\ Unpaid(remaining, eligible) = {}
      /\ pc' = after_award /\ after_award \in {"try_start", "erase"} /\ pot' = 0 /\ stake' = chips
      /\ total_contributed' = [p \in Player |-> 0]
      /\ db' = IF \E p \in Seated : remaining[p] # total_contributed[p] THEN PersistAll(chips) ELSE db
  BY DEF AwardEnd, status, turn, TableInv, TurnInv, IndInv, TypeOK
<1>2. /\ Seated' = Seated /\ Active' = Active /\ Seated \subseteq Player /\ IsFiniteSet(Seated)
      /\ chips \in [Seated -> Nat] /\ total_contributed \in [Player -> Nat]
      /\ remaining \in [Seated -> Nat] /\ Active \subseteq Seated
      /\ pot \in Nat /\ SumOver(total_contributed, Seated) \in Nat
      /\ SumOver(chips, Seated) \in Nat /\ SumOver(db, Player \ Seated) \in Nat
      /\ IsFiniteSet(Player \ Seated) /\ db \in [Player -> Nat]
  BY <1>1, SeatedUnchanged, MoneyTypes DEF Active, IndInv, AwardSound
<1>3. \A p \in Seated : chips[p] \in Nat /\ db[p] \in Nat /\ remaining[p] \in Nat /\ total_contributed[p] \in Nat
  BY <1>2
<1>4. SumOver(remaining, Seated) \in Nat
  BY <1>2, <1>3, SumOverType
<1>5. InPot = pot - (SumOver(total_contributed, Seated) - SumOver(remaining, Seated)) /\ InPot' = 0
  BY <1>1 DEF InPot
<1>6. /\ pot >= SumOver(total_contributed, Seated)
      /\ Intact => pot = SumOver(total_contributed, Seated)
  BY DEF TableInv, MoneyInv, PotCovers
<1>7. InPot \in Nat
  BY <1>2, <1>4, <1>5, <1>6
<1>8. SumOver(db', Player \ Seated) = SumOver(db, Player \ Seated)
  <2>1. \A p \in Player \ Seated : db'[p] = db[p]
    BY <1>1 DEF PersistAll
  <2>2. QED BY <2>1, SumCong
<1>9. /\ Wealth' = SumOver(chips, Seated) + 0 + SumOver(db, Player \ Seated)
      /\ Wealth = SumOver(chips, Seated) + InPot + SumOver(db, Player \ Seated)
  <2>1. Wealth' = SumOver(chips, Seated) + 0 + SumOver(db', Player \ Seated)
    BY <1>1, <1>2, <1>5 DEF Wealth
  <2>2. QED BY <1>8, <2>1 DEF Wealth
<1>10. Wealth' <= Wealth
  BY <1>2, <1>7, <1>9
<1>11. ASSUME Wealth' < Wealth, Intact PROVE \E p \in folded_players : Uncalled(p)
  <2>1. SumOver(remaining, Seated) # 0
    BY <1>2, <1>4, <1>5, <1>6, <1>9, <1>11
  <2>2. PICK p \in Seated : remaining[p] # 0
    BY <1>2, <1>3, <2>1, SumZero
  <2>3. \A q \in Active : remaining[q] = 0
    BY <1>1, ContendersSettled
  <2>4. p \in folded_players
    BY <2>2, <2>3 DEF Active
  <2>5. ASSUME NEW q \in Active PROVE total_contributed[p] > total_contributed[q]
    <3>1. q \in Seated /\ remaining[q] = 0 /\ remaining[p] > 0
      BY <1>2, <1>3, <2>2, <2>3
    <3>2. total_contributed[q] - remaining[q] <= total_contributed[p] - remaining[p]
      BY <1>1, <3>1 DEF TableInv, MoneyInv, AwardLevel
    <3>3. QED BY <1>3, <3>1, <3>2
  <2>6. QED BY <2>4, <2>5 DEF Uncalled
<1>12. \A p \in Seated : db'[p] >= chips[p]
  <2>1. CASE \E p \in Seated : remaining[p] # total_contributed[p]
    <3>1. \A p \in Seated : db'[p] = chips[p]
      BY <1>1, <1>2, <2>1 DEF PersistAll
    <3>2. QED BY <1>3, <3>1
  <2>2. CASE ~\E p \in Seated : remaining[p] # total_contributed[p]
    BY <1>1, <2>2 DEF TableInv, MoneyInv, Covered
  <2>3. QED BY <2>1, <2>2
<1>13. PotCovers'
  <2>1. \A p \in Seated : total_contributed'[p] \in Nat /\ total_contributed'[p] = 0
    BY <1>1, <1>2
  <2>2. SumOver(total_contributed', Seated) = 0
    BY <1>2, <2>1, SumZero
  <2>3. QED BY <1>1, <1>2, <2>2 DEF PotCovers
<1>14. PotGone' /\ AwardLevel' /\ Covered' /\ pc' # "pay_pot"
  BY <1>1, <1>2, <1>12 DEF PotGone, AwardLevel, Covered
<1>15. QED BY <1>1, <1>5, <1>7, <1>10, <1>11, <1>12, <1>13, <1>14 DEF MoneyInv, Intact

(* A player who leaves takes the stack home and leaves the rest in the pot. *)
LEMMA EraseMoney ==
  ASSUME TableInv, ErasePlayer
  PROVE  MoneyInv' /\ InPot' = InPot /\ Wealth' = Wealth /\ pc' # "pay_pot"
<1> DEFINE stay == Seated \ {leaver}
<1>1. /\ UNCHANGED <<pot, phase, after_award>> /\ pc = "erase" /\ IndInv
      /\ db' = [db EXCEPT ![leaver] = chips[leaver]]
      /\ chips' = [p \in stay |-> chips[p]]
      /\ total_contributed' = [total_contributed EXCEPT ![leaver] = 0]
      /\ pc' \in {"ended", "try_start", "next_phase", "ask", "idle"}
      /\ pc' = "try_start" => Cardinality(Active') = 1
      /\ pc' = "idle" => ~is_round_complete'
  BY DEF ErasePlayer, award, TableInv, TurnInv
<1>2. /\ Active' = Active /\ leaver \in Seated /\ Seated' = stay /\ ~Intact'
  BY EraseActive DEF TableInv
<1>3. /\ IsFiniteSet(Seated) /\ Seated \subseteq Player
      /\ chips \in [Seated -> Nat] /\ total_contributed \in [Player -> Nat] /\ db \in [Player -> Nat]
      /\ pot \in Nat /\ SumOver(total_contributed, Seated) \in Nat
      /\ SumOver(chips, Seated) \in Nat /\ IsFiniteSet(Player \ Seated) /\ SumOver(db, Player \ Seated) \in Nat
  BY <1>1, MoneyTypes
<1>4. \A p \in Seated : chips[p] \in Nat /\ db[p] \in Nat /\ total_contributed[p] \in Nat
  BY <1>3
<1>5. \A p \in stay : chips'[p] = chips[p] /\ db'[p] = db[p] /\ total_contributed'[p] = total_contributed[p]
  BY <1>1, <1>3
<1>6. SumOver(chips, Seated) = SumOver(chips', stay) + chips[leaver] /\ SumOver(chips', stay) \in Nat
  <2>1. SumOver(chips, Seated) = SumOver(chips, stay) + chips[leaver] /\ SumOver(chips, stay) \in Nat
    BY <1>2, <1>3, <1>4, SumSplit
  <2>2. SumOver(chips', stay) = SumOver(chips, stay)
    <3> HIDE DEF stay
    <3>1. QED BY <1>5, SumCong
  <2>3. QED BY <2>1, <2>2
<1>7. /\ SumOver(total_contributed, Seated) = SumOver(total_contributed', stay) + total_contributed[leaver]
      /\ SumOver(total_contributed', stay) \in Nat
  <2>1. /\ SumOver(total_contributed, Seated) = SumOver(total_contributed, stay) + total_contributed[leaver]
        /\ SumOver(total_contributed, stay) \in Nat
    BY <1>2, <1>3, <1>4, SumSplit
  <2>2. SumOver(total_contributed', stay) = SumOver(total_contributed, stay)
    <3> HIDE DEF stay
    <3>1. QED BY <1>5, SumCong
  <2>3. QED BY <2>1, <2>2
<1>8. SumOver(db', Player \ stay) = SumOver(db, Player \ Seated) + chips[leaver]
  <2> DEFINE away == Player \ stay
  <2>1. leaver \in away /\ away \ {leaver} = Player \ Seated /\ IsFiniteSet(away)
    BY <1>2, <1>3, PlayerAssumption, FS_Subset
  <2>2. \A p \in away : db'[p] \in Nat /\ (p # leaver => db'[p] = db[p])
    BY <1>1, <1>3, <1>4, <1>2
  <2>3. db'[leaver] = chips[leaver]
    BY <1>1, <1>2, <1>3
  <2> HIDE DEF away
  <2>4. SumOver(db', away) = SumOver(db', away \ {leaver}) + db'[leaver]
    BY <2>1, <2>2, SumSplit
  <2>5. SumOver(db', away \ {leaver}) = SumOver(db, away \ {leaver})
    <3>1. \A p \in away \ {leaver} : db'[p] = db[p]
      BY <2>2
    <3>2. QED BY <3>1, SumCong
  <2>6. SumOver(db, away \ {leaver}) = SumOver(db, Player \ Seated)
    BY <2>1, Zenon
  <2>7. SumOver(db', away) = SumOver(db, Player \ Seated) + chips[leaver]
    BY <2>3, <2>4, <2>5, <2>6
  <2>8. QED BY <2>7 DEF away
<1> HIDE DEF stay
<1>9. InPot' = pot /\ InPot = pot
  BY <1>1 DEF InPot
<1>10. Wealth' = Wealth
  <2>1. Wealth' = SumOver(chips', stay) + pot + SumOver(db', Player \ stay)
    BY <1>2, <1>9 DEF Wealth
  <2>2. Wealth = SumOver(chips, Seated) + pot + SumOver(db, Player \ Seated)
    BY <1>9 DEF Wealth
  <2>3. QED BY <1>2, <1>3, <1>4, <1>6, <1>8, <2>1, <2>2
<1>11. PotCovers'
  <2>1. pot >= SumOver(total_contributed, Seated)
    BY DEF TableInv, MoneyInv, PotCovers
  <2>2. pot' >= SumOver(total_contributed', stay)
    BY <1>1, <1>2, <1>3, <1>4, <1>7, <2>1
  <2>3. QED BY <1>2, <2>2 DEF PotCovers
<1>12. PotGone'
  <2>1. /\ Cardinality(Active) = 1 => pot = 0
        /\ Active = {} /\ phase # "Showdown" => pot = 0
    BY <1>1 DEF TableInv, MoneyInv, PotGone
  <2>2. pc' = "idle" => Cardinality(Active') # 1
    <3>1. ~is_round_complete' => ~(Cardinality(Active') <= 1)
      BY DEF is_round_complete
    <3>2. QED BY <1>1, <3>1
  <2>3. QED BY <1>1, <1>2, <2>1, <2>2 DEF PotGone
<1>13. AwardLevel' /\ Covered'
  <2>1. \A p \in stay : db'[p] >= chips'[p]
    BY <1>1, <1>5 DEF TableInv, MoneyInv, Covered, stay
  <2>2. QED BY <1>1, <1>2, <2>1 DEF AwardLevel, Covered
<1>14. QED BY <1>1, <1>9, <1>10, <1>11, <1>12, <1>13 DEF MoneyInv

(* Prompting, dealing the next street and the end of a hand move no chip. *)
LEMMA HandlerMoney ==
  ASSUME TableInv, AskCurrentPlayer \/ NextPhase \/ DoShowdown \/ TryStartNewHand
  PROVE  /\ MoneyInv' /\ InPot' = InPot /\ Wealth' = Wealth
         /\ UNCHANGED <<players, chips, folded_players, db, stake>>
<1>1. /\ UNCHANGED <<players, chips, total_contributed, pot, db, stake, folded_players>>
      /\ pc # "pay_pot" /\ pc' # "pay_pot"
  BY DEF AskCurrentPlayer, NextPhase, DoShowdown, TryStartNewHand, table, status, history
<1>2. Active' = Active /\ IndInv
  BY <1>1, SeatedUnchanged DEF Active, TableInv, TurnInv
<1>3. PotGone'
  <2>1. /\ pc \in {"start", "try_start"} => pot = 0
        /\ Active = {} /\ phase # "Showdown" => pot = 0
    BY DEF TableInv, MoneyInv, PotGone
  <2>2. CASE AskCurrentPlayer
    <3>1. Cardinality(Active) # 1
      BY <2>2 DEF AskCurrentPlayer, TableInv, TurnInv, HandGoesOn
    <3>2. phase' = phase /\ pc' \in {"idle", "next_phase", "ask"}
      BY <2>2 DEF AskCurrentPlayer
    <3>3. QED BY <1>1, <1>2, <2>1, <3>1, <3>2 DEF PotGone
  <2>3. CASE NextPhase
    <3>1. phase # "Showdown" \/ phase' = "Showdown"
      BY <2>3 DEF NextPhase, NextStreet
    <3>2. /\ pc' \in {"award", "ask", "showdown", "idle"}
          /\ pc' = "idle" => Cardinality(Active) # 1
      BY <2>3 DEF NextPhase
    <3>3. QED BY <1>1, <1>2, <2>1, <3>1, <3>2 DEF PotGone
  <2>4. CASE DoShowdown
    <3>1. phase = "River" /\ phase' = "Showdown" /\ pc' = IF Active = {} THEN "try_start" ELSE "award"
      BY <2>4 DEF DoShowdown, TableInv, TurnInv, HandGoesOn
    <3>2. QED BY <1>1, <1>2, <2>1, <3>1 DEF PotGone
  <2>5. CASE TryStartNewHand
    BY <1>1, <2>1, <2>5 DEF TryStartNewHand, PotGone
  <2>6. QED BY <2>2, <2>3, <2>4, <2>5
<1>4. QED BY <1>1, <1>3, QuietMoney DEF MoneyInv

(* A player who folds or leaves gives up the pot; nothing is paid. *)
LEMMA GiveUpMoney ==
  ASSUME TableInv, NEW p, pc = "idle", folded_players' = folded_players \cup {p}, p \in Seated,
         UNCHANGED <<players, chips, total_contributed, pot, db, stake, phase>>,
         pc' \in {"award", "ask", "next_phase", "erase"},
         pc' = "erase" => Cardinality(Active') # 1
  PROVE  MoneyInv' /\ InPot' = InPot /\ Wealth' = Wealth
<1>1. IndInv /\ Active' = Active \ {p}
  BY SeatedUnchanged DEF Active, TableInv, TurnInv
<1>2. /\ Cardinality(Active) = 1 => pot = 0
      /\ Active = {} /\ phase # "Showdown" => pot = 0
  BY DEF TableInv, MoneyInv, PotGone
<1>3. Active' = {} => Active = {} \/ Cardinality(Active) = 1
  <2>1. Active \ {p} = {} => Active = {} \/ Active = {p}
    OBVIOUS
  <2>2. Active = {p} => Cardinality(Active) = 1
    BY <1>1, ActiveFinite
  <2>3. QED BY <1>1, <2>1, <2>2
<1>4. PotGone'
  BY <1>2, <1>3 DEF PotGone
<1>5. pc # "pay_pot" /\ pc' # "pay_pot"
  OBVIOUS
<1>6. QED BY <1>4, <1>5, QuietMoney DEF MoneyInv

(* An action that folds nobody leaves an empty hand empty. *)
LEMMA ActionGone ==
  ASSUME TableInv, NEW p, Turn(p), UNCHANGED <<players, folded_players, phase>>,
         pc' \in {"award", "ask", "next_phase"}
  PROVE  PotGone'
<1>1. Active' = Active
  BY SeatedUnchanged DEF Active
<1>2. Active = {} => phase = "Showdown"
  BY DEF Turn, TableInv, TurnInv, HandGoesOn
<1>3. QED BY <1>1, <1>2 DEF PotGone

(* An action of the player whose turn it is: a fold gives up, a check or a
   matched call moves nothing, and a call or a raise is a bet. *)
LEMMA ActionMoney ==
  ASSUME TableInv, NEW p, Fold(p) \/ Check(p) \/ Call(p) \/ \E amount \in RaiseAmounts : Raise(p, amount)
  PROVE  /\ MoneyInv' /\ Wealth' = Wealth
         /\ \/ /\ UNCHANGED chips /\ InPot' = InPot
               /\ folded_players' \in {folded_players, folded_players \cup {p}}
            \/ /\ \E amount \in Nat : contribute(p, amount)
               /\ UNCHANGED folded_players
         /\ p \in Seated /\ p = Current /\ pc = "idle" /\ pc' # "pay_pot"
         /\ UNCHANGED <<players, db, stake, game_over>>
<1>1. /\ Turn(p) /\ UNCHANGED <<players, db, stake, game_over, phase>>
      /\ pc' \in {"award", "ask", "next_phase"}
  BY DEF Fold, Check, Call, Raise, table, RecordAndAdvance
<1>2. /\ IndInv /\ p \in Seated /\ pc = "idle" /\ p = Current
      /\ pc # "pay_pot" /\ pc' # "pay_pot" /\ pc' # "erase"
      /\ round_bets[p] \in Nat /\ current_bet \in Nat /\ UIntRange \in Nat
  BY <1>1, BoundAssumption DEF TableInv, TurnInv, Turn, IndInv, TypeOK
<1>3. ASSUME UNCHANGED folded_players PROVE PotGone'
  BY <1>1, <1>3, ActionGone
<1>4. CASE Fold(p)
  <2>1. /\ folded_players' = folded_players \cup {p} /\ UNCHANGED <<chips, total_contributed, pot>>
    BY <1>4 DEF Fold, table
  <2>2. MoneyInv' /\ InPot' = InPot /\ Wealth' = Wealth
    BY <1>1, <1>2, <2>1, GiveUpMoney
  <2>3. QED BY <1>1, <1>2, <2>1, <2>2
<1>5. ASSUME UNCHANGED <<chips, total_contributed, pot, folded_players>>
      PROVE  MoneyInv' /\ InPot' = InPot /\ Wealth' = Wealth
  BY <1>1, <1>2, <1>3, <1>5, QuietMoney DEF MoneyInv
<1>6. ASSUME UNCHANGED folded_players, NEW amount \in Nat, contribute(p, amount)
      PROVE  MoneyInv' /\ Wealth' = Wealth
  BY <1>1, <1>2, <1>3, <1>6, BetMoney DEF MoneyInv
<1>7. CASE Check(p)
  <2>1. UNCHANGED <<chips, total_contributed, pot, folded_players>>
    BY <1>7 DEF Check, table
  <2>2. QED BY <1>1, <1>2, <1>5, <2>1
<1>8. CASE Call(p)
  <2>1. UNCHANGED folded_players
    BY <1>8 DEF Call
  <2>2. CASE UNCHANGED <<chips, total_contributed, pot>>
    BY <1>1, <1>2, <1>5, <2>1, <2>2
  <2>3. CASE ToCall(p) > 0 /\ contribute(p, ToCall(p))
    <3>1. CASE ToCall(p) \in Nat
      <4> HIDE DEF ToCall
      <4>1. QED BY <1>1, <1>2, <1>6, <2>1, <2>3, <3>1
    <3>2. CASE ToCall(p) \notin Nat
      <4>1. ToCall(p) \in Int
        BY <1>2 DEF ToCall, Minus
      <4>2. QED BY <2>3, <3>2, <4>1
    <3>3. QED BY <3>1, <3>2
  <2>4. QED BY <1>8, <2>2, <2>3 DEF Call
<1>9. ASSUME NEW amount \in RaiseAmounts, Raise(p, amount)
      PROVE  /\ MoneyInv' /\ Wealth' = Wealth /\ UNCHANGED folded_players
             /\ \E a \in Nat : contribute(p, a)
  <2>1. UNCHANGED folded_players /\ contribute(p, amount - round_bets[p]) /\ amount > round_bets[p]
    BY <1>9 DEF Raise, ValidRaise
  <2>2. amount - round_bets[p] \in Nat
    BY <1>2, <2>1, BoundAssumption DEF RaiseAmounts
  <2>3. QED BY <1>6, <2>1, <2>2
<1>10. QED BY <1>1, <1>2, <1>4, <1>7, <1>8, <1>9

(* A rejected message, or a stuttering step. *)
LEMMA StutterMoney ==
  ASSUME TableInv, UNCHANGED vars
  PROVE  MoneyInv' /\ InPot' = InPot /\ Wealth' = Wealth
<1> USE DEF vars, table, status, betting, turn, award, history
<1>1. Seated' = Seated /\ Active' = Active /\ Intact' = Intact
  BY SeatedUnchanged DEF Active, Intact
<1>2. PotCovers' /\ PotGone'
  BY <1>1 DEF TableInv, MoneyInv, PotCovers, PotGone
<1>3. AwardLevel' /\ Covered'
  BY <1>1 DEF TableInv, MoneyInv, AwardLevel, Covered
<1>4. InPot' = InPot
  BY <1>1 DEF InPot
<1>5. Wealth' = Wealth
  BY <1>1, <1>4 DEF Wealth
<1>6. QED BY <1>2, <1>3, <1>4, <1>5 DEF MoneyInv

(* A departure: the player gives up the pot first. *)
LEMMA LeaveMoney ==
  ASSUME TableInv, NEW p, RemovePlayer(p)
  PROVE  /\ MoneyInv' /\ InPot' = InPot /\ Wealth' = Wealth
         /\ p \in Seated /\ folded_players' = folded_players \cup {p}
         /\ UNCHANGED <<players, chips, db, stake, game_over>>
<1>1. /\ pc = "idle" /\ p \in Seated /\ folded_players' = folded_players \cup {p}
      /\ UNCHANGED <<players, chips, total_contributed, pot, db, stake, phase, game_over>>
      /\ pc' \in {"award", "ask", "next_phase", "erase"}
      /\ pc' = "erase" => Cardinality(Active') # 1
  BY DEF RemovePlayer, table, turn, history
<1>2. QED BY <1>1, GiveUpMoney

(* The session begins with an empty pot and balances equal to the stacks. *)
LEMMA InitMoney == Init => MoneyInv
<1> SUFFICES ASSUME Init PROVE MoneyInv
  OBVIOUS
<1>1. IndInv
  BY InitInv
<1>2. IsFiniteSet(Seated) /\ Seated \subseteq Player /\ chips \in [Seated -> Nat]
  BY <1>1, MoneyTypes
<1>3. SumOver(total_contributed, Seated) = 0
  <2>1. \A p \in Seated : total_contributed[p] \in Nat /\ total_contributed[p] = 0
    BY <1>2 DEF Init
  <2>2. QED BY <1>2, <2>1, SumZero
<1>4. pot = 0 /\ pc = "start" /\ \A p \in Seated : db[p] = chips[p] /\ chips[p] \in Nat
  BY <1>2 DEF Init
<1>5. QED BY <1>3, <1>4 DEF MoneyInv, PotCovers, PotGone, AwardLevel, Covered

(* The chips are where the books say: one case per action. *)
LEMMA TableHolds == Spec => []TableInv
<1>1. Init => TableInv
  BY InitInv, InitTurn, InitMoney DEF TableInv, TurnInv
<1>2. TableInv /\ TurnInv' /\ [Next]_vars => TableInv'
  <2> SUFFICES ASSUME TableInv, TurnInv', [Next]_vars PROVE MoneyInv'
    BY DEF TableInv
  <2>1. CASE Step
    BY <2>1, StartMoney, HandlerMoney, AwardBeginMoney, PayPotMoney, AwardEndMoney, EraseMoney DEF Step
  <2>2. CASE Message
    BY <2>2, ActionMoney, StutterMoney DEF Message, RejectAction
  <2>3. CASE Leave
    BY <2>3, LeaveMoney DEF Leave
  <2>4. QED BY <2>1, <2>2, <2>3, StutterMoney DEF Next
<1>3. QED BY <1>1, <1>2, TurnHolds, PTL DEF Spec

(* pot_ is what the players at the table put in; it holds more only when
   somebody has left since it was last empty. *)
THEOREM PotIsBacked == Spec => []PotBacked
<1>1. TableInv => PotBacked
  BY DEF TableInv, MoneyInv, PotCovers, PotBacked, Undisturbed, Intact
<1>2. QED BY <1>1, TableHolds, PTL

(* No step creates a chip; only closing a pot loses some, those of a leaver or
   of a folded bet that nobody called. *)
THEOREM NoChipIsCreated == Spec => ChipsConserved
<1> DEFINE Kept == /\ Wealth' <= Wealth
                   /\ Wealth' < Wealth =>
                        /\ pc = "pay_pot" /\ pot' = 0
                        /\ DOMAIN stake # Seated \/ \E p \in folded_players : Uncalled(p)
<1>1. TableInv => Wealth \in Int
  <2> SUFFICES ASSUME TableInv PROVE Wealth \in Int
    OBVIOUS
  <2>1. /\ IsFiniteSet(Seated) /\ pot \in Nat
        /\ SumOver(total_contributed, Seated) \in Nat /\ SumOver(chips, Seated) \in Nat
        /\ SumOver(db, Player \ Seated) \in Nat
    BY MoneyTypes DEF TableInv, TurnInv
  <2>2. InPot \in Int
    <3>1. CASE pc = "pay_pot"
      <4>1. \A p \in Seated : remaining[p] \in Nat
        BY <3>1 DEF TableInv, TurnInv, IndInv, AwardSound
      <4>2. SumOver(remaining, Seated) \in Nat
        BY <2>1, <4>1, SumOverType
      <4>3. QED BY <2>1, <3>1, <4>2 DEF InPot
    <3>2. CASE pc # "pay_pot"
      BY <2>1, <3>2 DEF InPot
    <3>3. QED BY <3>1, <3>2
  <2>3. QED BY <2>1, <2>2 DEF Wealth
<1>2. TableInv /\ [Next]_vars => [Kept]_vars
  <2> SUFFICES ASSUME TableInv, Next PROVE Kept
    OBVIOUS
  <2>1. Wealth' = Wealth => Kept
    BY <1>1
  <2>2. CASE AwardEnd
    BY <2>2, AwardEndMoney DEF AwardEnd
  <2>3. CASE Step /\ ~AwardEnd
    <3>1. Wealth' = Wealth
      BY <2>3, StartMoney, HandlerMoney, AwardBeginMoney, PayPotMoney, EraseMoney DEF Step
    <3>2. QED BY <2>1, <3>1
  <2>4. CASE Message
    <3>1. Wealth' = Wealth
      BY <2>4, ActionMoney, StutterMoney DEF Message, RejectAction
    <3>2. QED BY <2>1, <3>1
  <2>5. CASE Leave
    <3>1. Wealth' = Wealth
      BY <2>5, LeaveMoney DEF Leave
    <3>2. QED BY <2>1, <3>1
  <2>6. QED BY <2>2, <2>3, <2>4, <2>5 DEF Next
<1>3. QED BY <1>2, TableHolds, PTL DEF Spec, ChipsConserved
-----------------------------------------------------------------------------
(* The betting engine implements Table. *)

(* Cardinalities of the abstract table are those of this one. *)
LEMMA SameCardinality == ASSUME NEW S PROVE AsTable!Cardinality(S) = Cardinality(S)
BY Zenon DEF AsTable!Cardinality, Cardinality

(* The sums of the abstract table are the sums of this one. *)
LEMMA SameSum == ASSUME NEW f, NEW S PROVE AsTable!SumOver(f, S) = SumOver(f, S)
BY SameCardinality DEF AsTable!SumOver, AsTable!ChipsOf, SumOver, ChipsOf

(* The stacks are those of the players at the table. *)
LEMMA SameSeats == ASSUME IndInv PROVE AsTable!AtTable = Seated
BY DEF IndInv, TypeOK, AsTable!AtTable

(* The first state is one of the abstract table. *)
LEMMA InitIsTable == Init => AsTable!Init
<1> SUFFICES ASSUME Init PROVE AsTable!Init
  OBVIOUS
<1>1. IndInv
  BY InitInv
<1>2. AsTable!AtTable = Seated /\ Seated \subseteq Player
  BY <1>1, SameSeats, MoneyTypes
<1>3. InPot = 0
  BY DEF Init, InPot
<1>4. \A p \in Seated : db[p] = chips[p]
  BY <1>2 DEF Init
<1>5. DOMAIN stake = Seated
  BY <1>1 DEF Init, IndInv, TypeOK
<1>6. folded_players = {} /\ game_over = FALSE
  BY DEF Init
<1>7. QED BY <1>2, <1>3, <1>4, <1>5, <1>6 DEF AsTable!Init

(* Writing the stacks of the table, or nothing, is all a step does to the
   balances until somebody leaves. *)
LEMMA PersistSaves ==
  ASSUME IndInv, db' = db \/ db' = PersistAll(chips')
  PROVE  AsTable!Saved
<1>1. AsTable!AtTable = Seated
  BY SameSeats
<1>2. ASSUME NEW p \in Player, db' = PersistAll(chips')
      PROVE  db'[p] = IF p \in Seated /\ db' # db THEN chips'[p] ELSE db[p]
  BY <1>2 DEF PersistAll
<1>3. ASSUME NEW p \in Player, db' = db
      PROVE  db'[p] = IF p \in Seated /\ db' # db THEN chips'[p] ELSE db[p]
  BY <1>3
<1>4. QED BY <1>1, <1>2, <1>3 DEF AsTable!Saved

(* start is a new hand. *)
LEMMA StartIsNewHand == TableInv /\ Start => AsTable!NewHand
<1> SUFFICES ASSUME TableInv, Start PROVE AsTable!NewHand
  OBVIOUS
<1>1. IndInv /\ AsTable!AtTable = Seated /\ Seated' = Seated
  BY SameSeats, SeatedUnchanged DEF TableInv, TurnInv, Start
<1>2. /\ InPot = 0 /\ InPot' = pot'
      /\ chips' \in [Seated -> Nat] /\ \A p \in Seated : chips'[p] <= chips[p]
      /\ pot' + SumOver(chips', Seated) = SumOver(chips, Seated)
      /\ SumOver(chips, Seated) \in Nat
  BY <1>1, StartMoney, MoneyTypes
<1>3. AsTable!PutIn(Seated)
  <2>1. InPot' + AsTable!Chips(chips') = InPot + AsTable!Chips(chips)
    BY <1>1, <1>2, SameSum DEF AsTable!Chips
  <2>2. DOMAIN chips' = Seated
    BY <1>2
  <2>3. QED BY <1>1, <1>2, <2>1, <2>2 DEF AsTable!PutIn
<1>4. AsTable!Saved
  BY <1>1, PersistSaves DEF Start
<1>5. DOMAIN stake' = Seated' /\ folded_players' = {} /\ game_over' = FALSE
  BY <1>1 DEF Start, IndInv, TypeOK
<1>6. QED BY <1>1, <1>2, <1>3, <1>4, <1>5 DEF AsTable!NewHand

(* contribute is a bet of one player. *)
LEMMA ContributeIsBet ==
  ASSUME TableInv, NEW p \in Seated, NEW amount \in Nat, contribute(p, amount), p = Current, pc = "idle",
         UNCHANGED <<players, db, stake, game_over, folded_players>>, pc' # "pay_pot"
  PROVE  AsTable!Bet
<1>1. IndInv /\ AsTable!AtTable = Seated /\ Seated' = Seated
  BY SameSeats, SeatedUnchanged DEF TableInv, TurnInv
<1>2. /\ InPot = pot /\ InPot' = pot'
      /\ chips' \in [Seated -> Nat] /\ chips'[p] <= chips[p]
      /\ \A q \in Seated \ {p} : chips'[q] = chips[q]
      /\ pot' + SumOver(chips', Seated) = pot + SumOver(chips, Seated)
  BY BetMoney
<1>3. \A q \in Seated : chips[q] \in Nat
  BY <1>1, MoneyTypes
<1>4. \A q \in Seated : chips'[q] <= chips[q] /\ (q \notin {p} => chips'[q] = chips[q])
  BY <1>2, <1>3
<1>5. AsTable!PutIn({p})
  <2>1. InPot' + AsTable!Chips(chips') = InPot + AsTable!Chips(chips)
    BY <1>1, <1>2, SameSum DEF AsTable!Chips
  <2>2. DOMAIN chips' = Seated
    BY <1>2
  <2>3. QED BY <1>1, <1>4, <2>1, <2>2 DEF AsTable!PutIn
<1>6. p \in folded_players => game_over \/ DOMAIN stake # Seated
  BY DEF TableInv, TurnInv, HandGoesOn, Intact, CanAct
<1>7. QED BY <1>1, <1>5, <1>6 DEF AsTable!Bet

(* Folding, and leaving up to the award, give up the pot. *)
LEMMA FoldIsGiveUp ==
  ASSUME TableInv, NEW p \in Seated, folded_players' = folded_players \cup {p}, InPot' = InPot,
         UNCHANGED <<players, chips, db, stake, game_over>>
  PROVE  AsTable!GiveUp
<1>1. AsTable!AtTable = Seated /\ Seated' = Seated
  BY SameSeats, SeatedUnchanged DEF TableInv, TurnInv
<1>2. QED BY <1>1 DEF AsTable!GiveUp

(* A step that the abstract table does not see. *)
LEMMA SeenAsStutter ==
  ASSUME InPot' = InPot, UNCHANGED <<players, chips, folded_players, db, stake, game_over>>
  PROVE  UNCHANGED AsTable!tableVars
BY SeatedUnchanged DEF AsTable!tableVars

(* An action of the player whose turn it is bets, gives up, or is not seen. *)
LEMMA ActionIsSeen ==
  ASSUME TableInv, NEW p, Fold(p) \/ Check(p) \/ Call(p) \/ \E amount \in RaiseAmounts : Raise(p, amount)
  PROVE  AsTable!Bet \/ AsTable!GiveUp \/ UNCHANGED AsTable!tableVars
<1>1. /\ p \in Seated /\ p = Current /\ pc = "idle" /\ pc' # "pay_pot"
      /\ UNCHANGED <<players, db, stake, game_over>>
  BY ActionMoney
<1>2. CASE (\E amount \in Nat : contribute(p, amount)) /\ UNCHANGED folded_players
  BY <1>1, <1>2, ContributeIsBet
<1>3. CASE UNCHANGED chips /\ InPot' = InPot /\ folded_players' = folded_players \cup {p}
  BY <1>1, <1>3, FoldIsGiveUp
<1>4. CASE UNCHANGED chips /\ InPot' = InPot /\ folded_players' = folded_players
  BY <1>1, <1>4, SeenAsStutter
<1>5. QED BY <1>2, <1>3, <1>4, ActionMoney

(* A turn of the award loop pays from the pot. *)
LEMMA PayPotIsPay == TableInv /\ PayPot => AsTable!Pay
<1> SUFFICES ASSUME TableInv, PayPot PROVE AsTable!Pay
  OBVIOUS
<1>1. IndInv /\ AsTable!AtTable = Seated /\ Seated' = Seated
  BY SameSeats, SeatedUnchanged DEF TableInv, TurnInv, PayPot
<1>2. /\ \A p \in Seated : /\ chips[p] \in Nat /\ chips'[p] \in Nat /\ chips'[p] >= chips[p]
                           /\ p \in folded_players => chips'[p] = chips[p]
      /\ DOMAIN chips' = Seated
  BY <1>1, PayPotStep
<1>3. InPot' + AsTable!Chips(chips') = InPot + AsTable!Chips(chips)
  BY <1>1, PayPotMoney, SameSum DEF AsTable!Chips
<1>4. UNCHANGED <<folded_players, db, game_over, DOMAIN stake # Seated>>
  BY <1>1 DEF PayPot, status, history
<1>5. QED BY <1>1, <1>2, <1>3, <1>4 DEF AsTable!Pay

(* The end of the award closes the pot. *)
LEMMA AwardEndIsClose == TableInv /\ AwardEnd => AsTable!Close
<1> SUFFICES ASSUME TableInv, AwardEnd PROVE AsTable!Close
  OBVIOUS
<1>1. IndInv /\ AsTable!AtTable = Seated /\ Seated' = Seated
  BY SameSeats, SeatedUnchanged DEF TableInv, TurnInv, AwardEnd
<1>2. /\ InPot' = 0 /\ \A p \in Seated : db'[p] >= chips[p]
      /\ db' = db \/ db' = PersistAll(chips)
  BY AwardEndMoney
<1>3. UNCHANGED <<chips, folded_players, game_over>> /\ stake' = chips
  BY DEF AwardEnd, status
<1>4. DOMAIN stake' = Seated'
  BY <1>1, <1>3 DEF IndInv, TypeOK
<1>5. AsTable!Saved
  BY <1>1, <1>2, <1>3, PersistSaves
<1>6. QED BY <1>1, <1>2, <1>3, <1>4, <1>5 DEF AsTable!Close

(* remove_player ends with the leaver taking the stack home. *)
LEMMA EraseIsLeave == TableInv /\ ErasePlayer => AsTable!Leave
<1> SUFFICES ASSUME TableInv, ErasePlayer PROVE AsTable!Leave
  OBVIOUS
<1>1. IndInv /\ AsTable!AtTable = Seated
  BY SameSeats DEF TableInv, TurnInv
<1>2. leaver \in folded_players /\ DOMAIN stake' # Seated' /\ InPot' = InPot
  BY EraseActive, EraseMoney DEF TableInv, Intact
<1>3. /\ db' = [db EXCEPT ![leaver] = chips[leaver]] /\ chips' = [q \in Seated \ {leaver} |-> chips[q]]
      /\ folded_players' = folded_players \ {leaver} /\ UNCHANGED game_over
  BY DEF ErasePlayer
<1>4. QED BY <1>1, <1>2, <1>3 DEF AsTable!Leave

(* try_start_new_hand gives up only when fewer than two players have chips. *)
LEMMA TryStartIsSeen == TableInv /\ TryStartNewHand => AsTable!GameOver \/ UNCHANGED AsTable!tableVars
<1> SUFFICES ASSUME TableInv, TryStartNewHand PROVE AsTable!GameOver \/ UNCHANGED AsTable!tableVars
  OBVIOUS
<1>1. AsTable!AtTable = Seated
  BY SameSeats DEF TableInv, TurnInv
<1>2. InPot' = InPot /\ UNCHANGED <<players, chips, folded_players, db, stake>> /\ Seated' = Seated
  BY HandlerMoney, SeatedUnchanged
<1>3. CASE UNCHANGED game_over
  BY <1>2, <1>3, SeenAsStutter
<1>4. CASE Cardinality(WithChips) < 2 /\ game_over' = TRUE
  <2>1. {p \in AsTable!AtTable : chips[p] > 0} = WithChips
    BY <1>1 DEF WithChips
  <2>2. Cardinality({p \in AsTable!AtTable : chips[p] > 0}) < 2
    BY <1>4, <2>1
  <2>3. AsTable!Cardinality({p \in AsTable!AtTable : chips[p] > 0}) < 2
    BY <2>2, SameCardinality
  <2>4. QED BY <1>2, <1>4, <2>3 DEF AsTable!GameOver
<1>5. QED BY <1>3, <1>4 DEF TryStartNewHand

(* The table of game_session.cpp is a table: chips go from stacks to the pot
   and from the pot to players in the hand, a new hand waits for the last
   pot, and whoever leaves takes home the whole stack. *)
THEOREM GameSessionIsTable == Spec => IsTable
<1>1. Init => AsTable!Init
  BY InitIsTable
<1>2. TableInv /\ [Next]_vars => [AsTable!Next]_(AsTable!tableVars)
  <2> SUFFICES ASSUME TableInv, [Next]_vars PROVE AsTable!Next \/ UNCHANGED AsTable!tableVars
    OBVIOUS
  <2>1. CASE UNCHANGED vars
    <3>1. UNCHANGED <<players, chips, folded_players, db, stake, game_over>>
      BY <2>1 DEF vars, table, status, history
    <3>2. QED BY <2>1, <3>1, StutterMoney, SeenAsStutter
  <2>2. CASE Start
    BY <2>2, StartIsNewHand DEF AsTable!Next
  <2>3. CASE AskCurrentPlayer \/ NextPhase \/ DoShowdown
    <3>1. UNCHANGED game_over
      BY <2>3 DEF AskCurrentPlayer, NextPhase, DoShowdown, history
    <3>2. QED BY <2>3, <3>1, HandlerMoney, SeenAsStutter
  <2>4. CASE AwardBegin
    <3>1. UNCHANGED <<players, chips, folded_players, db, stake, game_over>>
      BY <2>4 DEF AwardBegin, table, status, history
    <3>2. QED BY <2>4, <3>1, AwardBeginMoney, SeenAsStutter
  <2>5. CASE PayPot \/ AwardEnd \/ TryStartNewHand \/ ErasePlayer
    BY <2>5, PayPotIsPay, AwardEndIsClose, TryStartIsSeen, EraseIsLeave DEF AsTable!Next
  <2>6. CASE Message
    BY <2>1, <2>6, ActionIsSeen DEF Message, RejectAction, AsTable!Next
  <2>7. CASE Leave
    BY <2>7, LeaveMoney, FoldIsGiveUp DEF Leave, AsTable!Next
  <2>8. QED BY <2>1, <2>2, <2>3, <2>4, <2>5, <2>6, <2>7 DEF Next, Step
<1>3. QED BY <1>1, <1>2, TableHolds, PTL DEF Spec, IsTable, AsTable!Spec
=============================================================================
