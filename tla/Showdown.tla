------------------------------ MODULE Showdown ------------------------------
(***************************************************************************)
(* The cards of one hand: dealing (common/src/deck.cpp, start and          *)
(* next_phase of game_session.cpp) and comparing (find_winners_among and   *)
(* the loop of evaluate_best), and the client's hint on its own cards      *)
(* (client/src/game_text.cpp), which runs the same loop.                   *)
(*                                                                         *)
(* A shuffle is the order of the cards; deal takes them from the back.     *)
(* Bets and turns are the matter of GameSession, which takes from a        *)
(* showdown only how the hands rank.                                       *)
(***************************************************************************)
EXTENDS HandEvaluator

CONSTANTS
    Shuffles,       \* pairs of a number of players and a shuffled deck
    Hints           \* hole cards and board of a client that shows a hint

VARIABLES
    pc,             \* what runs next
    seats,          \* the number of players, 0 when a client evaluates
    full_deck,      \* the deck before the first deal
    deck,           \* deck_
    hands,          \* hands_
    community_cards,\* community_cards_
    contenders,     \* find_winners_among: the contenders of the call
    judged,         \* how many of them its loop has seen
    best_value,     \* its `best'
    winners,        \* its `winners'
    cards,          \* evaluate_best: the cards, hole cards first
    idx,            \* its combination
    best            \* its `best'

dealing == <<seats, full_deck, deck, hands, community_cards>>
judging == <<contenders, judged, best_value, winners>>
loop == <<cards, idx, best>>
vars == <<pc, dealing, judging, loop>>

Init ==
    /\ \/ \E s \in Shuffles : seats = s[1] /\ full_deck = s[2] /\ cards = <<>> /\ pc = "start"
       \/ seats = 0 /\ full_deck = <<>> /\ cards \in Hints /\ pc = "evaluate"
    /\ deck = full_deck /\ hands = <<>> /\ community_cards = <<>>
    /\ contenders = <<>> /\ judged = 0 /\ best_value = NoValue /\ winners = <<>>
    /\ idx = FirstCombination /\ best = NoValue
-----------------------------------------------------------------------------
(* Dealing. *)

\* deal(n) from the deck d: the cards, and what is left.
Dealt(d, n) == SubSeq(Reverse(d), 1, n)

\* mutant: one card too few is taken off the deck.
RestKeepsOne(d, n) == SubSeq(d, 1, Len(d) - n + 1)

Rest(d, n) == SubSeq(d, 1, Len(d) - n)

\* std::out_of_range leaves deal, the handler and io_context.run.
ServerStops == pc' = "stopped" /\ UNCHANGED <<dealing, judging, loop>>

\* start: two cards for each player in turn.
Start ==
    /\ pc = "start"
    /\ \/ /\ Len(deck) >= 2 * seats
          /\ LET all == Dealt(deck, 2 * seats) IN
             hands' = [p \in 1..seats |-> <<all[2 * p - 1], all[2 * p]>>]
          /\ deck' = Rest(deck, 2 * seats)
          /\ pc' = "street"
          /\ UNCHANGED <<seats, full_deck, community_cards, judging, loop>>
       \/ Len(deck) < 2 * seats /\ ServerStops

\* mutant: a card is burned before every street.
StreetSizeBurns(shown) == IF shown = 0 THEN 4 ELSE 2

\* The cards of the next street, with `shown' on the board.
StreetSize(shown) == IF shown = 0 THEN 3 ELSE 1

\* next_phase: flop, turn and river.
NextPhase ==
    LET n == StreetSize(Len(community_cards)) IN
    /\ pc = "street" /\ Len(community_cards) < 5
    /\ \/ /\ Len(deck) >= n
          /\ community_cards' = community_cards \o Dealt(deck, n)
          /\ deck' = Rest(deck, n)
          /\ UNCHANGED <<pc, seats, full_deck, hands, judging, loop>>
       \/ Len(deck) < n /\ ServerStops
-----------------------------------------------------------------------------
(* Comparing: find_winners_among. *)

\* Any players may have folded by now; the others contend for a pot, in the
\* order of their seats.  A single one wins unseen.
FindWinnersAmong ==
    /\ pc = "street" /\ Len(community_cards) = 5
    /\ \E S \in SUBSET (1..seats) \ {{}} : contenders' = Ordered(S, <)
    /\ judged' = 0 /\ best_value' = NoValue
    /\ \/ Len(contenders') = 1 /\ winners' = contenders' /\ pc' = "done"
       \/ Len(contenders') > 1 /\ winners' = <<>> /\ pc' = "next"
    /\ UNCHANGED <<dealing, loop>>

\* The call of evaluate_best for the next contender.
NextContender ==
    /\ pc = "next"
    /\ cards' = hands[contenders[judged + 1]] \o community_cards
    /\ idx' = FirstCombination /\ best' = NoValue
    /\ pc' = "evaluate"
    /\ UNCHANGED <<dealing, judging>>

\* One turn of evaluate_best.
Evaluate ==
    LET value == evaluate_five([i \in 1..5 |-> cards[idx[i] + 1]]) IN
    /\ pc = "evaluate"
    /\ best' = IF Greater(value, best) THEN value ELSE best
    /\ IF CanAdvance(idx, Len(cards)) # {}
       THEN idx' = next_combination(idx, Len(cards)) /\ UNCHANGED pc
       ELSE pc' = "judge" /\ UNCHANGED idx
    /\ UNCHANGED <<dealing, judging, cards>>

\* mutant: a tie goes to the first of the hands.
WinnersAfterNoTie(p) ==
    IF winners = <<>> \/ Greater(best, best_value) THEN <<p>> ELSE winners

\* `winners' once the hand of p is evaluated.
WinnersAfter(p) ==
    IF winners = <<>> \/ Greater(best, best_value) THEN <<p>>
    ELSE IF best = best_value THEN Append(winners, p)
    ELSE winners

Judge ==
    LET p == contenders[judged + 1] IN
    /\ pc = "judge" /\ seats > 0
    /\ winners' = WinnersAfter(p)
    /\ best_value' = IF winners = <<>> \/ Greater(best, best_value) THEN best ELSE best_value
    /\ judged' = judged + 1
    /\ pc' = IF judged' = Len(contenders) THEN "done" ELSE "next"
    /\ UNCHANGED <<dealing, contenders, loop>>

\* describe_hand shows the category of what evaluate_best returns.
DescribeHand ==
    /\ pc = "judge" /\ seats = 0
    /\ pc' = "done"
    /\ UNCHANGED <<dealing, judging, loop>>

Next ==
    \/ Start \/ NextPhase \/ FindWinnersAmong \/ NextContender \/ Evaluate \/ Judge
    \/ DescribeHand

Spec == Init /\ [][Next]_vars
-----------------------------------------------------------------------------
(* Properties. *)

\* Types; above all, the unchecked indices of evaluate_best name five
\* different cards in every turn of its loop.
TypeOK ==
    /\ pc \in {"start", "street", "next", "evaluate", "judge", "done", "stopped"}
    /\ judged \in 0..Len(contenders)
    /\ Len(community_cards) \in {0, 3, 4, 5}
    /\ pc = "evaluate" =>
        /\ \A i \in 1..5 : idx[i] \in 0..(Len(cards) - 1)
        /\ \A i, j \in 1..5 : i < j => idx[i] < idx[j]

\* Everyone's cards, the board and the rest of the deck are the deck the hand
\* was started with: no card is dealt twice and none is lost (deal, start,
\* next_phase).
NoCardTwice ==
    /\ TypeOK
    /\ seats > 0 =>
        LET places == <<deck, community_cards>> \o [i \in 1..(2 * Len(hands)) |->
                        <<hands[(i + 1) \div 2][IF i % 2 = 1 THEN 1 ELSE 2]>>]
        IN  /\ UNION {ToSet(places[i]) : i \in DOMAIN places} = ToSet(full_deck)
            /\ Len(deck) + Len(community_cards) + 2 * Len(hands) = Len(full_deck)

\* Two cards a player and a board are all that is dealt: the server runs out
\* of cards, and stops, only if the deck does not hold that many.
RunsOutOnlyIfTooMany == pc = "stopped" => 2 * seats + 5 > Len(full_deck)

\* The loop of evaluate_best, which looks at the combinations one after the
\* other and remembers the best value so far, ends with the rank that the
\* rules of the game give the best five of the cards.
BestByTheRules == pc = "judge" => best = BestRank(ToSet(cards))

\* The winners are exactly the contenders whose best hand no contender's
\* beats, each once and in seat order: the first takes the odd chips of the
\* pot (find_winners_among, award_all_pots).
WinnersByTheRules ==
    pc = "done" /\ Len(contenders) > 1 =>
        LET Rank == [p \in ToSet(contenders) |->
                        BestRank(ToSet(hands[p]) \cup ToSet(community_cards))]
        IN  winners = SelectSeq(contenders, LAMBDA p :
                \A q \in ToSet(contenders) : ~Greater(Rank[q], Rank[p]))

\* Every turn of the loop goes on to a combination behind the last one, in
\* lexicographic order.  There are finitely many, so that evaluate_best ends.
LoopAdvances ==
    [][pc = "evaluate" /\ pc' = "evaluate" =>
        \E i \in 1..5 : idx'[i] > idx[i] /\ \A j \in 1..(i - 1) : idx'[j] = idx[j]]_vars
=============================================================================
