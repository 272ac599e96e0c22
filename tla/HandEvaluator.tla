---------------------------- MODULE HandEvaluator ----------------------------
(***************************************************************************)
(* Which poker hand five cards make: common/src/hand_evaluator.cpp.        *)
(*                                                                         *)
(* A card is a pair <<rank_value, suit>>, ranks from 2 to 14 (the ace).  A *)
(* HandValue is a tuple of six numbers, the category and five tiebreakers; *)
(* its comparison is the lexicographic one that operator<=> gives.         *)
(* The last part states the rules of the game without the code's loops.    *)
(***************************************************************************)
EXTENDS Naturals, Sequences, SequencesExt, FiniteSetsExt

HighCard == 0
OnePair == 1
TwoPair == 2
ThreeOfKind == 3
Straight == 4
Flush == 5
FullHouse == 6
FourOfKind == 7
StraightFlush == 8

\* HandValue {}: what a default-constructed value holds.
NoValue == <<HighCard, 0, 0, 0, 0, 0>>

\* a > b
Greater(a, b) ==
    \E i \in 1..6 : a[i] > b[i] /\ \A j \in 1..(i - 1) : a[j] = b[j]

\* The elements of S, of which any two are ordered by Before.
Ordered(S, Before(_, _)) ==
    [i \in 1..Cardinality(S) |->
        CHOOSE x \in S : Cardinality({y \in S : Before(y, x)}) = i - 1]

Highest(S) == IF S = {} THEN 0 ELSE Max(S)

\* mutant: the ace does not count below the two.
is_straightNoWheel(values) ==
    LET sorted == SortSeq(values, <) IN
    IF \A i \in 2..5 : sorted[i] = sorted[i - 1] + 1 THEN sorted[5] ELSE 0

\* `high' of is_straight, 0 if it returns false.
is_straight(values) ==
    LET sorted == SortSeq(values, <) IN
    IF \A i \in 2..5 : sorted[i] = sorted[i - 1] + 1 THEN sorted[5]
    ELSE IF sorted = <<2, 3, 4, 5, 14>> THEN 5
    ELSE 0

evaluate_five_values(values0, flush) ==
    LET values == SortSeq(values0, >)
        straight_high == is_straight(values)
        Having(n) == {v \in ToSet(values) : Cardinality({i \in 1..5 : values[i] = v}) = n}
        four == Highest(Having(4))
        trip == Highest(Having(3))
        pairs == Ordered(Having(2), >)
        Kickers(used) == SelectSeq(values, LAMBDA v : v \notin used)
        Hand(category, tiebreakers) ==
            [i \in 1..6 |-> IF i = 1 THEN category
                            ELSE IF i - 1 <= Len(tiebreakers) THEN tiebreakers[i - 1] ELSE 0]
    IN  IF flush /\ straight_high > 0 THEN Hand(StraightFlush, <<straight_high>>)
        ELSE IF four > 0 THEN Hand(FourOfKind, <<four, Highest(Having(1))>>)
        ELSE IF trip > 0 /\ pairs # <<>> THEN Hand(FullHouse, <<trip, pairs[1]>>)
        ELSE IF flush THEN Hand(Flush, values)
        ELSE IF straight_high > 0 THEN Hand(Straight, <<straight_high>>)
        ELSE IF trip > 0 THEN Hand(ThreeOfKind, <<trip>> \o Kickers({trip}))
        ELSE IF Len(pairs) = 2 THEN Hand(TwoPair, pairs \o Kickers(ToSet(pairs)))
        ELSE IF Len(pairs) = 1 THEN Hand(OnePair, pairs \o Kickers(ToSet(pairs)))
        ELSE Hand(HighCard, values)

evaluate_five(cards) ==
    evaluate_five_values([i \in 1..5 |-> cards[i][1]],
                         \A i \in 1..5 : cards[i][2] = cards[1][2])

(* evaluate_best: its loop is run by Showdown, one combination at a time. *)

FirstCombination == <<0, 1, 2, 3, 4>>

\* The positions of c that are not yet at their last value.
CanAdvance(c, n) == {i \in 0..4 : c[i + 1] # i + n - 5}

\* mutant: the advanced position stays where it is.
next_combinationStays(c, n) ==
    LET i == Max(CanAdvance(c, n)) IN
    [j \in 1..5 |-> IF j - 1 < i THEN c[j] ELSE c[i + 1] + j - 1 - i]

\* next_combination, where it returns true.
next_combination(c, n) ==
    LET i == Max(CanAdvance(c, n)) IN
    [j \in 1..5 |-> IF j - 1 < i THEN c[j] ELSE c[i + 1] + j - i]
-----------------------------------------------------------------------------
(* The rules of the game, for a set of five cards. *)

Ranks(hand) == {c[1] : c \in hand}
Copies(hand, r) == Cardinality({c \in hand : c[1] = r})
RanksWith(hand, n) == {r \in Ranks(hand) : Copies(hand, r) = n}

\* The tops of the runs of five that the hand is: one or none.  An ace may
\* stand for a one.
RunTops(hand) ==
    {t \in 5..14 : Ranks(hand) = {IF r = 1 THEN 14 ELSE r : r \in (t - 4)..t}}

OneSuit(hand) == Cardinality({c[2] : c \in hand}) = 1

\* All categories that the hand belongs to; the highest one counts.
Categories(hand) ==
    {category \in 0..8 :
        CASE category = HighCard -> TRUE
          [] category = OnePair -> RanksWith(hand, 2) # {}
          [] category = TwoPair -> Cardinality(RanksWith(hand, 2)) = 2
          [] category = ThreeOfKind -> RanksWith(hand, 3) # {}
          [] category = Straight -> RunTops(hand) # {}
          [] category = Flush -> OneSuit(hand)
          [] category = FullHouse -> RanksWith(hand, 3) # {} /\ RanksWith(hand, 2) # {}
          [] category = FourOfKind -> RanksWith(hand, 4) # {}
          [] category = StraightFlush -> OneSuit(hand) /\ RunTops(hand) # {}}

\* What decides between hands of one category: the top of a run; otherwise
\* the ranks, those with more copies first.
Deciders(hand, category) ==
    IF category \in {Straight, StraightFlush}
    THEN <<Max(RunTops(hand))>>
    ELSE LET weights == {15 * Copies(hand, r) + r : r \in Ranks(hand)}
             ordered == Ordered(weights, >)
         IN  [i \in DOMAIN ordered |-> ordered[i] % 15]

HandRank(hand) ==
    LET category == Max(Categories(hand))
        deciders == Deciders(hand, category)
    IN  <<category>> \o [i \in 1..5 |-> IF i <= Len(deciders) THEN deciders[i] ELSE 0]

\* The best of the hands that some of the cards make.
BestRank(cards) ==
    LET all == {HandRank(hand) : hand \in kSubset(5, cards)} IN
    CHOOSE v \in all : \A w \in all : ~Greater(w, v)
=============================================================================
