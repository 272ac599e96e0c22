------------------------------ MODULE SidePots ------------------------------
(***************************************************************************)
(* The side-pot computation of the server, common/src/side_pots.cpp.       *)
(*                                                                         *)
(* compute_side_pots peels layers off the contributions of one hand.  The  *)
(* operators below are one turn of its while loop.  The loop itself is a   *)
(* machine twice: SidePotLoop runs it alone on every bounded input, and    *)
(* GameSession runs it inside award_all_pots.                              *)
(*                                                                         *)
(* `remaining' maps each player at the table to the part of the hand's     *)
(* contribution that is in no pot yet; `eligible' is the set of players    *)
(* who have not folded and can still win.  The code keeps indices into     *)
(* the vector of players; a set of players loses only their order, which   *)
(* GameSession takes from the seats where it matters (the odd chips).      *)
(***************************************************************************)
EXTENDS Naturals, FiniteSets

\* The sum of f over S.  Every unit of f[p] is one chip <<p, k>> and the sum
\* is the number of chips: a definition without recursion, so that facts
\* about sums follow from facts about finite sets.
ChipsOf(f, S) == UNION {{p} \X (1..f[p]) : p \in S}
SumOver(f, S) == Cardinality(ChipsOf(f, S))

MinOf(a, b) == IF a <= b THEN a ELSE b

\* side_pots.cpp:28-32: the players who still have chips outside the pots.
Unpaid(remaining, eligible) == {p \in eligible : remaining[p] > 0}

\* side_pots.cpp:26-36: m is min_bet of this turn.  No m exists, and the loop
\* ends, when eligible is empty or nobody in it has chips left.
IsMinBet(remaining, eligible, m) ==
    /\ \E p \in Unpaid(remaining, eligible) : remaining[p] = m
    /\ \A p \in Unpaid(remaining, eligible) : m <= remaining[p]

\* mutant: a player who put in less than the layer is skipped.
LayerSkipsShort(remaining, m) ==
    [p \in DOMAIN remaining |-> IF remaining[p] >= m THEN m ELSE 0]

\* side_pots.cpp:38-46: what each player, folded or not, puts in this pot.
Layer(remaining, m) == [p \in DOMAIN remaining |-> MinOf(remaining[p], m)]

PotAmount(remaining, m) == SumOver(Layer(remaining, m), DOMAIN remaining)

TakeLayer(remaining, m) ==
    [p \in DOMAIN remaining |-> remaining[p] - MinOf(remaining[p], m)]

\* mutant: a player with one chip left is dropped.
StillEligibleMoreThanOne(remaining, eligible) == {p \in eligible : remaining[p] > 1}

\* side_pots.cpp:51-54: who may still win the next pot.
StillEligible(remaining, eligible) == {p \in eligible : remaining[p] # 0}
=============================================================================
