---------------------------- MODULE SidePotLoop ----------------------------
(***************************************************************************)
(* compute_side_pots (common/src/side_pots.cpp) run to completion on every *)
(* table of players whose contributions are at most MaxContribution, and   *)
(* compared with what a pot split has to be.                               *)
(***************************************************************************)
EXTENDS SidePots, Sequences, Integers

CONSTANTS
    Player,             \* the players at the table
    MaxContribution     \* bound on what one player has put in

ASSUME PlayerFinite == IsFiniteSet(Player)
ASSUME MaxContributionNat == MaxContribution \in Nat

VARIABLES
    contributed,        \* PotPlayerState::contributed, the input
    folded,             \* PotPlayerState::folded, the input
    remaining,          \* local `remaining'
    eligible,           \* local `eligible'
    pots,               \* local `pots', the result
    running             \* FALSE once the function has returned

vars == <<contributed, folded, remaining, eligible, pots, running>>

Init ==
    /\ contributed \in [Player -> 0..MaxContribution]
    /\ folded \in SUBSET Player
    /\ remaining = contributed
    /\ eligible = Player \ folded
    /\ pots = <<>>
    /\ running = TRUE

\* One turn of the loop.
PeelLayer ==
    /\ running
    /\ \E m \in 1..MaxContribution :
         /\ IsMinBet(remaining, eligible, m)
         /\ remaining' = TakeLayer(remaining, m)
         /\ pots' = Append(pots, [amount |-> PotAmount(remaining, m),
                                  eligible |-> eligible])
    /\ eligible' = StillEligible(remaining', eligible)
    /\ UNCHANGED <<contributed, folded, running>>

\* mutant: the break for eligible players without chips is missing.
ReturnNoBreak ==
    /\ running
    /\ eligible = {}
    /\ running' = FALSE
    /\ UNCHANGED <<contributed, folded, remaining, eligible, pots>>

\* The loop condition fails or the loop breaks; the function returns.
Return ==
    /\ running
    /\ Unpaid(remaining, eligible) = {}
    /\ running' = FALSE
    /\ UNCHANGED <<contributed, folded, remaining, eligible, pots>>

Next == PeelLayer \/ Return

Spec == Init /\ [][Next]_vars /\ WF_vars(Next)
-----------------------------------------------------------------------------
Amounts == [i \in DOMAIN pots |-> pots[i].amount]

PaidIn == SumOver(Amounts, DOMAIN pots)

\* Every variable has its type; a player who folded is never eligible.
TypeOK ==
    /\ contributed \in [Player -> 0..MaxContribution]
    /\ folded \subseteq Player
    /\ remaining \in [Player -> 0..MaxContribution]
    /\ eligible \subseteq Player \ folded
    /\ \A i \in DOMAIN pots : pots[i].amount \in Nat /\ pots[i].eligible \subseteq Player
    /\ running \in BOOLEAN

(* Every chip is in exactly one pot or still with its owner, at every turn
   of the loop: pots and remainders add up to the contributions. *)
NoChipLostWhilePeeling ==
    TypeOK /\ PaidIn + SumOver(remaining, Player) = SumOver(contributed, Player)

(* The pots are ordered: each later pot is contested by strictly fewer
   players, and every pot has a contender and an amount, so award_all_pots
   never skips one (game_session.cpp:605). *)
PotsShrink ==
    /\ \A i \in DOMAIN pots : pots[i].eligible # {} /\ pots[i].amount > 0
    /\ \A i, j \in DOMAIN pots :
         i < j => /\ pots[j].eligible \subseteq pots[i].eligible
                  /\ pots[j].eligible # pots[i].eligible

(* The result, checked against table stakes: what player p can win from
   player q is the smaller of the two contributions, no more and no less,
   however many folded or all-in players there are.  Players who put nothing
   in are left out: the code keeps them in the first pot (the test "One active
   player contributed while opponent has zero" fixes that).  And at every turn
   of the loop the pots are ordered, so that no award skips one. *)
Winnable(p) == SumOver(Amounts, {i \in DOMAIN pots : p \in pots[i].eligible})

TableStakes ==
    /\ PotsShrink
    /\ ~running =>
        \A p \in Player \ folded :
            contributed[p] > 0 =>
                Winnable(p) = SumOver([q \in Player |-> MinOf(contributed[p], contributed[q])], Player)

(* The loop ends on every input. *)
Terminates == <>(~running)
=============================================================================
