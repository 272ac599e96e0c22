-------------------------------- MODULE Table --------------------------------
(***************************************************************************)
(* What a table promises its players, without seats, turns, streets, side  *)
(* pots or messages: chips move from a stack to the pot and from the pot   *)
(* to a stack, and nowhere else.  GameSession is shown to implement it.    *)
(***************************************************************************)
EXTENDS SidePots

CONSTANT Player         \* the accounts that may sit at the table

VARIABLES
    stack,              \* the chips in front of each player at the table
    pot,                \* the chips that are bet and not paid out
    out,                \* the players at the table who cannot win the pot
    account,            \* the saved balance of every player
    over,               \* no further hand is dealt until players leave
    left                \* somebody has left since the last pot was closed

tableVars == <<stack, pot, out, account, over, left>>

AtTable == DOMAIN stack
Chips(s) == SumOver(s, AtTable)

Init ==
    /\ AtTable \subseteq Player
    /\ pot = 0 /\ out = {} /\ ~over /\ ~left
    /\ \A p \in AtTable : account[p] = stack[p]

\* The accounts are written by saving the stacks of the whole table, or not.
Saved ==
    \A p \in Player :
        account'[p] = IF p \in AtTable /\ account' # account THEN stack'[p] ELSE account[p]

\* Players of the set S put chips in the pot.
PutIn(S) ==
    /\ DOMAIN stack' = AtTable
    /\ \A p \in AtTable : stack'[p] <= stack[p] /\ (p \notin S => stack'[p] = stack[p])
    /\ pot' + Chips(stack') = pot + Chips(stack)

\* A hand begins, with everybody in it, only when the last pot is gone.
NewHand ==
    /\ pot = 0
    /\ PutIn(AtTable)
    /\ out' = {} /\ ~over' /\ ~left' /\ Saved

\* One player bets.  It may be a player who is out only when the table is over
\* (the engine then still takes the actions of the player whose turn it was)
\* or when somebody has left during the hand (the turn may then have passed to
\* a player who folded: fix_indices_after_removal wraps the last seat to 0).
Bet ==
    /\ \E p \in AtTable : (p \in out => over \/ left) /\ PutIn({p})
    /\ UNCHANGED <<out, account, over, left>>

GiveUp ==
    /\ \E p \in AtTable : out' = out \cup {p}
    /\ UNCHANGED <<stack, pot, account, over, left>>

\* Chips of the pot go to players who are in the hand; none is lost.
Pay ==
    /\ DOMAIN stack' = AtTable
    /\ \A p \in AtTable : stack'[p] >= stack[p] /\ (p \in out => stack'[p] = stack[p])
    /\ pot' + Chips(stack') = pot + Chips(stack)
    /\ UNCHANGED <<out, account, over, left>>

\* The pot is closed: what no pot claims is dropped, and the stacks are saved
\* unless the accounts hold as much already.
Close ==
    /\ UNCHANGED <<stack, out, over>>
    /\ pot' = 0 /\ ~left'
    /\ Saved /\ \A p \in AtTable : account'[p] >= stack[p]

\* Fewer than two players have chips: the table waits.
GameOver ==
    /\ Cardinality({p \in AtTable : stack[p] > 0}) < 2
    /\ over'
    /\ UNCHANGED <<stack, pot, out, account, left>>

\* A player who is out of the hand leaves with the whole stack, and leaves
\* the pot behind.
Leave ==
    \E p \in out :
        /\ account' = [account EXCEPT ![p] = stack[p]]
        /\ stack' = [q \in AtTable \ {p} |-> stack[q]]
        /\ out' = out \ {p}
        /\ left'
        /\ UNCHANGED <<pot, over>>

Next == NewHand \/ Bet \/ GiveUp \/ Pay \/ Close \/ GameOver \/ Leave

Spec == Init /\ [][Next]_tableVars
=============================================================================
