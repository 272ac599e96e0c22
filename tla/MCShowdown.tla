----------------------------- MODULE MCShowdown -----------------------------
EXTENDS Showdown

Asc(S) == Ordered(S, LAMBDA a, b : a[1] < b[1] \/ (a[1] = b[1] /\ a[2] < b[2]))

\* Small decks, rich in what the evaluator tells apart: low runs with the ace
\* and one suit, and three ranks with several copies each.
Runs == {<<r, 0>> : r \in {2, 3, 4, 5, 6, 14}} \cup {<<5, 1>>, <<6, 1>>, <<14, 1>>}
Copied == ({9, 14} \X (0..2)) \cup {<<9, 3>>, <<2, 0>>, <<3, 0>>}

\* Every deal of a deck of nine to two players; the order inside a dealt group
\* does not matter.
HeadsUp(d) ==
    {<<2, Reverse(Asc(h1) \o Asc(h2) \o Asc(d \ (h1 \cup h2)))>> :
        <<h1, h2>> \in {x \in kSubset(2, d) \X kSubset(2, d) : x[1] \cap x[2] = {}}}

\* Three players, a board on which hands tie, and every deal of six cards.
Board == {<<10, 0>>, <<11, 1>>, <<12, 2>>, <<13, 3>>, <<13, 0>>}
Hole == {<<14, 0>>, <<14, 1>>, <<13, 1>>, <<9, 0>>, <<9, 1>>, <<2, 0>>}
ThreeHanded ==
    {<<3, Reverse(Asc(h1) \o Asc(h2) \o Asc(Hole \ (h1 \cup h2)) \o Asc(Board))>> :
        <<h1, h2>> \in {x \in kSubset(2, Hole) \X kSubset(2, Hole) : x[1] \cap x[2] = {}}}

\* Tables too large for the deck, one for each street that fails.
TooMany == {<<n, SubSeq(Asc(Runs \cup Copied), 1, 9)>> : n \in 3..5}

MCShuffles == HeadsUp(Runs) \cup HeadsUp(Copied) \cup ThreeHanded \cup TooMany

\* One hand of five for every class of hands of the full deck: ranks in
\* ascending order, in mixed suits and, if they differ, in one suit.  On the
\* turn a hint has six cards: every six of the small decks.
Ascending == {f \in [1..5 -> 2..14] : \A i \in 1..4 : f[i] <= f[i + 1]}
MCHints ==
    {[i \in 1..5 |-> <<f[i], i % 4>>] : f \in {g \in Ascending : g[1] # g[5]}}
    \cup {[i \in 1..5 |-> <<f[i], 0>>] : f \in {g \in Ascending : \A i \in 1..4 : g[i] # g[i + 1]}}
    \cup {Asc(S) : S \in kSubset(6, Runs) \cup kSubset(6, Copied)}
=============================================================================
