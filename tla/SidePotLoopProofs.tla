------------------------- MODULE SidePotLoopProofs -------------------------
(***************************************************************************)
(* Proofs about compute_side_pots for every table: any number of players,  *)
(* any contributions, any of them folded or all-in.                        *)
(*                                                                         *)
(* LoopInv is the loop invariant.  Its heart is SameLevel: the turns of    *)
(* the loop have taken the same amount off everyone who still has chips    *)
(* outside the pots, and not more off anyone else.  So what the pots hold  *)
(* is, seen from a player who is still eligible, the smaller of the two    *)
(* contributions of this player and each other one, up to that level.      *)
(***************************************************************************)
EXTENDS SidePotLoop, ChipSums, SequenceTheorems

Pot == [amount : Nat, eligible : SUBSET Player]

\* What the pots hold of player p's contribution.
Taken(p) == contributed[p] - remaining[p]

PotsTyped ==
    /\ TypeOK
    /\ pots \in Seq(Pot)
    /\ \A p \in Player : remaining[p] <= contributed[p]

SameLevel ==
    \A p, q \in Player : remaining[q] > 0 => Taken(p) <= Taken(q)

\* The players who compete for the next pot have competed for every pot, in
\* larger company, and have chips left unless they never had any in.
StillCompeting ==
    /\ \A i \in DOMAIN pots :
         eligible \subseteq pots[i].eligible /\ eligible # pots[i].eligible
    /\ \A p \in eligible : contributed[p] > 0 => remaining[p] > 0

\* A player whose last chip is in a pot has a claim to what table stakes say.
DroppedAreSettled ==
    \A p \in (Player \ folded) \ eligible :
        contributed[p] > 0 =>
            Winnable(p) = SumOver([q \in Player |-> MinOf(contributed[p], contributed[q])], Player)

LoopInv ==
    /\ PotsTyped
    /\ NoChipLostWhilePeeling
    /\ PotsShrink
    /\ SameLevel
    /\ StillCompeting
    /\ DroppedAreSettled
    /\ ~running => Unpaid(remaining, eligible) = {}
-----------------------------------------------------------------------------
(* The loop starts with no pot and everyone's chips outside. *)
LEMMA InitInv == Init => LoopInv
<1> SUFFICES ASSUME Init PROVE LoopInv
  OBVIOUS
<1>1. pots = <<>> /\ DOMAIN pots = {} /\ pots \in Seq(Pot)
  BY DEF Init
<1>2. contributed \in [Player -> Nat] /\ remaining = contributed
  BY MaxContributionNat DEF Init
<1>3. PotsTyped
  BY <1>1, <1>2 DEF PotsTyped, TypeOK, Init
<1>4. NoChipLostWhilePeeling
  <2>1. PaidIn = 0
    BY <1>1, SumEmpty DEF PaidIn
  <2>2. SumOver(contributed, Player) \in Nat
    BY <1>2, PlayerFinite, SumOverType
  <2>3. QED BY <1>2, <1>3, <2>1, <2>2 DEF NoChipLostWhilePeeling, PotsTyped
<1>5. PotsShrink
  BY <1>1 DEF PotsShrink
<1>6. SameLevel
  BY <1>2 DEF SameLevel, Taken
<1>7. StillCompeting
  BY <1>1, <1>2 DEF StillCompeting, Init
<1>8. DroppedAreSettled
  BY DEF DroppedAreSettled, Init
<1>9. QED BY <1>3, <1>4, <1>5, <1>6, <1>7, <1>8 DEF LoopInv, Init

(* What one turn of the loop does to each player's chips: the layer is at most
   what the player has left, and somebody who competes puts in the last chip. *)
LEMMA PeelStep ==
  ASSUME LoopInv, PeelLayer
  PROVE  \E m \in 1..MaxContribution :
           /\ m \in Nat \ {0}
           /\ \A p \in eligible : remaining[p] > 0 => m <= remaining[p]
           /\ \E p \in eligible : remaining[p] = m
           /\ \A p \in Player : /\ Layer(remaining, m)[p] = MinOf(remaining[p], m)
                                /\ Layer(remaining, m)[p] \in Nat
                                /\ remaining[p] \in Nat /\ remaining'[p] \in Nat
                                /\ remaining[p] = remaining'[p] + Layer(remaining, m)[p]
           /\ remaining' \in [Player -> 0..MaxContribution]
           /\ PotAmount(remaining, m) \in Nat \ {0}
           /\ PotAmount(remaining, m) = SumOver(Layer(remaining, m), Player)
           /\ pots' = Append(pots, [amount |-> PotAmount(remaining, m), eligible |-> eligible])
<1>1. /\ remaining \in [Player -> 0..MaxContribution] /\ DOMAIN remaining = Player
      /\ eligible \subseteq Player
  BY DEF LoopInv, PotsTyped, TypeOK
<1>2. PICK m \in 1..MaxContribution :
         /\ IsMinBet(remaining, eligible, m)
         /\ remaining' = TakeLayer(remaining, m)
         /\ pots' = Append(pots, [amount |-> PotAmount(remaining, m), eligible |-> eligible])
  BY DEF PeelLayer
<1>3. m \in Nat \ {0}
  BY MaxContributionNat
<1>4. /\ \A p \in eligible : remaining[p] > 0 => m <= remaining[p]
      /\ \E p \in eligible : remaining[p] = m
  BY <1>2 DEF IsMinBet, Unpaid
<1>5. ASSUME NEW p \in Player
      PROVE  /\ Layer(remaining, m)[p] = MinOf(remaining[p], m)
             /\ Layer(remaining, m)[p] \in Nat
             /\ remaining[p] \in Nat /\ remaining'[p] \in 0..MaxContribution
             /\ remaining[p] = remaining'[p] + Layer(remaining, m)[p]
  <2>1. remaining[p] \in 0..MaxContribution
    BY <1>1
  <2>2. Layer(remaining, m)[p] = MinOf(remaining[p], m)
    BY <1>1 DEF Layer
  <2>3. remaining'[p] = remaining[p] - MinOf(remaining[p], m)
    BY <1>1, <1>2 DEF TakeLayer
  <2>4. QED BY <1>3, <2>1, <2>2, <2>3, MaxContributionNat DEF MinOf
<1>6. remaining' \in [Player -> 0..MaxContribution]
  <2>1. remaining' = [p \in Player |-> remaining[p] - MinOf(remaining[p], m)]
    BY <1>1, <1>2 DEF TakeLayer
  <2>2. QED BY <1>5, <2>1
<1>7. PotAmount(remaining, m) = SumOver(Layer(remaining, m), Player)
  BY <1>1 DEF PotAmount
<1>8. PotAmount(remaining, m) \in Nat \ {0}
  <2>1. SumOver(Layer(remaining, m), Player) \in Nat
    BY <1>5, PlayerFinite, SumOverType
  <2>2. PICK p \in eligible : remaining[p] = m
    BY <1>4
  <2>3. p \in Player /\ Layer(remaining, m)[p] # 0
    BY <1>1, <1>3, <1>5, <2>2 DEF MinOf
  <2>4. SumOver(Layer(remaining, m), Player) # 0
    BY <1>5, <2>3, PlayerFinite, SumZero
  <2>5. QED BY <1>7, <2>1, <2>4
<1>9. QED BY <1>2, <1>3, <1>4, <1>5, <1>6, <1>7, <1>8

(* Adding a pot of some amount behind the others adds the amount to what the
   pots hold, and to what those can win who compete for it. *)
LEMMA AddPot ==
  ASSUME pots \in Seq(Pot), NEW amount \in Nat, NEW E \in SUBSET Player,
         pots' = Append(pots, [amount |-> amount, eligible |-> E])
  PROVE  /\ PaidIn \in Nat /\ PaidIn' = PaidIn + amount
         /\ \A p : Winnable(p)' = Winnable(p) + IF p \in E THEN amount ELSE 0
         /\ \A p : Winnable(p) \in Nat
         /\ pots' \in Seq(Pot)
         /\ DOMAIN pots' = DOMAIN pots \cup {Len(pots) + 1}
         /\ \A i \in DOMAIN pots : pots'[i] = pots[i] /\ i < Len(pots) + 1
         /\ pots'[Len(pots) + 1] = [amount |-> amount, eligible |-> E]
<1> DEFINE n == Len(pots) + 1
           new == [amount |-> amount, eligible |-> E]
<1>1. new \in Pot
  BY DEF Pot
<1>2. /\ pots' \in Seq(Pot) /\ Len(pots') = n
      /\ \A i \in 1..Len(pots) : pots'[i] = pots[i]
      /\ pots'[n] = new
  BY <1>1, AppendProperties
<1>3. /\ DOMAIN pots = 1..Len(pots) /\ DOMAIN pots' = DOMAIN pots \cup {n} /\ n \notin DOMAIN pots
      /\ Len(pots) \in Nat
      /\ \A i \in DOMAIN pots : i < n
  BY <1>2
<1>4. IsFiniteSet(DOMAIN pots)
  <2>1. 1 \in Int /\ Len(pots) \in Int
    BY <1>3
  <2>2. QED BY <1>3, <2>1, FS_Interval
<1>5. \A i \in DOMAIN pots : Amounts[i] \in Nat /\ Amounts'[i] = Amounts[i]
  <2>1. \A i \in DOMAIN pots : pots[i] \in Pot
    BY <1>3
  <2>2. \A i \in DOMAIN pots : pots[i].amount \in Nat
    BY <2>1 DEF Pot
  <2>3. QED BY <1>2, <1>3, <2>2 DEF Amounts
<1>6. Amounts'[n] = amount
  BY <1>2, <1>3 DEF Amounts
<1> HIDE DEF n, new
<1>7. ASSUME NEW D \in SUBSET (DOMAIN pots)
      PROVE  /\ SumOver(Amounts, D) \in Nat
             /\ SumOver(Amounts', D) = SumOver(Amounts, D)
             /\ SumOver(Amounts', D \cup {n}) = SumOver(Amounts, D) + amount
  <2>1. IsFiniteSet(D) /\ IsFiniteSet({n}) /\ D \cap {n} = {}
    <3>1. IsFiniteSet(D)
      BY <1>4, FS_Subset
    <3>2. QED BY <1>3, <3>1, FS_Singleton
  <2>2. \A i \in D : Amounts[i] \in Nat /\ Amounts'[i] = Amounts[i]
    BY <1>5
  <2>3. \A i \in D \cup {n} : Amounts'[i] \in Nat
    BY <1>5, <1>6
  <2>4. SumOver(Amounts', D \cup {n}) = SumOver(Amounts', D) + SumOver(Amounts', {n})
    BY <2>1, <2>3, SumDisjoint
  <2>5. SumOver(Amounts', {n}) = amount
    BY <1>6, SumSingleton
  <2>6. SumOver(Amounts', D) = SumOver(Amounts, D)
    BY <2>2, SumCong
  <2>7. SumOver(Amounts, D) \in Nat
    BY <2>1, <2>2, SumOverType
  <2>8. QED BY <2>4, <2>5, <2>6, <2>7
<1>8. PaidIn \in Nat /\ PaidIn' = PaidIn + amount
  BY <1>3, <1>7 DEF PaidIn
<1>9. ASSUME NEW p
      PROVE  Winnable(p) \in Nat /\ Winnable(p)' = Winnable(p) + IF p \in E THEN amount ELSE 0
  <2> DEFINE D == {i \in DOMAIN pots : p \in pots[i].eligible}
  <2>1. {i \in DOMAIN pots' : p \in pots'[i].eligible} = IF p \in E THEN D \cup {n} ELSE D
    BY <1>2, <1>3 DEF new
  <2>2. D \in SUBSET (DOMAIN pots)
    OBVIOUS
  <2>3. Winnable(p) = SumOver(Amounts, D)
    BY DEF Winnable
  <2>4. Winnable(p)' = SumOver(Amounts', IF p \in E THEN D \cup {n} ELSE D)
    BY <2>1 DEF Winnable
  <2> HIDE DEF D
  <2>5. CASE p \in E
    BY <1>7, <2>2, <2>3, <2>4, <2>5
  <2>6. CASE p \notin E
    <3>1. Winnable(p)' = SumOver(Amounts, D) /\ SumOver(Amounts, D) \in Nat
      BY <1>7, <2>2, <2>4, <2>6
    <3>2. QED BY <2>3, <2>6, <3>1
  <2>7. QED BY <2>5, <2>6
<1>10. QED BY <1>2, <1>3, <1>8, <1>9 DEF n, new
(* What the pots hold of a table that is level: for a player p with chips left
   it is, of each player, the smaller of that contribution and p's own share. *)
LEMMA LevelShare ==
  ASSUME NEW c \in [Player -> Nat], NEW r \in [Player -> Nat], NEW p \in Player,
         \A q \in Player : /\ r[q] <= c[q]
                           /\ c[q] - r[q] <= c[p] - r[p]
                           /\ r[q] > 0 => c[p] - r[p] <= c[q] - r[q]
  PROVE  SumOver(c, Player) =
           SumOver([q \in Player |-> MinOf(c[p] - r[p], c[q])], Player) + SumOver(r, Player)
<1> DEFINE share == [q \in Player |-> MinOf(c[p] - r[p], c[q])]
<1>1. ASSUME NEW q \in Player
      PROVE  share[q] \in Nat /\ r[q] \in Nat /\ c[q] = share[q] + r[q]
  <2>1. /\ c[q] \in Nat /\ r[q] \in Nat /\ c[p] \in Nat /\ r[p] \in Nat
        /\ r[q] <= c[q] /\ r[p] <= c[p] /\ c[q] - r[q] <= c[p] - r[p]
        /\ r[q] > 0 => c[p] - r[p] <= c[q] - r[q]
    OBVIOUS
  <2>2. share[q] = MinOf(c[p] - r[p], c[q])
    OBVIOUS
  <2> HIDE DEF share
  <2>3. QED BY <2>1, <2>2 DEF MinOf
<1> HIDE DEF share
<1>2. SumOver(c, Player) = SumOver(share, Player) + SumOver(r, Player)
  BY <1>1, PlayerFinite, SumAdd
<1>3. QED BY <1>2 DEF share

(* One turn of the loop keeps the loop invariant. *)
LEMMA PeelInv == LoopInv /\ PeelLayer => LoopInv'
<1> SUFFICES ASSUME LoopInv, PeelLayer PROVE LoopInv'
  OBVIOUS
<1>1. PICK m \in 1..MaxContribution :
           /\ m \in Nat \ {0}
           /\ \A p \in eligible : remaining[p] > 0 => m <= remaining[p]
           /\ \E p \in eligible : remaining[p] = m
           /\ \A p \in Player : /\ Layer(remaining, m)[p] = MinOf(remaining[p], m)
                                /\ Layer(remaining, m)[p] \in Nat
                                /\ remaining[p] \in Nat /\ remaining'[p] \in Nat
                                /\ remaining[p] = remaining'[p] + Layer(remaining, m)[p]
           /\ remaining' \in [Player -> 0..MaxContribution]
           /\ PotAmount(remaining, m) \in Nat \ {0}
           /\ PotAmount(remaining, m) = SumOver(Layer(remaining, m), Player)
           /\ pots' = Append(pots, [amount |-> PotAmount(remaining, m), eligible |-> eligible])
  BY PeelStep
<1> DEFINE amount == PotAmount(remaining, m)
           n == Len(pots) + 1
<1>2. /\ pots \in Seq(Pot) /\ eligible \in SUBSET Player /\ eligible \subseteq Player \ folded
      /\ amount \in Nat
      /\ pots' = Append(pots, [amount |-> amount, eligible |-> eligible])
  BY <1>1 DEF LoopInv, PotsTyped, TypeOK
<1>3. UNCHANGED <<contributed, folded, running>> /\ running /\ eligible' = {p \in eligible : remaining'[p] # 0}
  BY DEF PeelLayer, StillEligible
<1>4. contributed \in [Player -> Nat] /\ \A p \in Player : remaining[p] <= contributed[p]
  BY MaxContributionNat DEF LoopInv, PotsTyped, TypeOK
<1>5. /\ amount > 0
      /\ \A p \in Player : /\ remaining[p] \in Nat /\ remaining'[p] \in Nat
                           /\ remaining'[p] = remaining[p] - MinOf(remaining[p], m)
  BY <1>1
<1>6. /\ PaidIn \in Nat /\ PaidIn' = PaidIn + amount
      /\ \A p : Winnable(p)' = Winnable(p) + IF p \in eligible THEN amount ELSE 0
      /\ \A p : Winnable(p) \in Nat
      /\ pots' \in Seq(Pot)
      /\ DOMAIN pots' = DOMAIN pots \cup {n}
      /\ \A i \in DOMAIN pots : pots'[i] = pots[i] /\ i < n
      /\ pots'[n] = [amount |-> amount, eligible |-> eligible]
  <2> HIDE DEF amount
  <2>1. QED BY <1>2, AddPot
<1>7. n \in Nat
  BY <1>2
<1>8. SumOver(remaining, Player) = SumOver(remaining', Player) + amount
  BY <1>1, PlayerFinite, SumAdd
<1> HIDE DEF amount, n
<1>9. PotsTyped'
  <2>1. TypeOK'
    <3>1. \A i \in DOMAIN pots' : pots'[i].amount \in Nat /\ pots'[i].eligible \subseteq Player
      BY <1>2, <1>6 DEF LoopInv, PotsTyped, TypeOK
    <3>2. eligible' \subseteq Player \ folded'
      BY <1>2, <1>3
    <3>3. QED BY <1>1, <1>3, <3>1, <3>2 DEF LoopInv, PotsTyped, TypeOK
  <2>2. \A p \in Player : remaining'[p] <= contributed'[p]
    BY <1>1, <1>3, <1>4, <1>5 DEF MinOf
  <2>3. QED BY <1>6, <2>1, <2>2 DEF PotsTyped
<1>10. NoChipLostWhilePeeling'
  <2>1. PaidIn + SumOver(remaining, Player) = SumOver(contributed, Player)
    BY DEF LoopInv, NoChipLostWhilePeeling
  <2>2. SumOver(remaining', Player) \in Nat
    BY <1>5, PlayerFinite, SumOverType
  <2>3. PaidIn' + SumOver(remaining', Player) = SumOver(contributed', Player)
    BY <1>2, <1>3, <1>6, <1>8, <2>1, <2>2
  <2>4. TypeOK' BY <1>9 DEF PotsTyped
  <2>5. QED BY <2>3, <2>4 DEF NoChipLostWhilePeeling
<1>11. PotsShrink'
  <2>1. eligible # {}
    BY <1>1
  <2>2. \A i \in DOMAIN pots : /\ pots[i].eligible # {} /\ pots[i].amount > 0
                               /\ eligible \subseteq pots[i].eligible /\ eligible # pots[i].eligible
    BY DEF LoopInv, PotsShrink, StillCompeting
  <2>3. \A i \in DOMAIN pots' : pots'[i].eligible # {} /\ pots'[i].amount > 0
    BY <1>5, <1>6, <2>1, <2>2
  <2>4. ASSUME NEW i \in DOMAIN pots', NEW j \in DOMAIN pots', i < j
        PROVE  pots'[j].eligible \subseteq pots'[i].eligible /\ pots'[j].eligible # pots'[i].eligible
    <3>0. \A k \in DOMAIN pots : k \in Nat /\ k < n
      BY <1>2, <1>6
    <3>1. i \in DOMAIN pots
      BY <1>6, <1>7, <2>4, <3>0
    <3>2. CASE j = n
      BY <1>6, <2>2, <3>1, <3>2
    <3>3. CASE j \in DOMAIN pots
      BY <1>6, <2>4, <3>1, <3>3 DEF LoopInv, PotsShrink
    <3>4. QED BY <1>6, <3>2, <3>3
  <2>5. QED BY <2>3, <2>4 DEF PotsShrink
<1>12. SameLevel'
  <2> SUFFICES ASSUME NEW p \in Player, NEW q \in Player, remaining'[q] > 0
               PROVE  contributed[p] - remaining'[p] <= contributed[q] - remaining'[q]
    BY <1>3 DEF SameLevel, Taken
  <2>1. remaining[q] > 0 => contributed[p] - remaining[p] <= contributed[q] - remaining[q]
    BY DEF LoopInv, SameLevel, Taken
  <2>2. /\ remaining[p] \in Nat /\ remaining[q] \in Nat /\ contributed[p] \in Nat /\ contributed[q] \in Nat
        /\ remaining'[p] = remaining[p] - MinOf(remaining[p], m)
        /\ remaining'[q] = remaining[q] - MinOf(remaining[q], m)
        /\ m \in Nat
    BY <1>1, <1>4, <1>5
  <2>3. QED BY <2>1, <2>2 DEF MinOf
<1>13. ASSUME NEW p \in eligible, contributed[p] > 0
       PROVE  /\ remaining[p] > 0
              /\ \A q \in Player : Taken(q)' <= Taken(p)' /\ (remaining'[q] > 0 => Taken(p)' <= Taken(q)')
  <2>1. remaining[p] > 0 /\ m <= remaining[p] /\ p \in Player
    BY <1>1, <1>2, <1>13 DEF LoopInv, StillCompeting
  <2>2. ASSUME NEW q \in Player PROVE Taken(q)' <= Taken(p)'
    <3>1. contributed[q] - remaining[q] <= contributed[p] - remaining[p]
      BY <2>1 DEF LoopInv, SameLevel, Taken
    <3>2. /\ remaining[p] \in Nat /\ remaining[q] \in Nat /\ contributed[p] \in Nat /\ contributed[q] \in Nat
          /\ remaining'[p] = remaining[p] - MinOf(remaining[p], m)
          /\ remaining'[q] = remaining[q] - MinOf(remaining[q], m)
          /\ m \in Nat
      BY <1>1, <1>4, <1>5, <2>1
    <3>3. contributed[q] - remaining'[q] <= contributed[p] - remaining'[p]
      BY <2>1, <3>1, <3>2 DEF MinOf
    <3>4. QED BY <1>3, <3>3 DEF Taken
  <2>3. \A q \in Player : remaining'[q] > 0 => Taken(p)' <= Taken(q)'
    BY <1>12, <2>1 DEF SameLevel
  <2>4. QED BY <2>1, <2>2, <2>3
<1>14. StillCompeting'
  <2>1. PICK p \in eligible : remaining[p] = m
    BY <1>1
  <2>2. remaining'[p] = 0 /\ p \notin eligible'
    BY <1>1, <1>2, <1>3, <1>5, <2>1 DEF MinOf
  <2>3. eligible' \subseteq eligible /\ eligible' # eligible
    BY <1>3, <2>1, <2>2
  <2>4. \A i \in DOMAIN pots : eligible \subseteq pots[i].eligible /\ eligible # pots[i].eligible
    BY DEF LoopInv, StillCompeting
  <2>5. \A i \in DOMAIN pots' : eligible' \subseteq pots'[i].eligible /\ eligible' # pots'[i].eligible
    <3> SUFFICES ASSUME NEW i \in DOMAIN pots'
                 PROVE  eligible' \subseteq pots'[i].eligible /\ eligible' # pots'[i].eligible
      OBVIOUS
    <3>1. CASE i = n
      BY <1>6, <2>3, <3>1
    <3>2. CASE i \in DOMAIN pots
      <4>1. pots'[i] = pots[i] /\ eligible \subseteq pots[i].eligible /\ eligible # pots[i].eligible
        BY <1>6, <2>4, <3>2
      <4>2. QED BY <2>3, <4>1
    <3>3. QED BY <1>6, <3>1, <3>2
  <2>6. \A q \in eligible' : contributed'[q] > 0 => remaining'[q] > 0
    BY <1>2, <1>3, <1>5
  <2>7. QED BY <2>5, <2>6 DEF StillCompeting
<1>15. DroppedAreSettled'
  <2> SUFFICES ASSUME NEW p \in (Player \ folded) \ eligible', contributed[p] > 0
               PROVE  Winnable(p)' =
                        SumOver([q \in Player |-> MinOf(contributed[p], contributed[q])], Player)
    BY <1>3 DEF DroppedAreSettled
  <2>1. CASE p \notin eligible
    BY <1>6, <2>1 DEF LoopInv, DroppedAreSettled
  <2>2. CASE p \in eligible
    <3>1. remaining'[p] = 0
      BY <1>3, <2>2
    <3>3. SumOver(contributed, Player) =
            SumOver([q \in Player |-> MinOf(contributed[p], contributed[q])], Player)
            + SumOver(remaining', Player)
      <4>1. \A q \in Player : Taken(q)' <= Taken(p)' /\ (remaining'[q] > 0 => Taken(p)' <= Taken(q)')
        BY <1>13, <2>2
      <4>2. \A q \in Player :
              /\ remaining'[q] <= contributed[q]
              /\ contributed[q] - remaining'[q] <= contributed[p] - remaining'[p]
              /\ remaining'[q] > 0 => contributed[p] - remaining'[p] <= contributed[q] - remaining'[q]
        BY <1>3, <1>9, <4>1 DEF PotsTyped, Taken
      <4>3. remaining' \in [Player -> Nat]
        BY <1>1, <1>5
      <4>4. SumOver(contributed, Player) =
              SumOver([q \in Player |-> MinOf(contributed[p] - remaining'[p], contributed[q])], Player)
              + SumOver(remaining', Player)
        BY <1>4, <4>2, <4>3, LevelShare
      <4>5. contributed[p] - remaining'[p] = contributed[p]
        BY <1>4, <3>1
      <4>6. QED BY <4>4, <4>5
    <3>4. Winnable(p)' = PaidIn'
      <4>1. {i \in DOMAIN pots' : p \in pots'[i].eligible} = DOMAIN pots'
        BY <1>6, <2>2 DEF LoopInv, StillCompeting
      <4>2. QED BY <4>1 DEF Winnable, PaidIn
    <3>5. PaidIn' + SumOver(remaining', Player) = SumOver(contributed', Player)
      BY <1>10 DEF NoChipLostWhilePeeling
    <3>6. /\ SumOver([q \in Player |-> MinOf(contributed[p], contributed[q])], Player) \in Nat
          /\ SumOver(remaining', Player) \in Nat
      <4>1. \A q \in Player : [r \in Player |-> MinOf(contributed[p], contributed[r])][q] \in Nat
        BY <1>4 DEF MinOf
      <4>2. QED BY <1>5, <4>1, PlayerFinite, SumOverType
    <3>7. PaidIn' \in Nat
      BY <1>2, <1>6
    <3>8. QED BY <1>3, <3>3, <3>4, <3>5, <3>6, <3>7
  <2>3. QED BY <2>1, <2>2
<1>16. QED BY <1>3, <1>9, <1>10, <1>11, <1>12, <1>14, <1>15 DEF LoopInv
(* The return leaves the pots as they are, with nobody who competes having
   chips left; the invariant says no more about it. *)
LEMMA ReturnInv ==
  ASSUME LoopInv, UNCHANGED <<contributed, folded, remaining, eligible, pots>>,
         running' \in BOOLEAN, ~running' => Unpaid(remaining, eligible) = {}
  PROVE  LoopInv'
<1>1. Amounts' = Amounts /\ PaidIn' = PaidIn /\ \A p : Winnable(p)' = Winnable(p)
  BY DEF Winnable, PaidIn, Amounts
<1>2. PotsTyped' /\ SameLevel' /\ StillCompeting' /\ PotsShrink'
  BY DEF LoopInv, PotsTyped, TypeOK, SameLevel, StillCompeting, PotsShrink, Taken
<1>3. NoChipLostWhilePeeling' /\ DroppedAreSettled'
  BY <1>1, <1>2 DEF LoopInv, PotsTyped, NoChipLostWhilePeeling, DroppedAreSettled
<1>4. QED BY <1>2, <1>3 DEF LoopInv

(* The loop invariant holds at every turn. *)
LEMMA LoopInvHolds == Spec => []LoopInv
<1>1. Init => LoopInv
  BY InitInv
<1>2. LoopInv /\ [Next]_vars => LoopInv'
  <2>1. LoopInv /\ UNCHANGED vars => LoopInv'
    BY ReturnInv DEF LoopInv, PotsTyped, TypeOK, vars
  <2>2. LoopInv /\ Return => LoopInv'
    BY ReturnInv DEF Return
  <2>3. QED BY <2>1, <2>2, PeelInv DEF Next
<1>3. QED BY <1>1, <1>2, PTL DEF Spec

(* At every turn of compute_side_pots, for every table, the pots and the
   remainders add up to what the players put in. *)
THEOREM PeelingLosesNothing == Spec => []NoChipLostWhilePeeling
<1>1. LoopInv => NoChipLostWhilePeeling
  BY DEF LoopInv
<1>2. QED BY <1>1, LoopInvHolds, PTL

(* compute_side_pots gives every player in the hand exactly what table stakes
   promise, for any number of folded and all-in players; and each pot has an
   amount and fewer contenders than the one before it. *)
THEOREM SidePotsAreTableStakes == Spec => []TableStakes
<1>1. LoopInv => TableStakes
  <2> SUFFICES ASSUME LoopInv, ~running, NEW p \in Player \ folded, contributed[p] > 0
               PROVE  Winnable(p) =
                        SumOver([q \in Player |-> MinOf(contributed[p], contributed[q])], Player)
    BY DEF LoopInv, TableStakes
  <2>1. p \notin eligible
    BY DEF LoopInv, StillCompeting, Unpaid
  <2>2. QED BY <2>1 DEF LoopInv, DroppedAreSettled
<1>2. QED BY <1>1, LoopInvHolds, PTL
=============================================================================
