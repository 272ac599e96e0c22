------------------------------ MODULE ChipSums ------------------------------
(***************************************************************************)
(* Facts about SumOver, the sum of the amounts that a function gives to    *)
(* the members of a finite set.  SumOver counts chips, so each fact is one *)
(* about the cardinality of a set of chips <<p, k>>.  The proofs about     *)
(* pots, stacks and balances rest on these lemmas.  The last section has   *)
(* facts about sequences and least members that several proofs share.      *)
(***************************************************************************)
EXTENDS SidePots, Integers, Sequences, SequencesExt, FiniteSetsExt, TLAPS,
        FiniteSetTheorems, FunctionTheorems, SequenceTheorems, WellFoundedInduction

(* A chip of the sum is the k-th chip of a player p, for 1 <= k <= f[p]. *)
LEMMA ChipsOfDef ==
  ASSUME NEW S, NEW f
  PROVE  \A c : c \in ChipsOf(f, S) <=> \E p \in S : \E k \in 1..f[p] : c = <<p, k>>
<1>1. ASSUME NEW c PROVE c \in ChipsOf(f, S) <=> \E p \in S : c \in {p} \X (1..f[p])
  BY Zenon DEF ChipsOf
<1>2. ASSUME NEW c, NEW p PROVE c \in {p} \X (1..f[p]) <=> \E k \in 1..f[p] : c = <<p, k>>
  OBVIOUS
<1>3. QED BY <1>1, <1>2

(* The sum of finitely many amounts of chips is an amount of chips. *)
LEMMA SumOverType ==
  ASSUME NEW S, IsFiniteSet(S), NEW f, \A p \in S : f[p] \in Nat
  PROVE  IsFiniteSet(ChipsOf(f, S)) /\ SumOver(f, S) \in Nat
<1> DEFINE T == {{p} \X (1..f[p]) : p \in S}
           g == [p \in S |-> {p} \X (1..f[p])]
<1>1. g \in Surjection(S, T)
  BY DEF Surjection
<1>2. IsFiniteSet(T)
  BY <1>1, FS_Surjection
<1>3. \A t \in T : IsFiniteSet(t)
  <2> SUFFICES ASSUME NEW p \in S PROVE IsFiniteSet({p} \X (1..f[p]))
    OBVIOUS
  <2>0. 1 \in Int /\ f[p] \in Int
    OBVIOUS
  <2>1. IsFiniteSet(1..f[p])
    BY <2>0, FS_Interval
  <2>3. IsFiniteSet({p})
    BY FS_Singleton
  <2>2. QED BY <2>1, <2>3, FS_Product
<1>4. IsFiniteSet(UNION T)
  BY <1>2, <1>3, FS_UNION
<1>5. QED BY <1>4, FS_CardinalityType DEF ChipsOf, SumOver

(* Nobody has no chips. *)
LEMMA SumEmpty == ASSUME NEW f PROVE SumOver(f, {}) = 0
<1>1. ChipsOf(f, {}) = {}
  BY DEF ChipsOf
<1>2. QED BY <1>1, FS_EmptySet DEF SumOver

(* A sum depends only on the amounts of the members it is taken over. *)
LEMMA SumCong ==
  ASSUME NEW S, NEW f, NEW g, \A p \in S : f[p] = g[p]
  PROVE  SumOver(f, S) = SumOver(g, S)
<1>1. \A c : c \in ChipsOf(f, S) <=> c \in ChipsOf(g, S)
  <2>1. \A c : c \in ChipsOf(f, S) <=> \E p \in S : \E k \in 1..f[p] : c = <<p, k>>
    BY ChipsOfDef
  <2>2. \A c : c \in ChipsOf(g, S) <=> \E p \in S : \E k \in 1..g[p] : c = <<p, k>>
    BY ChipsOfDef
  <2>3. QED BY <2>1, <2>2, Zenon
<1>2. ChipsOf(f, S) = ChipsOf(g, S)
  BY <1>1, Zenon
<1>3. QED BY <1>2 DEF SumOver

(* The sum over one member is its amount. *)
LEMMA SumSingleton ==
  ASSUME NEW f, NEW p, f[p] \in Nat
  PROVE  SumOver(f, {p}) = f[p]
<1>1. ChipsOf(f, {p}) = {p} \X (1..f[p])
  BY DEF ChipsOf
<1>2. IsFiniteSet({p}) /\ Cardinality({p}) = 1
  BY FS_Singleton
<1>3. IsFiniteSet(1..f[p]) /\ Cardinality(1..f[p]) = f[p]
  <2>1. 1 \in Int /\ f[p] \in Int
    OBVIOUS
  <2>2. IsFiniteSet(1..f[p]) /\ Cardinality(1..f[p]) = IF 1 > f[p] THEN 0 ELSE f[p] - 1 + 1
    BY <2>1, FS_Interval
  <2>3. QED BY <2>2
<1>4. Cardinality({p} \X (1..f[p])) = Cardinality({p}) * Cardinality(1..f[p])
  BY <1>2, <1>3, FS_Product
<1>5. SumOver(f, {p}) = Cardinality({p} \X (1..f[p]))
  BY <1>1, Zenon DEF SumOver
<1>6. Cardinality({p}) * Cardinality(1..f[p]) = f[p]
  BY <1>2, <1>3
<1>7. QED BY <1>4, <1>5, <1>6, Zenon

(* Two groups without a common member: their sums add up. *)
LEMMA SumDisjoint ==
  ASSUME NEW S, NEW T, IsFiniteSet(S), IsFiniteSet(T), S \cap T = {},
         NEW f, \A p \in S \cup T : f[p] \in Nat
  PROVE  SumOver(f, S \cup T) = SumOver(f, S) + SumOver(f, T)
<1>1. IsFiniteSet(ChipsOf(f, S)) /\ IsFiniteSet(ChipsOf(f, T))
  BY SumOverType
<1>2. ChipsOf(f, S \cup T) = ChipsOf(f, S) \cup ChipsOf(f, T)
  BY Zenon DEF ChipsOf
<1>3. ChipsOf(f, S) \cap ChipsOf(f, T) = {}
  <2> SUFFICES ASSUME NEW c, c \in ChipsOf(f, S), c \in ChipsOf(f, T) PROVE FALSE
    BY Zenon
  <2>1. PICK p \in S : \E k \in 1..f[p] : c = <<p, k>>
    BY ChipsOfDef
  <2>2. PICK q \in T : \E k \in 1..f[q] : c = <<q, k>>
    BY ChipsOfDef
  <2>3. p = q
    BY <2>1, <2>2
  <2>4. QED BY <2>3
<1>4. Cardinality(ChipsOf(f, S) \cup ChipsOf(f, T)) =
           Cardinality(ChipsOf(f, S)) + Cardinality(ChipsOf(f, T))
           - Cardinality(ChipsOf(f, S) \cap ChipsOf(f, T))
  BY <1>1, FS_Union
<1>5. /\ Cardinality(ChipsOf(f, S)) \in Nat /\ Cardinality(ChipsOf(f, T)) \in Nat
      /\ Cardinality({}) = 0
  BY <1>1, FS_CardinalityType, FS_EmptySet
<1>6. Cardinality(ChipsOf(f, S) \cap ChipsOf(f, T)) = 0
  BY <1>3, <1>5, Zenon
<1>7. SumOver(f, S \cup T) = Cardinality(ChipsOf(f, S) \cup ChipsOf(f, T))
  BY <1>2, Zenon DEF SumOver
<1>8. QED BY <1>4, <1>5, <1>6, <1>7 DEF SumOver

(* The sum of amounts that are put together of two parts is the sum of the
   parts: the chips of g are moved behind those of f. *)
LEMMA SumAdd ==
  ASSUME NEW S, IsFiniteSet(S), NEW f, NEW g, NEW h,
         \A p \in S : f[p] \in Nat /\ g[p] \in Nat /\ h[p] = f[p] + g[p]
  PROVE  SumOver(h, S) = SumOver(f, S) + SumOver(g, S)
<1> DEFINE F == ChipsOf(f, S)
           G == ChipsOf(g, S)
           H == ChipsOf(h, S)
           shift == [c \in G |-> <<c[1], f[c[1]] + c[2]>>]
<1>1. /\ \A c : c \in F <=> \E p \in S : \E k \in 1..f[p] : c = <<p, k>>
      /\ \A c : c \in G <=> \E p \in S : \E k \in 1..g[p] : c = <<p, k>>
      /\ \A c : c \in H <=> \E p \in S : \E k \in 1..h[p] : c = <<p, k>>
  BY ChipsOfDef
<1>2. IsFiniteSet(F) /\ IsFiniteSet(G) /\ IsFiniteSet(H)
  BY SumOverType
<1> HIDE DEF F, G, H
<1>3. F \subseteq H
  <2> SUFFICES ASSUME NEW c \in F PROVE c \in H
    OBVIOUS
  <2>1. PICK p \in S : \E k \in 1..f[p] : c = <<p, k>>
    BY <1>1
  <2>2. PICK k \in 1..f[p] : c = <<p, k>>
    BY <2>1
  <2>3. k \in 1..h[p]
    BY <2>2
  <2>4. QED BY <1>1, <2>2, <2>3
<1>4. ASSUME NEW c \in G
      PROVE  shift[c] \in H \ F /\ \E p \in S : \E k \in 1..g[p] : c = <<p, k>> /\ shift[c] = <<p, f[p] + k>>
  <2>1. PICK p \in S : \E k \in 1..g[p] : c = <<p, k>>
    BY <1>1
  <2>2. PICK k \in 1..g[p] : c = <<p, k>>
    BY <2>1
  <2>3. shift[c] = <<p, f[p] + k>>
    BY <2>2
  <2>4. f[p] + k \in 1..h[p]
    BY <2>2
  <2>5. shift[c] \in H
    BY <1>1, <2>3, <2>4
  <2>6. shift[c] \notin F
    <3> SUFFICES ASSUME shift[c] \in F PROVE FALSE
      OBVIOUS
    <3>1. PICK q \in S : \E j \in 1..f[q] : shift[c] = <<q, j>>
      BY <1>1
    <3>2. PICK j \in 1..f[q] : shift[c] = <<q, j>>
      BY <3>1
    <3>3. q = p /\ j = f[p] + k
      BY <2>3, <3>2
    <3>4. QED BY <2>2, <3>2, <3>3
  <2>7. QED BY <2>2, <2>3, <2>5, <2>6
<1>5. shift \in [G -> H \ F]
  BY <1>4
<1>6. ASSUME NEW c \in G, NEW d \in G, shift[c] = shift[d] PROVE c = d
  <2>1. PICK p \in S : \E k \in 1..g[p] : c = <<p, k>> /\ shift[c] = <<p, f[p] + k>>
    BY <1>4
  <2>2. PICK k \in 1..g[p] : c = <<p, k>> /\ shift[c] = <<p, f[p] + k>>
    BY <2>1
  <2>3. PICK q \in S : \E j \in 1..g[q] : d = <<q, j>> /\ shift[d] = <<q, f[q] + j>>
    BY <1>4
  <2>4. PICK j \in 1..g[q] : d = <<q, j>> /\ shift[d] = <<q, f[q] + j>>
    BY <2>3
  <2> HIDE DEF shift
  <2>5. p = q /\ f[p] + k = f[q] + j
    BY <1>6, <2>2, <2>4
  <2>6. k = j
    BY <2>5
  <2>7. QED BY <2>2, <2>4, <2>5, <2>6
<1>7. ASSUME NEW d \in H \ F PROVE \E c \in G : shift[c] = d
  <2>1. PICK p \in S : \E k \in 1..h[p] : d = <<p, k>>
    BY <1>1
  <2>2. PICK k \in 1..h[p] : d = <<p, k>>
    BY <2>1
  <2>3. k \notin 1..f[p]
    BY <1>1, <2>2
  <2>4. k - f[p] \in 1..g[p]
    BY <2>2, <2>3
  <2>5. <<p, k - f[p]>> \in G
    BY <1>1, <2>4
  <2>6. shift[<<p, k - f[p]>>] = <<p, f[p] + (k - f[p])>>
    BY <2>5
  <2>7. f[p] + (k - f[p]) = k
    BY <2>2
  <2>8. QED BY <2>2, <2>5, <2>6, <2>7
<1>8. shift \in Bijection(G, H \ F)
  <2> HIDE DEF shift
  <2>1. shift \in Injection(G, H \ F)
    BY <1>5, <1>6 DEF Injection, IsInjective
  <2>2. shift \in Surjection(G, H \ F)
    BY <1>5, <1>7 DEF Surjection
  <2>3. QED BY <2>1, <2>2 DEF Bijection
<1>9. Cardinality(H \ F) = Cardinality(G)
  <2>1. ExistsBijection(G, H \ F)
    BY <1>8 DEF ExistsBijection
  <2>2. QED BY <1>2, <2>1, FS_Bijection
<1>10. Cardinality(H \ F) = Cardinality(H) - Cardinality(H \cap F)
  BY <1>2, FS_Difference
<1>11. H \cap F = F
  BY <1>3
<1>12. Cardinality(H) = Cardinality(F) + Cardinality(G)
  <2>1. Cardinality(F) \in Nat /\ Cardinality(G) \in Nat /\ Cardinality(H) \in Nat
    BY <1>2, FS_CardinalityType
  <2>2. Cardinality(H \cap F) = Cardinality(F)
    BY <1>11, Zenon
  <2>3. QED BY <1>9, <1>10, <2>1, <2>2
<1>13. QED BY <1>12 DEF F, G, H, SumOver

(* Where every amount is at most another, so is the sum. *)
LEMMA SumMono ==
  ASSUME NEW S, IsFiniteSet(S), NEW f, NEW g,
         \A p \in S : f[p] \in Nat /\ g[p] \in Nat /\ f[p] <= g[p]
  PROVE  SumOver(f, S) <= SumOver(g, S)
<1> DEFINE d == [p \in S |-> g[p] - f[p]]
<1>1. \A p \in S : f[p] \in Nat /\ d[p] \in Nat /\ g[p] = f[p] + d[p]
  OBVIOUS
<1> HIDE DEF d
<1>2. SumOver(g, S) = SumOver(f, S) + SumOver(d, S)
  BY <1>1, SumAdd
<1>3. SumOver(f, S) \in Nat /\ SumOver(d, S) \in Nat
  BY <1>1, SumOverType
<1>4. QED BY <1>2, <1>3

(* Taking one member out of the sum. *)
LEMMA SumSplit ==
  ASSUME NEW S, IsFiniteSet(S), NEW x \in S, NEW f, \A p \in S : f[p] \in Nat
  PROVE  /\ SumOver(f, S) = SumOver(f, S \ {x}) + f[x]
         /\ SumOver(f, S \ {x}) \in Nat
<1>1. IsFiniteSet(S \ {x}) /\ IsFiniteSet({x})
  BY FS_RemoveElement, FS_Singleton
<1>2. (S \ {x}) \cap {x} = {} /\ (S \ {x}) \cup {x} = S
  OBVIOUS
<1>3. SumOver(f, (S \ {x}) \cup {x}) = SumOver(f, S \ {x}) + SumOver(f, {x})
  BY <1>1, <1>2, SumDisjoint
<1>4. SumOver(f, {x}) = f[x]
  BY SumSingleton
<1>5. SumOver(f, S \ {x}) \in Nat
  BY <1>1, SumOverType
<1>6. QED BY <1>2, <1>3, <1>4, <1>5, Zenon

(* Changing the amount of one member changes the sum by as much. *)
LEMMA SumUpdate ==
  ASSUME NEW S, IsFiniteSet(S), NEW x \in S, NEW f, NEW g,
         \A p \in S : f[p] \in Nat /\ g[p] \in Nat /\ (p # x => g[p] = f[p])
  PROVE  SumOver(g, S) + f[x] = SumOver(f, S) + g[x]
<1>1. SumOver(f, S) = SumOver(f, S \ {x}) + f[x] /\ SumOver(f, S \ {x}) \in Nat
  BY SumSplit
<1>2. SumOver(g, S) = SumOver(g, S \ {x}) + g[x] /\ SumOver(g, S \ {x}) \in Nat
  BY SumSplit
<1>3. SumOver(g, S \ {x}) = SumOver(f, S \ {x})
  <2>1. \A p \in S \ {x} : g[p] = f[p]
    OBVIOUS
  <2>2. QED BY <2>1, SumCong
<1>4. QED BY <1>1, <1>2, <1>3

(* A sum is zero just when every amount is. *)
LEMMA SumZero ==
  ASSUME NEW S, IsFiniteSet(S), NEW f, \A p \in S : f[p] \in Nat
  PROVE  SumOver(f, S) = 0 <=> \A p \in S : f[p] = 0
<1>1. ASSUME \A p \in S : f[p] = 0 PROVE SumOver(f, S) = 0
  <2>1. \A p \in S : \A k : k \notin 1..f[p]
    BY <1>1
  <2>2. ChipsOf(f, S) = {}
    BY <2>1, ChipsOfDef
  <2>3. QED BY <2>2, FS_EmptySet, Zenon DEF SumOver
<1>2. ASSUME NEW p \in S, f[p] # 0 PROVE SumOver(f, S) # 0
  <2>1. SumOver(f, S) = SumOver(f, S \ {p}) + f[p] /\ SumOver(f, S \ {p}) \in Nat
    BY SumSplit
  <2>2. QED BY <1>2, <2>1
<1>3. QED BY <1>1, <1>2

(* Equal shares: as many times the share as there are members. *)
LEMMA SumConst ==
  ASSUME NEW S, IsFiniteSet(S), NEW n \in Nat, NEW f, \A p \in S : f[p] = n
  PROVE  SumOver(f, S) = Cardinality(S) * n
<1>1. \A c : c \in ChipsOf(f, S) <=> c \in S \X (1..n)
  <2>1. \A c : c \in ChipsOf(f, S) <=> \E p \in S : \E k \in 1..f[p] : c = <<p, k>>
    BY ChipsOfDef
  <2>2. QED BY <2>1
<1>2. ChipsOf(f, S) = S \X (1..n)
  BY <1>1, Zenon
<1>3. IsFiniteSet(1..n) /\ Cardinality(1..n) = n
  <2>1. 1 \in Int /\ n \in Int
    OBVIOUS
  <2>2. IsFiniteSet(1..n) /\ Cardinality(1..n) = IF 1 > n THEN 0 ELSE n - 1 + 1
    BY <2>1, FS_Interval
  <2>3. QED BY <2>2
<1>4. Cardinality(S \X (1..n)) = Cardinality(S) * Cardinality(1..n)
  BY <1>3, FS_Product
<1>5. SumOver(f, S) = Cardinality(S \X (1..n))
  BY <1>2, Zenon DEF SumOver
<1>6. QED BY <1>3, <1>4, <1>5, Zenon

(* When only one member has an amount, that amount is the sum. *)
LEMMA SumPoint ==
  ASSUME NEW S, IsFiniteSet(S), NEW x \in S, NEW f, f[x] \in Nat, \A p \in S : p # x => f[p] = 0
  PROVE  SumOver(f, S) = f[x]
<1>1. \A p \in S : f[p] \in Nat
  OBVIOUS
<1>2. SumOver(f, S) = SumOver(f, S \ {x}) + f[x]
  BY <1>1, SumSplit
<1>3. IsFiniteSet(S \ {x}) /\ \A p \in S \ {x} : f[p] \in Nat /\ f[p] = 0
  BY FS_RemoveElement
<1>4. SumOver(f, S \ {x}) = 0
  BY <1>3, SumZero
<1>5. QED BY <1>2, <1>4

(* Fewer members, no larger sum. *)
LEMMA SumSubset ==
  ASSUME NEW S, IsFiniteSet(S), NEW T \in SUBSET S, NEW f, \A p \in S : f[p] \in Nat
  PROVE  IsFiniteSet(T) /\ SumOver(f, T) <= SumOver(f, S)
<1>1. IsFiniteSet(T) /\ IsFiniteSet(S \ T) /\ T \cap (S \ T) = {} /\ T \cup (S \ T) = S
  BY FS_Subset
<1> DEFINE D == S \ T
<1>2. SumOver(f, T \cup D) = SumOver(f, T) + SumOver(f, D)
  BY <1>1, SumDisjoint
<1>3. SumOver(f, T) \in Nat /\ SumOver(f, D) \in Nat
  BY <1>1, SumOverType
<1>4. SumOver(f, T \cup D) = SumOver(f, S)
  BY <1>1, Zenon
<1> HIDE DEF D
<1>5. QED BY <1>1, <1>2, <1>3, <1>4

(* One more member adds its amount. *)
LEMMA SumJoin ==
  ASSUME NEW S, IsFiniteSet(S), NEW x, x \notin S, NEW f, NEW g,
         \A p \in S : f[p] \in Nat /\ g[p] = f[p], g[x] \in Nat
  PROVE  SumOver(g, S \cup {x}) = SumOver(f, S) + g[x]
<1> DEFINE T == S \cup {x}
<1>1. IsFiniteSet(T) /\ T \ {x} = S /\ x \in T /\ \A p \in T : g[p] \in Nat
  BY FS_AddElement
<1> HIDE DEF T
<1>2. SumOver(g, T) = SumOver(g, T \ {x}) + g[x]
  BY <1>1, SumSplit
<1>3. SumOver(g, T \ {x}) = SumOver(g, S)
  BY <1>1, Zenon
<1>4. SumOver(g, S) = SumOver(f, S)
  BY SumCong
<1>5. QED BY <1>2, <1>3, <1>4 DEF T

(* A sum over two kinds of members is the sum of the two sums. *)
LEMMA SumChoice ==
  ASSUME NEW S, IsFiniteSet(S), NEW T, NEW U, T \cup U = S, T \cap U = {}, NEW f, NEW s, NEW b,
         \A p \in T : s[p] \in Nat /\ f[p] = s[p],
         \A p \in U : b[p] \in Nat /\ f[p] = b[p]
  PROVE  /\ SumOver(f, S) = SumOver(s, T) + SumOver(b, U)
         /\ SumOver(s, T) \in Nat /\ SumOver(b, U) \in Nat
<1>1. IsFiniteSet(T) /\ IsFiniteSet(U)
  BY FS_Subset
<1>2. \A p \in T \cup U : f[p] \in Nat
  OBVIOUS
<1>3. SumOver(f, T \cup U) = SumOver(f, T) + SumOver(f, U)
  BY <1>1, <1>2, SumDisjoint
<1>4. SumOver(f, T) = SumOver(s, T)
  BY SumCong
<1>5. SumOver(f, U) = SumOver(b, U)
  BY SumCong
<1>6. SumOver(s, T) \in Nat /\ SumOver(b, U) \in Nat
  BY <1>1, SumOverType
<1>7. SumOver(f, T \cup U) = SumOver(f, S)
  BY Zenon
<1>8. QED BY <1>3, <1>4, <1>5, <1>6, <1>7

(* Counting by one key or by another that is in one-to-one correspondence:
   the chips are renamed. *)
LEMMA SumReindex ==
  ASSUME NEW S, IsFiniteSet(S), NEW h, \A x, y \in S : h[x] = h[y] => x = y,
         NEW f, NEW g, \A x \in S : g[x] \in Nat /\ g[x] = f[h[x]],
         NEW T, T = {h[x] : x \in S}
  PROVE  SumOver(f, T) = SumOver(g, S)
<1> DEFINE F == ChipsOf(f, T)
           G == ChipsOf(g, S)
           rename == [c \in G |-> <<h[c[1]], c[2]>>]
<1>1. /\ \A c : c \in F <=> \E p \in T : \E k \in 1..f[p] : c = <<p, k>>
      /\ \A c : c \in G <=> \E p \in S : \E k \in 1..g[p] : c = <<p, k>>
  BY ChipsOfDef
<1>2. IsFiniteSet(G)
  BY SumOverType
<1> HIDE DEF F, G
<1>3. ASSUME NEW c \in G
      PROVE  rename[c] \in F /\ \E p \in S : \E k \in 1..g[p] : c = <<p, k>> /\ rename[c] = <<h[p], k>>
  <2>1. PICK p \in S : \E k \in 1..g[p] : c = <<p, k>>
    BY <1>1
  <2>2. PICK k \in 1..g[p] : c = <<p, k>>
    BY <2>1
  <2>3. rename[c] = <<h[p], k>> /\ h[p] \in T /\ k \in 1..f[h[p]]
    BY <2>2
  <2>4. rename[c] \in F
    BY <1>1, <2>3
  <2>5. QED BY <2>2, <2>3, <2>4
<1>4. rename \in [G -> F]
  BY <1>3
<1>5. ASSUME NEW c \in G, NEW d \in G, rename[c] = rename[d] PROVE c = d
  <2>1. PICK p \in S : \E k \in 1..g[p] : c = <<p, k>> /\ rename[c] = <<h[p], k>>
    BY <1>3
  <2>2. PICK k \in 1..g[p] : c = <<p, k>> /\ rename[c] = <<h[p], k>>
    BY <2>1
  <2>3. PICK q \in S : \E j \in 1..g[q] : d = <<q, j>> /\ rename[d] = <<h[q], j>>
    BY <1>3
  <2>4. PICK j \in 1..g[q] : d = <<q, j>> /\ rename[d] = <<h[q], j>>
    BY <2>3
  <2> HIDE DEF rename
  <2>5. h[p] = h[q] /\ k = j
    BY <1>5, <2>2, <2>4
  <2>6. QED BY <2>2, <2>4, <2>5
<1>6. ASSUME NEW d \in F PROVE \E c \in G : rename[c] = d
  <2>1. PICK a \in T : \E k \in 1..f[a] : d = <<a, k>>
    BY <1>1
  <2>2. PICK p \in S : a = h[p]
    OBVIOUS
  <2>3. PICK k \in 1..g[p] : d = <<h[p], k>>
    BY <2>1, <2>2
  <2>4. <<p, k>> \in G
    BY <1>1, <2>3
  <2>5. rename[<<p, k>>] = <<h[p], k>>
    BY <2>4
  <2>6. QED BY <2>3, <2>4, <2>5
<1>7. rename \in Bijection(G, F)
  <2> HIDE DEF rename
  <2>1. rename \in Injection(G, F)
    BY <1>4, <1>5 DEF Injection, IsInjective
  <2>2. rename \in Surjection(G, F)
    BY <1>4, <1>6 DEF Surjection
  <2>3. QED BY <2>1, <2>2 DEF Bijection
<1>8. Cardinality(F) = Cardinality(G)
  <2>1. ExistsBijection(G, F)
    BY <1>7 DEF ExistsBijection
  <2>2. QED BY <1>2, <2>1, FS_Bijection
<1>9. QED BY <1>8 DEF F, G, SumOver
-----------------------------------------------------------------------------
(* Sequences and least members. *)

(* Erasing the i-th of n members leaves n - 1: the ones before it keep their
   place, the ones behind it move up by one (players_.erase). *)
LEMMA RemoveAtProps ==
  ASSUME NEW S, NEW s \in Seq(S), NEW i \in 1..Len(s)
  PROVE /\ RemoveAt(s,i) \in Seq(S)
        /\ Len(RemoveAt(s,i)) = Len(s) - 1
        /\ \A j \in 1..(Len(s)-1) : RemoveAt(s,i)[j] = IF j < i THEN s[j] ELSE s[j+1]
<1> DEFINE a == SubSeq(s, 1, i-1)
           b == SubSeq(s, i+1, Len(s))
<1>1. a \in Seq(S) /\ Len(a) = i-1 /\ \A j \in 1..(i-1) : a[j] = s[j]
  BY SubSeqProperties
<1>2. b \in Seq(S) /\ Len(b) = Len(s)-i /\ \A j \in 1..(Len(s)-i) : b[j] = s[j+i]
  BY SubSeqProperties
<1>3. RemoveAt(s,i) = a \o b BY DEF RemoveAt
<1> HIDE DEF a, b
<1>4. /\ a \o b \in Seq(S)
      /\ Len(a \o b) = Len(s) - 1
      /\ \A j \in 1..(Len(s)-1) : (a \o b)[j] = IF j <= i-1 THEN a[j] ELSE b[j-(i-1)]
  <2>1. a \o b \in Seq(S) /\ Len(a \o b) = Len(a) + Len(b)
    BY <1>1, <1>2, ConcatProperties
  <2>2. \A j \in 1..(Len(a) + Len(b)) : (a \o b)[j] = IF j <= Len(a) THEN a[j] ELSE b[j - Len(a)]
    BY <1>1, <1>2, ConcatProperties
  <2>3. QED BY <2>1, <2>2, <1>1, <1>2
<1>5. ASSUME NEW j \in 1..(Len(s)-1) PROVE (a \o b)[j] = IF j < i THEN s[j] ELSE s[j+1]
  <2>1. CASE j < i BY <2>1, <1>1, <1>4
  <2>2. CASE ~(j < i)
    <3>1. j-(i-1) \in 1..(Len(s)-i) BY <2>2
    <3>2. b[j-(i-1)] = s[j-(i-1)+i] BY <3>1, <1>2
    <3>3. QED BY <3>2, <2>2, <1>4
  <2>3. QED BY <2>1, <2>2
<1>6. QED BY <1>3, <1>4, <1>5

(* A nonempty set of numbers has a least element, and Min is it. *)
LEMMA MinInSet ==
  ASSUME NEW S \in SUBSET Nat, S # {}
  PROVE  Min(S) \in S /\ \A y \in S : Min(S) <= y
<1>1. PICK x \in S : \A y \in S : <<y, x>> \notin OpToRel(<, Nat)
  BY NatLessThanWellFounded, WFMin
<1>2. \A y \in S : ~ (y < x)
  BY <1>1, Zenon DEF OpToRel
<1>4. \A y \in S : x <= y
  BY <1>2
<1>3. QED BY <1>4 DEF Min

(* A nonempty set of numbers up to n has a greatest element, and Max is it. *)
LEMMA MaxInSet ==
  ASSUME NEW n \in Nat, NEW S \in SUBSET (0..n), S # {}
  PROVE  Max(S) \in S /\ \A y \in S : y <= Max(S)
<1> DEFINE T == {n - y : y \in S}
<1>0. \A y \in S : y \in Nat /\ y <= n /\ n - y \in Nat
  <2>1. \A y \in 0..n : y \in Nat /\ y <= n /\ n - y \in Nat
    OBVIOUS
  <2>2. QED BY <2>1
<1>1. T \in SUBSET Nat /\ T # {}
  BY <1>0
<1>2. Min(T) \in T /\ \A z \in T : Min(T) <= z
  BY <1>1, MinInSet
<1>3. PICK x \in S : Min(T) = n - x
  BY <1>2
<1>4. \A y \in S : x >= y
  <2>1. ASSUME NEW y \in S PROVE x >= y
    <3>1. n - x <= n - y
      BY <1>2, <1>3
    <3>2. QED BY <1>0, <3>1
  <2>2. QED BY <2>1
<1>5. QED BY <1>4 DEF Max
=============================================================================
