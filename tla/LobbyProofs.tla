---------------------------- MODULE LobbyProofs ----------------------------
(***************************************************************************)
(* Proofs about connections, logins, rooms and the money in them.  A       *)
(* handler changes the lobby by functions it composes, so most lemmas are  *)
(* about a lobby record l and what such a function makes of it:            *)
(*                                                                         *)
(*   Known       the registries against the names of the connections;      *)
(*   Tables(l)   player_rooms_ against the rooms and their games;          *)
(*   Wealth(l)   the money, counted by connection: a change of one room    *)
(*               then touches the amounts of its members and its pot.      *)
(***************************************************************************)
EXTENDS Lobby, ChipSums

\* Functions from a part of U to T.
Partial(U, T) == UNION {[S -> T] : S \in SUBSET U}

Game == [on : BOOLEAN, stack : Partial(Conn, Nat), pot : Nat]
Room == [host : Conn, max : Nat, members : Seq(Conn), game : Game]
LobbyRecord ==
    [rooms : Partial(RoomId, Room), player_rooms : Partial(Conn, RoomId),
     chips : [Account -> Nat]]

\* The players_ of a room are those whose entry in player_rooms_ names it.
Seats(l, id) ==
    LET r == l.rooms[id] IN
    /\ \A c \in Conn : c \in ToSet(r.members) <=> c \in DOMAIN l.player_rooms /\ l.player_rooms[c] = id
    /\ \A i, j \in DOMAIN r.members : r.members[i] = r.members[j] => i = j

\* A room between two handlers.
RoomSound(l, id) ==
    LET r == l.rooms[id] IN
    /\ Seats(l, id)
    /\ r.host \in ToSet(r.members)
    /\ r.max >= 2 /\ Len(r.members) <= r.max
    /\ r.game.on => DOMAIN r.game.stack = ToSet(r.members) /\ Len(r.members) >= 2
    /\ ~r.game.on => r.game.pot = 0

Tables(l) ==
    /\ l \in LobbyRecord
    /\ \A c \in DOMAIN l.player_rooms : l.player_rooms[c] \in DOMAIN l.rooms
    /\ \A id \in DOMAIN l.rooms : RoomSound(l, id)

\* The connections, their names and the registries.
Known ==
    /\ connected \subseteq Conn /\ name \in [Conn -> Name \cup {NoName}]
    /\ registered = {c \in Conn : LoggedIn(c)}
    /\ names = {name[c] : c \in registered}
    /\ \A c, d \in registered : name[c] = name[d] => c = d
    /\ accounts \subseteq Account

LobbyInv ==
    /\ Known
    /\ Tables(lobby)
    /\ DOMAIN lobby.player_rooms \subseteq registered
    /\ next_room_id \in Nat \ {0}
    /\ \A id \in DOMAIN lobby.rooms : id < next_room_id
-----------------------------------------------------------------------------
(* Functions, records and members. *)

(* A partial function is a function on its own domain. *)
LEMMA PartialDef ==
  ASSUME NEW U, NEW T, NEW f
  PROVE  f \in Partial(U, T) <=> DOMAIN f \subseteq U /\ f \in [DOMAIN f -> T]
<1>1. ASSUME f \in Partial(U, T) PROVE DOMAIN f \subseteq U /\ f \in [DOMAIN f -> T]
  <2>1. PICK S \in SUBSET U : f \in [S -> T]
    BY <1>1, Zenon DEF Partial
  <2>2. QED BY <2>1
<1>2. ASSUME DOMAIN f \subseteq U, f \in [DOMAIN f -> T] PROVE f \in Partial(U, T)
  BY <1>2, Zenon DEF Partial
<1>3. QED BY <1>1, <1>2

(* An entry of a map is erased. *)
LEMMA WithoutFacts ==
  ASSUME NEW U, NEW T, NEW f \in Partial(U, T), NEW c \in U
  PROVE  /\ Without(f, c) \in Partial(U, T)
         /\ DOMAIN Without(f, c) = DOMAIN f \ {c}
         /\ \A x \in DOMAIN f \ {c} : Without(f, c)[x] = f[x]
<1> DEFINE g == Without(f, c)
<1>1. DOMAIN f \subseteq U /\ f \in [DOMAIN f -> T]
  BY PartialDef
<1>2. DOMAIN g = DOMAIN f \ {c} /\ \A x \in DOMAIN f \ {c} : g[x] = f[x]
  BY DEF Without
<1>3. g \in [DOMAIN g -> T] /\ DOMAIN g \subseteq U
  BY <1>1 DEF Without
<1> HIDE DEF g
<1>4. g \in Partial(U, T)
  BY <1>3, PartialDef
<1>5. QED BY <1>2, <1>4 DEF g

(* A player is entered into player_rooms_. *)
LEMMA WithSeat ==
  ASSUME NEW f \in Partial(Conn, RoomId), NEW c \in Conn, NEW id \in RoomId
  PROVE  /\ With(f, c, id) \in Partial(Conn, RoomId)
         /\ DOMAIN With(f, c, id) = DOMAIN f \cup {c}
         /\ With(f, c, id)[c] = id
         /\ \A x \in DOMAIN f : x # c => With(f, c, id)[x] = f[x]
<1> DEFINE g == With(f, c, id)
<1>1. DOMAIN f \subseteq Conn /\ f \in [DOMAIN f -> RoomId]
  BY PartialDef
<1>2. /\ DOMAIN g = DOMAIN f \cup {c} /\ g[c] = id
      /\ \A x \in DOMAIN f : x # c => g[x] = f[x]
  BY DEF With
<1>3. g \in [DOMAIN g -> RoomId] /\ DOMAIN g \subseteq Conn
  BY <1>1 DEF With
<1> HIDE DEF g
<1>4. g \in Partial(Conn, RoomId)
  BY <1>3, PartialDef
<1>5. QED BY <1>2, <1>4 DEF g

(* A room is erased. *)
LEMMA WithoutRoom ==
  ASSUME NEW f \in Partial(RoomId, Room), NEW id \in RoomId
  PROVE  /\ Without(f, id) \in Partial(RoomId, Room)
         /\ DOMAIN Without(f, id) = DOMAIN f \ {id}
         /\ \A x \in DOMAIN f \ {id} : Without(f, id)[x] = f[x]
BY WithoutFacts

(* A player is taken from the stacks. *)
LEMMA WithoutStack ==
  ASSUME NEW f \in Partial(Conn, Nat), NEW c \in Conn
  PROVE  /\ Without(f, c) \in Partial(Conn, Nat)
         /\ DOMAIN Without(f, c) = DOMAIN f \ {c}
         /\ \A x \in DOMAIN f \ {c} : Without(f, c)[x] = f[x]
BY WithoutFacts

(* Assigning to an entry that exists. *)
LEMMA ExceptFacts ==
  ASSUME NEW U, NEW T, NEW f \in Partial(U, T), NEW c \in DOMAIN f, NEW v \in T
  PROVE  /\ [f EXCEPT ![c] = v] \in Partial(U, T)
         /\ DOMAIN [f EXCEPT ![c] = v] = DOMAIN f
         /\ [f EXCEPT ![c] = v][c] = v
         /\ \A x \in DOMAIN f : x # c => [f EXCEPT ![c] = v][x] = f[x]
<1> DEFINE g == [f EXCEPT ![c] = v]
<1>1. DOMAIN f \subseteq U /\ f \in [DOMAIN f -> T]
  BY PartialDef
<1>2. /\ DOMAIN g = DOMAIN f /\ g \in [DOMAIN g -> T] /\ g[c] = v
      /\ \A x \in DOMAIN f : x # c => g[x] = f[x]
  BY <1>1
<1> HIDE DEF g
<1>3. g \in Partial(U, T)
  BY <1>1, <1>2, PartialDef
<1>4. QED BY <1>2, <1>3 DEF g

(* The fields of a game. *)
LEMMA GameFields ==
  ASSUME NEW g \in Game
  PROVE  /\ g.on \in BOOLEAN /\ g.pot \in Nat /\ g.stack \in Partial(Conn, Nat)
         /\ DOMAIN g.stack \subseteq Conn /\ IsFiniteSet(DOMAIN g.stack)
         /\ \A c \in DOMAIN g.stack : g.stack[c] \in Nat
<1>1. g.on \in BOOLEAN /\ g.pot \in Nat /\ g.stack \in Partial(Conn, Nat)
  BY DEF Game
<1>2. DOMAIN g.stack \subseteq Conn /\ g.stack \in [DOMAIN g.stack -> Nat]
  BY <1>1, PartialDef
<1>3. IsFiniteSet(DOMAIN g.stack)
  BY <1>2, ConnAssumption, FS_Subset
<1>4. QED BY <1>1, <1>2, <1>3

(* The fields of a room. *)
LEMMA RoomFields ==
  ASSUME NEW r \in Room
  PROVE  /\ r.host \in Conn /\ r.max \in Nat /\ r.members \in Seq(Conn) /\ r.game \in Game
         /\ DOMAIN r.members = 1..Len(r.members) /\ Len(r.members) \in Nat
         /\ ToSet(r.members) \subseteq Conn /\ IsFiniteSet(ToSet(r.members))
<1>1. r.host \in Conn /\ r.max \in Nat /\ r.members \in Seq(Conn) /\ r.game \in Game
  BY DEF Room
<1>2. /\ DOMAIN r.members = 1..Len(r.members) /\ Len(r.members) \in Nat
      /\ \A i \in DOMAIN r.members : r.members[i] \in Conn
  BY <1>1, ElementOfSeq, LenProperties
<1>3. ToSet(r.members) \subseteq Conn
  BY <1>2 DEF ToSet
<1>4. IsFiniteSet(ToSet(r.members))
  BY <1>3, ConnAssumption, FS_Subset
<1>5. QED BY <1>1, <1>2, <1>3, <1>4

(* The fields of the lobby. *)
LEMMA LobbyFields ==
  ASSUME NEW l \in LobbyRecord
  PROVE  /\ l.rooms \in Partial(RoomId, Room) /\ l.player_rooms \in Partial(Conn, RoomId)
         /\ DOMAIN l.rooms \subseteq RoomId /\ \A id \in DOMAIN l.rooms : l.rooms[id] \in Room
         /\ DOMAIN l.player_rooms \subseteq Conn
         /\ \A c \in DOMAIN l.player_rooms : l.player_rooms[c] \in RoomId
         /\ l.chips \in [Account -> Nat] /\ DOMAIN l.chips = Account
<1>1. /\ l.rooms \in Partial(RoomId, Room) /\ l.player_rooms \in Partial(Conn, RoomId)
      /\ l.chips \in [Account -> Nat]
  BY DEF LobbyRecord
<1>2. DOMAIN l.rooms \subseteq RoomId /\ l.rooms \in [DOMAIN l.rooms -> Room]
  BY <1>1, PartialDef
<1>3. DOMAIN l.player_rooms \subseteq Conn /\ l.player_rooms \in [DOMAIN l.player_rooms -> RoomId]
  BY <1>1, PartialDef
<1>4. QED BY <1>1, <1>2, <1>3

(* std::find finds a member, and erasing it leaves the other members. *)
LEMMA RestFacts ==
  ASSUME NEW r \in Room, NEW c \in ToSet(r.members),
         \A i, j \in DOMAIN r.members : r.members[i] = r.members[j] => i = j
  PROVE  /\ Rest(r, c) \in Seq(Conn) /\ Len(Rest(r, c)) = Len(r.members) - 1
         /\ \A i, j \in DOMAIN Rest(r, c) : Rest(r, c)[i] = Rest(r, c)[j] => i = j
         /\ ToSet(Rest(r, c)) = ToSet(r.members) \ {c}
<1> DEFINE m == r.members
           k == Place(r, c)
           q == Rest(r, c)
           n == Len(m)
<1>1. m \in Seq(Conn) /\ DOMAIN m = 1..n /\ n \in Nat
  BY RoomFields
<1>2. PICK i \in DOMAIN m : m[i] = c
  BY DEF ToSet
<1>3. \A j \in 1..(i - 1) : m[j] # c
  <2>1. ASSUME NEW j \in 1..(i - 1), m[j] = c PROVE FALSE
    <3>1. j \in DOMAIN m /\ j # i
      BY <1>1, <1>2, <2>1
    <3>2. QED BY <1>2, <2>1, <3>1
  <2>2. QED BY <2>1
<1>4. k \in DOMAIN m /\ m[k] = c
  <2>1. \E x \in DOMAIN m : m[x] = c /\ \A j \in 1..(x - 1) : m[j] # c
    BY <1>2, <1>3
  <2>2. QED BY <2>1, Zenon DEF Place
<1>5. q = RemoveAt(m, k)
  BY DEF Rest
<1> HIDE DEF k, q
<1>6. /\ q \in Seq(Conn) /\ Len(q) = n - 1
      /\ \A j \in 1..(n - 1) : q[j] = IF j < k THEN m[j] ELSE m[j + 1]
  <2> HIDE DEF m
  <2>1. k \in 1..Len(m) /\ m \in Seq(Conn)
    BY <1>1, <1>4
  <2>2. /\ RemoveAt(m, k) \in Seq(Conn) /\ Len(RemoveAt(m, k)) = Len(m) - 1
        /\ \A j \in 1..(Len(m) - 1) : RemoveAt(m, k)[j] = IF j < k THEN m[j] ELSE m[j + 1]
    BY Zenon, <2>1, RemoveAtProps
  <2>3. QED BY Zenon, <1>5, <2>2
<1>7. DOMAIN q = 1..(n - 1)
  BY <1>1, <1>6
<1> DEFINE at(j) == IF j < k THEN j ELSE j + 1
<1>8. /\ k \in 1..n
      /\ \A j \in 1..(n - 1) : at(j) \in 1..n /\ at(j) # k /\ q[j] = m[at(j)]
      /\ \A i1, j1 \in 1..(n - 1) : at(i1) = at(j1) => i1 = j1
      /\ \A x \in 1..n : x # k => \E j \in 1..(n - 1) : at(j) = x
  <2> HIDE DEF m, n
  <2>1. k \in 1..n
    BY <1>1, <1>4
  <2>2. ASSUME NEW j \in 1..(n - 1) PROVE at(j) \in 1..n /\ at(j) # k /\ q[j] = m[at(j)]
    BY <1>1, <1>6, <2>1
  <2>3. ASSUME NEW i1 \in 1..(n - 1), NEW j1 \in 1..(n - 1), at(i1) = at(j1) PROVE i1 = j1
    BY <1>1, <2>1, <2>3
  <2>4. ASSUME NEW x \in 1..n, x # k PROVE \E j \in 1..(n - 1) : at(j) = x
    <3>1. CASE x < k
      <4>1. x \in 1..(n - 1) /\ at(x) = x
        BY <1>1, <2>1, <3>1
      <4>2. QED BY <4>1
    <3>2. CASE x > k
      <4>1. x - 1 \in 1..(n - 1) /\ at(x - 1) = x
        BY <1>1, <2>1, <3>2
      <4>2. QED BY <4>1
    <3>3. QED BY <1>1, <2>1, <2>4, <3>1, <3>2
  <2>5. QED BY <2>1, <2>2, <2>3, <2>4
<1> HIDE DEF m, n, at
<1>9. \A i1, j1 \in DOMAIN q : q[i1] = q[j1] => i1 = j1
  <2>1. ASSUME NEW i1 \in 1..(n - 1), NEW j1 \in 1..(n - 1), q[i1] = q[j1] PROVE i1 = j1
    <3>1. at(i1) \in DOMAIN m /\ at(j1) \in DOMAIN m /\ m[at(i1)] = m[at(j1)]
      BY <1>1, <1>8, <2>1
    <3>2. at(i1) = at(j1)
      BY <3>1 DEF m
    <3>3. QED BY <1>8, <3>2
  <2>2. QED BY <1>7, <2>1
<1>10. ToSet(q) = ToSet(m) \ {c}
  <2>1. ASSUME NEW x \in ToSet(q) PROVE x \in ToSet(m) \ {c}
    <3>1. PICK j \in 1..(n - 1) : q[j] = x
      BY <1>7, <2>1 DEF ToSet
    <3>2. at(j) \in DOMAIN m /\ at(j) # k /\ m[at(j)] = x
      BY <1>1, <1>8, <3>1
    <3>3. x # c
      BY <1>4, <3>2 DEF m
    <3>4. QED BY <3>2, <3>3 DEF ToSet
  <2>2. ASSUME NEW x \in ToSet(m), x # c PROVE x \in ToSet(q)
    <3>1. PICK j \in 1..n : m[j] = x
      BY <1>1, <2>2 DEF ToSet
    <3>2. j # k
      BY <1>4, <2>2, <3>1
    <3>3. PICK y \in 1..(n - 1) : at(y) = j
      BY <1>8, <3>1, <3>2
    <3>4. y \in DOMAIN q /\ q[y] = x
      BY <1>7, <1>8, <3>1, <3>3
    <3>5. QED BY <3>4 DEF ToSet
  <2>3. QED BY <2>1, <2>2
<1>11. QED BY <1>6, <1>9, <1>10 DEF q, m, n
-----------------------------------------------------------------------------
(* The table of a room. *)

\* Game g is played with the chips of the stacks before and of the pot.
Plays(g, stack, chips) ==
    /\ g \in Game /\ g.on /\ DOMAIN g.stack = DOMAIN stack
    /\ SumOver(g.stack, DOMAIN stack) + g.pot <= chips

(* The blinds move chips from two stacks to the pot. *)
LEMMA PostedFacts ==
  ASSUME NEW stack \in Partial(Conn, Nat), NEW s \in DOMAIN stack, NEW b \in DOMAIN stack, s # b
  PROVE  Plays(Posted(stack, s, b), stack, SumOver(stack, DOMAIN stack))
<1> DEFINE D == DOMAIN stack
           x == MinOf(stack[s], SmallBlind)
           y == MinOf(stack[b], BigBlind)
           one == [stack EXCEPT ![s] = @ - x]
           two == [one EXCEPT ![b] = @ - y]
<1>1. D \subseteq Conn /\ IsFiniteSet(D) /\ stack \in [D -> Nat]
  <2>1. D \subseteq Conn /\ stack \in [D -> Nat]
    BY PartialDef
  <2>2. QED BY <2>1, ConnAssumption, FS_Subset
<1>2. /\ stack[s] \in Nat /\ stack[b] \in Nat /\ x \in Nat /\ y \in Nat
      /\ x <= stack[s] /\ y <= stack[b]
  BY <1>1, ChipAssumption DEF MinOf
<1>3. /\ Posted(stack, s, b) = [on |-> TRUE, stack |-> two, pot |-> x + y]
  BY <1>1 DEF Posted
<1> HIDE DEF x, y
<1>4. /\ one \in [D -> Nat] /\ one[s] = stack[s] - x
      /\ \A p \in D : p # s => one[p] = stack[p]
  BY <1>1, <1>2
<1> HIDE DEF one
<1>5. /\ two \in [D -> Nat] /\ two[b] = stack[b] - y /\ DOMAIN two = D
      /\ \A p \in D : p # b => two[p] = one[p]
  BY <1>1, <1>2, <1>4
<1> HIDE DEF two
<1>6. SumOver(one, D) + stack[s] = SumOver(stack, D) + one[s]
  BY <1>1, <1>4, SumUpdate
<1>7. SumOver(two, D) + one[b] = SumOver(one, D) + two[b]
  BY <1>1, <1>4, <1>5, SumUpdate
<1>8. SumOver(stack, D) \in Nat
  BY <1>1, SumOverType
<1>9. SumOver(one, D) \in Nat
  BY <1>1, <1>4, SumOverType
<1>10. SumOver(two, D) \in Nat
  BY <1>1, <1>5, SumOverType
<1>11. one[b] = stack[b]
  BY <1>4
<1>12. SumOver(two, D) + (x + y) = SumOver(stack, D)
  <2> DEFINE t == SumOver(two, D)
             o == SumOver(one, D)
             z == SumOver(stack, D)
             u == stack[s]
             v == stack[b]
  <2>1. /\ t \in Nat /\ o \in Nat /\ z \in Nat /\ u \in Nat /\ v \in Nat
        /\ o + u = z + (u - x) /\ t + v = o + (v - y)
    BY <1>2, <1>4, <1>5, <1>6, <1>7, <1>8, <1>9, <1>10, <1>11
  <2>2. t + (x + y) = z
    <3> HIDE DEF t, o, z, u, v
    <3>1. QED BY <1>2, <2>1
  <2>3. QED BY <2>2
<1>13. two \in Partial(Conn, Nat)
  BY <1>1, <1>5, PartialDef
<1>14. Posted(stack, s, b) \in Game
  BY <1>2, <1>3, <1>13 DEF Game
<1>15. QED BY <1>3, <1>5, <1>8, <1>12, <1>14 DEF Plays

(* A hand is dealt: the stacks and the pot hold what the stacks held. *)
LEMMA DealtFacts ==
  ASSUME NEW stack \in Partial(Conn, Nat), NEW g \in Dealt(stack)
  PROVE  Plays(g, stack, SumOver(stack, DOMAIN stack))
<1>1. PICK s \in DOMAIN stack : g \in {Posted(stack, s, b) : b \in DOMAIN stack \ {s}}
  BY Zenon DEF Dealt
<1>2. PICK b \in DOMAIN stack \ {s} : g = Posted(stack, s, b)
  BY <1>1
<1>3. QED BY <1>2, PostedFacts

(* The next hand, or the end of the game: the stacks and the pot hold what the
   stacks held. *)
LEMMA NextHandFacts ==
  ASSUME NEW stack \in Partial(Conn, Nat), NEW g \in NextHand(stack)
  PROVE  Plays(g, stack, SumOver(stack, DOMAIN stack))
<1>1. CASE g \in Dealt(stack)
  BY <1>1, DealtFacts
<1>2. CASE g = [on |-> TRUE, stack |-> stack, pot |-> 0]
  <2>1. g \in Game /\ g.on /\ g.stack = stack /\ g.pot = 0
    BY <1>2 DEF Game
  <2>2. IsFiniteSet(DOMAIN stack) /\ \A c \in DOMAIN stack : stack[c] \in Nat
    BY <2>1, GameFields
  <2>3. SumOver(stack, DOMAIN stack) \in Nat
    BY <2>2, SumOverType
  <2>4. QED BY <2>1, <2>3 DEF Plays
<1>3. QED BY <1>1, <1>2 DEF NextHand

(* An award pays no more than the pot. *)
LEMMA AwardedFacts ==
  ASSUME NEW stack \in Partial(Conn, Nat), NEW pot \in Nat, NEW s \in Awarded(stack, pot)
  PROVE  /\ s \in Partial(Conn, Nat) /\ DOMAIN s = DOMAIN stack
         /\ SumOver(s, DOMAIN stack) \in Nat /\ SumOver(stack, DOMAIN stack) \in Nat
         /\ SumOver(s, DOMAIN stack) <= SumOver(stack, DOMAIN stack) + pot
<1> DEFINE D == DOMAIN stack
<1>1. D \subseteq Conn /\ IsFiniteSet(D) /\ stack \in [D -> Nat]
  <2>1. D \subseteq Conn /\ stack \in [D -> Nat]
    BY PartialDef
  <2>2. QED BY <2>1, ConnAssumption, FS_Subset
<1>2. PICK gain \in [D -> 0..pot] : /\ SumOver(gain, D) <= pot
                                    /\ s = [c \in D |-> stack[c] + gain[c]]
  BY Zenon DEF Awarded
<1>3. s \in [D -> Nat] /\ \A c \in D : gain[c] \in Nat /\ stack[c] \in Nat /\ s[c] = stack[c] + gain[c]
  BY <1>1, <1>2
<1>4. SumOver(s, D) = SumOver(stack, D) + SumOver(gain, D)
  BY <1>1, <1>3, SumAdd
<1>5. SumOver(stack, D) \in Nat
  BY <1>1, <1>3, SumOverType
<1>6. SumOver(gain, D) \in Nat
  BY <1>1, <1>3, SumOverType
<1>7. s \in Partial(Conn, Nat)
  <2>1. DOMAIN s = D
    BY <1>3
  <2>2. QED BY <1>1, <1>3, <2>1, PartialDef
<1>8. QED BY <1>2, <1>3, <1>4, <1>5, <1>6, <1>7

(* persist_all_chips writes the accounts of the members, and no other. *)
LEMMA SaveAllFacts ==
  ASSUME NEW chips \in [Account -> Nat], NEW members \in Seq(Conn), NEW stack,
         \A c \in ToSet(members) : stack[c] \in Nat
  PROVE  /\ SaveAll(chips, members, stack) \in [Account -> Nat]
         /\ \A a \in Account : (\A c \in ToSet(members) : Acct(c) # a) =>
                SaveAll(chips, members, stack)[a] = chips[a]
<1> DEFINE seats(a) == {i \in DOMAIN members : Acct(members[i]) = a}
           v(a) == IF seats(a) = {} THEN chips[a] ELSE stack[members[Max(seats(a))]]
<1>1. DOMAIN members = 1..Len(members) /\ Len(members) \in Nat
  BY LenProperties
<1>2. SaveAll(chips, members, stack) = [a \in Account |-> v(a)]
  BY DEF SaveAll
<1>3. ASSUME NEW a \in Account, seats(a) # {} PROVE Max(seats(a)) \in seats(a)
  <2>1. seats(a) \in SUBSET (0..Len(members))
    BY <1>1
  <2> HIDE DEF seats
  <2>2. QED BY <1>1, <1>3, <2>1, MaxInSet
<1>4. ASSUME NEW a \in Account PROVE v(a) \in Nat
  <2>1. CASE seats(a) = {}
    BY <2>1
  <2>2. CASE seats(a) # {}
    <3>1. Max(seats(a)) \in DOMAIN members
      BY <1>3, <2>2
    <3>2. members[Max(seats(a))] \in ToSet(members)
      BY <3>1 DEF ToSet
    <3>3. QED BY <2>2, <3>2
  <2>3. QED BY <2>1, <2>2
<1>5. ASSUME NEW a \in Account, \A c \in ToSet(members) : Acct(c) # a PROVE v(a) = chips[a]
  <2>1. seats(a) = {}
    BY <1>5 DEF ToSet
  <2>2. QED BY <2>1
<1> HIDE DEF v
<1>6. QED BY <1>2, <1>4, <1>5

(* A member whose account no other member uses gets the own stack saved. *)
LEMMA SaveAllOwn ==
  ASSUME NEW chips, NEW members \in Seq(Conn), NEW stack, NEW c \in ToSet(members), Acct(c) \in Account,
         \A i, j \in DOMAIN members : members[i] = members[j] => i = j,
         \A d \in ToSet(members) : Acct(d) = Acct(c) => d = c
  PROVE  SaveAll(chips, members, stack)[Acct(c)] = stack[c]
<1> DEFINE seats == {i \in DOMAIN members : Acct(members[i]) = Acct(c)}
<1>1. DOMAIN members = 1..Len(members) /\ Len(members) \in Nat
  BY LenProperties
<1>2. PICK i \in DOMAIN members : members[i] = c
  BY DEF ToSet
<1>3. seats = {i}
  <2>1. \A j \in seats : members[j] = c
    BY DEF ToSet
  <2>2. QED BY <1>2, <2>1
<1>4. SaveAll(chips, members, stack)[Acct(c)] = IF seats = {} THEN chips[Acct(c)] ELSE stack[members[Max(seats)]]
  BY DEF SaveAll
<1>5. Max(seats) \in seats /\ seats # {}
  <2>1. seats \in SUBSET (0..Len(members)) /\ seats # {}
    BY <1>1, <1>3
  <2> HIDE DEF seats
  <2>2. QED BY <1>1, <2>1, MaxInSet
<1> HIDE DEF seats
<1>6. Max(seats) = i
  BY <1>3, <1>5
<1>7. QED BY <1>2, <1>4, <1>5, <1>6
-----------------------------------------------------------------------------
(* Room and Lobby: the structures stay in agreement. *)

\* Lobby l with game g in room id and the balances chips.
Replay(l, id, g, chips) ==
    [rooms |-> [l.rooms EXCEPT ![id] = [l.rooms[id] EXCEPT !.game = g]],
     player_rooms |-> l.player_rooms, chips |-> chips]

(* What Replay changes. *)
LEMMA ReplayFacts ==
  ASSUME NEW l \in LobbyRecord, NEW id \in DOMAIN l.rooms, NEW g \in Game, NEW chips \in [Account -> Nat],
         NEW v, v = Replay(l, id, g, chips)
  PROVE  /\ v \in LobbyRecord /\ v.player_rooms = l.player_rooms /\ v.chips = chips
         /\ DOMAIN v.rooms = DOMAIN l.rooms
         /\ \A i \in DOMAIN l.rooms : i # id => v.rooms[i] = l.rooms[i]
         /\ v.rooms[id].game = g /\ v.rooms[id].members = l.rooms[id].members
         /\ v.rooms[id].host = l.rooms[id].host /\ v.rooms[id].max = l.rooms[id].max
<1> DEFINE r == l.rooms[id]
           q == [r EXCEPT !.game = g]
           f == [l.rooms EXCEPT ![id] = q]
<1>1. /\ l.rooms \in Partial(RoomId, Room) /\ l.player_rooms \in Partial(Conn, RoomId) /\ r \in Room
  BY LobbyFields
<1> HIDE DEF r
<1>2. q \in Room /\ q.game = g /\ q.members = r.members /\ q.host = r.host /\ q.max = r.max
  BY <1>1 DEF Room
<1> HIDE DEF q
<1>3. /\ f \in Partial(RoomId, Room) /\ DOMAIN f = DOMAIN l.rooms /\ f[id] = q
      /\ \A i \in DOMAIN l.rooms : i # id => f[i] = l.rooms[i]
  BY <1>1, <1>2, ExceptFacts
<1>4. v = [rooms |-> f, player_rooms |-> l.player_rooms, chips |-> chips]
  BY DEF Replay, q, r
<1> HIDE DEF f
<1>5. v \in LobbyRecord /\ v.rooms = f /\ v.player_rooms = l.player_rooms /\ v.chips = chips
  BY <1>1, <1>3, <1>4 DEF LobbyRecord
<1>6. QED BY <1>2, <1>3, <1>5 DEF r

(* Another hand, or the first one, at the table of a room. *)
LEMMA ReplaySound ==
  ASSUME NEW l, Tables(l), NEW id \in DOMAIN l.rooms, NEW g \in Game, NEW chips \in [Account -> Nat],
         g.on, DOMAIN g.stack = ToSet(l.rooms[id].members), Len(l.rooms[id].members) >= 2
  PROVE  Tables(Replay(l, id, g, chips))
<1> DEFINE v == Replay(l, id, g, chips)
<1>1. l \in LobbyRecord
  BY DEF Tables
<1>2. /\ v \in LobbyRecord /\ v.player_rooms = l.player_rooms /\ v.chips = chips
      /\ DOMAIN v.rooms = DOMAIN l.rooms
      /\ \A i \in DOMAIN l.rooms : i # id => v.rooms[i] = l.rooms[i]
      /\ v.rooms[id].game = g /\ v.rooms[id].members = l.rooms[id].members
      /\ v.rooms[id].host = l.rooms[id].host /\ v.rooms[id].max = l.rooms[id].max
  BY <1>1, ReplayFacts
<1> HIDE DEF v
<1>3. ASSUME NEW i \in DOMAIN l.rooms PROVE RoomSound(v, i)
  <2>1. RoomSound(l, i)
    BY DEF Tables
  <2>2. CASE i # id
    BY <1>2, <2>1, <2>2 DEF RoomSound, Seats
  <2>3. CASE i = id
    <3>1. Seats(v, id)
      BY <1>2, <2>1, <2>3 DEF RoomSound, Seats
    <3>2. QED BY <1>2, <2>1, <2>3, <3>1 DEF RoomSound
  <2>4. QED BY <2>2, <2>3
<1>4. \A c \in DOMAIN v.player_rooms : v.player_rooms[c] \in DOMAIN v.rooms
  BY <1>2 DEF Tables
<1>5. QED BY <1>2, <1>3, <1>4 DEF Tables, v

(* Every connection that has a seat has an account. *)
LEMMA AcctType ==
  ASSUME Known, NEW c \in registered
  PROVE  c \in Conn /\ name[c] \in Name /\ Acct(c) \in Account
BY NameAssumption DEF Known, LoggedIn, Acct

\* The players with a seat are logged in.
SeatsKnown(l) == DOMAIN l.player_rooms \subseteq registered

(* The members of a room are logged in. *)
LEMMA MembersKnown ==
  ASSUME Known, NEW l \in LobbyRecord, SeatsKnown(l), NEW id \in DOMAIN l.rooms, Seats(l, id)
  PROVE  /\ ToSet(l.rooms[id].members) \subseteq registered
         /\ \A c \in ToSet(l.rooms[id].members) : Acct(c) \in Account
<1>1. ToSet(l.rooms[id].members) \subseteq Conn
  BY LobbyFields, RoomFields
<1>2. ToSet(l.rooms[id].members) \subseteq registered
  BY <1>1 DEF Seats, SeatsKnown
<1>3. QED BY <1>2, AcctType

(* Room::start_game deals to the members from their bankrolls, or does nothing. *)
LEMMA StartedShape ==
  ASSUME Known, NEW l \in LobbyRecord, SeatsKnown(l), NEW id \in DOMAIN l.rooms, Seats(l, id),
         NEW v \in StartedGames(l, id), v # l
  PROVE  \E g \in Game :
           /\ v = Replay(l, id, g, SaveAll(l.chips, l.rooms[id].members, g.stack))
           /\ SaveAll(l.chips, l.rooms[id].members, g.stack) \in [Account -> Nat]
           /\ Bankrolls(l, l.rooms[id].members) \in Partial(Conn, Nat)
           /\ Plays(g, Bankrolls(l, l.rooms[id].members),
                    SumOver(Bankrolls(l, l.rooms[id].members), ToSet(l.rooms[id].members)))
           /\ DOMAIN g.stack = ToSet(l.rooms[id].members)
<1> DEFINE r == l.rooms[id]
           b == Bankrolls(l, r.members)
<1>1. /\ r \in Room /\ l.chips \in [Account -> Nat] /\ l.rooms \in Partial(RoomId, Room)
  BY LobbyFields
<1>2. r.members \in Seq(Conn) /\ ToSet(r.members) \subseteq Conn
  BY <1>1, RoomFields
<1>3. \A c \in ToSet(r.members) : Acct(c) \in Account
  BY MembersKnown
<1>4. DOMAIN b = ToSet(r.members) /\ b \in [DOMAIN b -> Nat]
  BY <1>1, <1>3 DEF Bankrolls
<1>5. b \in Partial(Conn, Nat)
  <2> HIDE DEF b
  <2>1. QED BY <1>2, <1>4, PartialDef
<1>6. PICK g \in Dealt(b) : v = [l EXCEPT !.rooms[id].game = g, !.chips = SaveAll(l.chips, r.members, g.stack)]
  BY DEF StartedGames
<1>7. Plays(g, b, SumOver(b, DOMAIN b))
  BY <1>5, DealtFacts
<1>8. g \in Game /\ DOMAIN g.stack = ToSet(r.members)
  BY <1>4, <1>7 DEF Plays
<1>9. \A c \in ToSet(r.members) : g.stack[c] \in Nat
  BY <1>8, GameFields
<1> DEFINE s == SaveAll(l.chips, r.members, g.stack)
<1>10. s \in [Account -> Nat]
  BY <1>1, <1>2, <1>9, SaveAllFacts
<1>11. v = Replay(l, id, g, s)
  <2> HIDE DEF s, b
  <2>1. v = [l EXCEPT !.rooms[id].game = g, !.chips = s]
    BY <1>6 DEF s
  <2>2. QED BY <2>1 DEF LobbyRecord, Replay
<1>12. Plays(g, b, SumOver(b, ToSet(r.members)))
  BY <1>4, <1>7
<1>13. QED BY <1>5, <1>8, <1>10, <1>11, <1>12

(* A game that starts leaves the lobby in order. *)
LEMMA StartedSound ==
  ASSUME Known, NEW l, Tables(l), SeatsKnown(l), NEW id \in DOMAIN l.rooms,
         Len(l.rooms[id].members) >= 2, NEW v \in StartedGames(l, id)
  PROVE  Tables(v) /\ v.player_rooms = l.player_rooms /\ DOMAIN v.rooms = DOMAIN l.rooms
<1>1. l \in LobbyRecord /\ Seats(l, id)
  BY DEF Tables, RoomSound
<1>2. CASE v # l
  <2>1. PICK g \in Game :
           /\ v = Replay(l, id, g, SaveAll(l.chips, l.rooms[id].members, g.stack))
           /\ SaveAll(l.chips, l.rooms[id].members, g.stack) \in [Account -> Nat]
           /\ Plays(g, Bankrolls(l, l.rooms[id].members),
                    SumOver(Bankrolls(l, l.rooms[id].members), ToSet(l.rooms[id].members)))
           /\ DOMAIN g.stack = ToSet(l.rooms[id].members)
    BY <1>1, <1>2, StartedShape
  <2> DEFINE s == SaveAll(l.chips, l.rooms[id].members, g.stack)
  <2>2. v = Replay(l, id, g, s) /\ s \in [Account -> Nat] /\ g.on
    BY <2>1 DEF Plays
  <2> HIDE DEF s
  <2>3. Tables(v)
    BY <2>1, <2>2, ReplaySound
  <2>4. v.player_rooms = l.player_rooms /\ DOMAIN v.rooms = DOMAIN l.rooms
    BY <1>1, <2>2, ReplayFacts
  <2>5. QED BY <2>3, <2>4
<1>3. QED BY <1>2
(* When a player leaves a hand, the others play on with stacks t that hold no
   more than their stacks and the pot did, and t is saved when the game ends. *)
LEMMA LeaveShape ==
  ASSUME NEW l \in LobbyRecord, NEW r \in Room, NEW c \in ToSet(r.members), Acct(c) \in Account,
         \A i, j \in DOMAIN r.members : r.members[i] = r.members[j] => i = j,
         DOMAIN r.game.stack = ToSet(r.members), r.game.on,
         NEW a \in GamesAfterLeave(l, r, c)
  PROVE  \E t \in Partial(Conn, Nat) :
           /\ DOMAIN t = ToSet(Rest(r, c))
           /\ a.game \in Game /\ a.chips \in [Account -> Nat]
           /\ SumOver(t, DOMAIN t) + a.game.pot
                <= SumOver(Without(r.game.stack, c), ToSet(r.members) \ {c}) + r.game.pot
           /\ a.game.on => a.game.stack = t /\ Len(Rest(r, c)) >= 2
           /\ ~a.game.on => a.game.pot = 0
           /\ \/ a.chips = SaveAll(SavedLeaver(l, r, c), Rest(r, c), t)
              \/ a.chips = SavedLeaver(l, r, c) /\ a.game.on
<1> DEFINE M == ToSet(r.members)
           rest == Rest(r, c)
           stack == Without(r.game.stack, c)
           pot == r.game.pot
           chips == SavedLeaver(l, r, c)
<1>1. rest \in Seq(Conn) /\ ToSet(rest) = M \ {c}
  BY RestFacts
<1>2. /\ r.game \in Game /\ pot \in Nat /\ r.game.stack \in Partial(Conn, Nat) /\ r.game.stack[c] \in Nat
  BY RoomFields, GameFields
<1>3. stack \in Partial(Conn, Nat) /\ DOMAIN stack = M \ {c}
  <2> DEFINE f == r.game.stack
  <2>1. f \in Partial(Conn, Nat) /\ DOMAIN f = M /\ c \in Conn
    BY <1>2, RoomFields
  <2> HIDE DEF f
  <2>2. Without(f, c) \in Partial(Conn, Nat) /\ DOMAIN Without(f, c) = DOMAIN f \ {c}
    BY <2>1, WithoutStack
  <2>3. QED BY <2>1, <2>2 DEF f
<1>4. chips \in [Account -> Nat]
  BY <1>2, LobbyFields DEF SavedLeaver
<1> HIDE DEF rest, stack, chips
<1> DEFINE goes_on == {[game |-> [r.game EXCEPT !.stack = stack], chips |-> chips]}
           dealt == {[game |-> g, chips |-> SaveAll(chips, rest, g.stack)] :
                       g \in UNION {NextHand(s) : s \in Awarded(stack, pot)}}
           ended == {[game |-> NoGame, chips |-> SaveAll(chips, rest, s)] : s \in Awarded(stack, pot)}
<1>5. a \in IF Len(rest) >= 2 THEN goes_on \cup dealt ELSE ended
  BY DEF GamesAfterLeave, rest, stack, chips
<1> DEFINE Good(t) == /\ DOMAIN t = ToSet(rest)
                      /\ a.game \in Game /\ a.chips \in [Account -> Nat]
                      /\ SumOver(t, DOMAIN t) + a.game.pot <= SumOver(stack, M \ {c}) + pot
                      /\ a.game.on => a.game.stack = t /\ Len(rest) >= 2
                      /\ ~a.game.on => a.game.pot = 0
                      /\ \/ a.chips = SaveAll(chips, rest, t)
                         \/ a.chips = chips /\ a.game.on
<1>6. SumOver(stack, M \ {c}) \in Nat
  <2>1. IsFiniteSet(M \ {c})
    BY RoomFields, FS_Subset
  <2>2. \A x \in M \ {c} : stack[x] \in Nat
    BY <1>3, PartialDef
  <2>3. QED BY <2>1, <2>2, SumOverType
<1>7. CASE Len(rest) >= 2 /\ a \in goes_on
  <2>1. /\ a.game \in Game /\ a.game.stack = stack /\ a.game.on /\ a.game.pot = pot /\ a.chips = chips
    BY <1>2, <1>3, <1>7 DEF Game
  <2>2. Good(stack)
    BY <1>1, <1>2, <1>3, <1>4, <1>6, <1>7, <2>1
  <2>3. QED BY <1>3, <2>2 DEF rest, stack, chips
<1>8. CASE Len(rest) >= 2 /\ a \in dealt
  <2>1. PICK g \in UNION {NextHand(s) : s \in Awarded(stack, pot)} :
            a = [game |-> g, chips |-> SaveAll(chips, rest, g.stack)]
    BY <1>8
  <2>2. PICK s \in Awarded(stack, pot) : g \in NextHand(s)
    BY <2>1
  <2>3. /\ s \in Partial(Conn, Nat) /\ DOMAIN s = DOMAIN stack
        /\ SumOver(s, DOMAIN stack) \in Nat
        /\ SumOver(s, DOMAIN stack) <= SumOver(stack, DOMAIN stack) + pot
    BY <1>2, <1>3, <2>2, AwardedFacts
  <2>4. /\ g \in Game /\ g.on /\ DOMAIN g.stack = DOMAIN s
        /\ SumOver(g.stack, DOMAIN s) + g.pot <= SumOver(s, DOMAIN s)
    BY <2>2, <2>3, NextHandFacts DEF Plays
  <2>5. g.stack \in Partial(Conn, Nat) /\ g.pot \in Nat /\ \A d \in DOMAIN g.stack : g.stack[d] \in Nat
    BY <2>4, GameFields
  <2>6. SumOver(g.stack, DOMAIN s) \in Nat
    BY <2>4, <2>5, GameFields, SumOverType
  <2>7. SaveAll(chips, rest, g.stack) \in [Account -> Nat]
    BY <1>1, <1>3, <1>4, <2>3, <2>4, <2>5, SaveAllFacts
  <2>8. a.game = g /\ a.chips = SaveAll(chips, rest, g.stack)
    BY <2>1
  <2>9. SumOver(g.stack, DOMAIN g.stack) + g.pot <= SumOver(stack, M \ {c}) + pot
    <3> DEFINE x == SumOver(g.stack, DOMAIN s)
               y == SumOver(s, DOMAIN s)
               z == SumOver(stack, M \ {c})
    <3>1. /\ x \in Nat /\ y \in Nat /\ z \in Nat /\ x + g.pot <= y /\ y <= z + pot
      BY <1>3, <1>6, <2>3, <2>4, <2>6
    <3>2. x + g.pot <= z + pot
      <4> HIDE DEF x, y, z
      <4>1. QED BY <1>2, <2>5, <3>1
    <3>3. QED BY <2>4, <3>2
  <2>10. Good(g.stack)
    BY <1>1, <1>3, <1>8, <2>3, <2>4, <2>7, <2>8, <2>9
  <2>11. QED BY <2>5, <2>10 DEF rest, stack, chips
<1>9. CASE ~(Len(rest) >= 2) /\ a \in ended
  <2>1. PICK s \in Awarded(stack, pot) : a = [game |-> NoGame, chips |-> SaveAll(chips, rest, s)]
    BY <1>9
  <2>2. /\ s \in Partial(Conn, Nat) /\ DOMAIN s = DOMAIN stack
        /\ SumOver(s, DOMAIN stack) \in Nat
        /\ SumOver(s, DOMAIN stack) <= SumOver(stack, DOMAIN stack) + pot
    BY <1>2, <1>3, <2>1, AwardedFacts
  <2>3. a.game = NoGame /\ a.chips = SaveAll(chips, rest, s)
    BY <2>1
  <2>4. NoGame \in Game /\ ~NoGame.on /\ NoGame.pot = 0
    <3>1. EmptyFcn \in Partial(Conn, Nat)
      <4>1. DOMAIN EmptyFcn \subseteq Conn /\ EmptyFcn \in [DOMAIN EmptyFcn -> Nat]
        BY DEF EmptyFcn
      <4>2. QED BY <4>1, PartialDef
    <3>2. QED BY <3>1 DEF NoGame, Game
  <2>5. \A d \in DOMAIN s : s[d] \in Nat
    BY <2>2, PartialDef
  <2>6. SaveAll(chips, rest, s) \in [Account -> Nat]
    BY <1>1, <1>3, <1>4, <2>2, <2>5, SaveAllFacts
  <2> HIDE DEF NoGame
  <2>7. Good(s)
    BY <1>1, <1>2, <1>3, <1>6, <2>2, <2>3, <2>4, <2>6
  <2>8. QED BY <2>2, <2>7 DEF rest, stack, chips
<1>10. QED BY <1>5, <1>7, <1>8, <1>9
\* What Room::remove_player may make of the game of room r and the balances.
After(l, r, c) ==
    IF r.game.on THEN GamesAfterLeave(l, r, c) ELSE {[game |-> r.game, chips |-> l.chips]}

\* After a player has left, a game has two players or there is none.
Settled(r, c, a) ==
    /\ a.game \in Game /\ a.chips \in [Account -> Nat]
    /\ a.game.on => DOMAIN a.game.stack = ToSet(Rest(r, c)) /\ Len(Rest(r, c)) >= 2
    /\ ~a.game.on => a.game.pot = 0

(* Room::remove_player settles the game. *)
LEMMA AfterFacts ==
  ASSUME Known, NEW l, Tables(l), SeatsKnown(l), NEW id \in DOMAIN l.rooms,
         NEW c \in ToSet(l.rooms[id].members), NEW a \in After(l, l.rooms[id], c)
  PROVE  Settled(l.rooms[id], c, a)
<1> DEFINE r == l.rooms[id]
<1>1. l \in LobbyRecord /\ r \in Room /\ r.game \in Game /\ l.chips \in [Account -> Nat]
  BY LobbyFields, RoomFields DEF Tables
<1>2. /\ \A i, j \in DOMAIN r.members : r.members[i] = r.members[j] => i = j
      /\ r.game.on => DOMAIN r.game.stack = ToSet(r.members)
      /\ ~r.game.on => r.game.pot = 0
      /\ Seats(l, id)
  BY DEF Tables, RoomSound, Seats
<1>3. Acct(c) \in Account
  BY <1>1, <1>2, MembersKnown
<1> HIDE DEF r
<1>4. CASE r.game.on
  <2>1. a \in GamesAfterLeave(l, r, c)
    BY <1>4 DEF After, r
  <2>2. c \in ToSet(r.members) /\ DOMAIN r.game.stack = ToSet(r.members)
    BY <1>2, <1>4 DEF r
  <2>3. PICK t \in Partial(Conn, Nat) :
           /\ DOMAIN t = ToSet(Rest(r, c))
           /\ a.game \in Game /\ a.chips \in [Account -> Nat]
           /\ SumOver(t, DOMAIN t) + a.game.pot
                <= SumOver(Without(r.game.stack, c), ToSet(r.members) \ {c}) + r.game.pot
           /\ a.game.on => a.game.stack = t /\ Len(Rest(r, c)) >= 2
           /\ ~a.game.on => a.game.pot = 0
           /\ \/ a.chips = SaveAll(SavedLeaver(l, r, c), Rest(r, c), t)
              \/ a.chips = SavedLeaver(l, r, c) /\ a.game.on
    BY <1>1, <1>2, <1>3, <1>4, <2>1, <2>2, LeaveShape, Zenon
  <2>4. QED BY <2>3 DEF r, Settled
<1>5. CASE ~r.game.on
  <2>1. a.game = r.game /\ a.chips = l.chips
    BY <1>5 DEF After, r
  <2>2. QED BY <1>1, <1>2, <1>5, <2>1 DEF r, Settled
<1>6. QED BY <1>4, <1>5

\* Lobby v is lobby l once connection c has left room id, with outcome a.
Departed(l, v, id, c, a) ==
    /\ v \in LobbyRecord /\ v.chips = a.chips
    /\ DOMAIN v.player_rooms = DOMAIN l.player_rooms \ {c}
    /\ \A d \in DOMAIN v.player_rooms : v.player_rooms[d] = l.player_rooms[d]
    /\ \A i \in DOMAIN l.rooms : i # id => i \in DOMAIN v.rooms /\ v.rooms[i] = l.rooms[i]
    /\ DOMAIN v.rooms = IF Rest(l.rooms[id], c) = <<>> THEN DOMAIN l.rooms \ {id} ELSE DOMAIN l.rooms
    /\ Rest(l.rooms[id], c) # <<>> =>
         /\ v.rooms[id].members = Rest(l.rooms[id], c) /\ v.rooms[id].game = a.game
         /\ v.rooms[id].max = l.rooms[id].max /\ v.rooms[id].host = NewHost(l.rooms[id], c)

(* What Lobby::leave_room changes when the player has a seat. *)
LEMMA LeftFacts ==
  ASSUME Known, NEW l, Tables(l), SeatsKnown(l), NEW c \in DOMAIN l.player_rooms, NEW v \in Left(l, c),
         NEW id, id = l.player_rooms[c]
  PROVE  /\ id \in DOMAIN l.rooms /\ c \in ToSet(l.rooms[id].members)
         /\ \E a \in After(l, l.rooms[id], c) : Departed(l, v, id, c, a)
<1> DEFINE r == l.rooms[id]
           rest == Rest(r, c)
<1>1. /\ l \in LobbyRecord /\ l.rooms \in Partial(RoomId, Room)
      /\ l.player_rooms \in Partial(Conn, RoomId) /\ c \in Conn
  BY LobbyFields DEF Tables
<1>2. id \in DOMAIN l.rooms /\ id \in RoomId /\ r \in Room
  BY <1>1, LobbyFields DEF Tables
<1>3. c \in ToSet(r.members) /\ \A i, j \in DOMAIN r.members : r.members[i] = r.members[j] => i = j
  BY <1>1, <1>2 DEF Tables, RoomSound, Seats
<1>4. rest \in Seq(Conn) /\ ToSet(rest) = ToSet(r.members) \ {c}
  BY <1>2, <1>3, RestFacts
<1>5. r.host \in ToSet(r.members) /\ r.host \in Conn
  BY <1>2, RoomFields DEF Tables, RoomSound
<1> DEFINE host == NewHost(r, c)
<1>6. rest # <<>> => host \in Conn
  BY <1>4, <1>5, HeadTailProperties DEF NewHost
<1> HIDE DEF r, rest, host
<1> DEFINE rooms(a) == IF rest = <<>> THEN Without(l.rooms, id)
                       ELSE [l.rooms EXCEPT ![id] = [r EXCEPT !.members = rest, !.game = a.game, !.host = host]]
           seats == Without(l.player_rooms, c)
<1>7. PICK a \in After(l, r, c) : v = [rooms |-> rooms(a), player_rooms |-> seats, chips |-> a.chips]
  BY DEF Left, After, r, rest, host
<1>8. a.game \in Game /\ a.chips \in [Account -> Nat]
  BY <1>2, <1>3, <1>7, AfterFacts DEF r, Settled
<1>9. /\ seats \in Partial(Conn, RoomId) /\ DOMAIN seats = DOMAIN l.player_rooms \ {c}
      /\ \A d \in DOMAIN l.player_rooms \ {c} : seats[d] = l.player_rooms[d]
  <2> DEFINE p == l.player_rooms
  <2>1. p \in Partial(Conn, RoomId) /\ c \in Conn
    BY <1>1
  <2> HIDE DEF p
  <2>2. /\ Without(p, c) \in Partial(Conn, RoomId) /\ DOMAIN Without(p, c) = DOMAIN p \ {c}
        /\ \A d \in DOMAIN p \ {c} : Without(p, c)[d] = p[d]
    BY <2>1, WithoutFacts
  <2>3. QED BY <2>2 DEF p
<1> DEFINE q == [r EXCEPT !.members = rest, !.game = a.game, !.host = host]
           f == rooms(a)
<1>10. rest # <<>> => /\ q \in Room /\ q.members = rest /\ q.game = a.game
                      /\ q.host = host /\ q.max = r.max
  <2>1. r \in Room
    BY <1>2 DEF r
  <2>2. QED BY <1>4, <1>6, <1>8, <2>1 DEF Room, rest
<1>11. /\ f \in Partial(RoomId, Room)
       /\ DOMAIN f = IF rest = <<>> THEN DOMAIN l.rooms \ {id} ELSE DOMAIN l.rooms
       /\ \A i \in DOMAIN l.rooms : i # id => i \in DOMAIN f /\ f[i] = l.rooms[i]
       /\ rest # <<>> => f[id] = q
  <2>1. CASE rest = <<>>
    <3>1. f = Without(l.rooms, id)
      BY <2>1
    <3> HIDE DEF f
    <3>2. /\ f \in Partial(RoomId, Room) /\ DOMAIN f = DOMAIN l.rooms \ {id}
          /\ \A i \in DOMAIN l.rooms \ {id} : f[i] = l.rooms[i]
      <4> DEFINE p == l.rooms
      <4>1. p \in Partial(RoomId, Room) /\ id \in RoomId /\ f = Without(p, id)
        BY <1>1, <1>2, <3>1
      <4> HIDE DEF p
      <4>2. /\ Without(p, id) \in Partial(RoomId, Room) /\ DOMAIN Without(p, id) = DOMAIN p \ {id}
            /\ \A i \in DOMAIN p \ {id} : Without(p, id)[i] = p[i]
        BY <4>1, WithoutRoom
      <4>3. QED BY <4>1, <4>2 DEF p
    <3>3. QED BY <2>1, <3>2
  <2>2. CASE rest # <<>>
    <3>1. f = [l.rooms EXCEPT ![id] = q]
      BY <2>2
    <3> HIDE DEF f, q
    <3>2. /\ f \in Partial(RoomId, Room) /\ DOMAIN f = DOMAIN l.rooms /\ f[id] = q
          /\ \A i \in DOMAIN l.rooms : i # id => f[i] = l.rooms[i]
      BY <1>1, <1>2, <1>10, <2>2, <3>1, ExceptFacts
    <3>3. QED BY <2>2, <3>2
  <2>3. QED BY <2>1, <2>2
<1> HIDE DEF f, seats, q
<1>12. /\ v \in LobbyRecord /\ v.rooms = f /\ v.player_rooms = seats /\ v.chips = a.chips
  BY <1>7, <1>8, <1>9, <1>11 DEF LobbyRecord, f, seats
<1>13. /\ v.chips = a.chips
       /\ rest # <<>> => /\ v.rooms[id].members = rest /\ v.rooms[id].game = a.game
                         /\ v.rooms[id].max = r.max /\ v.rooms[id].host = host
  BY <1>10, <1>11, <1>12
<1>14. /\ DOMAIN v.player_rooms = DOMAIN l.player_rooms \ {c}
       /\ \A d \in DOMAIN v.player_rooms : v.player_rooms[d] = l.player_rooms[d]
       /\ \A i \in DOMAIN l.rooms : i # id => i \in DOMAIN v.rooms /\ v.rooms[i] = l.rooms[i]
       /\ DOMAIN v.rooms = IF rest = <<>> THEN DOMAIN l.rooms \ {id} ELSE DOMAIN l.rooms
  BY <1>9, <1>11, <1>12
<1>15. Departed(l, v, id, c, a)
  BY <1>12, <1>13, <1>14 DEF Departed, r, rest, host
<1>16. QED BY <1>2, <1>3, <1>7, <1>15 DEF r
(* Leaving a room keeps the rooms, their games and player_rooms_ in agreement. *)
LEMMA LeftSound ==
  ASSUME Known, NEW l, Tables(l), SeatsKnown(l), NEW c \in Conn, NEW v \in Left(l, c)
  PROVE  /\ Tables(v) /\ SeatsKnown(v)
         /\ DOMAIN v.player_rooms = DOMAIN l.player_rooms \ {c}
         /\ DOMAIN v.rooms \subseteq DOMAIN l.rooms
<1>1. CASE c \notin DOMAIN l.player_rooms
  <2>1. v = l
    BY <1>1 DEF Left
  <2>2. QED BY <1>1, <2>1
<1>2. CASE c \in DOMAIN l.player_rooms
  <2>0. PICK id : id = l.player_rooms[c]
    OBVIOUS
  <2> DEFINE r == l.rooms[id]
             rest == Rest(r, c)
  <2>1. PICK a \in After(l, r, c) :
            id \in DOMAIN l.rooms /\ c \in ToSet(r.members) /\ Departed(l, v, id, c, a)
    BY <1>2, <2>0, LeftFacts
  <2>2. /\ v \in LobbyRecord
        /\ DOMAIN v.player_rooms = DOMAIN l.player_rooms \ {c}
        /\ \A d \in DOMAIN v.player_rooms : v.player_rooms[d] = l.player_rooms[d]
        /\ \A i \in DOMAIN l.rooms : i # id => i \in DOMAIN v.rooms /\ v.rooms[i] = l.rooms[i]
        /\ DOMAIN v.rooms = IF rest = <<>> THEN DOMAIN l.rooms \ {id} ELSE DOMAIN l.rooms
        /\ rest # <<>> =>
             /\ v.rooms[id].members = rest /\ v.rooms[id].game = a.game
             /\ v.rooms[id].max = r.max /\ v.rooms[id].host = NewHost(r, c)
    BY <2>1 DEF Departed
  <2>3. /\ a.game.on => DOMAIN a.game.stack = ToSet(rest) /\ Len(rest) >= 2
        /\ ~a.game.on => a.game.pot = 0
    <3>1. Settled(l.rooms[id], c, a)
      BY <2>1, AfterFacts
    <3>2. QED BY <3>1 DEF Settled
  <2>4. RoomSound(l, id) /\ r \in Room
    BY <2>1, LobbyFields DEF Tables
  <2>5. /\ rest \in Seq(Conn) /\ Len(rest) = Len(r.members) - 1
        /\ \A i, j \in DOMAIN rest : rest[i] = rest[j] => i = j
        /\ ToSet(rest) = ToSet(r.members) \ {c}
    BY <2>1, <2>4, RestFacts DEF RoomSound, Seats
  <2>6. Len(r.members) \in Nat /\ r.max \in Nat
    BY <2>4, RoomFields
  <2>7. rest # <<>> => NewHost(r, c) \in ToSet(rest)
    <3>1. CASE c = r.host
      <4>1. rest # <<>> => Head(rest) = rest[1] /\ 1 \in DOMAIN rest
        BY <2>5, HeadTailProperties
      <4>2. QED BY <3>1, <4>1 DEF NewHost, ToSet
    <3>2. CASE c # r.host
      BY <2>4, <2>5, <3>2 DEF NewHost, RoomSound
    <3>3. QED BY <3>1, <3>2
  <2>8. \A d \in DOMAIN l.player_rooms : d \in Conn
    BY LobbyFields DEF Tables
  <2> HIDE DEF rest, r
  <2>9. ASSUME NEW d \in DOMAIN v.player_rooms PROVE v.player_rooms[d] \in DOMAIN v.rooms
    <3>1. d \in DOMAIN l.player_rooms /\ d # c /\ v.player_rooms[d] = l.player_rooms[d]
      BY <2>2, <2>9
    <3>2. l.player_rooms[d] \in DOMAIN l.rooms
      BY <3>1 DEF Tables
    <3>3. CASE l.player_rooms[d] = id
      <4>1. d \in ToSet(rest)
        <5>1. d \in ToSet(r.members)
          BY <2>4, <2>8, <3>1, <3>3 DEF RoomSound, Seats, r
        <5>2. QED BY <2>5, <3>1, <5>1
      <4>2. rest # <<>>
        BY <4>1 DEF ToSet
      <4>3. QED BY <2>1, <2>2, <3>1, <3>3, <4>2
    <3>4. CASE l.player_rooms[d] # id
      BY <2>2, <3>1, <3>2, <3>4
    <3>5. QED BY <3>3, <3>4
  <2>10. ASSUME NEW i \in DOMAIN v.rooms PROVE RoomSound(v, i)
    <3>1. i \in DOMAIN l.rooms /\ RoomSound(l, i)
      BY <2>2 DEF Tables
    <3>2. CASE i # id
      <4>1. v.rooms[i] = l.rooms[i]
        BY <2>2, <3>1, <3>2
      <4>2. l.player_rooms[c] # i
        BY <2>0, <3>2
      <4>3. Seats(v, i)
        <5>1. \A d \in Conn : d \in DOMAIN v.player_rooms /\ v.player_rooms[d] = i
                <=> d \in DOMAIN l.player_rooms /\ l.player_rooms[d] = i
          BY <2>2, <4>2
        <5>2. QED BY <3>1, <4>1, <5>1 DEF RoomSound, Seats
      <4>4. QED BY <3>1, <4>1, <4>3 DEF RoomSound
    <3>3. CASE i = id
      <4>1. /\ rest # <<>> /\ v.rooms[id].members = rest /\ v.rooms[id].game = a.game
            /\ v.rooms[id].max = r.max /\ v.rooms[id].host = NewHost(r, c)
        BY <2>2, <3>3
      <4>2. Seats(v, id)
        <5>1. ASSUME NEW d \in Conn
              PROVE  d \in ToSet(rest) <=> d \in DOMAIN v.player_rooms /\ v.player_rooms[d] = id
          <6>1. d \in ToSet(r.members) <=> d \in DOMAIN l.player_rooms /\ l.player_rooms[d] = id
            BY <2>4 DEF RoomSound, Seats, r
          <6>2. QED BY <2>2, <2>5, <6>1
        <5>2. QED BY <2>5, <4>1, <5>1 DEF Seats
      <4>3. r.max >= 2 /\ Len(r.members) <= r.max
        BY <2>4 DEF RoomSound, r
      <4>4. Len(rest) <= r.max
        BY <2>5, <2>6, <4>3
      <4>5. QED BY <2>3, <2>7, <3>3, <4>1, <4>2, <4>3, <4>4 DEF RoomSound
    <3>4. QED BY <3>2, <3>3
  <2>11. Tables(v)
    BY <2>2, <2>9, <2>10 DEF Tables
  <2>12. SeatsKnown(v)
    BY <2>2 DEF SeatsKnown
  <2>13. QED BY <2>2, <2>11, <2>12
<1>3. QED BY <1>1, <1>2

\* Connection c without a seat may enter room id of lobby l, which is in order
\* except that the room may be new and still empty.
Enterable(l, id, c) ==
    /\ l \in LobbyRecord
    /\ \A d \in DOMAIN l.player_rooms : l.player_rooms[d] \in DOMAIN l.rooms
    /\ \A i \in DOMAIN l.rooms : i # id => RoomSound(l, i)
    /\ id \in DOMAIN l.rooms
    /\ Seats(l, id)
    /\ l.rooms[id].host \in ToSet(l.rooms[id].members) \cup {c}
    /\ l.rooms[id].max >= 2 /\ Len(l.rooms[id].members) < l.rooms[id].max
    /\ ~l.rooms[id].game.on /\ l.rooms[id].game.pot = 0
    /\ c \in registered /\ c \notin DOMAIN l.player_rooms

\* The lobby with connection c in room id.
Sit(l, id, c) ==
    [rooms |-> [l.rooms EXCEPT ![id] = [l.rooms[id] EXCEPT !.members = Append(l.rooms[id].members, c)]],
     player_rooms |-> With(l.player_rooms, c, id), chips |-> l.chips]

(* What taking a seat changes. *)
LEMMA SitFacts ==
  ASSUME NEW l \in LobbyRecord, NEW id \in DOMAIN l.rooms, NEW c \in Conn, NEW v, v = Sit(l, id, c)
  PROVE  /\ v \in LobbyRecord /\ v.chips = l.chips
         /\ DOMAIN v.player_rooms = DOMAIN l.player_rooms \cup {c} /\ v.player_rooms[c] = id
         /\ \A d \in DOMAIN l.player_rooms : d # c => v.player_rooms[d] = l.player_rooms[d]
         /\ DOMAIN v.rooms = DOMAIN l.rooms
         /\ \A i \in DOMAIN l.rooms : i # id => v.rooms[i] = l.rooms[i]
         /\ v.rooms[id].members = Append(l.rooms[id].members, c)
         /\ v.rooms[id].game = l.rooms[id].game
         /\ v.rooms[id].host = l.rooms[id].host /\ v.rooms[id].max = l.rooms[id].max
<1> DEFINE r == l.rooms[id]
           m == Append(r.members, c)
           q == [r EXCEPT !.members = m]
           f == [l.rooms EXCEPT ![id] = q]
           p == With(l.player_rooms, c, id)
<1>1. /\ l.rooms \in Partial(RoomId, Room) /\ l.player_rooms \in Partial(Conn, RoomId) /\ r \in Room
      /\ id \in RoomId /\ l.chips \in [Account -> Nat]
  BY LobbyFields
<1>2. m \in Seq(Conn)
  BY <1>1, RoomFields, AppendProperties
<1> HIDE DEF r, m
<1>3. q \in Room /\ q.members = m /\ q.game = r.game /\ q.host = r.host /\ q.max = r.max
  BY <1>1, <1>2 DEF Room
<1> HIDE DEF q
<1>4. /\ f \in Partial(RoomId, Room) /\ DOMAIN f = DOMAIN l.rooms /\ f[id] = q
      /\ \A i \in DOMAIN l.rooms : i # id => f[i] = l.rooms[i]
  BY <1>1, <1>3, ExceptFacts
<1>5. /\ p \in Partial(Conn, RoomId) /\ DOMAIN p = DOMAIN l.player_rooms \cup {c} /\ p[c] = id
      /\ \A d \in DOMAIN l.player_rooms : d # c => p[d] = l.player_rooms[d]
  <2> DEFINE o == l.player_rooms
  <2>1. o \in Partial(Conn, RoomId)
    BY <1>1
  <2> HIDE DEF o
  <2>2. /\ With(o, c, id) \in Partial(Conn, RoomId) /\ DOMAIN With(o, c, id) = DOMAIN o \cup {c}
        /\ With(o, c, id)[c] = id /\ \A d \in DOMAIN o : d # c => With(o, c, id)[d] = o[d]
    BY <1>1, <2>1, WithSeat
  <2>3. QED BY <2>2 DEF o
<1>6. v = [rooms |-> f, player_rooms |-> p, chips |-> l.chips]
  BY DEF Sit, q, r, m
<1> HIDE DEF f, p
<1>7. v \in LobbyRecord /\ v.rooms = f /\ v.player_rooms = p /\ v.chips = l.chips
  BY <1>1, <1>4, <1>5, <1>6 DEF LobbyRecord
<1>8. QED BY <1>3, <1>4, <1>5, <1>7 DEF r, m
(* Taking a seat in a room that may be entered. *)
LEMMA SitSound ==
  ASSUME Known, NEW l, NEW id, NEW c \in Conn, Enterable(l, id, c), SeatsKnown(l)
  PROVE  /\ Tables(Sit(l, id, c)) /\ SeatsKnown(Sit(l, id, c))
<1> DEFINE r == l.rooms[id]
           m == Append(r.members, c)
           n == Len(r.members)
<1>1. PICK v : v = Sit(l, id, c)
  OBVIOUS
<1>2. l \in LobbyRecord /\ id \in DOMAIN l.rooms /\ r \in Room
  BY LobbyFields DEF Enterable
<1>3. /\ v \in LobbyRecord /\ v.chips = l.chips
      /\ DOMAIN v.player_rooms = DOMAIN l.player_rooms \cup {c} /\ v.player_rooms[c] = id
      /\ \A d \in DOMAIN l.player_rooms : d # c => v.player_rooms[d] = l.player_rooms[d]
      /\ DOMAIN v.rooms = DOMAIN l.rooms
      /\ \A i \in DOMAIN l.rooms : i # id => v.rooms[i] = l.rooms[i]
      /\ v.rooms[id].members = m
      /\ v.rooms[id].game = r.game
      /\ v.rooms[id].host = r.host /\ v.rooms[id].max = r.max
  BY <1>1, <1>2, SitFacts
<1>4. r.members \in Seq(Conn) /\ DOMAIN r.members = 1..n /\ n \in Nat /\ r.max \in Nat
  BY <1>2, RoomFields
<1>5. /\ m \in Seq(Conn) /\ Len(m) = n + 1 /\ m[n + 1] = c
      /\ \A i \in 1..n : m[i] = r.members[i]
  BY <1>4, AppendProperties
<1>6. /\ Seats(l, id) /\ c \notin DOMAIN l.player_rooms /\ c \in registered
      /\ r.host \in ToSet(r.members) \cup {c}
      /\ r.max >= 2 /\ n < r.max /\ ~r.game.on /\ r.game.pot = 0
  BY DEF Enterable
<1>7. c \notin ToSet(r.members)
  BY <1>6 DEF Seats
<1> HIDE DEF r, m, n
<1>8. DOMAIN m = 1..(n + 1)
  BY <1>4, <1>5
<1>9. ToSet(m) = ToSet(r.members) \cup {c}
  <2>1. ASSUME NEW x \in ToSet(m) PROVE x \in ToSet(r.members) \cup {c}
    <3>1. PICK i \in 1..(n + 1) : m[i] = x
      BY <1>8 DEF ToSet
    <3>2. CASE i \in 1..n
      BY <1>4, <1>5, <3>1, <3>2 DEF ToSet
    <3>3. CASE i = n + 1
      BY <1>5, <3>1, <3>3
    <3>4. QED BY <1>4, <3>2, <3>3
  <2>2. ASSUME NEW x \in ToSet(r.members) PROVE x \in ToSet(m)
    <3>1. PICK i \in 1..n : r.members[i] = x
      BY <1>4 DEF ToSet
    <3>2. i \in 1..(n + 1) /\ m[i] = x
      BY <1>4, <1>5, <3>1
    <3>3. QED BY <1>8, <3>2 DEF ToSet
  <2>3. c \in ToSet(m)
    <3>1. n + 1 \in 1..(n + 1)
      BY <1>4
    <3>2. QED BY <1>5, <1>8, <3>1 DEF ToSet
  <2>4. QED BY <2>1, <2>2, <2>3
<1>10. \A i, j \in DOMAIN m : m[i] = m[j] => i = j
  <2>1. ASSUME NEW i \in 1..(n + 1), NEW j \in 1..(n + 1), m[i] = m[j] PROVE i = j
    <3>1. \A x \in 1..n : m[x] # c
      BY <1>4, <1>5, <1>7 DEF ToSet
    <3>2. CASE i \in 1..n /\ j \in 1..n
      <4>1. r.members[i] = r.members[j]
        BY <1>5, <2>1, <3>2
      <4>2. QED BY <1>4, <1>6, <3>2, <4>1 DEF Seats, r
    <3>3. CASE i = n + 1 \/ j = n + 1
      <4>1. m[i] = c /\ m[j] = c
        BY <1>5, <2>1, <3>3
      <4>2. i \notin 1..n /\ j \notin 1..n
        BY <3>1, <4>1
      <4>3. QED BY <1>4, <4>2
    <3>4. QED BY <1>4, <3>2, <3>3
  <2>2. QED BY <1>8, <2>1
<1>11. Seats(v, id)
  <2>1. ASSUME NEW d \in Conn
        PROVE  d \in ToSet(m) <=> d \in DOMAIN v.player_rooms /\ v.player_rooms[d] = id
    <3>1. d \in ToSet(r.members) <=> d \in DOMAIN l.player_rooms /\ l.player_rooms[d] = id
      BY <1>6 DEF Seats, r
    <3>2. QED BY <1>3, <1>6, <1>9, <3>1
  <2>2. QED BY <1>3, <1>10, <2>1 DEF Seats
<1>12. RoomSound(v, id)
  <2>1. r.host \in ToSet(m) /\ Len(m) <= r.max
    BY <1>4, <1>5, <1>6, <1>9
  <2>2. QED BY <1>3, <1>6, <1>11, <2>1 DEF RoomSound
<1>13. ASSUME NEW i \in DOMAIN v.rooms, i # id PROVE RoomSound(v, i)
  <2>1. RoomSound(l, i) /\ v.rooms[i] = l.rooms[i]
    BY <1>3, <1>13 DEF Enterable
  <2>2. \A d \in Conn : d \in DOMAIN v.player_rooms /\ v.player_rooms[d] = i
            <=> d \in DOMAIN l.player_rooms /\ l.player_rooms[d] = i
    BY <1>3, <1>6, <1>13
  <2>3. Seats(v, i)
    BY <2>1, <2>2 DEF RoomSound, Seats
  <2>4. QED BY <2>1, <2>3 DEF RoomSound
<1>14. \A d \in DOMAIN v.player_rooms : v.player_rooms[d] \in DOMAIN v.rooms
  BY <1>2, <1>3 DEF Enterable
<1>15. Tables(v)
  BY <1>3, <1>12, <1>13, <1>14 DEF Tables
<1>16. SeatsKnown(v)
  BY <1>3, <1>6 DEF SeatsKnown
<1>17. QED BY <1>1, <1>15, <1>16

(* A lobby with other rooms and other seats. *)
LEMMA ExceptTwo ==
  ASSUME NEW l \in LobbyRecord, NEW f \in Partial(RoomId, Room), NEW p
  PROVE  [l EXCEPT !.rooms = f, !.player_rooms = p] = [rooms |-> f, player_rooms |-> p, chips |-> l.chips]
<1> DEFINE x == [l EXCEPT !.rooms = f]
<1>1. x \in LobbyRecord /\ x.rooms = f /\ x.chips = l.chips
  BY DEF LobbyRecord
<1>2. [l EXCEPT !.rooms = f, !.player_rooms = p] = [x EXCEPT !.player_rooms = p]
  OBVIOUS
<1> HIDE DEF x
<1>3. [x EXCEPT !.player_rooms = p] = [rooms |-> x.rooms, player_rooms |-> p, chips |-> x.chips]
  BY <1>1 DEF LobbyRecord
<1>4. QED BY <1>1, <1>2, <1>3

(* Room::add_player: the player takes a seat, and a room that is full starts. *)
LEMMA AddedShape ==
  ASSUME NEW l \in LobbyRecord, NEW id \in DOMAIN l.rooms, NEW c \in Conn, NEW v \in Added(l, id, c)
  PROVE  \/ v = Sit(l, id, c)
         \/ /\ v \in StartedGames(Sit(l, id, c), id)
            /\ Len(Sit(l, id, c).rooms[id].members) = l.rooms[id].max
<1> DEFINE m == Append(l.rooms[id].members, c)
           l1 == [l EXCEPT !.rooms[id].members = m, !.player_rooms = With(@, c, id)]
           w == Sit(l, id, c)
<1>1. v \in IF Len(m) = l.rooms[id].max THEN StartedGames(l1, id) ELSE {l1}
  BY DEF Added
<1>2. l1 = w
  <2> HIDE DEF m
  <2>1. w = [rooms |-> [l.rooms EXCEPT ![id] = [l.rooms[id] EXCEPT !.members = m]],
             player_rooms |-> With(l.player_rooms, c, id), chips |-> l.chips]
    BY DEF Sit, m
  <2> HIDE DEF w
  <2> DEFINE f == [l.rooms EXCEPT ![id] = [l.rooms[id] EXCEPT !.members = m]]
             p == With(l.player_rooms, c, id)
  <2>2. l1 = [l EXCEPT !.rooms = f, !.player_rooms = p]
    BY DEF LobbyRecord
  <2>3. w = [rooms |-> f, player_rooms |-> p, chips |-> l.chips]
    BY <2>1
  <2>4. f \in Partial(RoomId, Room)
    <3>1. w \in LobbyRecord
      BY SitFacts DEF w
    <3>2. w.rooms = f
      BY <2>3
    <3>3. QED BY <3>1, <3>2, LobbyFields
  <2> HIDE DEF f, p, l1
  <2>5. QED BY <2>2, <2>3, <2>4, ExceptTwo
<1> HIDE DEF l1
<1>3. w.rooms[id].members = m
  BY SitFacts
<1>4. QED BY <1>1, <1>2, <1>3

(* A player who enters a room leaves the lobby in order, the game that a full
   room starts included. *)
LEMMA AddedSound ==
  ASSUME Known, NEW l, NEW id, NEW c \in Conn, Enterable(l, id, c), SeatsKnown(l), NEW v \in Added(l, id, c)
  PROVE  /\ Tables(v) /\ SeatsKnown(v)
         /\ DOMAIN v.rooms = DOMAIN l.rooms
<1>1. PICK w : w = Sit(l, id, c)
  OBVIOUS
<1>2. Tables(w) /\ SeatsKnown(w)
  BY <1>1, SitSound
<1>3. l \in LobbyRecord /\ id \in DOMAIN l.rooms /\ l.rooms[id].max >= 2
  BY DEF Enterable
<1>4. DOMAIN w.rooms = DOMAIN l.rooms
  BY <1>1, <1>3, SitFacts
<1>5. \/ v = w
      \/ v \in StartedGames(w, id) /\ Len(w.rooms[id].members) = l.rooms[id].max
  BY <1>1, <1>3, AddedShape
<1>6. CASE v = w
  BY <1>2, <1>4, <1>6
<1>7. CASE v \in StartedGames(w, id) /\ Len(w.rooms[id].members) = l.rooms[id].max
  <2>1. Len(w.rooms[id].members) >= 2 /\ id \in DOMAIN w.rooms
    BY <1>3, <1>4, <1>7
  <2>2. Tables(v) /\ v.player_rooms = w.player_rooms /\ DOMAIN v.rooms = DOMAIN w.rooms
    BY <1>2, <1>7, <2>1, StartedSound
  <2>3. QED BY <1>2, <1>4, <2>2 DEF SeatsKnown
<1>8. QED BY <1>5, <1>6, <1>7

\* The lobby with a new room that nobody has entered.
Fresh(l, id, c, max) ==
    [l EXCEPT !.rooms = With(@, id, [host |-> c, max |-> max, members |-> <<>>, game |-> NoGame])]

(* A new room is entered by its host. *)
LEMMA FreshRoom ==
  ASSUME NEW l, Tables(l), NEW c \in registered, c \in Conn, c \notin DOMAIN l.player_rooms,
         NEW id \in RoomId, id \notin DOMAIN l.rooms, NEW max \in Nat, max >= 2, NEW w,
         w = Fresh(l, id, c, max)
  PROVE  /\ Enterable(w, id, c) /\ w.player_rooms = l.player_rooms /\ w.chips = l.chips
         /\ DOMAIN w.rooms = DOMAIN l.rooms \cup {id}
         /\ \A i \in DOMAIN l.rooms : w.rooms[i] = l.rooms[i]
<1> DEFINE q == [host |-> c, max |-> max, members |-> <<>>, game |-> NoGame]
           f == l.rooms
           g == With(f, id, q)
<1>1. l \in LobbyRecord /\ f \in Partial(RoomId, Room) /\ l.player_rooms \in Partial(Conn, RoomId)
  BY LobbyFields DEF Tables
<1>2. EmptyFcn \in Partial(Conn, Nat)
  <2>1. DOMAIN EmptyFcn \subseteq Conn /\ EmptyFcn \in [DOMAIN EmptyFcn -> Nat]
    BY DEF EmptyFcn
  <2>2. QED BY <2>1, PartialDef
<1>3. NoGame \in Game /\ ~NoGame.on /\ NoGame.pot = 0
  BY <1>2 DEF NoGame, Game
<1>4. /\ q \in Room /\ q.members = <<>> /\ q.host = c /\ q.max = max /\ q.game = NoGame
  BY <1>3 DEF Room
<1>5. w = [l EXCEPT !.rooms = g]
  BY DEF Fresh
<1> HIDE DEF f, q
<1>6. /\ g \in Partial(RoomId, Room) /\ DOMAIN g = DOMAIN f \cup {id} /\ g[id] = q
      /\ \A i \in DOMAIN f : i # id => g[i] = f[i]
  <2>1. DOMAIN f \subseteq RoomId /\ f \in [DOMAIN f -> Room]
    BY <1>1, PartialDef
  <2>2. /\ DOMAIN g = DOMAIN f \cup {id} /\ g[id] = q
        /\ \A i \in DOMAIN f : i # id => g[i] = f[i]
    BY DEF With
  <2>3. g \in [DOMAIN g -> Room] /\ DOMAIN g \subseteq RoomId
    BY <1>4, <2>1 DEF With
  <2> HIDE DEF g
  <2>4. g \in Partial(RoomId, Room)
    BY <2>3, PartialDef
  <2>5. QED BY <2>2, <2>4
<1> HIDE DEF g
<1>7. w \in LobbyRecord /\ w.rooms = g /\ w.player_rooms = l.player_rooms /\ w.chips = l.chips
  BY <1>1, <1>5, <1>6 DEF LobbyRecord
<1>8. \A d \in DOMAIN l.player_rooms : l.player_rooms[d] \in DOMAIN l.rooms
  BY DEF Tables
<1>9. \A d \in DOMAIN w.player_rooms : w.player_rooms[d] \in DOMAIN w.rooms
  BY <1>6, <1>7, <1>8 DEF f
<1>10. ASSUME NEW i \in DOMAIN w.rooms, i # id PROVE RoomSound(w, i)
  <2>1. RoomSound(l, i) /\ w.rooms[i] = l.rooms[i]
    BY <1>6, <1>7, <1>10 DEF Tables, f
  <2>2. QED BY <1>7, <2>1 DEF RoomSound, Seats
<1>11. w.rooms[id] = q /\ id \in DOMAIN w.rooms
  BY <1>6, <1>7
<1>12. ToSet(<<>>) = {} /\ DOMAIN <<>> = {} /\ Len(<<>>) = 0
  BY DEF ToSet
<1>13. Seats(w, id)
  <2>1. \A d \in DOMAIN w.player_rooms : w.player_rooms[d] # id
    BY <1>7, <1>8
  <2>2. QED BY <1>4, <1>11, <1>12, <2>1 DEF Seats
<1>14. /\ w.rooms[id].host = c /\ w.rooms[id].max >= 2 /\ Len(w.rooms[id].members) < w.rooms[id].max
       /\ ~w.rooms[id].game.on /\ w.rooms[id].game.pot = 0
  BY <1>3, <1>4, <1>11, <1>12
<1>15. Enterable(w, id, c)
  BY <1>7, <1>9, <1>10, <1>11, <1>13, <1>14 DEF Enterable
<1>16. QED BY <1>6, <1>7, <1>15 DEF f

(* Room::create_room: the current room is left, the new one entered. *)
LEMMA CreateSound ==
  ASSUME LobbyInv, NEW c \in Conn, NEW max \in Capacity, CreateRoom(c, max)
  PROVE  /\ Tables(lobby') /\ DOMAIN lobby'.player_rooms \subseteq registered
         /\ next_room_id' \in Nat \ {0} /\ \A id \in DOMAIN lobby'.rooms : id < next_room_id'
<1>1. /\ Known /\ Tables(lobby) /\ SeatsKnown(lobby) /\ next_room_id \in Nat \ {0}
      /\ \A i \in DOMAIN lobby.rooms : i < next_room_id
  BY DEF LobbyInv, SeatsKnown
<1>2. /\ c \in registered /\ max >= 2 /\ next_room_id <= MaxRoomId /\ next_room_id' = next_room_id + 1
  BY <1>1 DEF CreateRoom, Known
<1>3. PICK l \in Left(lobby, c) : lobby' \in Added(Fresh(l, next_room_id, c, max), next_room_id, c)
  BY DEF CreateRoom, Fresh
<1>4. PICK id : id = next_room_id
  OBVIOUS
<1>5. PICK w : w = Fresh(l, id, c, max)
  OBVIOUS
<1>6. PICK v : v = lobby'
  OBVIOUS
<1>7. /\ Tables(l) /\ SeatsKnown(l) /\ DOMAIN l.player_rooms = DOMAIN lobby.player_rooms \ {c}
      /\ DOMAIN l.rooms \subseteq DOMAIN lobby.rooms
  BY <1>1, <1>3, LeftSound
<1>8. id \in RoomId /\ id \notin DOMAIN l.rooms /\ max \in Nat /\ c \notin DOMAIN l.player_rooms
  <2>1. id \in RoomId
    BY <1>1, <1>2, <1>4, RoomAssumption DEF RoomId
  <2>2. id \notin DOMAIN lobby.rooms
    BY <1>1, <1>4
  <2>3. QED BY <1>7, <2>1, <2>2, RoomAssumption
<1>10. /\ Enterable(w, id, c) /\ w.player_rooms = l.player_rooms
       /\ DOMAIN w.rooms = DOMAIN l.rooms \cup {id}
  BY <1>2, <1>5, <1>7, <1>8, FreshRoom
<1>11. SeatsKnown(w) /\ v \in Added(w, id, c)
  BY <1>3, <1>4, <1>5, <1>6, <1>7, <1>10 DEF SeatsKnown
<1>12. Tables(v) /\ SeatsKnown(v) /\ DOMAIN v.rooms = DOMAIN w.rooms
  BY <1>1, <1>10, <1>11, AddedSound
<1>13. ASSUME NEW i \in DOMAIN v.rooms PROVE i < next_room_id'
  <2>1. i \in DOMAIN lobby.rooms \/ i = next_room_id
    BY <1>4, <1>7, <1>10, <1>12, <1>13
  <2>2. CASE i \in DOMAIN lobby.rooms
    <3>1. i \in Nat
      BY <1>1, <2>2, LobbyFields, RoomAssumption DEF Tables, RoomId
    <3>2. QED BY <1>1, <1>2, <2>2, <3>1
  <2>3. CASE i = next_room_id
    BY <1>1, <1>2, <2>3
  <2>4. QED BY <2>1, <2>2, <2>3
<1>14. QED BY <1>1, <1>2, <1>6, <1>12, <1>13 DEF SeatsKnown
(* A handler that touches neither logins nor registries. *)
LEMMA QuietStep ==
  ASSUME LobbyInv, UNCHANGED <<connected, name, names, registered, accounts>>,
         Tables(lobby'), DOMAIN lobby'.player_rooms \subseteq registered,
         next_room_id' \in Nat \ {0}, \A id \in DOMAIN lobby'.rooms : id < next_room_id'
  PROVE  LobbyInv'
<1>1. Known'
  BY DEF LobbyInv, Known, LoggedIn
<1>2. Tables(lobby)'
  BY DEF Tables, RoomSound, Seats
<1>3. QED BY <1>1, <1>2 DEF LobbyInv

(* Lobby::join_room *)
LEMMA JoinSound ==
  ASSUME LobbyInv, NEW c \in Conn, NEW id \in RoomId, JoinRoom(c, id)
  PROVE  /\ Tables(lobby') /\ DOMAIN lobby'.player_rooms \subseteq registered
         /\ DOMAIN lobby'.rooms \subseteq DOMAIN lobby.rooms
<1>1. Known /\ Tables(lobby) /\ SeatsKnown(lobby) /\ c \in registered
  BY DEF LobbyInv, SeatsKnown, Known, JoinRoom
<1>2. PICK v : v = lobby'
  OBVIOUS
<1>3. PICK l \in Left(lobby, c) : IF MayJoin(l, id) THEN v \in Added(l, id, c) ELSE v = l
  BY <1>2 DEF JoinRoom
<1>4. /\ Tables(l) /\ SeatsKnown(l) /\ DOMAIN l.player_rooms = DOMAIN lobby.player_rooms \ {c}
      /\ DOMAIN l.rooms \subseteq DOMAIN lobby.rooms
  BY <1>1, <1>3, LeftSound
<1>5. CASE MayJoin(l, id)
  <2>1. v \in Added(l, id, c)
    BY <1>3, <1>5
  <2>2. id \in DOMAIN l.rooms /\ ~l.rooms[id].game.on /\ Len(l.rooms[id].members) < l.rooms[id].max
    BY <1>5 DEF MayJoin
  <2>3. RoomSound(l, id)
    BY <1>4, <2>2 DEF Tables
  <2>4. Enterable(l, id, c)
    BY <1>1, <1>4, <2>2, <2>3 DEF Enterable, Tables, RoomSound
  <2>5. Tables(v) /\ SeatsKnown(v) /\ DOMAIN v.rooms = DOMAIN l.rooms
    BY <1>1, <1>4, <2>1, <2>4, AddedSound
  <2>6. QED BY <1>2, <1>4, <2>5 DEF SeatsKnown
<1>6. CASE ~MayJoin(l, id)
  BY <1>2, <1>3, <1>4, <1>6 DEF SeatsKnown
<1>7. QED BY <1>5, <1>6

(* A game is replaced in place. *)
LEMMA ReplayExcept ==
  ASSUME NEW l \in LobbyRecord, NEW id \in DOMAIN l.rooms, NEW g
  PROVE  [l EXCEPT !.rooms[id].game = g] = Replay(l, id, g, l.chips)
<1> DEFINE f == [l.rooms EXCEPT ![id] = [l.rooms[id] EXCEPT !.game = g]]
<1>1. [l EXCEPT !.rooms[id].game = g] = [l EXCEPT !.rooms = f]
  BY DEF LobbyRecord
<1>2. Replay(l, id, g, l.chips) = [rooms |-> f, player_rooms |-> l.player_rooms, chips |-> l.chips]
  BY DEF Replay
<1> HIDE DEF f
<1>3. [l EXCEPT !.rooms = f] = [rooms |-> f, player_rooms |-> l.player_rooms, chips |-> l.chips]
  BY DEF LobbyRecord
<1>4. QED BY <1>1, <1>2, <1>3

\* A bet of n by connection c at a table.
Staked(g, c, n) == [g EXCEPT !.stack[c] = g.stack[c] - n]
Pooled(g, n) == [g EXCEPT !.pot = g.pot + n]

(* A bet moves n chips from a stack to the pot. *)
LEMMA StakedFacts ==
  ASSUME NEW g \in Game, NEW c \in DOMAIN g.stack, NEW n \in 1..g.stack[c],
         NEW one, one = Staked(g, c, n), NEW two, two = Pooled(one, n)
  PROVE  /\ one \in Game /\ two \in Game /\ two.on = g.on /\ DOMAIN two.stack = DOMAIN g.stack
         /\ one.pot = g.pot
         /\ SumOver(two.stack, DOMAIN g.stack) + two.pot = SumOver(g.stack, DOMAIN g.stack) + g.pot
         /\ SumOver(two.stack, DOMAIN g.stack) \in Nat
<1> DEFINE D == DOMAIN g.stack
           s == [g.stack EXCEPT ![c] = g.stack[c] - n]
<1>1. g.pot \in Nat /\ g.stack \in Partial(Conn, Nat) /\ IsFiniteSet(D) /\ \A d \in D : g.stack[d] \in Nat
  BY GameFields
<1>2. g.stack[c] \in Nat /\ n \in Nat /\ g.stack[c] - n \in Nat
  BY <1>1
<1>3. /\ s \in Partial(Conn, Nat) /\ DOMAIN s = D /\ s[c] = g.stack[c] - n
      /\ \A d \in D : d # c => s[d] = g.stack[d]
  <2> DEFINE x == g.stack[c] - n
  <2>1. x \in Nat
    BY <1>2
  <2> HIDE DEF x
  <2>2. /\ [g.stack EXCEPT ![c] = x] \in Partial(Conn, Nat) /\ DOMAIN [g.stack EXCEPT ![c] = x] = D
        /\ [g.stack EXCEPT ![c] = x][c] = x
        /\ \A d \in D : d # c => [g.stack EXCEPT ![c] = x][d] = g.stack[d]
    BY <1>1, <2>1, ExceptFacts
  <2>3. QED BY <2>2 DEF x
<1>4. one = [g EXCEPT !.stack = s]
  BY DEF Staked, Game
<1> HIDE DEF s
<1>5. one \in Game /\ one.on = g.on /\ one.stack = s /\ one.pot = g.pot
  BY <1>3, <1>4 DEF Game
<1>6. two \in Game /\ two.on = g.on /\ two.stack = s /\ two.pot = g.pot + n
  BY <1>1, <1>2, <1>5 DEF Game, Pooled
<1>7. SumOver(s, D) + g.stack[c] = SumOver(g.stack, D) + s[c]
  BY <1>1, <1>2, <1>3, SumUpdate
<1>8. SumOver(s, D) \in Nat
  BY <1>1, <1>2, <1>3, SumOverType
<1>9. SumOver(g.stack, D) \in Nat
  BY <1>1, SumOverType
<1>10. SumOver(s, D) + (g.pot + n) = SumOver(g.stack, D) + g.pot
  <2> DEFINE a == SumOver(s, D)
             b == SumOver(g.stack, D)
             x == g.stack[c]
             p == g.pot
  <2>1. a \in Nat /\ b \in Nat /\ x \in Nat /\ p \in Nat /\ n \in Nat /\ a + x = b + (x - n)
    BY <1>1, <1>2, <1>3, <1>7, <1>8, <1>9
  <2>2. a + (p + n) = b + p
    <3> HIDE DEF a, b, x, p
    <3>1. QED BY <2>1
  <2>3. QED BY <2>2
<1>11. QED BY <1>3, <1>5, <1>6, <1>8, <1>10
(* Only the last of two replacements counts. *)
LEMMA ReplayTwice ==
  ASSUME NEW l \in LobbyRecord, NEW id \in DOMAIN l.rooms, NEW g1 \in Game, NEW g2
  PROVE  Replay(Replay(l, id, g1, l.chips), id, g2, l.chips) = Replay(l, id, g2, l.chips)
<1> DEFINE r == l.rooms[id]
           q1 == [r EXCEPT !.game = g1]
           q2 == [r EXCEPT !.game = g2]
           f1 == [l.rooms EXCEPT ![id] = q1]
           f2 == [l.rooms EXCEPT ![id] = q2]
<1>1. r \in Room
  BY LobbyFields
<1>2. Replay(l, id, g1, l.chips) = [rooms |-> f1, player_rooms |-> l.player_rooms, chips |-> l.chips]
  BY DEF Replay
<1>3. Replay(l, id, g2, l.chips) = [rooms |-> f2, player_rooms |-> l.player_rooms, chips |-> l.chips]
  BY DEF Replay
<1>4. Replay(Replay(l, id, g1, l.chips), id, g2, l.chips)
        = [rooms |-> [f1 EXCEPT ![id] = [f1[id] EXCEPT !.game = g2]], player_rooms |-> l.player_rooms, chips |-> l.chips]
  BY <1>2 DEF Replay
<1>5. f1[id] = q1
  OBVIOUS
<1>6. [q1 EXCEPT !.game = g2] = q2
  <2> HIDE DEF r
  <2>1. QED BY <1>1 DEF Room
<1>7. [f1 EXCEPT ![id] = q2] = f2
  <2> HIDE DEF q1, q2
  <2>1. QED OBVIOUS
<1>8. QED BY <1>3, <1>4, <1>5, <1>6, <1>7

\* Play at the table of room id: the members keep their seats, no chips are
\* added to stacks and pot, and no balance but the members' is written.
Moved(l, v, id) ==
    \E g \in Game, chips \in [Account -> Nat] :
        /\ v = Replay(l, id, g, chips)
        /\ g.on /\ DOMAIN g.stack = ToSet(l.rooms[id].members)
        /\ SumOver(g.stack, ToSet(l.rooms[id].members)) + g.pot
             <= SumOver(l.rooms[id].game.stack, ToSet(l.rooms[id].members)) + l.rooms[id].game.pot
        /\ \A a \in Account : (\A d \in ToSet(l.rooms[id].members) : Acct(d) # a) => chips[a] = l.chips[a]

\* A connection that plays: its room, which is in order.
AtTable(c, id) ==
    /\ c \in DOMAIN lobby.player_rooms /\ id = lobby.player_rooms[c] /\ id \in DOMAIN lobby.rooms
    /\ lobby \in LobbyRecord /\ lobby.rooms[id] \in Room /\ lobby.rooms[id].game \in Game
    /\ RoomSound(lobby, id) /\ c \in ToSet(lobby.rooms[id].members)

(* Every connection with a seat is at a table. *)
LEMMA Seated ==
  ASSUME LobbyInv, NEW c \in DOMAIN lobby.player_rooms, NEW id, id = lobby.player_rooms[c]
  PROVE  AtTable(c, id)
<1>1. /\ lobby \in LobbyRecord /\ id \in DOMAIN lobby.rooms /\ RoomSound(lobby, id)
  BY DEF LobbyInv, Tables
<1>2. c \in Conn /\ lobby.rooms[id] \in Room /\ lobby.rooms[id].game \in Game
  BY <1>1, LobbyFields, RoomFields
<1>3. c \in ToSet(lobby.rooms[id].members)
  BY <1>1, <1>2 DEF RoomSound, Seats
<1>4. QED BY <1>1, <1>2, <1>3 DEF AtTable

(* A bet is play at a table. *)
LEMMA BetMoves ==
  ASSUME LobbyInv, NEW c \in Conn, NEW n, Bet(c, n), NEW id, id = lobby.player_rooms[c]
  PROVE  AtTable(c, id) /\ lobby.rooms[id].game.on /\ Moved(lobby, lobby', id)
<1> DEFINE r == lobby.rooms[id]
           g == r.game
           M == ToSet(r.members)
<1>1. c \in DOMAIN lobby.player_rooms /\ g.on /\ n \in 1..g.stack[c]
  BY DEF Bet
<1>2. AtTable(c, id)
  BY <1>1, Seated
<1>3. /\ lobby \in LobbyRecord /\ id \in DOMAIN lobby.rooms /\ g \in Game /\ c \in M /\ DOMAIN g.stack = M
  BY <1>1, <1>2 DEF AtTable, RoomSound
<1>4. PICK one : one = Staked(g, c, n)
  OBVIOUS
<1>5. PICK two : two = Pooled(one, n)
  OBVIOUS
<1>6. /\ one \in Game /\ two \in Game /\ two.on = g.on /\ DOMAIN two.stack = DOMAIN g.stack
      /\ one.pot = g.pot
      /\ SumOver(two.stack, DOMAIN g.stack) + two.pot = SumOver(g.stack, DOMAIN g.stack) + g.pot
      /\ SumOver(two.stack, DOMAIN g.stack) \in Nat
  <2>1. g \in Game /\ c \in DOMAIN g.stack /\ n \in 1..g.stack[c]
    BY <1>1, <1>3
  <2>2. one = Staked(g, c, n) /\ two = Pooled(one, n)
    BY <1>4, <1>5
  <2>3. PICK h : h = g
    OBVIOUS
  <2> HIDE DEF g
  <2>4. h \in Game /\ c \in DOMAIN h.stack /\ n \in 1..h.stack[c] /\ one = Staked(h, c, n)
    BY <2>1, <2>2, <2>3
  <2>5. /\ one \in Game /\ two \in Game /\ two.on = h.on /\ DOMAIN two.stack = DOMAIN h.stack
        /\ one.pot = h.pot
        /\ SumOver(two.stack, DOMAIN h.stack) + two.pot = SumOver(h.stack, DOMAIN h.stack) + h.pot
        /\ SumOver(two.stack, DOMAIN h.stack) \in Nat
    BY <2>2, <2>4, StakedFacts
  <2>6. QED BY <2>3, <2>5
<1>7. PICK w : w = Replay(lobby, id, one, lobby.chips)
  OBVIOUS
<1>8. w \in LobbyRecord /\ DOMAIN w.rooms = DOMAIN lobby.rooms /\ w.rooms[id].game = one /\ w.chips = lobby.chips
  BY <1>3, <1>6, <1>7, ReplayFacts, LobbyFields
<1>9. [lobby EXCEPT !.rooms[id].game = one] = w
  BY <1>3, <1>7, ReplayExcept
<1>10. lobby' = [[lobby EXCEPT !.rooms[id].game.stack[c] = @ - n] EXCEPT !.rooms[id].game.pot = g.pot + n]
  BY DEF Bet
<1>11. [lobby EXCEPT !.rooms[id].game.stack[c] = @ - n] = [lobby EXCEPT !.rooms[id].game = one]
  BY <1>4 DEF Staked
<1>12. lobby' = [w EXCEPT !.rooms[id].game.pot = g.pot + n]
  BY <1>9, <1>10, <1>11
<1>13. [w EXCEPT !.rooms[id].game.pot = g.pot + n] = [w EXCEPT !.rooms[id].game = two]
  BY <1>5, <1>6, <1>8 DEF Pooled
<1>14. lobby' = Replay(w, id, two, w.chips)
  <2>1. [w EXCEPT !.rooms[id].game = two] = Replay(w, id, two, w.chips)
    BY <1>3, <1>8, ReplayExcept
  <2>2. QED BY <1>12, <1>13, <2>1
<1>15. lobby' = Replay(lobby, id, two, lobby.chips)
  BY <1>3, <1>6, <1>7, <1>8, <1>14, ReplayTwice
<1>16. SumOver(two.stack, M) + two.pot <= SumOver(g.stack, M) + g.pot
  <2>1. SumOver(two.stack, M) + two.pot = SumOver(g.stack, M) + g.pot
    BY <1>3, <1>6
  <2>2. SumOver(two.stack, M) \in Nat /\ two.pot \in Nat
    BY <1>3, <1>6, GameFields
  <2>3. QED BY <2>1, <2>2
<1>17. lobby.chips \in [Account -> Nat]
  BY <1>3, LobbyFields
<1>18. Moved(lobby, lobby', id)
  BY <1>1, <1>3, <1>6, <1>15, <1>16, <1>17 DEF Moved
<1>19. QED BY <1>1, <1>2, <1>18

(* The end of a hand, and the next deal, is play at a table. *)
LEMMA EndHandMoves ==
  ASSUME LobbyInv, NEW c \in Conn, EndHand(c), NEW id, id = lobby.player_rooms[c]
  PROVE  AtTable(c, id) /\ lobby.rooms[id].game.on /\ Moved(lobby, lobby', id)
<1> DEFINE r == lobby.rooms[id]
           M == ToSet(r.members)
<1>1. c \in DOMAIN lobby.player_rooms /\ r.game.on
  BY DEF EndHand
<1>2. AtTable(c, id)
  BY <1>1, Seated
<1>3. /\ lobby \in LobbyRecord /\ id \in DOMAIN lobby.rooms /\ r \in Room /\ r.game \in Game
      /\ DOMAIN r.game.stack = M /\ Seats(lobby, id)
  BY <1>1, <1>2 DEF AtTable, RoomSound
<1>4. r.game.stack \in Partial(Conn, Nat) /\ r.game.pot \in Nat /\ r.members \in Seq(Conn)
      /\ lobby.chips \in [Account -> Nat]
  BY <1>3, GameFields, RoomFields, LobbyFields
<1>5. PICK s \in Awarded(r.game.stack, r.game.pot) : \E g \in NextHand(s) :
         lobby' = [lobby EXCEPT !.rooms[id].game = g, !.chips = SaveAll(@, r.members, g.stack)]
  BY DEF EndHand
<1>6. PICK g \in NextHand(s) :
         lobby' = [lobby EXCEPT !.rooms[id].game = g, !.chips = SaveAll(@, r.members, g.stack)]
  BY <1>5
<1>7. /\ s \in Partial(Conn, Nat) /\ DOMAIN s = M /\ SumOver(s, M) \in Nat
      /\ SumOver(r.game.stack, M) \in Nat
      /\ SumOver(s, M) <= SumOver(r.game.stack, M) + r.game.pot
  <2> DEFINE t == r.game.stack
             p == r.game.pot
  <2>1. t \in Partial(Conn, Nat) /\ p \in Nat /\ s \in Awarded(t, p) /\ DOMAIN t = M
    BY <1>3, <1>4, <1>5
  <2> HIDE DEF t, p
  <2>2. /\ s \in Partial(Conn, Nat) /\ DOMAIN s = DOMAIN t
        /\ SumOver(s, DOMAIN t) \in Nat /\ SumOver(t, DOMAIN t) \in Nat
        /\ SumOver(s, DOMAIN t) <= SumOver(t, DOMAIN t) + p
    BY <2>1, AwardedFacts
  <2>3. QED BY <2>1, <2>2 DEF t, p
<1>8. Plays(g, s, SumOver(s, DOMAIN s))
  BY <1>6, <1>7, NextHandFacts
<1>9. /\ g \in Game /\ g.on /\ DOMAIN g.stack = M /\ SumOver(g.stack, M) + g.pot <= SumOver(s, M)
  BY <1>7, <1>8 DEF Plays
<1>10. /\ g.pot \in Nat /\ \A d \in M : g.stack[d] \in Nat
  BY <1>9, GameFields
<1>11. SumOver(g.stack, M) \in Nat
  BY <1>9, <1>10, GameFields, SumOverType
<1> DEFINE chips == SaveAll(lobby.chips, r.members, g.stack)
<1>12. /\ chips \in [Account -> Nat]
       /\ \A a \in Account : (\A d \in M : Acct(d) # a) => chips[a] = lobby.chips[a]
  <2>1. PICK m \in Seq(Conn) : m = r.members
    BY <1>4
  <2>2. PICK old \in [Account -> Nat] : old = lobby.chips
    BY <1>4
  <2>3. \A d \in ToSet(m) : g.stack[d] \in Nat
    BY <1>10, <2>1
  <2>4. /\ SaveAll(old, m, g.stack) \in [Account -> Nat]
        /\ \A a \in Account : (\A d \in ToSet(m) : Acct(d) # a) => SaveAll(old, m, g.stack)[a] = old[a]
    BY <2>3, SaveAllFacts
  <2>5. QED BY <2>1, <2>2, <2>4
<1>13. lobby' = Replay(lobby, id, g, chips)
  <2>1. lobby' = [[lobby EXCEPT !.rooms[id].game = g] EXCEPT !.chips = chips]
    BY <1>3, <1>6 DEF LobbyRecord
  <2> HIDE DEF chips
  <2>2. [lobby EXCEPT !.rooms[id].game = g] = Replay(lobby, id, g, lobby.chips)
    BY <1>3, ReplayExcept
  <2>3. QED BY <2>1, <2>2 DEF Replay
<1>14. SumOver(g.stack, M) + g.pot <= SumOver(r.game.stack, M) + r.game.pot
  <2> DEFINE x == SumOver(g.stack, M)
             y == SumOver(s, M)
             z == SumOver(r.game.stack, M)
             p == r.game.pot
             q == g.pot
  <2>1. x \in Nat /\ y \in Nat /\ z \in Nat /\ p \in Nat /\ q \in Nat /\ x + q <= y /\ y <= z + p
    BY <1>4, <1>7, <1>9, <1>10, <1>11
  <2>2. x + q <= z + p
    <3> HIDE DEF x, y, z, p, q
    <3>1. QED BY <2>1
  <2>3. QED BY <2>2
<1>15. Moved(lobby, lobby', id)
  <2> HIDE DEF chips, r
  <2>1. QED BY <1>9, <1>12, <1>13, <1>14 DEF Moved, r
<1>16. QED BY <1>1, <1>2, <1>15
(* Play at a table keeps the lobby in order. *)
LEMMA MovedSound ==
  ASSUME LobbyInv, NEW c, NEW id, AtTable(c, id), lobby.rooms[id].game.on, NEW v, Moved(lobby, v, id)
  PROVE  Tables(v) /\ v.player_rooms = lobby.player_rooms /\ DOMAIN v.rooms = DOMAIN lobby.rooms
<1>1. PICK g \in Game : \E chips \in [Account -> Nat] :
         v = Replay(lobby, id, g, chips) /\ g.on /\ DOMAIN g.stack = ToSet(lobby.rooms[id].members)
  BY DEF Moved
<1>2. PICK chips \in [Account -> Nat] :
         v = Replay(lobby, id, g, chips) /\ g.on /\ DOMAIN g.stack = ToSet(lobby.rooms[id].members)
  BY <1>1
<1>3. PICK l : l = lobby
  OBVIOUS
<1>4. /\ Tables(l) /\ l \in LobbyRecord /\ id \in DOMAIN l.rooms /\ Len(l.rooms[id].members) >= 2
      /\ v = Replay(l, id, g, chips) /\ DOMAIN g.stack = ToSet(l.rooms[id].members)
  BY <1>2, <1>3 DEF LobbyInv, AtTable, RoomSound
<1>5. Tables(v)
  BY <1>2, <1>4, ReplaySound
<1>6. v.player_rooms = l.player_rooms /\ DOMAIN v.rooms = DOMAIN l.rooms
  BY <1>4, ReplayFacts
<1>7. QED BY <1>3, <1>5, <1>6

(* A new connection has no name, and a name that is given is the own one. *)
LEMMA ConnectStep ==
  ASSUME LobbyInv, NEW c \in Conn, Connect(c)
  PROVE  LobbyInv'
<1>1. /\ connected \subseteq Conn /\ name \in [Conn -> Name \cup {NoName}]
      /\ registered = {d \in Conn : d \in connected /\ name[d] # NoName}
      /\ names = {name[d] : d \in registered}
      /\ \A d, e \in registered : name[d] = name[e] => d = e
  BY DEF LobbyInv, Known, LoggedIn
<1>2. /\ c \notin connected /\ connected' = connected \cup {c}
      /\ name' = [name EXCEPT ![c] = NoName]
      /\ UNCHANGED <<names, registered, accounts, next_room_id, lobby>>
  BY DEF Connect
<1>3. \A d \in registered : name'[d] = name[d]
  BY <1>1, <1>2
<1>4. registered' = {d \in Conn : d \in connected' /\ name'[d] # NoName}
  BY <1>1, <1>2
<1>5. names' = {name'[d] : d \in registered'}
  BY <1>1, <1>2, <1>3
<1>6. \A d, e \in registered' : name'[d] = name'[e] => d = e
  BY <1>1, <1>2, <1>3
<1>7. connected' \subseteq Conn /\ name' \in [Conn -> Name \cup {NoName}]
  BY <1>1, <1>2
<1>8. Known'
  BY <1>2, <1>4, <1>5, <1>6, <1>7 DEF Known, LoggedIn, LobbyInv
<1>9. Tables(lobby)'
  BY <1>2 DEF Tables, RoomSound, Seats, LobbyInv
<1>10. QED BY <1>2, <1>8, <1>9 DEF LobbyInv

(* A login registers a name nobody has. *)
LEMMA LoginKnown ==
  ASSUME LobbyInv, NEW c \in Conn, NEW n \in Name, NEW ok, Login(c, n, ok)
  PROVE  Known' /\ registered \subseteq registered' /\ \A d \in registered : name'[d] = name[d]
<1>1. /\ connected \subseteq Conn /\ name \in [Conn -> Name \cup {NoName}]
      /\ registered = {d \in Conn : d \in connected /\ name[d] # NoName}
      /\ names = {name[d] : d \in registered}
      /\ \A d, e \in registered : name[d] = name[e] => d = e
      /\ accounts \subseteq Account
  BY DEF LobbyInv, Known, LoggedIn
<1>2. c \in connected /\ name[c] = NoName /\ connected' = connected /\ accounts' = accounts \cup {AccountOf[n]}
  BY DEF Login
<1>3. accounts' \subseteq Account
  BY <1>1, <1>2, NameAssumption
<1>4. CASE n \in names
  <2>1. name' = name /\ names' = names /\ registered' = registered
    BY <1>4 DEF Login, try_register
  <2>2. QED BY <1>1, <1>2, <1>3, <2>1 DEF Known, LoggedIn
<1>5. CASE n \notin names
  <2>1. names' = names \cup {n} /\ name' = [name EXCEPT ![c] = n] /\ registered' = registered \cup {c}
    BY <1>5 DEF Login, try_register
  <2>2. n # NoName /\ c \notin registered
    BY <1>1, <1>2, NameAssumption
  <2>3. (\A d \in registered : name'[d] = name[d]) /\ name'[c] = n
    BY <1>1, <2>1, <2>2
  <2>4. registered' = {d \in Conn : d \in connected' /\ name'[d] # NoName}
    BY <1>1, <1>2, <2>1, <2>2
  <2>5. names' = {name'[d] : d \in registered'}
    BY <1>1, <2>1, <2>3
  <2>6. \A d \in registered : name[d] # n
    BY <1>1, <1>5
  <2>7. \A d, e \in registered' : name'[d] = name'[e] => d = e
    BY <1>1, <2>1, <2>3, <2>6
  <2>8. name' \in [Conn -> Name \cup {NoName}]
    BY <1>1, <2>1
  <2>9. QED BY <1>1, <1>2, <1>3, <2>1, <2>3, <2>4, <2>5, <2>7, <2>8 DEF Known, LoggedIn
<1>6. QED BY <1>4, <1>5

(* A login leaves the rooms alone. *)
LEMMA LoginStep ==
  ASSUME LobbyInv, NEW c \in Conn, NEW n \in Name, NEW ok, Login(c, n, ok)
  PROVE  LobbyInv'
<1>1. Known' /\ registered \subseteq registered' /\ next_room_id' = next_room_id
  BY LoginKnown DEF Login
<1>2. lobby \in LobbyRecord /\ lobby.chips \in [Account -> Nat] /\ AccountOf[n] \in Account
  BY LobbyFields, NameAssumption DEF LobbyInv, Tables
<1>3. /\ lobby' \in LobbyRecord /\ lobby'.rooms = lobby.rooms /\ lobby'.player_rooms = lobby.player_rooms
  <2>1. CASE lobby' = lobby
    BY <1>2, <2>1
  <2>2. CASE lobby' = [lobby EXCEPT !.chips[AccountOf[n]] = StartingChips]
    <3> DEFINE f == [lobby.chips EXCEPT ![AccountOf[n]] = StartingChips]
    <3>1. f \in [Account -> Nat]
      BY <1>2, ChipAssumption
    <3>2. lobby' = [lobby EXCEPT !.chips = f]
      BY <1>2, <2>2 DEF LobbyRecord
    <3> HIDE DEF f
    <3>3. QED BY <1>2, <3>1, <3>2 DEF LobbyRecord
  <2>3. QED BY <2>1, <2>2 DEF Login
<1>4. Tables(lobby)'
  BY <1>3 DEF LobbyInv, Tables, RoomSound, Seats
<1>5. QED BY <1>1, <1>3, <1>4 DEF LobbyInv

(* A connection that is closed gives back its name and its seat. *)
LEMMA DisconnectStep ==
  ASSUME LobbyInv, NEW c \in Conn, Disconnect(c)
  PROVE  LobbyInv'
<1>1. /\ connected \subseteq Conn /\ name \in [Conn -> Name \cup {NoName}]
      /\ registered = {d \in Conn : d \in connected /\ name[d] # NoName}
      /\ names = {name[d] : d \in registered}
      /\ \A d, e \in registered : name[d] = name[e] => d = e
  BY DEF LobbyInv, Known, LoggedIn
<1>2. /\ c \in connected /\ connected' = connected \ {c} /\ names' = names \ {name[c]}
      /\ registered' = registered \ {c} /\ name' = [name EXCEPT ![c] = NoName]
      /\ UNCHANGED <<accounts, next_room_id>> /\ lobby' \in Left(lobby, c)
  BY DEF Disconnect
<1>3. \A d \in registered : d # c => name'[d] = name[d]
  BY <1>1, <1>2
<1>4. registered' = {d \in Conn : d \in connected' /\ name'[d] # NoName}
  BY <1>1, <1>2
<1>5. names' = {name'[d] : d \in registered'}
  <2>1. \A x \in names' : \E d \in registered' : x = name'[d]
    BY <1>1, <1>2, <1>3
  <2>2. ASSUME NEW d \in registered' PROVE name'[d] \in names'
    <3>1. d \in registered /\ d # c /\ name'[d] = name[d] /\ name[d] # NoName
      BY <1>1, <1>2, <1>3
    <3>2. name[d] # name[c]
      <4>1. CASE c \in registered
        BY <1>1, <3>1, <4>1
      <4>2. CASE c \notin registered
        BY <1>1, <1>2, <3>1, <4>2
      <4>3. QED BY <4>1, <4>2
    <3>3. QED BY <1>1, <1>2, <3>1, <3>2
  <2>3. QED BY <2>1, <2>2
<1>6. \A d, e \in registered' : name'[d] = name'[e] => d = e
  BY <1>1, <1>2, <1>3
<1>7. connected' \subseteq Conn /\ name' \in [Conn -> Name \cup {NoName}]
  BY <1>1, <1>2
<1>8. Known'
  BY <1>2, <1>4, <1>5, <1>6, <1>7 DEF Known, LoggedIn, LobbyInv
<1>9. PICK v : v = lobby'
  OBVIOUS
<1>10. PICK l : l = lobby
  OBVIOUS
<1>11. /\ Tables(v) /\ SeatsKnown(v) /\ DOMAIN v.player_rooms = DOMAIN l.player_rooms \ {c}
       /\ DOMAIN v.rooms \subseteq DOMAIN l.rooms
  <2>1. Known /\ Tables(l) /\ SeatsKnown(l) /\ v \in Left(l, c)
    BY <1>2, <1>9, <1>10 DEF LobbyInv, SeatsKnown
  <2>2. QED BY <2>1, LeftSound
<1>12. Tables(lobby)'
  BY <1>9, <1>11 DEF Tables, RoomSound, Seats
<1>13. DOMAIN lobby'.player_rooms \subseteq registered'
  BY <1>2, <1>9, <1>10, <1>11 DEF SeatsKnown
<1>14. next_room_id' \in Nat \ {0} /\ \A id \in DOMAIN lobby'.rooms : id < next_room_id'
  BY <1>2, <1>9, <1>10, <1>11 DEF LobbyInv
<1>15. QED BY <1>8, <1>12, <1>13, <1>14 DEF LobbyInv

(* Messages about rooms and tables. *)
LEMMA RoomStep ==
  ASSUME LobbyInv, NEW c \in Conn,
         \/ \E max \in Capacity : CreateRoom(c, max)
         \/ \E id \in RoomId : JoinRoom(c, id)
         \/ LeaveRoom(c) \/ StartGame(c) \/ (\E n : Bet(c, n)) \/ EndHand(c)
  PROVE  LobbyInv'
<1>0. PICK l : l = lobby
  OBVIOUS
<1>1. PICK v : v = lobby'
  OBVIOUS
<1>2. Known /\ Tables(l) /\ SeatsKnown(l) /\ c \in Conn
  BY <1>0 DEF LobbyInv, SeatsKnown
<1>3. CASE \E max \in Capacity : CreateRoom(c, max)
  <2>1. PICK max \in Capacity : CreateRoom(c, max)
    BY <1>3
  <2>2. UNCHANGED <<connected, name, names, registered, accounts>>
    BY <2>1 DEF CreateRoom
  <2>3. QED BY <2>1, <2>2, CreateSound, QuietStep
<1>4. ASSUME UNCHANGED <<connected, name, names, registered, accounts, next_room_id>>,
             Tables(v), DOMAIN v.player_rooms \subseteq registered, DOMAIN v.rooms \subseteq DOMAIN l.rooms
      PROVE  LobbyInv'
  <2>1. next_room_id' \in Nat \ {0} /\ \A id \in DOMAIN lobby'.rooms : id < next_room_id'
    BY <1>0, <1>1, <1>4 DEF LobbyInv
  <2>2. Tables(lobby') /\ DOMAIN lobby'.player_rooms \subseteq registered
    BY <1>1, <1>4
  <2>3. UNCHANGED <<connected, name, names, registered, accounts>>
    BY <1>4
  <2>4. QED BY <2>1, <2>2, <2>3, QuietStep
<1>5. CASE \E id \in RoomId : JoinRoom(c, id)
  <2>1. PICK id \in RoomId : JoinRoom(c, id)
    BY <1>5
  <2>2. Tables(lobby') /\ DOMAIN lobby'.player_rooms \subseteq registered /\ DOMAIN lobby'.rooms \subseteq DOMAIN lobby.rooms
    BY <2>1, JoinSound
  <2>3. QED BY <1>0, <1>1, <1>4, <2>1, <2>2 DEF JoinRoom
<1>6. CASE LeaveRoom(c)
  <2>1. v \in Left(l, c)
    BY <1>0, <1>1, <1>6 DEF LeaveRoom
  <2>2. /\ Tables(v) /\ SeatsKnown(v) /\ DOMAIN v.rooms \subseteq DOMAIN l.rooms
    BY <1>2, <2>1, LeftSound
  <2>3. QED BY <1>4, <1>6, <2>2 DEF LeaveRoom, SeatsKnown
<1>7. CASE StartGame(c)
  <2>1. PICK id : id = l.player_rooms[c]
    OBVIOUS
  <2>2. c \in DOMAIN l.player_rooms /\ Len(l.rooms[id].members) >= 2 /\ v \in StartedGames(l, id)
    BY <1>0, <1>1, <1>7, <2>1 DEF StartGame
  <2>3. id \in DOMAIN l.rooms
    BY <1>2, <2>1, <2>2 DEF Tables
  <2>4. Tables(v) /\ v.player_rooms = l.player_rooms /\ DOMAIN v.rooms = DOMAIN l.rooms
    BY <1>2, <2>2, <2>3, StartedSound
  <2>5. QED BY <1>2, <1>4, <1>7, <2>4 DEF StartGame, SeatsKnown
<1>8. ASSUME UNCHANGED <<connected, name, names, registered, accounts, next_room_id>>, NEW id,
             AtTable(c, id), lobby.rooms[id].game.on, Moved(lobby, lobby', id)
      PROVE  LobbyInv'
  <2>1. Tables(v) /\ v.player_rooms = l.player_rooms /\ DOMAIN v.rooms = DOMAIN l.rooms
    BY <1>0, <1>1, <1>8, MovedSound
  <2>2. QED BY <1>2, <1>4, <1>8, <2>1 DEF SeatsKnown
<1>9. PICK id : id = lobby.player_rooms[c]
  OBVIOUS
<1>10. CASE \E n : Bet(c, n)
  <2>1. PICK n : Bet(c, n)
    BY <1>10
  <2>2. AtTable(c, id) /\ lobby.rooms[id].game.on /\ Moved(lobby, lobby', id)
    BY <1>9, <2>1, BetMoves
  <2>3. QED BY <1>8, <2>1, <2>2 DEF Bet
<1>11. CASE EndHand(c)
  <2>1. AtTable(c, id) /\ lobby.rooms[id].game.on /\ Moved(lobby, lobby', id)
    BY <1>9, <1>11, EndHandMoves
  <2>2. QED BY <1>8, <1>11, <2>1 DEF EndHand
<1>12. QED BY <1>3, <1>5, <1>6, <1>7, <1>10, <1>11
(* The empty server is in order. *)
LEMMA LobbyInit == Init => LobbyInv
<1> SUFFICES ASSUME Init PROVE LobbyInv
  OBVIOUS
<1>1. DOMAIN EmptyFcn = {}
  BY DEF EmptyFcn
<1>2. EmptyFcn \in Partial(RoomId, Room) /\ EmptyFcn \in Partial(Conn, RoomId)
  <2>1. EmptyFcn \in [DOMAIN EmptyFcn -> Room] /\ EmptyFcn \in [DOMAIN EmptyFcn -> RoomId]
    BY DEF EmptyFcn
  <2>2. QED BY <1>1, <2>1, PartialDef
<1>3. /\ lobby \in LobbyRecord /\ DOMAIN lobby.rooms = {} /\ DOMAIN lobby.player_rooms = {}
  BY <1>1, <1>2 DEF Init, LobbyRecord
<1>4. Tables(lobby)
  BY <1>3 DEF Tables
<1>5. Known
  BY DEF Init, Known, LoggedIn
<1>6. next_room_id \in Nat \ {0}
  BY DEF Init
<1>7. QED BY <1>3, <1>4, <1>5, <1>6 DEF LobbyInv

(* No handler of the server breaks the agreement of its structures. *)
LEMMA LobbyNext == LobbyInv /\ [Next]_vars => LobbyInv'
<1> SUFFICES ASSUME LobbyInv, [Next]_vars PROVE LobbyInv'
  OBVIOUS
<1>1. CASE Next
  <2>1. PICK c \in Conn :
          \/ Connect(c) \/ Disconnect(c)
          \/ \E n \in Name, ok \in BOOLEAN : Login(c, n, ok)
          \/ \E max \in Capacity : CreateRoom(c, max)
          \/ \E id \in RoomId : JoinRoom(c, id)
          \/ LeaveRoom(c) \/ StartGame(c)
          \/ \E n \in 1..MaxMoney : Bet(c, n)
          \/ EndHand(c)
    BY <1>1, Zenon DEF Next
  <2>2. CASE \E n \in Name, ok \in BOOLEAN : Login(c, n, ok)
    BY <2>2, LoginStep
  <2>3. CASE Connect(c)
    BY <2>3, ConnectStep
  <2>4. CASE Disconnect(c)
    BY <2>4, DisconnectStep
  <2>5. CASE \/ \E max \in Capacity : CreateRoom(c, max)
             \/ \E id \in RoomId : JoinRoom(c, id)
             \/ LeaveRoom(c) \/ StartGame(c) \/ (\E n : Bet(c, n)) \/ EndHand(c)
    BY <2>5, RoomStep
  <2>6. QED BY <2>1, <2>2, <2>3, <2>4, <2>5, Zenon
<1>2. CASE UNCHANGED vars
  <2>1. Known'
    BY <1>2 DEF vars, LobbyInv, Known, LoggedIn
  <2>2. Tables(lobby)'
    BY <1>2 DEF vars, LobbyInv, Tables, RoomSound, Seats
  <2>3. QED BY <1>2, <2>1, <2>2 DEF vars, LobbyInv
<1>3. QED BY <1>1, <1>2

(* Registries, seats, rooms and games agree between any two handlers. *)
THEOREM LobbyHolds == Spec => []LobbyInv
BY LobbyInit, LobbyNext, PTL DEF Spec

(* A sequence without repetitions is as long as the set of its elements. *)
LEMMA DistinctLength ==
  ASSUME NEW m \in Seq(Conn), \A i, j \in DOMAIN m : m[i] = m[j] => i = j
  PROVE  Len(m) = Cardinality(ToSet(m))
<1> DEFINE n == Len(m)
           f == [i \in 1..n |-> m[i]]
<1>1. n \in Nat /\ DOMAIN m = 1..n
  BY LenProperties
<1>2. f \in Bijection(1..n, ToSet(m))
  <2>1. f \in [1..n -> ToSet(m)] /\ \A i, j \in 1..n : f[i] = f[j] => i = j
    BY <1>1 DEF ToSet
  <2>2. \A x \in ToSet(m) : \E i \in 1..n : f[i] = x
    BY <1>1 DEF ToSet
  <2> HIDE DEF f
  <2>3. f \in Injection(1..n, ToSet(m)) /\ f \in Surjection(1..n, ToSet(m))
    BY <2>1, <2>2 DEF Injection, Surjection, IsInjective
  <2>4. QED BY <2>3 DEF Bijection
<1>3. IsFiniteSet(1..n) /\ Cardinality(1..n) = n
  BY <1>1, FS_Interval
<1>4. Cardinality(1..n) = Cardinality(ToSet(m))
  <2>1. ExistsBijection(1..n, ToSet(m))
    BY <1>2 DEF ExistsBijection
  <2>2. QED BY <1>3, <2>1, FS_Bijection, Zenon
<1>5. QED BY <1>3, <1>4

\* As long as twice is not set, no account is online on two connections.
Single == twice \in BOOLEAN /\ (~twice => OneLoginPerAccount)

(* Connections that go, or that stay as they are, log nobody in. *)
LEMMA SingleKeeps ==
  ASSUME Single, registered' \subseteq registered, \A d \in registered' : name'[d] = name[d], twice' = twice
  PROVE  Single'
<1>1. \A d \in registered' : d \in registered /\ Acct(d)' = Acct(d)
  BY DEF Acct
<1>2. QED BY <1>1 DEF Single, OneLoginPerAccount

(* A login is noted as the second one exactly when the account has a connection. *)
LEMMA SingleLogin ==
  ASSUME LobbyInv, Single, NEW c \in Conn, NEW n \in Name, NEW ok, Login(c, n, ok)
  PROVE  Single' /\ (~twice' => ~twice)
<1>1. name \in [Conn -> Name \cup {NoName}] /\ registered \subseteq Conn /\ twice \in BOOLEAN
  BY DEF LobbyInv, Known, Single
<1>2. \A d \in registered : name'[d] = name[d]
  BY LoginKnown
<1>3. CASE ~try_register(n)
  <2>1. registered' = registered /\ twice' = twice
    BY <1>3 DEF Login
  <2>2. QED BY <1>2, <2>1, SingleKeeps
<1>4. CASE try_register(n)
  <2>1. /\ registered' = registered \cup {c} /\ name' = [name EXCEPT ![c] = n]
        /\ twice' = (twice \/ \E d \in registered : Acct(d) = AccountOf[n])
    BY <1>4 DEF Login
  <2>2. twice' \in BOOLEAN /\ (~twice' => ~twice /\ \A d \in registered : Acct(d) # AccountOf[n])
    BY <1>1, <2>1, Zenon
  <2>3. \A d \in registered : Acct(d)' = Acct(d)
    BY <1>2 DEF Acct
  <2>4. Acct(c)' = AccountOf[n]
    BY <1>1, <2>1 DEF Acct
  <2>5. ~twice => \A d, e \in registered : Acct(d) = Acct(e) => d = e
    BY DEF Single, OneLoginPerAccount
  <2>6. ~twice' => \A d, e \in registered' : Acct(d)' = Acct(e)' => d = e
    BY <2>1, <2>2, <2>3, <2>4, <2>5
  <2>7. QED BY <2>2, <2>6 DEF Single, OneLoginPerAccount
<1>5. QED BY <1>3, <1>4

(* Only a login makes a second connection of an account. *)
LEMMA SingleNext ==
  ASSUME LobbyInv, Single, [Next]_vars
  PROVE  Single' /\ (~twice' => ~twice)
<1>1. /\ name \in [Conn -> Name \cup {NoName}]
      /\ registered = {d \in Conn : d \in connected /\ name[d] # NoName}
  BY DEF LobbyInv, Known, LoggedIn
<1>2. CASE Next
  <2>1. PICK c \in Conn :
          \/ Connect(c) \/ Disconnect(c)
          \/ \E n \in Name, ok \in BOOLEAN : Login(c, n, ok)
          \/ \E max \in Capacity : CreateRoom(c, max)
          \/ \E id \in RoomId : JoinRoom(c, id)
          \/ LeaveRoom(c) \/ StartGame(c)
          \/ \E n \in 1..MaxMoney : Bet(c, n)
          \/ EndHand(c)
    BY <1>2, Zenon DEF Next
  <2>2. CASE \E n \in Name, ok \in BOOLEAN : Login(c, n, ok)
    BY <2>2, SingleLogin
  <2>3. CASE Connect(c)
    <3>1. /\ c \notin connected /\ name' = [name EXCEPT ![c] = NoName]
          /\ registered' = registered /\ twice' = twice
      BY <2>3 DEF Connect
    <3>2. \A d \in registered' : name'[d] = name[d]
      BY <1>1, <3>1
    <3>3. QED BY <3>1, <3>2, SingleKeeps
  <2>4. CASE Disconnect(c)
    <3>1. name' = [name EXCEPT ![c] = NoName] /\ registered' = registered \ {c} /\ twice' = twice
      BY <2>4 DEF Disconnect
    <3>2. \A d \in registered' : name'[d] = name[d]
      BY <1>1, <3>1
    <3>3. QED BY <3>1, <3>2, SingleKeeps
  <2>5. CASE \/ \E max \in Capacity : CreateRoom(c, max)
             \/ \E id \in RoomId : JoinRoom(c, id)
             \/ LeaveRoom(c) \/ StartGame(c) \/ (\E n : Bet(c, n)) \/ EndHand(c)
    <3>1. name' = name /\ registered' = registered /\ twice' = twice
      BY <2>5 DEF CreateRoom, JoinRoom, LeaveRoom, StartGame, Bet, EndHand
    <3>2. QED BY <3>1, SingleKeeps
  <2>6. QED BY <2>1, <2>2, <2>3, <2>4, <2>5, Zenon
<1>3. CASE UNCHANGED vars
  <2>1. name' = name /\ registered' = registered /\ twice' = twice
    BY <1>3 DEF vars
  <2>2. QED BY <2>1, SingleKeeps
<1>4. QED BY <1>2, <1>3

(* The invariant, with the note of second logins. *)
LEMMA OnlineHolds == Spec => [](LobbyInv /\ Single)
<1>1. Init => LobbyInv /\ Single
  BY LobbyInit DEF Init, Single, OneLoginPerAccount
<1>2. (LobbyInv /\ Single) /\ [Next]_vars => (LobbyInv /\ Single)'
  BY LobbyNext, SingleNext
<1>3. QED BY <1>1, <1>2, PTL DEF Spec

(* player_rooms_ and the rooms agree: nobody is in two rooms or in one room
   twice, no empty room is kept, and the host of a room is in it. *)
THEOREM RoomsAgreeHolds == Spec => []RoomsAgree
<1>1. LobbyInv /\ Single => RoomsAgree
  <2> SUFFICES ASSUME LobbyInv, Single PROVE RoomsAgree
    OBVIOUS
  <2>1. PICK l : l = lobby
    OBVIOUS
  <2>2. l \in LobbyRecord /\ Known /\ Tables(l)
    BY <2>1 DEF LobbyInv, Tables
  <2>3. TypeOK
    <3>1. DOMAIN l.rooms \subseteq RoomId /\ DOMAIN l.player_rooms \subseteq Conn /\ l.chips \in [Account -> Nat]
      BY <2>2, LobbyFields
    <3>2. names \subseteq Name /\ registered \subseteq Conn
      BY <2>2 DEF Known, LoggedIn
    <3>3. QED BY <2>1, <2>2, <3>1, <3>2 DEF TypeOK, Known, LobbyInv, Single
  <2>4. ASSUME NEW id \in DOMAIN l.rooms
        PROVE  LET r == l.rooms[id] IN
               /\ ToSet(r.members) = {c \in DOMAIN l.player_rooms : l.player_rooms[c] = id}
               /\ Len(r.members) = Cardinality(ToSet(r.members))
               /\ r.host \in ToSet(r.members)
    <3> DEFINE r == l.rooms[id]
    <3>1. RoomSound(l, id) /\ r \in Room
      BY <2>2, LobbyFields DEF Tables
    <3>2. r.members \in Seq(Conn) /\ ToSet(r.members) \subseteq Conn
      BY <3>1, RoomFields
    <3>3. DOMAIN l.player_rooms \subseteq Conn
      BY <2>2, LobbyFields
    <3>4. ToSet(r.members) = {c \in DOMAIN l.player_rooms : l.player_rooms[c] = id}
      BY <3>1, <3>2, <3>3 DEF RoomSound, Seats
    <3>5. Len(r.members) = Cardinality(ToSet(r.members))
      BY <3>1, <3>2, DistinctLength DEF RoomSound, Seats
    <3>6. QED BY <3>1, <3>4, <3>5 DEF RoomSound
  <2>5. \A c \in DOMAIN l.player_rooms : l.player_rooms[c] \in DOMAIN l.rooms
    BY <2>2 DEF Tables
  <2>6. \A id \in DOMAIN lobby.rooms :
          LET r == lobby.rooms[id] IN
          /\ ToSet(r.members) = {c \in DOMAIN lobby.player_rooms : lobby.player_rooms[c] = id}
          /\ Len(r.members) = Cardinality(ToSet(r.members))
          /\ r.host \in ToSet(r.members)
    BY <2>1, <2>4
  <2>7. \A c \in DOMAIN lobby.player_rooms : lobby.player_rooms[c] \in DOMAIN lobby.rooms
    BY <2>1, <2>5
  <2>8. QED BY <2>3, <2>6, <2>7, Zenon DEF RoomsAgree
<1>2. QED BY <1>1, OnlineHolds, PTL

(* A game in play seats exactly the players of its room, at least two, and no
   room takes more than max_players. *)
THEOREM GamesAgreeHolds == Spec => []GamesAgree
<1>1. LobbyInv => GamesAgree
  BY DEF LobbyInv, Tables, RoomSound, GamesAgree
<1>2. QED BY <1>1, LobbyHolds, PTL

(* A connection that is gone keeps no name, no registration and no seat. *)
THEOREM NoGhostsHolds == Spec => []NoGhosts
<1>1. LobbyInv => NoGhosts
  BY DEF LobbyInv, Known, NoGhosts
<1>2. QED BY <1>1, LobbyHolds, PTL
-----------------------------------------------------------------------------
(* The money, counted by connection. *)

\* What a connection that is logged in owns: its stack, or the saved balance.
Holds(l) ==
    [c \in Conn |-> IF c \in Playing(l) THEN l.rooms[l.player_rooms[c]].game.stack[c]
                    ELSE l.chips[Acct(c)]]

PotAt(l) == [id \in RoomId |-> IF id \in DOMAIN l.rooms THEN l.rooms[id].game.pot ELSE 0]

\* The accounts nobody is logged in with.
Offline == Account \ {Acct(c) : c \in registered}

Wealth(l) == SumOver(Holds(l), registered) + SumOver(l.chips, Offline) + SumOver(PotAt(l), RoomId)

\* A lobby in order whose players are logged in, each with an own account.
Sound(l) == Known /\ OneLoginPerAccount /\ Tables(l) /\ SeatsKnown(l)

(* The sets the money is counted over are finite. *)
LEMMA CountedSets ==
  ASSUME Known
  PROVE  IsFiniteSet(registered) /\ IsFiniteSet(Offline) /\ IsFiniteSet(RoomId) /\ registered \subseteq Conn
<1>1. registered \subseteq Conn
  BY DEF Known
<1>2. IsFiniteSet(registered)
  BY <1>1, ConnAssumption, FS_Subset
<1>3. IsFiniteSet(Offline)
  BY NameAssumption, FS_Subset DEF Offline
<1>4. IsFiniteSet(RoomId)
  BY RoomAssumption, FS_Interval DEF RoomId
<1>5. QED BY <1>1, <1>2, <1>3, <1>4

(* A player of a running game owns the stack there, anyone else the balance. *)
LEMMA HoldsFacts ==
  ASSUME NEW l, Sound(l), NEW c \in registered
  PROVE  /\ Holds(l)[c] \in Nat
         /\ c \in Playing(l) <=> c \in DOMAIN l.player_rooms /\ l.rooms[l.player_rooms[c]].game.on
         /\ c \in Playing(l) => Holds(l)[c] = l.rooms[l.player_rooms[c]].game.stack[c]
         /\ c \notin Playing(l) => Holds(l)[c] = l.chips[Acct(c)]
<1>1. c \in Conn /\ Acct(c) \in Account
  BY AcctType DEF Sound
<1>2. l \in LobbyRecord /\ l.chips \in [Account -> Nat]
  BY LobbyFields DEF Sound, Tables
<1>3. c \in Playing(l) <=> c \in DOMAIN l.player_rooms /\ l.rooms[l.player_rooms[c]].game.on
  BY DEF Playing
<1>4. Holds(l)[c] = IF c \in Playing(l) THEN l.rooms[l.player_rooms[c]].game.stack[c] ELSE l.chips[Acct(c)]
  BY <1>1 DEF Holds
<1>5. CASE c \in Playing(l)
  <2>1. PICK id : id = l.player_rooms[c]
    OBVIOUS
  <2>2. /\ c \in DOMAIN l.player_rooms /\ id \in DOMAIN l.rooms /\ RoomSound(l, id) /\ l.rooms[id].game.on
    BY <1>3, <1>5, <2>1 DEF Sound, Tables
  <2>3. c \in ToSet(l.rooms[id].members)
    BY <1>1, <2>1, <2>2 DEF RoomSound, Seats
  <2>4. c \in DOMAIN l.rooms[id].game.stack /\ l.rooms[id].game \in Game
    BY <1>2, <2>2, <2>3, LobbyFields, RoomFields DEF RoomSound
  <2>5. l.rooms[id].game.stack[c] \in Nat
    BY <2>4, GameFields
  <2>6. QED BY <1>3, <1>4, <1>5, <2>1, <2>5
<1>6. CASE c \notin Playing(l)
  BY <1>1, <1>2, <1>3, <1>4, <1>6
<1>7. QED BY <1>5, <1>6

(* The pot of a room, and none where there is no room. *)
LEMMA PotFacts ==
  ASSUME NEW l \in LobbyRecord, NEW id \in RoomId
  PROVE  /\ PotAt(l)[id] \in Nat
         /\ id \in DOMAIN l.rooms => PotAt(l)[id] = l.rooms[id].game.pot
         /\ id \notin DOMAIN l.rooms => PotAt(l)[id] = 0
<1>1. id \in DOMAIN l.rooms => l.rooms[id].game.pot \in Nat
  BY LobbyFields, RoomFields, GameFields
<1>2. PotAt(l)[id] = IF id \in DOMAIN l.rooms THEN l.rooms[id].game.pot ELSE 0
  BY DEF PotAt
<1>3. QED BY <1>1, <1>2

(* The three parts of the money are amounts of chips. *)
LEMMA WealthParts ==
  ASSUME NEW l, Sound(l)
  PROVE  /\ SumOver(Holds(l), registered) \in Nat /\ SumOver(l.chips, Offline) \in Nat
         /\ SumOver(PotAt(l), RoomId) \in Nat /\ Wealth(l) \in Nat
<1>1. /\ IsFiniteSet(registered) /\ IsFiniteSet(Offline) /\ IsFiniteSet(RoomId)
      /\ l \in LobbyRecord /\ l.chips \in [Account -> Nat]
  BY CountedSets, LobbyFields DEF Sound, Tables
<1>2. SumOver(Holds(l), registered) \in Nat
  BY <1>1, HoldsFacts, SumOverType
<1>3. SumOver(l.chips, Offline) \in Nat
  <2>1. \A a \in Offline : l.chips[a] \in Nat
    BY <1>1 DEF Offline
  <2>2. QED BY <1>1, <2>1, SumOverType
<1>4. SumOver(PotAt(l), RoomId) \in Nat
  BY <1>1, PotFacts, SumOverType
<1>5. QED BY <1>2, <1>3, <1>4 DEF Wealth

(* Counting the money by connection and by account gives the same. *)
LEMMA MoneyIsWealth ==
  ASSUME NEW l, Sound(l)
  PROVE  Money(l) = Wealth(l)
<1> DEFINE P == Playing(l)
           Q == registered \ P
           h == [c \in registered |-> Acct(c)]
           AP == {Acct(c) : c \in P}
           AQ == {Acct(c) : c \in Q}
           s == [c \in P |-> l.rooms[l.player_rooms[c]].game.stack[c]]
           D == DOMAIN l.rooms
           p == [id \in D |-> l.rooms[id].game.pot]
<1>1. /\ IsFiniteSet(registered) /\ IsFiniteSet(Offline) /\ IsFiniteSet(RoomId)
      /\ l \in LobbyRecord /\ l.chips \in [Account -> Nat] /\ D \subseteq RoomId
  BY CountedSets, LobbyFields DEF Sound, Tables
<1>2. P \subseteq registered
  BY DEF Playing, Sound, SeatsKnown
<1>3. \A c \in registered : Acct(c) \in Account
  BY AcctType DEF Sound
<1>4. \A c, d \in registered : Acct(c) = Acct(d) => c = d
  BY DEF Sound, OneLoginPerAccount
<1>5. /\ IsFiniteSet(P) /\ IsFiniteSet(Q)
  BY <1>1, <1>2, FS_Subset
<1>6. Account \ AP = Offline \cup AQ
  BY <1>2, <1>3, <1>4 DEF Offline
<1>7. Offline \cap AQ = {}
  BY DEF Offline
<1>8. SumOver(l.chips, AQ) = SumOver(Holds(l), Q)
  <2>1. \A c, d \in Q : h[c] = h[d] => c = d
    BY <1>4
  <2>2. \A c \in Q : Holds(l)[c] \in Nat /\ Holds(l)[c] = l.chips[h[c]]
    BY HoldsFacts
  <2>3. AQ = {h[c] : c \in Q}
    OBVIOUS
  <2> HIDE DEF h, AQ, Q
  <2>4. QED BY <1>5, <2>1, <2>2, <2>3, SumReindex
<1>9. SumOver(s, P) = SumOver(Holds(l), P)
  <2>1. \A c \in P : s[c] = Holds(l)[c]
    BY <1>2, HoldsFacts
  <2> HIDE DEF s, P
  <2>2. QED BY <2>1, SumCong
<1>10. SumOver(Holds(l), registered) = SumOver(Holds(l), P) + SumOver(Holds(l), Q)
  <2>1. registered = P \cup Q /\ P \cap Q = {}
    BY <1>2
  <2>2. \A c \in P \cup Q : Holds(l)[c] \in Nat
    BY <2>1, HoldsFacts
  <2> HIDE DEF P, Q
  <2>3. QED BY <1>5, <2>1, <2>2, SumDisjoint
<1>11. SumOver(l.chips, Account \ AP) = SumOver(l.chips, Offline) + SumOver(l.chips, AQ)
  <2>1. IsFiniteSet(AQ) /\ \A a \in Offline \cup AQ : l.chips[a] \in Nat
    <3>1. AQ \subseteq Account /\ Offline \subseteq Account
      BY <1>3 DEF Offline
    <3> HIDE DEF AQ
    <3>2. QED BY <1>1, <3>1, NameAssumption, FS_Subset
  <2> HIDE DEF AQ, AP
  <2>2. QED BY <1>1, <1>6, <1>7, <2>1, SumDisjoint
<1>12. SumOver(p, D) = SumOver(PotAt(l), RoomId)
  <2> DEFINE E == RoomId \ D
  <2>1. D \cup E = RoomId /\ D \cap E = {} /\ IsFiniteSet(D) /\ IsFiniteSet(E)
    BY <1>1, FS_Subset
  <2>2. \A id \in D : p[id] = PotAt(l)[id]
    BY <1>1, PotFacts
  <2>3. \A id \in E : PotAt(l)[id] = 0
    BY <1>1, PotFacts
  <2>4. \A id \in D \cup E : PotAt(l)[id] \in Nat
    BY <1>1, <2>1, PotFacts
  <2> HIDE DEF E, D, p
  <2>5. SumOver(PotAt(l), RoomId) = SumOver(PotAt(l), D) + SumOver(PotAt(l), E)
    BY <2>1, <2>4, SumDisjoint
  <2>6. SumOver(PotAt(l), E) = 0
    BY <2>1, <2>3, <2>4, SumZero
  <2>7. SumOver(p, D) = SumOver(PotAt(l), D)
    BY <2>2, SumCong
  <2>8. SumOver(PotAt(l), D) \in Nat
    BY <2>1, <2>4, SumOverType
  <2>9. QED BY <2>5, <2>6, <2>7, <2>8
<1>13. Money(l) = SumOver(l.chips, Account \ AP) + SumOver(s, P) + SumOver(p, D)
  BY DEF Money
<1>14. /\ SumOver(Holds(l), P) \in Nat /\ SumOver(Holds(l), Q) \in Nat
  <2>1. (\A c \in P : Holds(l)[c] \in Nat) /\ \A c \in Q : Holds(l)[c] \in Nat
    BY <1>2, HoldsFacts
  <2> HIDE DEF P, Q
  <2>2. QED BY <1>5, <2>1, SumOverType
<1>15. SumOver(l.chips, Offline) \in Nat /\ SumOver(PotAt(l), RoomId) \in Nat
  BY WealthParts
<1>16. Wealth(l) = SumOver(Holds(l), registered) + SumOver(l.chips, Offline) + SumOver(PotAt(l), RoomId)
  BY DEF Wealth
<1> DEFINE a1 == SumOver(Holds(l), P)
           a2 == SumOver(Holds(l), Q)
           a3 == SumOver(l.chips, Offline)
           a4 == SumOver(PotAt(l), RoomId)
<1>17. /\ Money(l) = (a3 + a2) + a1 + a4 /\ Wealth(l) = (a1 + a2) + a3 + a4
       /\ a1 \in Nat /\ a2 \in Nat /\ a3 \in Nat /\ a4 \in Nat
  BY <1>8, <1>9, <1>10, <1>11, <1>12, <1>13, <1>14, <1>15, <1>16
<1> HIDE DEF a1, a2, a3, a4
<1>18. QED BY <1>17
(* What changes for the members M of one room and its pot decides whether
   money is made. *)
LEMMA WealthStep ==
  ASSUME NEW l, Sound(l), NEW v, Sound(v), NEW M \in SUBSET registered, NEW id \in RoomId,
         \A d \in registered \ M : Holds(v)[d] = Holds(l)[d],
         \A i \in RoomId \ {id} : PotAt(v)[i] = PotAt(l)[i],
         \A a \in Offline : v.chips[a] = l.chips[a],
         SumOver(Holds(v), M) + PotAt(v)[id] <= SumOver(Holds(l), M) + PotAt(l)[id]
  PROVE  Wealth(v) <= Wealth(l)
<1> DEFINE R == registered
           N == R \ M
           f == Holds(l)
           g == Holds(v)
           p == PotAt(l)
           q == PotAt(v)
<1>1. /\ IsFiniteSet(R) /\ IsFiniteSet(RoomId) /\ IsFiniteSet(M) /\ IsFiniteSet(N)
      /\ M \cup N = R /\ M \cap N = {}
  BY CountedSets, FS_Subset DEF Sound
<1>2. \A d \in R : f[d] \in Nat /\ g[d] \in Nat
  BY HoldsFacts
<1>3. \A i \in RoomId : p[i] \in Nat /\ q[i] \in Nat
  BY PotFacts DEF Sound, Tables
<1> HIDE DEF f, g, p, q, N
<1>4. SumOver(f, R) = SumOver(f, M) + SumOver(f, N)
  BY <1>1, <1>2, SumDisjoint
<1>5. SumOver(g, R) = SumOver(g, M) + SumOver(g, N)
  BY <1>1, <1>2, SumDisjoint
<1>6. SumOver(g, N) = SumOver(f, N)
  <2>1. \A d \in N : g[d] = f[d]
    BY DEF N, f, g
  <2>2. QED BY <2>1, SumCong
<1>7. SumOver(q, RoomId) + p[id] = SumOver(p, RoomId) + q[id]
  <2>1. \A i \in RoomId : p[i] \in Nat /\ q[i] \in Nat /\ (i # id => q[i] = p[i])
    BY <1>3 DEF p, q
  <2>2. QED BY <1>1, <2>1, SumUpdate
<1>8. SumOver(v.chips, Offline) = SumOver(l.chips, Offline)
  BY SumCong
<1>9. /\ SumOver(f, M) \in Nat /\ SumOver(f, N) \in Nat /\ SumOver(g, M) \in Nat
  <2>1. \A d \in M : f[d] \in Nat /\ g[d] \in Nat
    BY <1>1, <1>2
  <2>2. \A d \in N : f[d] \in Nat
    BY <1>1, <1>2
  <2>3. QED BY <1>1, <2>1, <2>2, SumOverType
<1>10. SumOver(p, RoomId) \in Nat /\ SumOver(q, RoomId) \in Nat
  BY <1>1, <1>3, SumOverType
<1>11. SumOver(l.chips, Offline) \in Nat
  BY WealthParts
<1> DEFINE a == SumOver(f, M)
           b == SumOver(g, M)
           n == SumOver(f, N)
           o == SumOver(l.chips, Offline)
           x == SumOver(p, RoomId)
           y == SumOver(q, RoomId)
           s == p[id]
           t == q[id]
<1>12. /\ Wealth(l) = (a + n) + o + x /\ Wealth(v) = (b + n) + o + y
       /\ y + s = x + t /\ b + t <= a + s
  BY <1>4, <1>5, <1>6, <1>7, <1>8 DEF Wealth, f, g, p, q
<1>13. /\ a \in Nat /\ b \in Nat /\ n \in Nat /\ o \in Nat /\ x \in Nat /\ y \in Nat /\ s \in Nat /\ t \in Nat
  BY <1>3, <1>9, <1>10, <1>11
<1> HIDE DEF a, b, n, o, x, y, s, t
<1>14. QED BY <1>12, <1>13

\* Only room id, its game and the balances of members M differ.
Local(l, v, id, M) ==
    /\ \A d \in registered \ M :
         /\ d \in DOMAIN v.player_rooms <=> d \in DOMAIN l.player_rooms
         /\ d \in DOMAIN l.player_rooms => v.player_rooms[d] = l.player_rooms[d] /\ l.player_rooms[d] # id
    /\ \A i \in RoomId : i # id =>
         /\ i \in DOMAIN v.rooms <=> i \in DOMAIN l.rooms
         /\ i \in DOMAIN l.rooms => v.rooms[i].game = l.rooms[i].game
    /\ \A a \in Account : (\A d \in M : Acct(d) # a) => v.chips[a] = l.chips[a]

(* A change in one room that adds nothing to what its members and its pot hold. *)
LEMMA LocalStep ==
  ASSUME NEW l, Sound(l), NEW v, Sound(v), NEW M \in SUBSET registered, NEW id \in RoomId,
         Local(l, v, id, M),
         SumOver(Holds(v), M) + PotAt(v)[id] <= SumOver(Holds(l), M) + PotAt(l)[id]
  PROVE  Wealth(v) <= Wealth(l)
<1>1. ASSUME NEW d \in registered \ M PROVE Holds(v)[d] = Holds(l)[d]
  <2>1. /\ d \in DOMAIN v.player_rooms <=> d \in DOMAIN l.player_rooms
        /\ d \in DOMAIN l.player_rooms => v.player_rooms[d] = l.player_rooms[d] /\ l.player_rooms[d] # id
    BY DEF Local
  <2>2. ASSUME d \in DOMAIN l.player_rooms
        PROVE  /\ l.player_rooms[d] \in RoomId /\ l.player_rooms[d] \in DOMAIN l.rooms
               /\ v.rooms[l.player_rooms[d]].game = l.rooms[l.player_rooms[d]].game
    <3>1. l.player_rooms[d] \in DOMAIN l.rooms /\ l.player_rooms[d] \in RoomId
      BY <2>2, LobbyFields DEF Sound, Tables
    <3>2. QED BY <2>1, <2>2, <3>1 DEF Local
  <2>3. d \in Playing(v) <=> d \in Playing(l)
    BY <2>1, <2>2 DEF Playing
  <2>4. CASE d \in Playing(l)
    <3>1. d \in DOMAIN l.player_rooms
      BY <2>4 DEF Playing
    <3>2. Holds(l)[d] = l.rooms[l.player_rooms[d]].game.stack[d] /\ Holds(v)[d] = v.rooms[v.player_rooms[d]].game.stack[d]
      BY <2>3, <2>4, HoldsFacts
    <3>3. QED BY <2>1, <2>2, <3>1, <3>2
  <2>5. CASE d \notin Playing(l)
    <3>1. Holds(l)[d] = l.chips[Acct(d)] /\ Holds(v)[d] = v.chips[Acct(d)]
      BY <2>3, <2>5, HoldsFacts
    <3>2. Acct(d) \in Account
      BY AcctType DEF Sound
    <3>3. \A e \in M : Acct(e) # Acct(d)
      BY DEF Sound, OneLoginPerAccount
    <3>4. QED BY <3>1, <3>2, <3>3 DEF Local
  <2>6. QED BY <2>4, <2>5
<1>2. ASSUME NEW i \in RoomId \ {id} PROVE PotAt(v)[i] = PotAt(l)[i]
  <2>1. l \in LobbyRecord /\ v \in LobbyRecord
    BY DEF Sound, Tables
  <2>2. /\ i \in DOMAIN v.rooms <=> i \in DOMAIN l.rooms
        /\ i \in DOMAIN l.rooms => v.rooms[i].game = l.rooms[i].game
    BY DEF Local
  <2>3. QED BY <2>1, <2>2, PotFacts
<1>3. ASSUME NEW a \in Offline PROVE v.chips[a] = l.chips[a]
  <2>1. a \in Account /\ \A d \in M : Acct(d) # a
    BY DEF Offline
  <2>2. QED BY <2>1 DEF Local
<1>4. QED BY <1>1, <1>2, <1>3, WealthStep

(* No money is made where nobody's holding and no pot changes. *)
LEMMA WealthSame ==
  ASSUME NEW l, Sound(l), NEW v, Sound(v),
         \A d \in registered : Holds(v)[d] = Holds(l)[d],
         \A i \in RoomId : PotAt(v)[i] = PotAt(l)[i], v.chips = l.chips
  PROVE  Wealth(v) = Wealth(l)
<1>1. SumOver(Holds(v), registered) = SumOver(Holds(l), registered)
  BY SumCong
<1>2. SumOver(PotAt(v), RoomId) = SumOver(PotAt(l), RoomId)
  BY SumCong
<1>3. QED BY <1>1, <1>2 DEF Wealth

(* What the members of a room hold, during a game and before it. *)
LEMMA MemberHolds ==
  ASSUME NEW l, Sound(l), NEW id \in DOMAIN l.rooms, NEW d \in ToSet(l.rooms[id].members)
  PROVE  /\ d \in registered /\ d \in DOMAIN l.player_rooms /\ l.player_rooms[d] = id
         /\ Holds(l)[d] = IF l.rooms[id].game.on THEN l.rooms[id].game.stack[d] ELSE l.chips[Acct(d)]
<1>1. l \in LobbyRecord /\ RoomSound(l, id) /\ l.rooms[id] \in Room
  BY LobbyFields DEF Sound, Tables
<1>2. d \in Conn
  BY <1>1, RoomFields
<1>3. d \in DOMAIN l.player_rooms /\ l.player_rooms[d] = id
  BY <1>1, <1>2 DEF RoomSound, Seats
<1>4. d \in registered
  BY <1>3 DEF Sound, SeatsKnown
<1>5. QED BY <1>3, <1>4, HoldsFacts

(* Play at a table makes no money. *)
LEMMA MovedMoney ==
  ASSUME NEW l, Sound(l), NEW v, Sound(v), NEW id \in DOMAIN l.rooms, l.rooms[id].game.on, Moved(l, v, id)
  PROVE  Wealth(v) <= Wealth(l)
<1> DEFINE M == ToSet(l.rooms[id].members)
           before == l.rooms[id].game
<1>1. PICK g \in Game : \E chips \in [Account -> Nat] :
        /\ v = Replay(l, id, g, chips)
        /\ g.on /\ DOMAIN g.stack = M
        /\ SumOver(g.stack, M) + g.pot <= SumOver(before.stack, M) + before.pot
        /\ \A a \in Account : (\A d \in M : Acct(d) # a) => chips[a] = l.chips[a]
  BY Zenon DEF Moved
<1>2. PICK chips \in [Account -> Nat] :
        /\ v = Replay(l, id, g, chips)
        /\ g.on /\ DOMAIN g.stack = M
        /\ SumOver(g.stack, M) + g.pot <= SumOver(before.stack, M) + before.pot
        /\ \A a \in Account : (\A d \in M : Acct(d) # a) => chips[a] = l.chips[a]
  BY <1>1, Zenon
<1>3. l \in LobbyRecord /\ v \in LobbyRecord /\ id \in RoomId
  BY LobbyFields DEF Sound, Tables
<1>4. /\ v.player_rooms = l.player_rooms /\ v.chips = chips /\ DOMAIN v.rooms = DOMAIN l.rooms
      /\ \A i \in DOMAIN l.rooms : i # id => v.rooms[i] = l.rooms[i]
      /\ v.rooms[id].game = g /\ v.rooms[id].members = l.rooms[id].members
  BY <1>2, <1>3, ReplayFacts
<1>5. M \in SUBSET registered
  BY MemberHolds
<1>6. ASSUME NEW d \in registered \ M, d \in DOMAIN l.player_rooms PROVE l.player_rooms[d] # id
  <2>1. d \in Conn /\ Seats(l, id)
    BY <1>6, CountedSets DEF Sound, Tables, RoomSound
  <2>2. QED BY <1>6, <2>1 DEF Seats
<1>7. Local(l, v, id, M)
  BY <1>2, <1>4, <1>6 DEF Local
<1>8. SumOver(Holds(l), M) = SumOver(before.stack, M)
  <2>1. \A d \in M : Holds(l)[d] = before.stack[d]
    BY MemberHolds
  <2> HIDE DEF before, M
  <2>2. QED BY <2>1, SumCong
<1>9. SumOver(Holds(v), M) = SumOver(g.stack, M)
  <2>1. \A d \in M : Holds(v)[d] = g.stack[d]
    BY <1>2, <1>4, MemberHolds
  <2> HIDE DEF M
  <2>2. QED BY <2>1, SumCong
<1>10. PotAt(l)[id] = before.pot /\ PotAt(v)[id] = g.pot
  BY <1>3, <1>4, PotFacts
<1>11. SumOver(Holds(v), M) + PotAt(v)[id] <= SumOver(Holds(l), M) + PotAt(l)[id]
  BY <1>2, <1>8, <1>9, <1>10
<1> HIDE DEF M
<1>12. QED BY <1>3, <1>5, <1>7, <1>11, LocalStep
(* A first hand is played with the balances of the members. *)
LEMMA StartedMoney ==
  ASSUME NEW l, Sound(l), NEW id \in DOMAIN l.rooms, ~l.rooms[id].game.on, Len(l.rooms[id].members) >= 2,
         NEW v \in StartedGames(l, id)
  PROVE  Sound(v) /\ Wealth(v) <= Wealth(l)
<1> DEFINE r == l.rooms[id]
           M == ToSet(r.members)
           b == Bankrolls(l, r.members)
<1>1. Known /\ Tables(l) /\ SeatsKnown(l) /\ l \in LobbyRecord /\ RoomSound(l, id)
  BY DEF Sound, Tables
<1>2. Tables(v) /\ v.player_rooms = l.player_rooms
  BY <1>1, StartedSound
<1>3. Sound(v)
  BY <1>2 DEF Sound, SeatsKnown
<1>4. CASE v = l
  <2>1. Wealth(l) \in Nat
    BY WealthParts
  <2>2. QED BY <1>3, <1>4, <2>1
<1>5. CASE v # l
  <2>1. PICK g \in Game :
           /\ v = Replay(l, id, g, SaveAll(l.chips, r.members, g.stack))
           /\ SaveAll(l.chips, r.members, g.stack) \in [Account -> Nat]
           /\ Plays(g, b, SumOver(b, M))
           /\ DOMAIN g.stack = M
    BY <1>1, <1>5, StartedShape DEF RoomSound
  <2> DEFINE chips == SaveAll(l.chips, r.members, g.stack)
  <2>2. DOMAIN b = M /\ \A d \in M : b[d] = l.chips[Acct(d)]
    BY DEF Bankrolls
  <2>3. g.on /\ SumOver(g.stack, M) + g.pot <= SumOver(b, M)
    BY <2>1, <2>2 DEF Plays
  <2>4. r.members \in Seq(Conn) /\ l.chips \in [Account -> Nat] /\ id \in RoomId /\ v \in LobbyRecord
    BY <1>1, <1>2, LobbyFields, RoomFields DEF Tables
  <2>5. \A a \in Account : (\A d \in M : Acct(d) # a) => chips[a] = l.chips[a]
    <3>1. \A d \in M : g.stack[d] \in Nat
      BY <2>1, GameFields
    <3>2. QED BY <2>4, <3>1, SaveAllFacts
  <2>6. v = Replay(l, id, g, chips) /\ chips \in [Account -> Nat]
    BY <2>1
  <2> HIDE DEF chips, b
  <2>7. /\ v.player_rooms = l.player_rooms /\ v.chips = chips /\ DOMAIN v.rooms = DOMAIN l.rooms
        /\ \A i \in DOMAIN l.rooms : i # id => v.rooms[i] = l.rooms[i]
        /\ v.rooms[id].game = g /\ v.rooms[id].members = l.rooms[id].members
    BY <1>1, <2>6, ReplayFacts
  <2>8. M \in SUBSET registered
    BY MemberHolds
  <2>9. ASSUME NEW d \in registered \ M, d \in DOMAIN l.player_rooms PROVE l.player_rooms[d] # id
    <3>1. d \in Conn /\ Seats(l, id)
      BY <1>1, <2>9, CountedSets DEF RoomSound
    <3>2. QED BY <2>9, <3>1 DEF Seats
  <2>10. Local(l, v, id, M)
    BY <2>5, <2>7, <2>9 DEF Local
  <2>11. SumOver(Holds(l), M) = SumOver(b, M)
    <3>1. \A d \in M : Holds(l)[d] = b[d]
      BY <2>2, MemberHolds
    <3> HIDE DEF M
    <3>2. QED BY <3>1, SumCong
  <2>12. SumOver(Holds(v), M) = SumOver(g.stack, M)
    <3>1. \A d \in M : Holds(v)[d] = g.stack[d]
      BY <1>3, <2>3, <2>7, MemberHolds
    <3> HIDE DEF M
    <3>2. QED BY <3>1, SumCong
  <2>13. PotAt(l)[id] = 0 /\ PotAt(v)[id] = g.pot
    BY <1>1, <2>4, <2>7, PotFacts DEF RoomSound
  <2>14. SumOver(Holds(v), M) + PotAt(v)[id] <= SumOver(Holds(l), M) + PotAt(l)[id]
    <3>1. SumOver(b, M) \in Nat
      <4>1. IsFiniteSet(M) /\ \A d \in M : Holds(l)[d] \in Nat
        BY <2>8, HoldsFacts, CountedSets, FS_Subset DEF Sound
      <4> HIDE DEF M
      <4>2. SumOver(Holds(l), M) \in Nat
        BY <4>1, SumOverType
      <4>3. QED BY <2>11, <4>2
    <3>2. QED BY <2>3, <2>11, <2>12, <2>13, <3>1
  <2> HIDE DEF M
  <2>15. QED BY <1>3, <2>4, <2>8, <2>10, <2>14, LocalStep
<1>6. QED BY <1>4, <1>5

(* A player who enters a room keeps the balance, a game that starts then makes
   no money. *)
LEMMA AddedMoney ==
  ASSUME NEW l, Known, OneLoginPerAccount, NEW id, NEW c \in Conn, Enterable(l, id, c), SeatsKnown(l),
         NEW v \in Added(l, id, c), NEW k, Sound(k), k.chips = l.chips,
         \A d \in registered : Holds(k)[d] = Holds(l)[d],
         \A i \in RoomId : PotAt(k)[i] = PotAt(l)[i]
  PROVE  Sound(v) /\ Wealth(v) <= Wealth(k)
<1>1. PICK w : w = Sit(l, id, c)
  OBVIOUS
<1>2. Sound(w)
  BY <1>1, SitSound DEF Sound
<1>3. /\ l \in LobbyRecord /\ id \in DOMAIN l.rooms /\ l.rooms[id].max >= 2 /\ ~l.rooms[id].game.on
      /\ c \notin DOMAIN l.player_rooms
      /\ \A d \in DOMAIN l.player_rooms : l.player_rooms[d] \in DOMAIN l.rooms
  BY DEF Enterable
<1>4. /\ w.chips = l.chips
      /\ DOMAIN w.player_rooms = DOMAIN l.player_rooms \cup {c} /\ w.player_rooms[c] = id
      /\ \A d \in DOMAIN l.player_rooms : d # c => w.player_rooms[d] = l.player_rooms[d]
      /\ DOMAIN w.rooms = DOMAIN l.rooms
      /\ \A i \in DOMAIN l.rooms : i # id => w.rooms[i] = l.rooms[i]
      /\ w.rooms[id].game = l.rooms[id].game
  BY <1>1, <1>3, SitFacts
<1>5. \A i \in DOMAIN l.rooms : w.rooms[i].game = l.rooms[i].game
  BY <1>4
<1>6. ASSUME NEW d \in registered PROVE Holds(w)[d] = Holds(k)[d]
  <2>1. d \in Playing(w) <=> d \in Playing(l)
    <3>1. CASE d = c
      BY <1>3, <1>4, <3>1 DEF Playing
    <3>2. CASE d # c
      BY <1>3, <1>4, <1>5, <3>2 DEF Playing
    <3>3. QED BY <3>1, <3>2
  <2>2. d \in Playing(l) => w.rooms[w.player_rooms[d]].game.stack[d] = l.rooms[l.player_rooms[d]].game.stack[d]
    BY <1>3, <1>4, <1>5 DEF Playing
  <2>3. d \in Conn
    BY CountedSets
  <2>4. Holds(w)[d] = IF d \in Playing(w) THEN w.rooms[w.player_rooms[d]].game.stack[d] ELSE w.chips[Acct(d)]
    BY <2>3 DEF Holds
  <2>5. Holds(l)[d] = IF d \in Playing(l) THEN l.rooms[l.player_rooms[d]].game.stack[d] ELSE l.chips[Acct(d)]
    BY <2>3 DEF Holds
  <2>6. QED BY <1>4, <2>1, <2>2, <2>4, <2>5
<1>7. ASSUME NEW i \in RoomId PROVE PotAt(w)[i] = PotAt(k)[i]
  <2>1. PotAt(w)[i] = PotAt(l)[i]
    BY <1>4, <1>5 DEF PotAt
  <2>2. QED BY <2>1
<1>8. Wealth(w) = Wealth(k)
  BY <1>2, <1>4, <1>6, <1>7, WealthSame
<1>9. \/ v = w
      \/ v \in StartedGames(w, id) /\ Len(w.rooms[id].members) = l.rooms[id].max
  BY <1>1, <1>3, AddedShape
<1>10. CASE v = w
  <2>1. Wealth(w) \in Nat
    BY <1>2, WealthParts
  <2>2. QED BY <1>2, <1>8, <1>10, <2>1
<1>11. CASE v \in StartedGames(w, id) /\ Len(w.rooms[id].members) = l.rooms[id].max
  <2>1. id \in DOMAIN w.rooms /\ ~w.rooms[id].game.on /\ Len(w.rooms[id].members) >= 2
    BY <1>3, <1>4, <1>11
  <2>2. Sound(v) /\ Wealth(v) <= Wealth(w)
    BY <1>2, <1>11, <2>1, StartedMoney
  <2>3. QED BY <1>8, <2>2
<1>12. QED BY <1>9, <1>10, <1>11
\* What becomes of balance chips when c leaves table r with its stack and the
\* others hold t; a balance the end of the game did not write may be old.
Paid(l, r, c, a, t) ==
    /\ \A b \in Account : (\A d \in ToSet(r.members) : Acct(d) # b) => a.chips[b] = l.chips[b]
    /\ a.chips[Acct(c)] = r.game.stack[c]
    /\ \A d \in ToSet(r.members) \ {c} : t[d] = IF a.game.on THEN a.game.stack[d] ELSE a.chips[Acct(d)]

(* The player who leaves is paid the stack, and nobody else's chips are lost
   from the books. *)
LEMMA LeaverPaid ==
  ASSUME NEW l, Sound(l), NEW id \in DOMAIN l.rooms, NEW c \in ToSet(l.rooms[id].members),
         NEW r, r = l.rooms[id], r.game.on, NEW a \in GamesAfterLeave(l, r, c)
  PROVE  \E t \in Partial(Conn, Nat) :
           /\ DOMAIN t = ToSet(r.members) \ {c}
           /\ SumOver(t, DOMAIN t) + a.game.pot
                <= SumOver(Without(r.game.stack, c), ToSet(r.members) \ {c}) + r.game.pot
           /\ Paid(l, r, c, a, t)
<1> DEFINE M == ToSet(r.members)
           rest == Rest(r, c)
           chips == SavedLeaver(l, r, c)
<1>1. /\ Known /\ l \in LobbyRecord /\ r \in Room /\ RoomSound(l, id) /\ l.chips \in [Account -> Nat]
  BY LobbyFields DEF Sound, Tables
<1>2. /\ \A d \in M : Acct(d) \in Account /\ d \in registered
  BY <1>1, MembersKnown DEF Sound, RoomSound
<1>3. /\ \A i, j \in DOMAIN r.members : r.members[i] = r.members[j] => i = j
      /\ DOMAIN r.game.stack = M /\ c \in M
  BY <1>1 DEF RoomSound, Seats
<1>4. \A d, e \in M : Acct(d) = Acct(e) => d = e
  BY <1>2 DEF Sound, OneLoginPerAccount
<1>5. /\ rest \in Seq(Conn) /\ ToSet(rest) = M \ {c}
      /\ \A i, j \in DOMAIN rest : rest[i] = rest[j] => i = j
  BY <1>1, <1>3, RestFacts
<1>6. PICK t \in Partial(Conn, Nat) :
           /\ DOMAIN t = ToSet(Rest(r, c))
           /\ a.game \in Game /\ a.chips \in [Account -> Nat]
           /\ SumOver(t, DOMAIN t) + a.game.pot
                <= SumOver(Without(r.game.stack, c), ToSet(r.members) \ {c}) + r.game.pot
           /\ a.game.on => a.game.stack = t /\ Len(Rest(r, c)) >= 2
           /\ ~a.game.on => a.game.pot = 0
           /\ \/ a.chips = SaveAll(SavedLeaver(l, r, c), Rest(r, c), t)
              \/ a.chips = SavedLeaver(l, r, c) /\ a.game.on
  <2>1. Acct(c) \in Account
    BY <1>2, <1>3
  <2>2. QED BY <1>1, <1>3, <2>1, LeaveShape, Zenon
<1>7. /\ chips \in [Account -> Nat] /\ chips[Acct(c)] = r.game.stack[c]
      /\ \A b \in Account : b # Acct(c) => chips[b] = l.chips[b]
  <2>1. r.game.stack[c] \in Nat
    BY <1>1, <1>3, RoomFields, GameFields
  <2>2. QED BY <1>1, <1>2, <1>3, <2>1 DEF SavedLeaver
<1>8. DOMAIN t = M \ {c} /\ \A d \in M \ {c} : t[d] \in Nat
  BY <1>5, <1>6, PartialDef
<1>9. a.chips = SaveAll(chips, rest, t) \/ (a.chips = chips /\ a.game.on)
  BY <1>6
<1> HIDE DEF chips, rest, M
<1>10. /\ \A b \in Account : (\A d \in M \ {c} : Acct(d) # b) => a.chips[b] = chips[b]
  <2>1. CASE a.chips = chips
    BY <2>1
  <2>2. CASE a.chips = SaveAll(chips, rest, t)
    <3>1. \A d \in ToSet(rest) : t[d] \in Nat
      BY <1>5, <1>8
    <3>2. \A b \in Account : (\A d \in ToSet(rest) : Acct(d) # b) => SaveAll(chips, rest, t)[b] = chips[b]
      BY <1>5, <1>7, <3>1, SaveAllFacts
    <3>3. QED BY <1>5, <2>2, <3>2
  <2>3. QED BY <1>9, <2>1, <2>2
<1>11. \A b \in Account : (\A d \in M : Acct(d) # b) => a.chips[b] = l.chips[b]
  BY <1>3, <1>7, <1>10
<1>12. a.chips[Acct(c)] = r.game.stack[c]
  <2>1. Acct(c) \in Account /\ \A d \in M \ {c} : Acct(d) # Acct(c)
    BY <1>2, <1>3, <1>4
  <2>2. QED BY <1>7, <1>10, <2>1
<1>13. ASSUME NEW d \in M \ {c} PROVE t[d] = IF a.game.on THEN a.game.stack[d] ELSE a.chips[Acct(d)]
  <2>1. CASE a.game.on
    BY <1>6, <2>1
  <2>2. CASE ~a.game.on
    <3>1. a.chips = SaveAll(chips, rest, t)
      BY <1>9, <2>2
    <3>2. d \in ToSet(rest) /\ Acct(d) \in Account /\ \A e \in ToSet(rest) : Acct(e) = Acct(d) => e = d
      BY <1>2, <1>4, <1>5, <1>13
    <3>3. SaveAll(chips, rest, t)[Acct(d)] = t[d]
      BY <1>5, <3>2, SaveAllOwn
    <3>4. QED BY <2>2, <3>1, <3>3
  <2>3. QED BY <2>1, <2>2
<1>14. Paid(l, r, c, a, t)
  BY <1>11, <1>12, <1>13 DEF Paid, M
<1>15. QED BY <1>6, <1>8, <1>14 DEF M

(* Leaving a room makes no money, in the middle of a hand or at its end. *)
LEMMA LeftMoney ==
  ASSUME NEW l, Sound(l), NEW c \in Conn, NEW v \in Left(l, c)
  PROVE  Sound(v) /\ Wealth(v) <= Wealth(l)
<1>1. Sound(v)
  BY LeftSound DEF Sound
<1>2. CASE c \notin DOMAIN l.player_rooms
  <2>1. v = l
    BY <1>2 DEF Left
  <2>2. Wealth(l) \in Nat
    BY WealthParts
  <2>3. QED BY <1>1, <2>1, <2>2
<1>3. CASE c \in DOMAIN l.player_rooms
  <2>1. PICK id : id = l.player_rooms[c]
    OBVIOUS
  <2>2. PICK r : r = l.rooms[id]
    OBVIOUS
  <2> DEFINE M == ToSet(r.members)
             rest == Rest(r, c)
             N == M \ {c}
  <2>3. PICK a \in After(l, r, c) : id \in DOMAIN l.rooms /\ c \in M /\ Departed(l, v, id, c, a)
    BY <1>3, <2>1, <2>2, LeftFacts DEF Sound
  <2>4. /\ v \in LobbyRecord /\ v.chips = a.chips
        /\ DOMAIN v.player_rooms = DOMAIN l.player_rooms \ {c}
        /\ \A d \in DOMAIN v.player_rooms : v.player_rooms[d] = l.player_rooms[d]
        /\ \A i \in DOMAIN l.rooms : i # id => i \in DOMAIN v.rooms /\ v.rooms[i] = l.rooms[i]
        /\ DOMAIN v.rooms = IF rest = <<>> THEN DOMAIN l.rooms \ {id} ELSE DOMAIN l.rooms
        /\ rest # <<>> => v.rooms[id].members = rest /\ v.rooms[id].game = a.game
    BY <2>2, <2>3 DEF Departed
  <2>5. Settled(r, c, a)
    BY <2>2, <2>3, AfterFacts DEF Sound
  <2>6. l \in LobbyRecord /\ RoomSound(l, id) /\ r \in Room /\ id \in RoomId
    BY <2>2, <2>3, LobbyFields DEF Sound, Tables
  <2>7. rest \in Seq(Conn) /\ ToSet(rest) = N
    BY <2>2, <2>3, <2>6, RestFacts DEF RoomSound, Seats
  <2>8. M \in SUBSET registered /\ c \in registered
    BY <2>2, <2>3, MemberHolds
  <2>9. \A d \in M : Holds(l)[d] = IF r.game.on THEN r.game.stack[d] ELSE l.chips[Acct(d)]
    BY <2>2, <2>3, MemberHolds
  <2>10. Holds(v)[c] = a.chips[Acct(c)]
    <3>1. c \notin Playing(v)
      BY <2>4 DEF Playing
    <3>2. QED BY <1>1, <2>4, <2>8, <3>1, HoldsFacts
  <2>11. ASSUME NEW d \in N PROVE Holds(v)[d] = IF a.game.on THEN a.game.stack[d] ELSE a.chips[Acct(d)]
    <3>1. rest # <<>>
      BY <2>7, <2>11 DEF ToSet
    <3>2. id \in DOMAIN v.rooms /\ v.rooms[id].game = a.game /\ d \in ToSet(v.rooms[id].members)
      BY <2>3, <2>4, <2>7, <2>11, <3>1
    <3>3. Holds(v)[d] = IF v.rooms[id].game.on THEN v.rooms[id].game.stack[d] ELSE v.chips[Acct(d)]
      BY <1>1, <3>2, MemberHolds
    <3>4. QED BY <2>4, <3>2, <3>3
  <2>12. PotAt(l)[id] = r.game.pot /\ PotAt(v)[id] = a.game.pot
    <3>1. PotAt(l)[id] = r.game.pot
      BY <2>2, <2>3, <2>6, PotFacts
    <3>2. CASE rest = <<>>
      <4>1. PotAt(v)[id] = 0
        BY <2>4, <2>6, <3>2, PotFacts
      <4>2. ~a.game.on
        BY <2>5, <3>2 DEF Settled
      <4>3. QED BY <2>5, <3>1, <4>1, <4>2 DEF Settled
    <3>3. CASE rest # <<>>
      <4>1. id \in DOMAIN v.rooms /\ v.rooms[id].game = a.game
        BY <2>3, <2>4, <3>3
      <4>2. QED BY <2>4, <2>6, <3>1, <4>1, PotFacts
    <3>4. QED BY <3>2, <3>3
  <2>13. IsFiniteSet(M) /\ \A d \in M : Holds(v)[d] \in Nat /\ Holds(l)[d] \in Nat
    BY <1>1, <2>8, HoldsFacts, CountedSets, FS_Subset DEF Sound
  <2>14. /\ \A b \in Account : (\A d \in M : Acct(d) # b) => a.chips[b] = l.chips[b]
         /\ SumOver(Holds(v), M) + a.game.pot <= SumOver(Holds(l), M) + r.game.pot
    <3>1. CASE ~r.game.on
      <4>1. a.game = r.game /\ a.chips = l.chips
        BY <3>1 DEF After
      <4>2. \A d \in M : Holds(v)[d] = Holds(l)[d]
        BY <2>9, <2>10, <2>11, <3>1, <4>1
      <4>3. SumOver(Holds(v), M) = SumOver(Holds(l), M)
        <5> HIDE DEF M
        <5>1. QED BY <4>2, SumCong
      <4>4. SumOver(Holds(l), M) \in Nat /\ r.game.pot \in Nat
        <5>1. r.game.pot \in Nat
          BY <2>6, RoomFields, GameFields
        <5> HIDE DEF M
        <5>2. QED BY <2>13, <5>1, SumOverType
      <4>5. QED BY <4>1, <4>3, <4>4
    <3>2. CASE r.game.on
      <4>1. a \in GamesAfterLeave(l, r, c)
        BY <2>3, <3>2 DEF After
      <4>2. PICK t \in Partial(Conn, Nat) :
              /\ DOMAIN t = M \ {c}
              /\ SumOver(t, DOMAIN t) + a.game.pot <= SumOver(Without(r.game.stack, c), M \ {c}) + r.game.pot
              /\ Paid(l, r, c, a, t)
        BY <2>2, <2>3, <3>2, <4>1, LeaverPaid
      <4>3. /\ Holds(v)[c] = Holds(l)[c]
            /\ \A d \in N : Holds(v)[d] = t[d]
        BY <2>3, <2>9, <2>10, <2>11, <3>2, <4>2 DEF Paid
      <4>4. \A d \in N : Holds(l)[d] = Without(r.game.stack, c)[d]
        BY <2>2, <2>6, <2>9, <3>2 DEF RoomSound, Without
      <4> HIDE DEF M
      <4>5. SumOver(Holds(v), M) = SumOver(Holds(v), N) + Holds(v)[c] /\ SumOver(Holds(v), N) \in Nat
        BY <2>3, <2>13, SumSplit
      <4>6. SumOver(Holds(l), M) = SumOver(Holds(l), N) + Holds(l)[c] /\ SumOver(Holds(l), N) \in Nat
        BY <2>3, <2>13, SumSplit
      <4> HIDE DEF N
      <4>7. SumOver(Holds(v), N) = SumOver(t, N)
        BY <4>3, SumCong
      <4>8. SumOver(Holds(l), N) = SumOver(Without(r.game.stack, c), N)
        BY <4>4, SumCong
      <4>9. SumOver(t, N) + a.game.pot <= SumOver(Without(r.game.stack, c), N) + r.game.pot
        BY <4>2 DEF N
      <4>10. a.game.pot \in Nat /\ r.game.pot \in Nat /\ Holds(l)[c] \in Nat
        BY <2>3, <2>5, <2>6, <2>13, RoomFields, GameFields DEF Settled
      <4> DEFINE x == SumOver(Holds(v), N)
                 y == SumOver(Holds(l), N)
                 h == Holds(l)[c]
                 p == a.game.pot
                 q == r.game.pot
      <4>11. /\ x \in Nat /\ y \in Nat /\ h \in Nat /\ p \in Nat /\ q \in Nat /\ x + p <= y + q
             /\ SumOver(Holds(v), M) = x + h /\ SumOver(Holds(l), M) = y + h
        BY <4>3, <4>5, <4>6, <4>7, <4>8, <4>9, <4>10
      <4>12. (x + h) + p <= (y + h) + q
        <5> HIDE DEF x, y, h, p, q
        <5>1. QED BY <4>11
      <4>13. \A b \in Account : (\A d \in M : Acct(d) # b) => a.chips[b] = l.chips[b]
        BY <4>2 DEF Paid, M
      <4>14. QED BY <4>11, <4>12, <4>13
    <3>3. QED BY <3>1, <3>2
  <2>15. ASSUME NEW d \in registered \ M, d \in DOMAIN l.player_rooms PROVE l.player_rooms[d] # id
    <3>1. d \in Conn /\ Seats(l, id)
      BY <2>6, <2>15, CountedSets DEF Sound, RoomSound
    <3>2. QED BY <2>2, <2>15, <3>1 DEF Seats
  <2>16. Local(l, v, id, M)
    <3>1. \A d \in registered \ M : d # c
      BY <2>3
    <3>2. \A d \in registered \ M :
            /\ d \in DOMAIN v.player_rooms <=> d \in DOMAIN l.player_rooms
            /\ d \in DOMAIN l.player_rooms => v.player_rooms[d] = l.player_rooms[d] /\ l.player_rooms[d] # id
      BY <2>4, <2>15, <3>1
    <3>3. \A i \in RoomId : i # id =>
            /\ i \in DOMAIN v.rooms <=> i \in DOMAIN l.rooms
            /\ i \in DOMAIN l.rooms => v.rooms[i].game = l.rooms[i].game
      BY <2>4
    <3>4. QED BY <2>4, <2>14, <3>2, <3>3 DEF Local
  <2>17. SumOver(Holds(v), M) + PotAt(v)[id] <= SumOver(Holds(l), M) + PotAt(l)[id]
    BY <2>12, <2>14
  <2> HIDE DEF M
  <2>18. QED BY <1>1, <2>6, <2>8, <2>16, <2>17, LocalStep
<1>4. QED BY <1>2, <1>3
(* Money counts names of players only. *)
LEMMA MoneyFrame ==
  ASSUME NEW v, v = lobby', \A c \in Playing(v) : name'[c] = name[c]
  PROVE  Money(lobby)' = Money(v)
<1>1. Playing(lobby)' = Playing(v)
  BY DEF Playing
<1>2. \A c \in Playing(v) : AccountOf[name'[c]] = AccountOf[name[c]]
  OBVIOUS
<1>3. {AccountOf[name'[c]] : c \in Playing(v)} = {AccountOf[name[c]] : c \in Playing(v)}
  BY <1>2
<1>4. Money(lobby)' = SumOver(v.chips, Account \ {AccountOf[name'[c]] : c \in Playing(v)})
         + SumOver([c \in Playing(v) |-> v.rooms[v.player_rooms[c]].game.stack[c]], Playing(v))
         + SumOver([id \in DOMAIN v.rooms |-> v.rooms[id].game.pot], DOMAIN v.rooms)
  BY <1>1 DEF Money, Acct
<1>5. Money(v) = SumOver(v.chips, Account \ {AccountOf[name[c]] : c \in Playing(v)})
         + SumOver([c \in Playing(v) |-> v.rooms[v.player_rooms[c]].game.stack[c]], Playing(v))
         + SumOver([id \in DOMAIN v.rooms |-> v.rooms[id].game.pot], DOMAIN v.rooms)
  BY DEF Money, Acct
<1>6. QED BY <1>3, <1>4, <1>5

(* Handlers for rooms and tables make no money. *)
LEMMA RoomMoney ==
  ASSUME OneLoginPerAccount, LobbyInv, NEW c \in Conn, NEW v, v = lobby', NEW l, l = lobby,
         \/ \E max \in Capacity : CreateRoom(c, max)
         \/ \E id \in RoomId : JoinRoom(c, id)
         \/ LeaveRoom(c) \/ StartGame(c) \/ (\E n : Bet(c, n)) \/ EndHand(c)
  PROVE  Sound(v) /\ Wealth(v) <= Wealth(l)
<1>1. Sound(l)
  BY DEF LobbyInv, Sound, SeatsKnown
<1>2. Known /\ OneLoginPerAccount
  BY <1>1 DEF Sound
<1>3. CASE \E max \in Capacity : CreateRoom(c, max)
  <2>1. PICK max \in Capacity : CreateRoom(c, max)
    BY <1>3
  <2>2. PICK id : id = next_room_id
    OBVIOUS
  <2>3. PICK k \in Left(l, c) : v \in Added(Fresh(k, id, c, max), id, c)
    BY <2>1, <2>2 DEF CreateRoom, Fresh
  <2>4. PICK w : w = Fresh(k, id, c, max)
    OBVIOUS
  <2>5. Sound(k) /\ Wealth(k) <= Wealth(l)
    BY <1>1, <2>3, LeftMoney
  <2>6. DOMAIN k.player_rooms = DOMAIN l.player_rooms \ {c} /\ DOMAIN k.rooms \subseteq DOMAIN l.rooms
    BY <1>1, <2>3, LeftSound DEF Sound
  <2>7. /\ c \in registered /\ max >= 2 /\ max \in Nat /\ id <= MaxRoomId /\ id \in Nat \ {0}
        /\ \A i \in DOMAIN l.rooms : i < id
    BY <2>1, <2>2, RoomAssumption DEF CreateRoom, Known, LobbyInv
  <2>8. id \in RoomId /\ id \notin DOMAIN k.rooms /\ c \notin DOMAIN k.player_rooms
    BY <2>6, <2>7, RoomAssumption DEF RoomId
  <2>9. /\ Enterable(w, id, c) /\ w.player_rooms = k.player_rooms /\ w.chips = k.chips
        /\ DOMAIN w.rooms = DOMAIN k.rooms \cup {id}
        /\ \A i \in DOMAIN k.rooms : w.rooms[i] = k.rooms[i]
    BY <2>4, <2>5, <2>7, <2>8, FreshRoom DEF Sound
  <2>10. \A d \in DOMAIN k.player_rooms : k.player_rooms[d] \in DOMAIN k.rooms
    BY <2>5 DEF Sound, Tables
  <2>11. ASSUME NEW d \in registered PROVE Holds(k)[d] = Holds(w)[d]
    <3>1. d \in Playing(w) <=> d \in Playing(k)
      BY <2>9, <2>10 DEF Playing
    <3>2. d \in Playing(k) => w.rooms[w.player_rooms[d]].game.stack[d] = k.rooms[k.player_rooms[d]].game.stack[d]
      BY <2>9, <2>10 DEF Playing
    <3>3. d \in Conn
      BY <1>2, CountedSets
    <3>4. Holds(w)[d] = IF d \in Playing(w) THEN w.rooms[w.player_rooms[d]].game.stack[d] ELSE w.chips[Acct(d)]
      BY <3>3 DEF Holds
    <3>5. Holds(k)[d] = IF d \in Playing(k) THEN k.rooms[k.player_rooms[d]].game.stack[d] ELSE k.chips[Acct(d)]
      BY <3>3 DEF Holds
    <3>6. QED BY <2>9, <3>1, <3>2, <3>4, <3>5
  <2>12. ASSUME NEW i \in RoomId PROVE PotAt(k)[i] = PotAt(w)[i]
    <3>1. w \in LobbyRecord /\ k \in LobbyRecord /\ w.rooms[id].game.pot = 0
      BY <2>5, <2>9 DEF Sound, Tables, Enterable
    <3>2. QED BY <2>9, <3>1, PotFacts
  <2>13. SeatsKnown(w) /\ v \in Added(w, id, c)
    BY <2>3, <2>4, <2>5, <2>9 DEF Sound, SeatsKnown
  <2>14. Sound(v) /\ Wealth(v) <= Wealth(k)
    BY <1>2, <2>5, <2>9, <2>11, <2>12, <2>13, AddedMoney
  <2>15. Wealth(v) \in Nat /\ Wealth(k) \in Nat /\ Wealth(l) \in Nat
    BY <1>1, <2>5, <2>14, WealthParts
  <2>16. QED BY <2>5, <2>14, <2>15
<1>4. CASE \E id \in RoomId : JoinRoom(c, id)
  <2>1. PICK id \in RoomId : JoinRoom(c, id)
    BY <1>4
  <2>2. PICK k \in Left(l, c) : IF MayJoin(k, id) THEN v \in Added(k, id, c) ELSE v = k
    BY <2>1 DEF JoinRoom
  <2>3. Sound(k) /\ Wealth(k) <= Wealth(l)
    BY <1>1, <2>2, LeftMoney
  <2>4. CASE ~MayJoin(k, id)
    BY <2>2, <2>3, <2>4
  <2>5. CASE MayJoin(k, id)
    <3>1. id \in DOMAIN k.rooms /\ ~k.rooms[id].game.on /\ Len(k.rooms[id].members) < k.rooms[id].max
      BY <2>5 DEF MayJoin
    <3>2. c \in registered /\ c \notin DOMAIN k.player_rooms
      BY <1>1, <1>2, <2>1, <2>2, LeftSound DEF JoinRoom, Known, Sound
    <3>3. RoomSound(k, id)
      BY <2>3, <3>1 DEF Sound, Tables
    <3>4. Enterable(k, id, c) /\ SeatsKnown(k)
      BY <2>3, <3>1, <3>2, <3>3 DEF Enterable, Tables, RoomSound, Sound
    <3>5. v \in Added(k, id, c)
      BY <2>2, <2>5
    <3>6. Sound(v) /\ Wealth(v) <= Wealth(k)
      BY <1>2, <2>3, <3>4, <3>5, AddedMoney
    <3>7. Wealth(v) \in Nat /\ Wealth(k) \in Nat /\ Wealth(l) \in Nat
      BY <1>1, <2>3, <3>6, WealthParts
    <3>8. QED BY <2>3, <3>6, <3>7
  <2>6. QED BY <2>4, <2>5
<1>5. CASE LeaveRoom(c)
  <2>1. v \in Left(l, c)
    BY <1>5 DEF LeaveRoom
  <2>2. QED BY <1>1, <2>1, LeftMoney
<1>6. CASE StartGame(c)
  <2>1. PICK id : id = l.player_rooms[c]
    OBVIOUS
  <2>2. /\ c \in DOMAIN l.player_rooms /\ Len(l.rooms[id].members) >= 2 /\ ~l.rooms[id].game.on
        /\ v \in StartedGames(l, id)
    BY <1>6, <2>1 DEF StartGame
  <2>3. id \in DOMAIN l.rooms
    BY <1>1, <2>1, <2>2 DEF Sound, Tables
  <2>4. QED BY <1>1, <2>2, <2>3, StartedMoney
<1>7. ASSUME NEW id, AtTable(c, id), lobby.rooms[id].game.on, Moved(lobby, lobby', id)
      PROVE  Sound(v) /\ Wealth(v) <= Wealth(l)
  <2>1. id \in DOMAIN l.rooms /\ l.rooms[id].game.on /\ Moved(l, v, id)
    BY <1>7 DEF AtTable
  <2>2. Tables(v) /\ v.player_rooms = l.player_rooms
    BY <1>7, MovedSound
  <2>3. Sound(v)
    BY <1>1, <2>2 DEF Sound, SeatsKnown
  <2>4. QED BY <1>1, <2>1, <2>3, MovedMoney
<1>8. PICK id : id = lobby.player_rooms[c]
  OBVIOUS
<1>9. CASE \E n : Bet(c, n)
  <2>1. PICK n : Bet(c, n)
    BY <1>9
  <2>2. AtTable(c, id) /\ lobby.rooms[id].game.on /\ Moved(lobby, lobby', id)
    BY <1>8, <2>1, BetMoves
  <2>3. QED BY <1>7, <2>2
<1>10. CASE EndHand(c)
  <2>1. AtTable(c, id) /\ lobby.rooms[id].game.on /\ Moved(lobby, lobby', id)
    BY <1>8, <1>10, EndHandMoves
  <2>2. QED BY <1>7, <2>1
<1>11. QED BY <1>3, <1>4, <1>5, <1>6, <1>9, <1>10

\* The money against the rows that were created.
MoneyInv == LobbyInv /\ Single /\ MoneyIsGranted

(* Only an account that is created adds money, and it adds STARTING_CHIPS. *)
LEMMA MoneyNext ==
  ASSUME MoneyInv, [Next]_vars
  PROVE  MoneyInv'
<1>0. LobbyInv' /\ Single' /\ (~twice' => ~twice)
  BY LobbyNext, SingleNext DEF MoneyInv
<1> SUFFICES ASSUME ~twice' PROVE MoneyIsGranted'
  BY <1>0 DEF MoneyInv, MoneyIsGranted
<1>1. LobbyInv /\ LobbyInv' /\ MoneyIsGranted /\ ~twice /\ OneLoginPerAccount
  BY <1>0 DEF MoneyInv, Single
<1>2. PICK l : l = lobby
  OBVIOUS
<1>3. PICK v : v = lobby'
  OBVIOUS
<1>4. Sound(l)
  BY <1>1, <1>2 DEF LobbyInv, Sound, SeatsKnown
<1>5. Money(l) = Wealth(l) /\ Wealth(l) \in Nat
  BY <1>4, MoneyIsWealth, WealthParts
<1>6. /\ IsFiniteSet(accounts) /\ Cardinality(accounts) \in Nat /\ StartingChips \in Nat
      /\ Money(l) <= StartingChips * Cardinality(accounts)
  <2>1. IsFiniteSet(accounts)
    BY <1>1, NameAssumption, FS_Subset DEF LobbyInv, Known
  <2>2. QED BY <1>1, <1>2, <2>1, ChipAssumption, FS_CardinalityType DEF MoneyIsGranted
<1>7. Playing(l) \subseteq registered
  BY <1>4 DEF Playing, Sound, SeatsKnown
<1>8. ASSUME accounts' = accounts, Money(lobby)' = Money(v), Sound(v), Wealth(v) <= Wealth(l)
      PROVE  MoneyIsGranted'
  <2>1. Money(v) = Wealth(v) /\ Wealth(v) \in Nat
    BY <1>8, MoneyIsWealth, WealthParts
  <2> DEFINE b == StartingChips * Cardinality(accounts)
  <2>2. b \in Nat
    BY <1>6
  <2>3. Money(v) <= b
    <3> HIDE DEF b
    <3>1. Money(l) <= b
      BY <1>6 DEF b
    <3>2. QED BY <1>5, <1>8, <2>1, <2>2, <3>1
  <2>4. QED BY <1>8, <2>3 DEF MoneyIsGranted
<1>9. ASSUME NEW c \in Conn,
         \/ \E max \in Capacity : CreateRoom(c, max)
         \/ \E id \in RoomId : JoinRoom(c, id)
         \/ LeaveRoom(c) \/ StartGame(c) \/ (\E n : Bet(c, n)) \/ EndHand(c)
      PROVE  MoneyIsGranted'
  <2>1. Sound(v) /\ Wealth(v) <= Wealth(l)
    BY <1>1, <1>2, <1>3, <1>9, RoomMoney
  <2>2. name' = name /\ accounts' = accounts
    BY <1>9 DEF CreateRoom, JoinRoom, LeaveRoom, StartGame, Bet, EndHand
  <2>3. Money(lobby)' = Money(v)
    BY <1>3, <2>2, MoneyFrame
  <2>4. QED BY <1>8, <2>1, <2>2, <2>3
<1>10. ASSUME NEW c \in Conn, Connect(c) PROVE MoneyIsGranted'
  <2>1. v = l /\ accounts' = accounts
    BY <1>2, <1>3, <1>10 DEF Connect
  <2>2. \A d \in Playing(v) : name'[d] = name[d]
    BY <1>1, <1>7, <1>10, <2>1 DEF Connect, LobbyInv, Known, LoggedIn
  <2>3. Money(lobby)' = Money(v)
    BY <1>3, <2>2, MoneyFrame
  <2>4. QED BY <1>4, <1>5, <1>8, <2>1, <2>3
<1>11. ASSUME NEW c \in Conn, Disconnect(c) PROVE MoneyIsGranted'
  <2>1. v \in Left(l, c) /\ accounts' = accounts /\ name' = [name EXCEPT ![c] = NoName]
    BY <1>2, <1>3, <1>11 DEF Disconnect
  <2>2. Sound(v) /\ Wealth(v) <= Wealth(l)
    BY <1>4, <2>1, LeftMoney
  <2>3. DOMAIN v.player_rooms = DOMAIN l.player_rooms \ {c}
    BY <1>4, <2>1, LeftSound DEF Sound
  <2>4. \A d \in Playing(v) : name'[d] = name[d]
    <3>1. Playing(v) \subseteq Conn \ {c}
      BY <2>2, <2>3, CountedSets DEF Playing, Sound, SeatsKnown
    <3>2. name \in [Conn -> Name \cup {NoName}]
      BY <1>1 DEF LobbyInv, Known
    <3>3. QED BY <2>1, <3>1, <3>2
  <2>5. Money(lobby)' = Money(v)
    BY <1>3, <2>4, MoneyFrame
  <2>6. QED BY <1>8, <2>1, <2>2, <2>5
<1>12. ASSUME NEW c \in Conn, NEW n \in Name, NEW ok, Login(c, n, ok) PROVE MoneyIsGranted'
  <2> DEFINE a == AccountOf[n]
             S == Account \ {Acct(d) : d \in Playing(l)}
             stacks == SumOver([d \in Playing(l) |-> l.rooms[l.player_rooms[d]].game.stack[d]], Playing(l))
             pots == SumOver([id \in DOMAIN l.rooms |-> l.rooms[id].game.pot], DOMAIN l.rooms)
  <2>1. /\ accounts' = accounts \cup {a} /\ a \in Account
        /\ v = IF a \in accounts THEN l ELSE [l EXCEPT !.chips[a] = StartingChips]
    BY <1>2, <1>3, <1>12, NameAssumption DEF Login
  <2>2. \A d \in registered : name'[d] = name[d]
    BY <1>1, <1>12, LoginKnown
  <2>3. CASE a \in accounts
    <3>1. v = l /\ accounts' = accounts
      BY <2>1, <2>3
    <3>2. Money(lobby)' = Money(v)
      BY <1>3, <1>7, <2>2, <3>1, MoneyFrame
    <3>3. QED BY <1>4, <1>5, <1>8, <3>1, <3>2
  <2>4. CASE a \notin accounts
    <3> DEFINE f == [l.chips EXCEPT ![a] = StartingChips]
    <3>1. l \in LobbyRecord /\ l.chips \in [Account -> Nat]
      BY <1>4, LobbyFields DEF Sound, Tables
    <3>2. v = [l EXCEPT !.chips = f]
      BY <2>1, <2>4, <3>1 DEF LobbyRecord
    <3>3. /\ f \in [Account -> Nat] /\ f[a] = StartingChips
          /\ \A b \in Account : b # a => f[b] = l.chips[b]
      BY <2>1, <3>1, ChipAssumption
    <3> HIDE DEF f
    <3>4. v.rooms = l.rooms /\ v.player_rooms = l.player_rooms /\ v.chips = f
      BY <3>1, <3>2 DEF LobbyRecord
    <3>5. Playing(v) = Playing(l)
      BY <3>4 DEF Playing
    <3>6. Money(lobby)' = Money(v)
      BY <1>3, <1>7, <2>2, <3>5, MoneyFrame
    <3>7. Money(v) = SumOver(f, S) + stacks + pots /\ Money(l) = SumOver(l.chips, S) + stacks + pots
      BY <3>4, <3>5 DEF Money
    <3>8. IsFiniteSet(S) /\ S \subseteq Account
      BY NameAssumption, FS_Subset
    <3>9. SumOver(f, S) \in Nat /\ SumOver(l.chips, S) \in Nat
      <4> HIDE DEF S
      <4>1. QED BY <3>1, <3>3, <3>8, SumOverType
    <3>10. SumOver(f, S) <= SumOver(l.chips, S) + StartingChips
      <4> HIDE DEF S
      <4>1. CASE a \in S
        <5>1. SumOver(f, S) + l.chips[a] = SumOver(l.chips, S) + f[a]
          <6>1. \A b \in S : l.chips[b] \in Nat /\ f[b] \in Nat /\ (b # a => f[b] = l.chips[b])
            BY <3>1, <3>3, <3>8
          <6>2. QED BY <3>8, <4>1, <6>1, SumUpdate
        <5>2. l.chips[a] \in Nat
          BY <2>1, <3>1
        <5>3. QED BY <1>6, <3>3, <3>9, <5>1, <5>2
      <4>2. CASE a \notin S
        <5>1. \A b \in S : f[b] = l.chips[b]
          BY <3>3, <3>8, <4>2
        <5>2. SumOver(f, S) = SumOver(l.chips, S)
          BY <5>1, SumCong
        <5>3. QED BY <1>6, <3>9, <5>2
      <4>3. QED BY <4>1, <4>2
    <3>11. stacks \in Nat /\ pots \in Nat
      <4>1. PICK P : P = Playing(l)
        OBVIOUS
      <4> DEFINE g == [d \in P |-> l.rooms[l.player_rooms[d]].game.stack[d]]
                 D == DOMAIN l.rooms
                 p == [id \in D |-> l.rooms[id].game.pot]
      <4>2. IsFiniteSet(P) /\ \A d \in P : g[d] \in Nat
        <5>1. IsFiniteSet(P)
          BY <1>1, <1>7, <4>1, CountedSets, FS_Subset DEF LobbyInv
        <5>2. ASSUME NEW d \in P PROVE g[d] \in Nat
          BY <1>4, <1>7, <4>1, HoldsFacts
        <5>3. QED BY <5>1, <5>2
      <4>3. IsFiniteSet(D) /\ \A id \in D : p[id] \in Nat
        <5>1. D \subseteq RoomId /\ IsFiniteSet(RoomId)
          BY <1>1, <3>1, LobbyFields, CountedSets DEF LobbyInv
        <5>2. IsFiniteSet(D)
          BY <5>1, FS_Subset
        <5>3. QED BY <3>1, <5>1, <5>2, PotFacts
      <4>4. stacks = SumOver(g, P) /\ pots = SumOver(p, D)
        BY <4>1
      <4> HIDE DEF stacks, pots, g, D, p
      <4>5. QED BY <4>2, <4>3, <4>4, SumOverType
    <3>12. Cardinality(accounts') = Cardinality(accounts) + 1
      BY <1>6, <2>1, <2>4, FS_AddElement
    <3> DEFINE x == SumOver(f, S)
               y == SumOver(l.chips, S)
               m == Cardinality(accounts)
    <3>13. x + stacks + pots <= StartingChips * (m + 1)
      <4>1. /\ x \in Nat /\ y \in Nat /\ m \in Nat /\ StartingChips \in Nat /\ stacks \in Nat /\ pots \in Nat
            /\ x <= y + StartingChips /\ y + stacks + pots <= StartingChips * m
        BY <1>6, <3>7, <3>9, <3>10, <3>11
      <4> HIDE DEF x, y, m, stacks, pots
      <4>2. StartingChips * (m + 1) = StartingChips * m + StartingChips
        BY <4>1
      <4> DEFINE z == StartingChips * m
      <4>3. z \in Nat /\ y + stacks + pots <= z
        BY <4>1
      <4> HIDE DEF z
      <4>4. x + stacks + pots <= z + StartingChips
        BY <4>1, <4>3
      <4>5. QED BY <4>2, <4>4 DEF z
    <3>14. QED BY <3>6, <3>7, <3>12, <3>13 DEF MoneyIsGranted
  <2>5. QED BY <2>3, <2>4
<1>13. ASSUME UNCHANGED vars PROVE MoneyIsGranted'
  BY <1>1, <1>13 DEF vars, MoneyIsGranted, Money, Playing, Acct
<1>14. ASSUME Next PROVE MoneyIsGranted'
  <2>1. PICK c \in Conn :
          \/ Connect(c) \/ Disconnect(c)
          \/ \E n \in Name, ok \in BOOLEAN : Login(c, n, ok)
          \/ \E max \in Capacity : CreateRoom(c, max)
          \/ \E id \in RoomId : JoinRoom(c, id)
          \/ LeaveRoom(c) \/ StartGame(c)
          \/ \E n \in 1..MaxMoney : Bet(c, n)
          \/ EndHand(c)
    BY <1>14, Zenon DEF Next
  <2>2. QED BY <1>9, <1>10, <1>11, <1>12, <2>1, Zenon
<1>15. QED BY <1>13, <1>14

(* There is no money before the first login. *)
LEMMA MoneyInit == Init => MoneyInv
<1> SUFFICES ASSUME Init PROVE MoneyInv
  OBVIOUS
<1>1. LobbyInv
  BY LobbyInit
<1>2. /\ lobby.chips = [a \in Account |-> 0] /\ DOMAIN lobby.player_rooms = {} /\ DOMAIN lobby.rooms = {}
  BY DEF Init, EmptyFcn
<1>3. Playing(lobby) = {}
  BY <1>2 DEF Playing
<1> DEFINE S == Account \ {Acct(c) : c \in {}}
           g == [c \in {} |-> lobby.rooms[lobby.player_rooms[c]].game.stack[c]]
           p == [id \in {} |-> lobby.rooms[id].game.pot]
<1>4. Money(lobby) = SumOver(lobby.chips, S) + SumOver(g, {}) + SumOver(p, {})
  BY <1>2, <1>3 DEF Money
<1>5. IsFiniteSet(S) /\ \A a \in S : lobby.chips[a] = 0
  BY <1>2, NameAssumption, FS_Subset
<1> HIDE DEF S, g, p
<1>6. SumOver(lobby.chips, S) = 0 /\ SumOver(g, {}) = 0 /\ SumOver(p, {}) = 0
  BY <1>5, SumZero, SumEmpty
<1>7. StartingChips * Cardinality(accounts) \in Nat
  <2>1. Cardinality(accounts) = 0
    BY FS_EmptySet DEF Init
  <2>2. QED BY <2>1, ChipAssumption
<1>8. Single
  BY DEF Init, Single, OneLoginPerAccount
<1>9. QED BY <1>1, <1>4, <1>6, <1>7, <1>8 DEF MoneyInv, MoneyIsGranted

(* No handler makes money: balances, stacks and pots together never exceed
   STARTING_CHIPS for each account that was created, as long as no account was
   online twice under two spellings. *)
THEOREM MoneyIsGrantedHolds == Spec => []MoneyIsGranted
<1>1. MoneyInv /\ [Next]_vars => MoneyInv'
  BY MoneyNext
<1>2. MoneyInv => MoneyIsGranted
  BY DEF MoneyInv
<1>3. QED BY <1>1, <1>2, MoneyInit, PTL DEF Spec
=============================================================================
