---------------------------- MODULE StorageProofs ----------------------------
(***************************************************************************)
(* Proofs about the database across crashes.  The promises of Storage are  *)
(* about states in which no save is under way; the inductive invariant     *)
(* says what they mean in between.  A player is `dirty' when the last      *)
(* write of the player's row is still to be made or has failed:            *)
(*                                                                         *)
(*   Migrating   which version the running start is at, and what is there; *)
(*   Durable     the row of a player who is not dirty covers the stack;    *)
(*   RefundsBets the rows of those players exceed their stacks by no more  *)
(*               than the pot;                                             *)
(*   Backed      the chips in play were granted, and so would be the       *)
(*               balances if every pending save were made now.             *)
(***************************************************************************)
EXTENDS Storage, ChipSums

Dirty == unsaved \cup stale

Typed ==
    /\ TypeOK
    /\ balance \in [Account -> Nat] /\ stack \in [AtTable -> Nat] /\ granted \in Nat
    /\ unsaved \subseteq AtTable
    /\ ~Saving => unsaved = {}

Migrating ==
    /\ schema >= 1 => users
    /\ schema >= 2 => updated_at
    /\ Running => schema = kLatestSchemaVersion
    /\ pc = "failed" => Doomed
    /\ pc = "apply" => version = schema /\ version < kLatestSchemaVersion
    /\ pc = "record" => version = schema + 1 /\ users /\ (version = 2 => updated_at)

Durable ==
    /\ \A p \in AtTable \ Dirty : balance[p] >= stack[p]
    /\ pc = "save_leaver" => \A p \in leaver \ Dirty : balance[p] = stack[p]

\* What a crash would give back to a player at the table.
Refund == [p \in AtTable |-> IF p \in Dirty THEN 0 ELSE balance[p] - stack[p]]

RefundsBets ==
    /\ dealt => SumOver(Refund, AtTable) <= pot
    /\ pc = "save_award" => ~dealt

\* What an account holds: its stack, or its row when it is at no table.
Held == [p \in Account |-> IF p \in AtTable THEN stack[p] ELSE balance[p]]

\* The row of an account once every pending save is made.
OnceSaved == [p \in Account |-> IF p \in Dirty THEN stack[p] ELSE balance[p]]

\* award_all_pots has paid from pot_ before it resets it.
LivePot == IF pc = "save_award" THEN 0 ELSE pot

Backed ==
    ~torn => /\ SumOver(Held, Account) + LivePot <= granted
             /\ SumOver(OnceSaved, Account) <= granted

StorageInv == Typed /\ Migrating /\ Durable /\ RefundsBets /\ Backed
-----------------------------------------------------------------------------
(* Migrations. *)

(* The accounts are finitely many, and so is every amount of the invariant. *)
LEMMA Amounts ==
  ASSUME Typed, Durable
  PROVE  /\ IsFiniteSet(Account) /\ IsFiniteSet(AtTable) /\ AtTable \subseteq Account
         /\ Account \subseteq Player /\ Dirty \subseteq AtTable
         /\ \A p \in Account : balance[p] \in Nat
         /\ \A p \in AtTable : stack[p] \in Nat /\ Refund[p] \in Nat
         /\ \A p \in Account : Held[p] \in Nat /\ OnceSaved[p] \in Nat
         /\ SumOver(Held, Account) \in Nat /\ SumOver(OnceSaved, Account) \in Nat
         /\ SumOver(Refund, AtTable) \in Nat
         /\ pot \in Nat /\ granted \in Nat
<1>1. /\ Account \subseteq Player /\ AtTable \subseteq Account /\ Dirty \subseteq AtTable
      /\ \A p \in Account : balance[p] \in Nat
      /\ \A p \in AtTable : stack[p] \in Nat
      /\ pot \in Nat /\ granted \in Nat
  BY DEF Typed, TypeOK, Dirty
<1>2. IsFiniteSet(Account) /\ IsFiniteSet(AtTable)
  BY <1>1, PlayerAssumption, FS_Subset
<1>3. \A p \in AtTable : Refund[p] \in Nat
  BY <1>1 DEF Refund, Durable
<1>4. \A p \in Account : Held[p] \in Nat /\ OnceSaved[p] \in Nat
  BY <1>1 DEF Held, OnceSaved
<1>5. SumOver(Held, Account) \in Nat
  BY <1>2, <1>4, SumOverType
<1>6. SumOver(OnceSaved, Account) \in Nat
  BY <1>2, <1>4, SumOverType
<1>7. SumOver(Refund, AtTable) \in Nat
  BY <1>2, <1>3, SumOverType
<1>8. QED BY <1>1, <1>2, <1>3, <1>4, <1>5, <1>6, <1>7

(* The same after a step. *)
LEMMA AmountsPrimed ==
  ASSUME Typed', Durable'
  PROVE  /\ (SumOver(Refund, AtTable) \in Nat)' /\ (SumOver(OnceSaved, Account) \in Nat)'
         /\ (SumOver(Held, Account) \in Nat)'
BY Amounts, PTL

(* A new file, or the file of an older server. *)
LEMMA InitStorage == Init => StorageInv
<1> SUFFICES ASSUME Init PROVE StorageInv
  OBVIOUS
<1>1. PICK S \in SUBSET Player : balance = [p \in S |-> StartingChips]
  <2>1. CASE balance = NoGame
    <3>1. balance = [p \in {} |-> StartingChips]
      BY <2>1 DEF NoGame
    <3>2. QED BY <3>1
  <2>2. QED BY <2>1 DEF Init
<1>2. Account = S /\ IsFiniteSet(S) /\ AtTable = {} /\ StartingChips \in Nat
  BY <1>1, PlayerAssumption, AmountAssumption, FS_Subset DEF Account, AtTable, Init, NoGame
<1>3. Cardinality(S) \in Nat /\ granted = StartingChips * Cardinality(S)
  BY <1>2, FS_CardinalityType DEF Init
<1>4. granted \in Nat /\ granted = Cardinality(S) * StartingChips
  BY <1>2, <1>3
<1>5. TypeOK
  <2>1. {users, updated_at, dealt, torn} \subseteq BOOLEAN
    BY DEF Init
  <2>2. \A p \in Account : balance[p] \in Nat
    BY <1>1, <1>2
  <2>3. schema \in 0..2 /\ version \in 0..2 /\ crashes \in 0..MaxCrashes /\ failures \in 0..MaxFailures
        /\ hands \in 0..MaxHands
    BY AmountAssumption DEF Init
  <2>4. QED BY <1>2, <2>1, <2>2, <2>3 DEF Init, TypeOK, kLatestSchemaVersion
<1>6. Typed
  BY <1>1, <1>2, <1>4, <1>5 DEF Init, Typed, Saving, NoGame
<1>7. Migrating
  BY DEF Init, Migrating, Running, kLatestSchemaVersion
<1>8. Durable
  BY <1>2 DEF Durable, Init
<1>9. SumOver(Refund, AtTable) = 0
  BY <1>2, SumEmpty
<1>10. RefundsBets
  BY DEF Init, RefundsBets
<1>11. SumOver(Held, Account) = granted
  <2>1. \A p \in S : Held[p] = StartingChips
    BY <1>1, <1>2 DEF Held
  <2>2. SumOver(Held, S) = Cardinality(S) * StartingChips
    BY <1>2, <2>1, SumConst
  <2>3. QED BY <1>2, <1>4, <2>2
<1>12. SumOver(OnceSaved, Account) = granted
  <2>1. \A p \in S : OnceSaved[p] = StartingChips
    BY <1>1, <1>2 DEF OnceSaved, Dirty, Init
  <2>2. SumOver(OnceSaved, S) = Cardinality(S) * StartingChips
    BY <1>2, <2>1, SumConst
  <2>3. QED BY <1>2, <1>4, <2>2
<1>13. Backed
  BY <1>4, <1>11, <1>12 DEF Backed, LivePot, Init
<1>14. QED BY <1>6, <1>7, <1>8, <1>10, <1>13 DEF StorageInv

(* Starting the server touches no account and no game. *)
LEMMA SameBooks ==
  ASSUME StorageInv, UNCHANGED <<balance, game, history>>,
         pc # "save_award", pc' # "save_award", pc' # "save_leaver"
  PROVE  Durable' /\ RefundsBets' /\ Backed' /\ Account' = Account /\ AtTable' = AtTable
<1> USE DEF game, history
<1>1. Account' = Account /\ AtTable' = AtTable /\ Dirty' = Dirty
  BY DEF Account, AtTable, Dirty
<1>2. Held' = Held /\ OnceSaved' = OnceSaved /\ Refund' = Refund
  BY <1>1 DEF Held, OnceSaved, Refund
<1>3. LivePot' = LivePot
  BY DEF LivePot
<1>4. Durable'
  BY <1>1 DEF StorageInv, Durable
<1>5. RefundsBets' /\ Backed'
  BY <1>1, <1>2, <1>3 DEF StorageInv, RefundsBets, Backed
<1>6. QED BY <1>1, <1>4, <1>5

(* A start applies the migrations one by one, and records each one after its
   statements; it fails only on a file that is doomed. *)
LEMMA MigrationStep ==
  ASSUME StorageInv, OpenDatabase \/ ApplyMigration \/ RecordVersion
  PROVE  StorageInv'
<1>1. /\ UNCHANGED <<balance, game, history>>
      /\ pc # "save_award" /\ pc' # "save_award" /\ pc' # "save_leaver" /\ ~Saving /\ ~Saving'
  BY DEF OpenDatabase, ApplyMigration, RecordVersion, StartFails, disk, Saving, Loop
<1>2. Durable' /\ RefundsBets' /\ Backed' /\ Account' = Account /\ AtTable' = AtTable
  BY <1>1, SameBooks
<1>3. Typed /\ Migrating /\ TypeOK
  BY DEF StorageInv, Typed
<1>4. TypeOK' /\ Migrating'
  <2>1. CASE OpenDatabase
    BY <1>1, <1>2, <1>3, <2>1 DEF OpenDatabase, disk, game, history, TypeOK, Migrating, Loop, Running,
                                  Doomed, kLatestSchemaVersion
  <2>2. CASE ApplyMigration
    <3>1. schema \in 0..2 /\ version \in 0..2 /\ pc = "apply" /\ version = schema /\ (schema >= 1 => users)
      BY <1>3, <2>2 DEF ApplyMigration, Migrating, TypeOK, kLatestSchemaVersion
    <3>2. CASE version = 0 /\ users' = TRUE /\ pc' = "record" /\ version' = 1 /\ UNCHANGED <<schema, updated_at>>
      <4>1. {users', updated_at', dealt', torn'} \subseteq BOOLEAN
        BY <1>1, <1>3, <3>2, Zenon DEF TypeOK, game, history
      <4>2. Migrating'
        <5>1. users' /\ schema' = 0 /\ version' = 1 /\ pc' = "record"
          BY <3>1, <3>2, Zenon
        <5>2. QED BY <5>1 DEF Migrating, Running, kLatestSchemaVersion
      <4>3. QED BY <1>1, <1>2, <1>3, <3>2, <4>1, <4>2 DEF game, history, TypeOK, kLatestSchemaVersion
    <3>3. CASE version = 1 /\ updated_at' = TRUE /\ pc' = "record" /\ version' = 2 /\ UNCHANGED <<schema, users>>
      <4>1. {users', updated_at', dealt', torn'} \subseteq BOOLEAN
        BY <1>1, <1>3, <3>3, Zenon DEF TypeOK, game, history
      <4>2. Migrating'
        <5>1. schema = 1 /\ users
          BY <3>1, <3>3
        <5>2. updated_at' /\ users' /\ schema' = 1 /\ version' = 2 /\ pc' = "record"
          BY <3>3, <5>1, Zenon
        <5>3. QED BY <5>2 DEF Migrating, Running, kLatestSchemaVersion
      <4>3. QED BY <1>1, <1>2, <1>3, <3>3, <4>1, <4>2 DEF game, history, TypeOK, kLatestSchemaVersion
    <3>4. CASE version = 1 /\ ~AlterAllowed /\ StartFails
      <4>1. schema = 1 /\ (updated_at \/ Account # {})
        BY <3>1, <3>4 DEF AlterAllowed
      <4>2. UNCHANGED <<schema, users, updated_at, version>> /\ pc' = "failed"
        BY <3>4 DEF StartFails, disk
      <4>3. QED BY <1>1, <1>2, <1>3, <4>1, <4>2
                DEF game, history, TypeOK, Migrating, Running, Doomed, kLatestSchemaVersion
    <3>5. QED BY <2>2, <3>2, <3>3, <3>4 DEF ApplyMigration
  <2>3. CASE RecordVersion
    BY <1>1, <1>2, <1>3, <2>3 DEF RecordVersion, write_schema_version, disk, game, history, TypeOK, Migrating,
                                  Loop, Running, Doomed, kLatestSchemaVersion
  <2>4. QED BY <2>1, <2>2, <2>3
<1>5. Typed'
  BY <1>1, <1>2, <1>3, <1>4 DEF Typed, game, history
<1>6. QED BY <1>2, <1>4, <1>5 DEF StorageInv
-----------------------------------------------------------------------------
(* Accounts and games. *)

(* Serving changes no schema. *)
LEMMA SchemaKept ==
  ASSUME StorageInv, Running, UNCHANGED <<schema, users, updated_at>>,
         pc' \notin {"apply", "record", "failed"}
  PROVE  Migrating'
BY DEF StorageInv, Migrating, Running

(* The types follow from the types of what a step assigns. *)
LEMMA TypedKept ==
  ASSUME Typed, UNCHANGED <<schema, users, updated_at>>, version' \in {version, 0},
         pc' \in {"down", "serving", "save_hand", "save_award", "save_leaver"},
         Account' \subseteq Player, balance' \in [Account' -> Nat], granted' \in Nat,
         AtTable' \subseteq Account', stack' \in [AtTable' -> Nat], pot' \in Nat,
         unsaved' \subseteq AtTable', leaver' \subseteq AtTable', stale' \subseteq AtTable',
         dealt' \in BOOLEAN, torn' \in BOOLEAN, ~Saving' => unsaved' = {},
         crashes' \in 0..MaxCrashes, failures' \in 0..MaxFailures, hands' \in 0..MaxHands
  PROVE  Typed'
<1>1. {users', updated_at', dealt', torn'} \subseteq BOOLEAN
  BY DEF Typed, TypeOK
<1>2. schema' \in 0..kLatestSchemaVersion /\ version' \in 0..kLatestSchemaVersion
  BY DEF Typed, TypeOK, kLatestSchemaVersion
<1>3. /\ \A p \in Account' : balance'[p] \in Nat
      /\ \A p \in AtTable' : stack'[p] \in Nat
  OBVIOUS
<1>4. TypeOK'
  BY <1>1, <1>2, <1>3 DEF TypeOK
<1>5. QED BY <1>4 DEF Typed

(* create_user grants the starting chips, and nothing else. *)
LEMMA CreateUserStep == ASSUME NEW p \in Player PROVE StorageInv /\ CreateUser(p) => StorageInv'
<1> SUFFICES ASSUME StorageInv, CreateUser(p) PROVE StorageInv'
  OBVIOUS
<1>1. /\ pc = "serving" /\ pc' = "serving" /\ p \notin Account
      /\ balance' = [q \in Account \cup {p} |-> IF q = p THEN StartingChips ELSE balance[q]]
      /\ granted' = granted + StartingChips
      /\ UNCHANGED <<schema, users, updated_at, version, stack, pot, unsaved, leaver, dealt, hands,
                     stale, torn, crashes, failures>>
  BY DEF CreateUser, game
<1>2. Typed /\ Durable /\ StartingChips \in Nat /\ TypeOK
  BY AmountAssumption DEF StorageInv, Typed
<1>3. /\ IsFiniteSet(Account) /\ AtTable \subseteq Account /\ Dirty \subseteq AtTable /\ Account \subseteq Player
      /\ \A q \in Account : balance[q] \in Nat /\ Held[q] \in Nat /\ OnceSaved[q] \in Nat
      /\ SumOver(Held, Account) \in Nat /\ SumOver(OnceSaved, Account) \in Nat
      /\ pot \in Nat /\ granted \in Nat
  BY <1>2, Amounts
<1>4. /\ Account' = Account \cup {p} /\ AtTable' = AtTable /\ Dirty' = Dirty
      /\ balance'[p] = StartingChips /\ \A q \in Account : balance'[q] = balance[q]
  BY <1>1 DEF Account, AtTable, Dirty
<1>5. Typed'
  <2>1. balance' \in [Account' -> Nat]
    BY <1>1, <1>2, <1>3, <1>4
  <2>2. granted' \in Nat /\ Account' \subseteq Player /\ AtTable' \subseteq Account'
    BY <1>1, <1>2, <1>3, <1>4
  <2>3. QED BY <1>1, <1>2, <1>4, <2>1, <2>2, TypedKept DEF Typed, TypeOK, Saving
<1>6. Migrating'
  BY <1>1, SchemaKept DEF Running
<1>7. Durable' /\ Refund' = Refund
  <2>1. \A q \in AtTable : balance'[q] = balance[q]
    BY <1>3, <1>4
  <2>2. Durable'
    BY <1>1, <1>2, <1>4, <2>1 DEF Durable
  <2>3. Refund' = [q \in AtTable |-> IF q \in Dirty THEN 0 ELSE balance'[q] - stack[q]]
    BY <1>1, <1>4 DEF Refund
  <2>4. Refund' = [q \in AtTable |-> IF q \in Dirty THEN 0 ELSE balance[q] - stack[q]]
    BY <2>1, <2>3
  <2>5. QED BY <2>2, <2>4 DEF Refund
<1>8. RefundsBets'
  BY <1>1, <1>4, <1>7 DEF StorageInv, RefundsBets
<1>9. Backed'
  <2>1. \A q \in Account : Held'[q] = Held[q] /\ OnceSaved'[q] = OnceSaved[q]
    BY <1>1, <1>4 DEF Held, OnceSaved
  <2>2. Held'[p] = StartingChips /\ OnceSaved'[p] = StartingChips
    BY <1>1, <1>3, <1>4 DEF Held, OnceSaved
  <2>3. SumOver(Held', Account \cup {p}) = SumOver(Held, Account) + StartingChips
    <3>1. SumOver(Held', Account \cup {p}) = SumOver(Held, Account) + Held'[p]
      BY <1>1, <1>2, <1>3, <2>1, <2>2, SumJoin
    <3>2. QED BY <2>2, <3>1
  <2>4. SumOver(OnceSaved', Account \cup {p}) = SumOver(OnceSaved, Account) + StartingChips
    <3>1. OnceSaved'[p] \in Nat /\ \A q \in Account : OnceSaved[q] \in Nat /\ OnceSaved'[q] = OnceSaved[q]
      BY <1>2, <1>3, <2>1, <2>2
    <3>2. SumOver(OnceSaved', Account \cup {p}) = SumOver(OnceSaved, Account) + OnceSaved'[p]
      BY <1>1, <1>3, <3>1, SumJoin
    <3>3. QED BY <2>2, <3>2
  <2>5. LivePot' = LivePot /\ LivePot = pot
    BY <1>1 DEF LivePot
  <2>6. ASSUME ~torn
        PROVE  /\ SumOver(Held', Account \cup {p}) + LivePot' <= granted'
               /\ SumOver(OnceSaved', Account \cup {p}) <= granted'
    <3>1. SumOver(Held, Account) + LivePot <= granted /\ SumOver(OnceSaved, Account) <= granted
      BY <2>6 DEF StorageInv, Backed
    <3>2. QED BY <1>1, <1>2, <1>3, <2>3, <2>4, <2>5, <3>1
  <2>7. QED BY <1>1, <1>4, <2>6 DEF Backed
<1>10. QED BY <1>5, <1>6, <1>7, <1>8, <1>9 DEF StorageInv

(* A bet moves chips from a stack to the pot; the rows stay behind. *)
LEMMA BetStep == ASSUME NEW p, NEW amount PROVE StorageInv /\ Bet(p, amount) => StorageInv'
<1> SUFFICES ASSUME StorageInv, Bet(p, amount) PROVE StorageInv'
  OBVIOUS
<1>1. /\ pc = "serving" /\ pc' = "serving" /\ p \in AtTable /\ amount \in 1..stack[p]
      /\ stack' = [stack EXCEPT ![p] = stack[p] - amount]
      /\ pot' = pot + amount
      /\ UNCHANGED <<schema, users, updated_at, balance, version, unsaved, leaver, dealt, hands,
                     granted, stale, torn, crashes, failures>>
  BY DEF Bet, disk, history
<1>2. Typed /\ Durable
  BY DEF StorageInv
<1>3. /\ IsFiniteSet(Account) /\ IsFiniteSet(AtTable) /\ AtTable \subseteq Account /\ Dirty \subseteq AtTable
      /\ \A q \in Account : balance[q] \in Nat /\ Held[q] \in Nat /\ OnceSaved[q] \in Nat
      /\ \A q \in AtTable : stack[q] \in Nat /\ Refund[q] \in Nat
      /\ SumOver(Held, Account) \in Nat /\ SumOver(OnceSaved, Account) \in Nat /\ SumOver(Refund, AtTable) \in Nat
      /\ pot \in Nat /\ granted \in Nat
  BY <1>2, Amounts
<1>4. /\ stack \in [AtTable -> Nat] /\ amount \in Nat /\ amount <= stack[p]
  BY <1>1, <1>2, <1>3 DEF Typed
<1>5. /\ stack' \in [AtTable -> Nat] /\ stack'[p] = stack[p] - amount
      /\ \A q \in AtTable : q # p => stack'[q] = stack[q]
  BY <1>1, <1>3, <1>4
<1>6. Account' = Account /\ AtTable' = AtTable /\ Dirty' = Dirty
  BY <1>1, <1>5 DEF Account, AtTable, Dirty
<1>7. Typed'
  <2>1. pot' \in Nat
    BY <1>1, <1>3, <1>4
  <2>2. QED BY <1>1, <1>2, <1>5, <1>6, <2>1, TypedKept DEF Typed, TypeOK, Saving
<1>8. Migrating'
  BY <1>1, SchemaKept DEF Running
<1>9. \A q \in AtTable \ Dirty : balance[q] >= stack[q] /\ balance[q] >= stack'[q]
  BY <1>2, <1>3, <1>4, <1>5 DEF Durable
<1>10. Durable'
  BY <1>1, <1>6, <1>9 DEF Durable
<1>11. RefundsBets'
  <2>1. /\ \A q \in AtTable : Refund'[q] \in Nat /\ (q # p => Refund'[q] = Refund[q])
        /\ Refund'[p] <= Refund[p] + amount
    <3>1. ASSUME NEW q \in AtTable PROVE Refund'[q] \in Nat /\ (q # p => Refund'[q] = Refund[q])
      <4>1. Refund'[q] = IF q \in Dirty THEN 0 ELSE balance[q] - stack'[q]
        BY <1>1, <1>6 DEF Refund
      <4>2. q \notin Dirty => balance[q] - stack'[q] \in Nat
        BY <1>3, <1>5, <1>9
      <4>3. QED BY <1>5, <4>1, <4>2 DEF Refund
    <3>2. Refund'[p] <= Refund[p] + amount
      <4>1. Refund'[p] = IF p \in Dirty THEN 0 ELSE balance[p] - stack'[p]
        BY <1>1, <1>6 DEF Refund
      <4>2. Refund[p] = IF p \in Dirty THEN 0 ELSE balance[p] - stack[p]
        BY <1>1 DEF Refund
      <4>3. p \in Account
        BY <1>1, <1>3
      <4>4. QED BY <1>1, <1>3, <1>4, <1>5, <4>1, <4>2, <4>3
    <3>3. QED BY <3>1, <3>2
  <2>2. SumOver(Refund', AtTable) + Refund[p] = SumOver(Refund, AtTable) + Refund'[p]
    BY <1>1, <1>3, <2>1, SumUpdate
  <2>3. SumOver(Refund', AtTable) \in Nat
    BY <1>3, <2>1, SumOverType
  <2>4. dealt => SumOver(Refund', AtTable) <= pot'
    <3>1. dealt => SumOver(Refund, AtTable) <= pot
      BY DEF StorageInv, RefundsBets
    <3>2. QED BY <1>1, <1>3, <1>4, <2>1, <2>2, <2>3, <3>1
  <2>5. QED BY <1>1, <1>6, <2>4 DEF RefundsBets
<1>12. Backed'
  <2>1. /\ \A q \in Account : Held'[q] \in Nat /\ (q # p => Held'[q] = Held[q])
        /\ Held'[p] = Held[p] - amount
    BY <1>1, <1>3, <1>4, <1>5, <1>6 DEF Held
  <2>2. SumOver(Held', Account) + Held[p] = SumOver(Held, Account) + Held'[p]
    BY <1>1, <1>3, <2>1, SumUpdate
  <2>3. \A q \in Account : OnceSaved'[q] \in Nat /\ OnceSaved'[q] <= OnceSaved[q]
    <3>1. ASSUME NEW q \in Account PROVE OnceSaved'[q] \in Nat /\ OnceSaved'[q] <= OnceSaved[q]
      <4>1. OnceSaved'[q] = IF q \in Dirty THEN stack'[q] ELSE balance[q]
        BY <1>1, <1>6 DEF OnceSaved
      <4>2. OnceSaved[q] = IF q \in Dirty THEN stack[q] ELSE balance[q]
        BY DEF OnceSaved
      <4>3. q \in Dirty => stack'[q] \in Nat /\ stack'[q] <= stack[q]
        BY <1>3, <1>4, <1>5
      <4>4. QED BY <1>3, <4>1, <4>2, <4>3
    <3>2. QED BY <3>1
  <2>4. SumOver(OnceSaved', Account) <= SumOver(OnceSaved, Account) /\ SumOver(OnceSaved', Account) \in Nat
    BY <1>3, <2>3, SumMono, SumOverType
  <2>5. SumOver(Held', Account) \in Nat
    BY <1>3, <2>1, SumOverType
  <2>6. LivePot' = pot' /\ LivePot = pot
    BY <1>1 DEF LivePot
  <2>7. ASSUME ~torn
        PROVE  SumOver(Held', Account) + LivePot' <= granted /\ SumOver(OnceSaved', Account) <= granted
    <3>1. SumOver(Held, Account) + LivePot <= granted /\ SumOver(OnceSaved, Account) <= granted
      BY <2>7 DEF StorageInv, Backed
    <3>2. Held[p] \in Nat /\ Held'[p] \in Nat
      BY <1>1, <1>3, <2>1
    <3>3. QED BY <1>1, <1>3, <1>4, <2>1, <2>2, <2>4, <2>5, <2>6, <3>1, <3>2
  <2>8. QED BY <1>1, <1>6, <2>7 DEF Backed
<1>13. QED BY <1>7, <1>8, <1>10, <1>11, <1>12 DEF StorageInv

(* Asking for the row of a player to be written again changes no amount for
   the worse: the row covered the stack. *)
LEMMA MoreToSave ==
  ASSUME StorageInv, UNCHANGED <<balance, stack, granted, stale, torn, dealt>>,
         unsaved = {}, unsaved' \subseteq AtTable
  PROVE  /\ Account' = Account /\ AtTable' = AtTable /\ Dirty' = unsaved' \cup stale
         /\ \A p \in AtTable \ Dirty' : balance[p] >= stack[p]
         /\ SumOver(Refund', AtTable) <= SumOver(Refund, AtTable)
         /\ SumOver(Held', Account) = SumOver(Held, Account)
         /\ SumOver(OnceSaved', Account) <= SumOver(OnceSaved, Account)
<1>1. /\ Account' = Account /\ AtTable' = AtTable /\ Dirty' = unsaved' \cup stale /\ Dirty = stale
      /\ Typed /\ Durable
  BY DEF Account, AtTable, Dirty, StorageInv
<1>2. /\ IsFiniteSet(Account) /\ IsFiniteSet(AtTable) /\ AtTable \subseteq Account /\ Dirty \subseteq AtTable
      /\ \A q \in Account : balance[q] \in Nat /\ Held[q] \in Nat /\ OnceSaved[q] \in Nat
      /\ \A q \in AtTable : stack[q] \in Nat /\ Refund[q] \in Nat
  BY <1>1, Amounts
<1>3. \A p \in AtTable \ Dirty : balance[p] >= stack[p]
  BY <1>1 DEF Durable
<1>4. \A p \in AtTable \ Dirty' : balance[p] >= stack[p]
  BY <1>1, <1>3
<1>5. \A q \in AtTable : Refund'[q] \in Nat /\ Refund'[q] <= Refund[q]
  <2>1. ASSUME NEW q \in AtTable PROVE Refund'[q] \in Nat /\ Refund'[q] <= Refund[q]
    <3>1. Refund'[q] = IF q \in Dirty' THEN 0 ELSE balance[q] - stack[q]
      BY <1>1 DEF Refund
    <3>2. Refund[q] = IF q \in Dirty THEN 0 ELSE balance[q] - stack[q]
      BY DEF Refund
    <3>3. q \in Dirty => q \in Dirty'
      BY <1>1
    <3>4. QED BY <1>2, <3>1, <3>2, <3>3
  <2>2. QED BY <2>1
<1>6. SumOver(Refund', AtTable) <= SumOver(Refund, AtTable)
  BY <1>2, <1>5, SumMono
<1>7. SumOver(Held', Account) = SumOver(Held, Account)
  <2>1. \A q \in Account : Held'[q] = Held[q]
    BY <1>1 DEF Held
  <2>2. QED BY <2>1, SumCong
<1>8. \A q \in Account : OnceSaved'[q] \in Nat /\ OnceSaved'[q] <= OnceSaved[q]
  <2>1. ASSUME NEW q \in Account PROVE OnceSaved'[q] \in Nat /\ OnceSaved'[q] <= OnceSaved[q]
    <3>1. OnceSaved'[q] = IF q \in Dirty' THEN stack[q] ELSE balance[q]
      BY <1>1 DEF OnceSaved
    <3>2. OnceSaved[q] = IF q \in Dirty THEN stack[q] ELSE balance[q]
      BY DEF OnceSaved
    <3>3. q \in Dirty => q \in Dirty'
      BY <1>1
    <3>4. q \in Dirty' /\ q \notin Dirty => stack[q] \in Nat /\ stack[q] <= balance[q]
      BY <1>1, <1>2, <1>3
    <3>5. QED BY <1>2, <3>1, <3>2, <3>3, <3>4
  <2>2. QED BY <2>1
<1>9. SumOver(OnceSaved', Account) <= SumOver(OnceSaved, Account)
  BY <1>2, <1>8, SumMono
<1>10. QED BY <1>1, <1>4, <1>6, <1>7, <1>9

(* award_all_pots pays out no more than the pot, and asks for everybody's row
   to be written when it pays anything. *)
LEMMA AwardStep ==
  ASSUME StorageInv, pc = "serving", NEW p \in AtTable, NEW paid \in Claimed, Award(p, paid),
         leaver' \subseteq AtTable
  PROVE  StorageInv'
<1>1. /\ stack' = [stack EXCEPT ![p] = stack[p] + paid]
      /\ unsaved' = (IF paid > 0 THEN AtTable ELSE {})
      /\ dealt' = FALSE /\ pc' = "save_award"
      /\ UNCHANGED <<schema, users, updated_at, balance, version, pot, hands,
                     granted, stale, torn, crashes, failures>>
  BY DEF Award, SavedByAward, disk, history
<1>2. Typed /\ Durable /\ unsaved = {}
  BY DEF StorageInv, Typed, Saving
<1>3. /\ IsFiniteSet(Account) /\ IsFiniteSet(AtTable) /\ AtTable \subseteq Account /\ Dirty \subseteq AtTable
      /\ \A q \in Account : balance[q] \in Nat /\ Held[q] \in Nat /\ OnceSaved[q] \in Nat
      /\ \A q \in AtTable : stack[q] \in Nat
      /\ SumOver(Held, Account) \in Nat /\ SumOver(OnceSaved, Account) \in Nat
      /\ pot \in Nat /\ granted \in Nat
  BY <1>2, Amounts
<1>4. paid \in Nat /\ paid <= pot /\ stack \in [AtTable -> Nat]
  BY <1>2, <1>3 DEF Claimed, Typed
<1>5. /\ stack' \in [AtTable -> Nat] /\ stack'[p] = stack[p] + paid
      /\ \A q \in AtTable : q # p => stack'[q] = stack[q]
  BY <1>1, <1>3, <1>4
<1>6. /\ Account' = Account /\ AtTable' = AtTable
      /\ Dirty' = unsaved' \cup stale /\ Dirty = stale
  BY <1>1, <1>2, <1>5 DEF Account, AtTable, Dirty
<1>7. Typed'
  BY <1>1, <1>2, <1>5, <1>6, TypedKept DEF Typed, TypeOK, Saving
<1>8. Migrating'
  BY <1>1, SchemaKept DEF Running
<1>9. RefundsBets'
  BY <1>1 DEF RefundsBets
<1>10. paid = 0 => stack' = stack /\ Dirty' = Dirty
  BY <1>1, <1>3, <1>4, <1>5, <1>6
<1>11. paid # 0 => Dirty' = AtTable
  BY <1>1, <1>3, <1>4, <1>6
<1>12. Durable'
  <2>1. CASE paid = 0
    BY <1>1, <1>2, <1>6, <1>10, <2>1 DEF Durable
  <2>2. CASE paid # 0
    BY <1>1, <1>6, <1>11, <2>2 DEF Durable
  <2>3. QED BY <2>1, <2>2
<1>13. /\ \A q \in Account : Held'[q] \in Nat /\ (q # p => Held'[q] = Held[q])
       /\ Held'[p] = Held[p] + paid
  BY <1>1, <1>3, <1>4, <1>5, <1>6 DEF Held
<1>14. SumOver(Held', Account) = SumOver(Held, Account) + paid /\ SumOver(Held', Account) \in Nat
  <2>1. p \in Account /\ Held[p] \in Nat
    BY <1>3
  <2>2. SumOver(Held', Account) + Held[p] = SumOver(Held, Account) + Held'[p]
    BY <1>3, <1>13, <2>1, SumUpdate
  <2>3. SumOver(Held', Account) \in Nat
    BY <1>3, <1>13, SumOverType
  <2> DEFINE before == SumOver(Held, Account)
             after == SumOver(Held', Account)
             had == Held[p]
             has == Held'[p]
  <2>4. before \in Nat /\ after \in Nat /\ had \in Nat /\ paid \in Nat /\ has = had + paid
        /\ after + had = before + has
    BY <1>3, <1>4, <1>13, <2>1, <2>2, <2>3
  <2>5. after = before + paid
    <3> HIDE DEF before, after, had, has
    <3>1. QED BY <2>4
  <2>6. QED BY <2>3, <2>5
<1>15. SumOver(OnceSaved', Account) = IF paid = 0 THEN SumOver(OnceSaved, Account) ELSE SumOver(Held', Account)
  <2>1. CASE paid = 0
    <3>1. \A q \in Account : OnceSaved'[q] = OnceSaved[q]
      BY <1>1, <1>6, <1>10, <2>1 DEF OnceSaved
    <3>2. QED BY <2>1, <3>1, SumCong
  <2>2. CASE paid # 0
    <3>1. \A q \in Account : OnceSaved'[q] = Held'[q]
      BY <1>1, <1>6, <1>11, <2>2 DEF OnceSaved, Held
    <3>2. QED BY <2>2, <3>1, SumCong
  <2>3. QED BY <2>1, <2>2
<1>16. Backed'
  <2>1. LivePot' = 0 /\ LivePot = pot
    BY <1>1 DEF LivePot
  <2>2. ASSUME ~torn
        PROVE  SumOver(Held', Account) + LivePot' <= granted /\ SumOver(OnceSaved', Account) <= granted
    <3>1. SumOver(Held, Account) + LivePot <= granted /\ SumOver(OnceSaved, Account) <= granted
      BY <2>2 DEF StorageInv, Backed
    <3>2. QED BY <1>3, <1>4, <1>14, <1>15, <2>1, <3>1
  <2>3. QED BY <1>1, <1>6, <2>2 DEF Backed
<1>17. QED BY <1>7, <1>8, <1>9, <1>12, <1>16 DEF StorageInv

(* remove_player: the pot is awarded first, or the leaver's row is written. *)
LEMMA RemovePlayerStep == ASSUME NEW p PROVE StorageInv /\ RemovePlayer(p) => StorageInv'
<1> SUFFICES ASSUME StorageInv, RemovePlayer(p) PROVE StorageInv'
  OBVIOUS
<1>1. pc = "serving" /\ p \in AtTable /\ leaver' = {p}
  BY DEF RemovePlayer
<1>2. ASSUME NEW q \in AtTable \ {p}, NEW paid \in Claimed, Award(q, paid) PROVE StorageInv'
  BY <1>1, <1>2, AwardStep
<1>3. CASE /\ unsaved' = {p} /\ pc' = "save_leaver"
           /\ UNCHANGED <<disk, version, stack, pot, dealt, hands, history>>
  <2>1. /\ UNCHANGED <<schema, users, updated_at, balance, version, stack, pot, dealt, hands,
                       granted, stale, torn, crashes, failures>>
    BY <1>3 DEF disk, history
  <2>2. Typed /\ Durable /\ unsaved = {} /\ unsaved' \subseteq AtTable
    BY <1>1, <1>3 DEF StorageInv, Typed, Saving
  <2>3. /\ Account' = Account /\ AtTable' = AtTable /\ Dirty' = {p} \cup stale
        /\ \A q \in AtTable \ Dirty' : balance[q] >= stack[q]
        /\ SumOver(Refund', AtTable) <= SumOver(Refund, AtTable)
        /\ SumOver(Held', Account) = SumOver(Held, Account)
        /\ SumOver(OnceSaved', Account) <= SumOver(OnceSaved, Account)
    BY <1>3, <2>1, <2>2, MoreToSave
  <2>4. Typed'
    BY <1>1, <1>3, <2>1, <2>2, <2>3, TypedKept DEF Typed, TypeOK, Saving
  <2>5. Migrating'
    BY <1>1, <1>3, <2>1, SchemaKept DEF Running
  <2>6. Durable'
    BY <1>1, <2>1, <2>3 DEF Durable
  <2>7. /\ SumOver(Refund, AtTable) \in Nat /\ SumOver(Refund', AtTable) \in Nat /\ pot \in Nat
        /\ SumOver(OnceSaved, Account) \in Nat /\ SumOver(OnceSaved', Account) \in Nat /\ granted \in Nat
    <3>1. /\ SumOver(Refund, AtTable) \in Nat /\ pot \in Nat
          /\ SumOver(OnceSaved, Account) \in Nat /\ granted \in Nat
      BY <2>2, Amounts
    <3>2. (SumOver(Refund, AtTable) \in Nat)' /\ (SumOver(OnceSaved, Account) \in Nat)'
      BY <2>4, <2>6, AmountsPrimed
    <3>3. QED BY <2>3, <3>1, <3>2
  <2>8. RefundsBets'
    <3>1. dealt => SumOver(Refund, AtTable) <= pot
      BY DEF StorageInv, RefundsBets
    <3>2. dealt => SumOver(Refund', AtTable) <= pot
      BY <2>3, <2>7, <3>1
    <3>3. QED BY <1>3, <2>1, <2>3, <3>2 DEF RefundsBets
  <2>9. Backed'
    <3>1. LivePot' = LivePot
      BY <1>1, <1>3, <2>1 DEF LivePot
    <3>2. ~torn => SumOver(Held, Account) + LivePot <= granted /\ SumOver(OnceSaved, Account) <= granted
      BY DEF StorageInv, Backed
    <3>3. ~torn => SumOver(OnceSaved', Account) <= granted
      BY <2>3, <2>7, <3>2
    <3>4. QED BY <2>1, <2>3, <3>1, <3>2, <3>3 DEF Backed
  <2>10. QED BY <2>4, <2>5, <2>6, <2>8, <2>9 DEF StorageInv
<1>4. QED BY <1>2, <1>3 DEF RemovePlayer

(* The end of a hand awards the pot. *)
LEMMA HandEndsStep == ASSUME NEW p, NEW paid PROVE StorageInv /\ HandEnds(p, paid) => StorageInv'
<1> SUFFICES ASSUME StorageInv, HandEnds(p, paid) PROVE StorageInv'
  OBVIOUS
<1>1. pc = "serving" /\ p \in AtTable /\ paid \in Claimed /\ Award(p, paid) /\ leaver' \subseteq AtTable
  BY DEF HandEnds, StorageInv, Typed, TypeOK
<1>2. QED BY <1>1, AwardStep

(* Writing one row, or failing to: what would be on disk once every pending
   save is made stays the same. *)
LEMMA SavePlayerStep == StorageInv /\ SavePlayer => StorageInv'
<1> SUFFICES ASSUME StorageInv, SavePlayer PROVE StorageInv'
  OBVIOUS
<1>1. PICK p \in unsaved :
        /\ unsaved' = unsaved \ {p}
        /\ \/ /\ balance' = [balance EXCEPT ![p] = stack[p]]
              /\ stale' = stale \ {p}
              /\ UNCHANGED failures
           \/ /\ failures < MaxFailures
              /\ failures' = failures + 1
              /\ stale' = stale \cup {p}
              /\ UNCHANGED balance
  BY DEF SavePlayer
<1>2. /\ UNCHANGED <<schema, users, updated_at, pc, version, stack, pot, leaver, dealt, hands,
                     granted, torn, crashes>> /\ Saving /\ Saving'
  BY DEF SavePlayer, Saving
<1>3. Typed /\ Durable /\ Running
  BY <1>2 DEF StorageInv, Saving, Running
<1>4. /\ IsFiniteSet(Account) /\ IsFiniteSet(AtTable) /\ AtTable \subseteq Account /\ Dirty \subseteq AtTable
      /\ \A q \in Account : balance[q] \in Nat
      /\ \A q \in AtTable : stack[q] \in Nat
      /\ p \in AtTable /\ p \in Dirty
  BY <1>1, <1>3, Amounts DEF Typed, Dirty
<1>5. /\ balance' \in [Account -> Nat] /\ Account' = Account /\ AtTable' = AtTable
      /\ \A q \in Account : (q # p => balance'[q] = balance[q])
      /\ \/ (balance'[p] = stack[p] /\ Dirty' = Dirty \ {p})
         \/ (balance'[p] = balance[p] /\ Dirty' = Dirty)
  <2>1. CASE balance' = [balance EXCEPT ![p] = stack[p]] /\ stale' = stale \ {p}
    BY <1>1, <1>2, <1>3, <1>4, <2>1 DEF Typed, Account, AtTable, Dirty
  <2>2. CASE UNCHANGED balance /\ stale' = stale \cup {p}
    BY <1>1, <1>2, <1>3, <1>4, <2>2 DEF Typed, Account, AtTable, Dirty
  <2>3. QED BY <1>1, <2>1, <2>2
<1>6. Typed'
  <2>1. failures' \in 0..MaxFailures
    BY <1>1, <1>3, AmountAssumption DEF Typed, TypeOK
  <2>2. stale' \subseteq AtTable /\ unsaved' \subseteq AtTable
    BY <1>1, <1>3, <1>4 DEF Typed, TypeOK
  <2>3. pc' \in {"save_hand", "save_award", "save_leaver"}
    BY <1>2 DEF Saving
  <2>4. QED BY <1>2, <1>3, <1>5, <2>1, <2>2, <2>3, TypedKept DEF Typed, TypeOK
<1>7. Migrating'
  <2>1. pc' \notin {"apply", "record", "failed"}
    BY <1>2 DEF Saving
  <2>2. QED BY <1>2, <1>3, <2>1, SchemaKept
<1>8. ASSUME NEW q \in AtTable, q \notin Dirty'
      PROVE  (balance'[q] = balance[q] /\ q \notin Dirty) \/ (balance'[q] = stack[q] /\ q \in Dirty)
  BY <1>4, <1>5, <1>8
<1>9. Durable'
  <2>1. \A q \in AtTable \ Dirty' : balance'[q] >= stack[q]
    BY <1>3, <1>4, <1>8 DEF Durable
  <2>2. leaver \subseteq AtTable
    BY <1>3 DEF Typed, TypeOK
  <2>3. pc = "save_leaver" => \A q \in leaver \ Dirty' : balance'[q] = stack[q]
    BY <1>3, <1>8, <2>2 DEF Durable
  <2>4. QED BY <1>2, <1>5, <2>1, <2>3 DEF Durable
<1>10. SumOver(Refund', AtTable) = SumOver(Refund, AtTable)
  <2>1. ASSUME NEW q \in AtTable PROVE Refund'[q] = Refund[q]
    <3>1. Refund'[q] = IF q \in Dirty' THEN 0 ELSE balance'[q] - stack[q]
      BY <1>2, <1>5 DEF Refund
    <3>2. Refund[q] = IF q \in Dirty THEN 0 ELSE balance[q] - stack[q]
      BY DEF Refund
    <3>3. q \in Dirty' => q \in Dirty
      BY <1>5
    <3>4. QED BY <1>4, <1>8, <3>1, <3>2, <3>3
  <2>2. QED BY <2>1, SumCong
<1>11. SumOver(Held', Account) = SumOver(Held, Account)
  <2>1. \A q \in Account : Held'[q] = Held[q]
    BY <1>2, <1>4, <1>5 DEF Held
  <2>2. QED BY <2>1, SumCong
<1>12. SumOver(OnceSaved', Account) = SumOver(OnceSaved, Account)
  <2>1. ASSUME NEW q \in Account PROVE OnceSaved'[q] = OnceSaved[q]
    <3>1. OnceSaved'[q] = IF q \in Dirty' THEN stack[q] ELSE balance'[q]
      BY <1>2, <1>5 DEF OnceSaved
    <3>2. OnceSaved[q] = IF q \in Dirty THEN stack[q] ELSE balance[q]
      BY DEF OnceSaved
    <3>3. QED BY <1>4, <1>5, <3>1, <3>2
  <2>2. QED BY <2>1, SumCong
<1>13. RefundsBets' /\ Backed'
  <2>1. LivePot' = LivePot
    BY <1>2 DEF LivePot
  <2>2. QED BY <1>2, <1>5, <1>10, <1>11, <1>12, <2>1 DEF StorageInv, RefundsBets, Backed
<1>14. QED BY <1>6, <1>7, <1>9, <1>13 DEF StorageInv

(* The blinds are saved: the server waits. *)
LEMMA HandSavedStep == StorageInv /\ HandSaved => StorageInv'
<1> SUFFICES ASSUME StorageInv, HandSaved PROVE StorageInv'
  OBVIOUS
<1>1. /\ pc = "save_hand" /\ pc' = "serving" /\ unsaved = {} /\ UNCHANGED <<disk, version, game, history>>
  BY DEF HandSaved
<1>2. Durable' /\ RefundsBets' /\ Backed' /\ Account' = Account /\ AtTable' = AtTable
  BY <1>1, SameBooks DEF disk
<1>3. Migrating'
  BY <1>1, SchemaKept DEF Running, disk
<1>4. Typed'
  BY <1>1, <1>2, TypedKept DEF StorageInv, Typed, TypeOK, disk, game, history
<1>5. QED BY <1>2, <1>3, <1>4 DEF StorageInv

(* Posting the blinds of a hand takes no stack below zero. *)
LEMMA StartHandAmounts ==
  ASSUME NEW D, IsFiniteSet(D), NEW s \in [D -> Nat], StartHand(s), hands \in Nat
  PROVE  /\ stack' \in [D -> Nat] /\ AtTable' = D /\ pot' \in Nat
         /\ SumOver(stack', D) + pot' = SumOver(s, D) /\ SumOver(stack', D) \in Nat
         /\ unsaved' = D /\ dealt' = TRUE /\ pc' = "save_hand"
         /\ hands' \in 0..MaxHands
<1>1. PICK sb \in D, bb \in D :
        /\ sb # bb /\ hands < MaxHands /\ hands' = hands + 1
        /\ stack' = Posted(s, sb, bb)
        /\ pot' = SumOver(s, D) - SumOver(stack', D)
        /\ unsaved' = D /\ dealt' = TRUE /\ pc' = "save_hand"
  <2>1. DOMAIN s = D
    OBVIOUS
  <2>2. QED BY <2>1 DEF StartHand
<1>2. /\ DOMAIN stack' = D
      /\ \A p \in D : stack'[p] = s[p] - (IF p = sb THEN MinOf(SmallBlind, s[p])
                                          ELSE IF p = bb THEN MinOf(BigBlind, s[p]) ELSE 0)
  <2>1. DOMAIN s = D
    OBVIOUS
  <2>2. stack' = [p \in D |-> s[p] - (CASE p = sb -> MinOf(SmallBlind, s[p])
                                        [] p = bb -> MinOf(BigBlind, s[p])
                                        [] OTHER -> 0)]
    BY <1>1, <2>1 DEF Posted
  <2>3. QED BY <1>1, <2>2
<1>3. \A p \in D : s[p] \in Nat /\ stack'[p] \in Nat /\ stack'[p] <= s[p]
  BY <1>2, AmountAssumption DEF MinOf
<1>4. SumOver(stack', D) <= SumOver(s, D) /\ SumOver(stack', D) \in Nat /\ SumOver(s, D) \in Nat
  BY <1>3, SumMono, SumOverType
<1>5. stack' \in [D -> Nat]
  <2>1. stack' = [p \in D |-> stack'[p]]
    BY <1>1, <1>2 DEF Posted
  <2>2. QED BY <1>3, <2>1
<1>6. hands' \in 0..MaxHands
  BY <1>1, AmountAssumption
<1>7. AtTable' = D
  BY <1>2 DEF AtTable
<1>8. QED BY <1>1, <1>4, <1>5, <1>6, <1>7

(* A hand that is dealt to players D with the stacks s asks for all their rows
   to be written: nothing is refunded, and the chips are where they were. *)
LEMMA StartHandBooks ==
  ASSUME Typed, NEW D \in SUBSET Account, NEW s \in [D -> Nat], StartHand(s),
         UNCHANGED <<balance, granted>>, stale' \subseteq D,
         NEW h, \A p \in D : h[p] = s[p], \A p \in Account \ D : h[p] = balance[p],
         ~torn' => SumOver(h, Account) <= granted
  PROVE  Durable' /\ RefundsBets' /\ Backed'
<1> DEFINE U == Account \ D
<1>0. D \cup U = Account /\ D \cap U = {} /\ \A p : p \in U <=> p \in Account /\ p \notin D
  OBVIOUS
<1> HIDE DEF U
<1>1. /\ IsFiniteSet(Account) /\ IsFiniteSet(D) /\ hands \in Nat /\ granted \in Nat
      /\ \A p \in Account : balance[p] \in Nat
  <2>1. Account \subseteq Player /\ hands \in Nat /\ granted \in Nat /\ \A p \in Account : balance[p] \in Nat
    BY AmountAssumption DEF Typed, TypeOK
  <2>2. QED BY <2>1, PlayerAssumption, FS_Subset
<1>2. /\ stack' \in [D -> Nat] /\ AtTable' = D /\ pot' \in Nat
      /\ SumOver(stack', D) + pot' = SumOver(s, D) /\ SumOver(stack', D) \in Nat
      /\ unsaved' = D /\ dealt' = TRUE /\ pc' = "save_hand"
  BY <1>1, StartHandAmounts
<1>3. Dirty' = D /\ Account' = Account /\ LivePot' = pot'
  BY <1>2 DEF Dirty, Account, LivePot
<1>4. Durable'
  BY <1>2, <1>3 DEF Durable
<1>5. SumOver(Refund', D) = 0
  <2>1. \A p \in D : Refund'[p] = 0
    BY <1>2, <1>3 DEF Refund
  <2>2. QED BY <1>1, <2>1, SumZero
<1>6. RefundsBets'
  BY <1>2, <1>5 DEF RefundsBets
<1>7. /\ SumOver(h, Account) = SumOver(s, D) + SumOver(balance, U)
      /\ SumOver(s, D) \in Nat /\ SumOver(balance, U) \in Nat
  <2>1. \A p \in D : s[p] \in Nat /\ h[p] = s[p]
    OBVIOUS
  <2>2. \A p \in U : balance[p] \in Nat /\ h[p] = balance[p]
    BY <1>0, <1>1
  <2>3. SumOver(h, D) = SumOver(s, D)
    BY <2>1, SumCong
  <2>4. SumOver(h, U) = SumOver(balance, U)
    BY <2>2, SumCong
  <2>5. IsFiniteSet(U) /\ \A p \in D \cup U : h[p] \in Nat
    BY <1>0, <1>1, <2>1, <2>2, FS_Subset
  <2>6. SumOver(h, D \cup U) = SumOver(h, D) + SumOver(h, U)
    BY <1>0, <1>1, <2>5, SumDisjoint
  <2>7. SumOver(h, D \cup U) = SumOver(h, Account)
    BY <1>0, Zenon
  <2>8. SumOver(h, D) \in Nat /\ SumOver(h, U) \in Nat
    BY <1>1, <2>5, SumOverType
  <2>9. QED BY <2>3, <2>4, <2>6, <2>7, <2>8
<1>8. /\ \A p \in D : Held'[p] = stack'[p] /\ OnceSaved'[p] = stack'[p] /\ stack'[p] \in Nat
      /\ \A p \in U : Held'[p] = balance[p] /\ OnceSaved'[p] = balance[p] /\ balance[p] \in Nat
  BY <1>0, <1>1, <1>2, <1>3 DEF Held, OnceSaved
<1>9. /\ SumOver(Held', Account) = SumOver(stack', D) + SumOver(balance, U)
      /\ SumOver(balance, U) \in Nat
  <2>1. \A p \in D : stack'[p] \in Nat /\ Held'[p] = stack'[p]
    BY <1>8
  <2>2. \A p \in U : balance[p] \in Nat /\ Held'[p] = balance[p]
    BY <1>8
  <2>3. QED BY <1>0, <1>1, <2>1, <2>2, SumChoice
<1>10. SumOver(OnceSaved', Account) = SumOver(Held', Account)
  <2>1. \A p \in Account : OnceSaved'[p] = Held'[p]
    BY <1>0, <1>8
  <2>2. QED BY <2>1, SumCong
<1>11. ~torn' => SumOver(Held', Account) + pot' <= granted /\ SumOver(OnceSaved', Account) <= granted
  BY <1>1, <1>2, <1>7, <1>9, <1>10
<1>12. Backed'
  BY <1>3, <1>11 DEF Backed
<1>13. QED BY <1>4, <1>6, <1>12

(* The types after a hand is dealt. *)
LEMMA StartHandTyped ==
  ASSUME Typed, NEW D \in SUBSET Account, NEW s \in [D -> Nat], StartHand(s),
         UNCHANGED <<disk, version, granted, crashes, failures>>,
         stale' \subseteq D, leaver' \subseteq D, torn' \in BOOLEAN
  PROVE  Typed' /\ (Running /\ StorageInv => Migrating')
<1>1. /\ IsFiniteSet(D) /\ hands \in Nat /\ Account \subseteq Player
  <2>1. Account \subseteq Player /\ hands \in Nat
    BY AmountAssumption DEF Typed, TypeOK
  <2>2. D \subseteq Player
    BY <2>1
  <2>3. QED BY <2>1, <2>2, PlayerAssumption, FS_Subset
<1>2. /\ stack' \in [D -> Nat] /\ AtTable' = D /\ pot' \in Nat
      /\ unsaved' = D /\ dealt' = TRUE /\ pc' = "save_hand" /\ hands' \in 0..MaxHands
  BY <1>1, StartHandAmounts
<1>3. Account' = Account /\ UNCHANGED <<schema, users, updated_at, balance>>
  BY DEF Account, disk
<1>4. Typed'
  BY <1>1, <1>2, <1>3, TypedKept DEF Typed, TypeOK, Saving
<1>5. Running /\ StorageInv => Migrating'
  BY <1>2, <1>3, SchemaKept
<1>6. QED BY <1>4, <1>5

(* Room::start_game deals to the stacks that are on disk. *)
LEMMA StartGameStep == ASSUME NEW S PROVE StorageInv /\ StartGame(S) => StorageInv'
<1> SUFFICES ASSUME StorageInv, StartGame(S) PROVE StorageInv'
  OBVIOUS
<1> DEFINE s == [p \in S |-> balance[p]]
<1>1. /\ pc = "serving" /\ stack = NoGame /\ S \subseteq Account /\ StartHand(s)
      /\ UNCHANGED <<disk, version, leaver, history>>
  BY DEF StartGame
<1>2. Typed /\ Durable /\ Running /\ AtTable = {} /\ leaver = {} /\ stale = {}
  BY <1>1 DEF StorageInv, Typed, TypeOK, Running, AtTable, NoGame
<1>3. UNCHANGED <<balance, granted, crashes, failures, stale, torn>>
  BY <1>1 DEF disk, history
<1>4. \A p \in Account : balance[p] \in Nat
  BY <1>2 DEF Typed, TypeOK
<1>5. s \in [S -> Nat] /\ \A p \in S : s[p] = balance[p]
  BY <1>1, <1>4
<1>6. torn' \in BOOLEAN
  BY <1>2, <1>3 DEF Typed, TypeOK
<1>7. Typed' /\ Migrating'
  <2> HIDE DEF s
  <2>1. stale' \subseteq S /\ leaver' \subseteq S
    BY <1>1, <1>2, <1>3
  <2>2. QED BY <1>1, <1>2, <1>3, <1>5, <1>6, <2>1, StartHandTyped
<1>8. Durable' /\ RefundsBets' /\ Backed'
  <2>1. \A p \in Account : Held[p] = balance[p]
    BY <1>2 DEF Held
  <2>2. ~torn' => SumOver(Held, Account) <= granted
    <3>1. ~torn => SumOver(Held, Account) + pot <= granted
      BY <1>1 DEF StorageInv, Backed, LivePot
    <3>2. SumOver(Held, Account) \in Nat /\ pot \in Nat /\ granted \in Nat
      BY <1>2, Amounts
    <3>3. QED BY <1>3, <3>1, <3>2
  <2>3. (\A p \in S : Held[p] = s[p]) /\ \A p \in Account \ S : Held[p] = balance[p]
    BY <1>1, <1>5, <2>1
  <2> HIDE DEF s
  <2>4. stale' \subseteq S
    BY <1>2, <1>3
  <2>5. QED BY <1>1, <1>2, <1>3, <1>5, <2>2, <2>3, <2>4, StartHandBooks
<1>9. QED BY <1>7, <1>8 DEF StorageInv

(* A game that is dropped, by Room or by a crash, leaves the rows: when none
   was to be written they hold what was granted. *)
LEMMA GameDropped ==
  ASSUME StorageInv, UNCHANGED <<disk, granted, failures, hands>>,
         stack' = NoGame, pot' = 0, unsaved' = {}, leaver' = {}, stale' = {}, dealt' = FALSE,
         pc' \in {"down", "serving"}, version' \in {version, 0}, crashes' \in 0..MaxCrashes,
         Running \/ pc' = "down", torn' \in BOOLEAN, ~torn' => ~torn /\ Dirty = {}
  PROVE  StorageInv'
<1>1. /\ Account' = Account /\ AtTable' = {} /\ Dirty' = {} /\ Typed /\ Durable
      /\ UNCHANGED <<schema, users, updated_at, balance>>
  BY DEF Account, AtTable, NoGame, Dirty, disk, StorageInv
<1>2. Typed'
  <2>1. stack' \in [AtTable' -> Nat]
    BY <1>1 DEF NoGame
  <2>2. QED BY <1>1, <2>1, TypedKept DEF Typed, TypeOK, Saving
<1>3. Migrating'
  <2>1. CASE Running
    BY <1>1, <2>1, SchemaKept
  <2>2. CASE pc' = "down"
    BY <1>1, <2>2 DEF StorageInv, Migrating, Running
  <2>3. QED BY <2>1, <2>2
<1>4. Durable'
  BY <1>1 DEF Durable
<1>5. RefundsBets'
  BY DEF RefundsBets
<1>6. Backed'
  <2>1. /\ \A p \in Account : Held'[p] = balance[p] /\ OnceSaved'[p] = balance[p]
        /\ LivePot' = 0
    BY <1>1 DEF Held, OnceSaved, LivePot
  <2>2. ASSUME ~torn'
        PROVE  SumOver(Held', Account) <= granted /\ SumOver(OnceSaved', Account) <= granted
    <3>1. \A p \in Account : OnceSaved[p] = balance[p]
      BY <2>2 DEF OnceSaved
    <3>2. SumOver(OnceSaved, Account) <= granted
      BY <2>2 DEF StorageInv, Backed
    <3>3. \A p \in Account : Held'[p] = OnceSaved[p] /\ OnceSaved'[p] = OnceSaved[p]
      BY <2>1, <3>1
    <3>4. SumOver(Held', Account) = SumOver(OnceSaved, Account)
      BY <3>3, SumCong
    <3>5. SumOver(OnceSaved', Account) = SumOver(OnceSaved, Account)
      BY <3>3, SumCong
    <3>6. QED BY <3>2, <3>4, <3>5
  <2>3. (SumOver(Held, Account) \in Nat)'
    BY <1>2, <1>4, AmountsPrimed
  <2>4. SumOver(Held', Account) + LivePot' = SumOver(Held', Account)
    BY <1>1, <2>1, <2>3
  <2>5. QED BY <1>1, <2>2, <2>4 DEF Backed
<1>7. QED BY <1>2, <1>3, <1>4, <1>5, <1>6 DEF StorageInv

(* The process ends, at any moment. *)
LEMMA CrashStep == StorageInv /\ Crash => StorageInv'
<1> SUFFICES ASSUME StorageInv, Crash PROVE StorageInv'
  OBVIOUS
<1>1. crashes' \in 0..MaxCrashes
  BY AmountAssumption DEF StorageInv, Typed, TypeOK, Crash
<1>2. torn' = (torn \/ stale # {} \/ unsaved # {})
  BY DEF Crash
<1>3. torn' \in BOOLEAN
  BY <1>2
<1>4. ~torn' => ~torn /\ Dirty = {}
  BY <1>2 DEF Dirty
<1>5. QED BY <1>1, <1>3, <1>4, GameDropped DEF Crash

(* The award is saved: the leaver's row is next, or a new hand, or nothing. *)
LEMMA AwardSavedStep == StorageInv /\ AwardSaved => StorageInv'
<1> SUFFICES ASSUME StorageInv, AwardSaved PROVE StorageInv'
  OBVIOUS
<1>1. /\ pc = "save_award" /\ unsaved = {} /\ ~dealt /\ Running
      /\ UNCHANGED <<disk, version, leaver, history>>
  BY DEF AwardSaved, StorageInv, RefundsBets, Running
<1>2. UNCHANGED <<schema, users, updated_at, balance, version, leaver, granted, stale, torn, crashes, failures>>
  BY <1>1 DEF disk, history
<1>3. Typed /\ Durable /\ torn \in BOOLEAN
  BY DEF StorageInv, Typed, TypeOK
<1>4. /\ AtTable \subseteq Account /\ leaver \subseteq AtTable /\ stale \subseteq AtTable /\ stack \in [AtTable -> Nat]
      /\ \A p \in AtTable : stack[p] \in Nat
  BY <1>3 DEF Typed, TypeOK
<1>5. SumOver(Held, Account) \in Nat /\ SumOver(OnceSaved, Account) \in Nat /\ granted \in Nat
  BY <1>3, Amounts
<1>6. ~torn => SumOver(Held, Account) <= granted /\ SumOver(OnceSaved, Account) <= granted
  <2>1. LivePot = 0
    BY <1>1 DEF LivePot
  <2>2. QED BY <1>5, <2>1 DEF StorageInv, Backed
<1>7. ASSUME pot' = 0, UNCHANGED <<stack, dealt, hands>>, unsaved' \subseteq leaver,
             \/ pc' = "save_leaver" /\ unsaved' = leaver
             \/ pc' = "serving" /\ unsaved' = {}
      PROVE  StorageInv'
  <2>1. /\ Account' = Account /\ AtTable' = AtTable /\ Dirty' = unsaved' \cup stale
        /\ \A p \in AtTable \ Dirty' : balance[p] >= stack[p]
        /\ SumOver(Held', Account) = SumOver(Held, Account)
        /\ SumOver(OnceSaved', Account) <= SumOver(OnceSaved, Account)
    BY <1>1, <1>2, <1>4, <1>7, MoreToSave
  <2>2. pc' \in {"serving", "save_leaver"} /\ (~Saving' => unsaved' = {})
    BY <1>7 DEF Saving
  <2>3. Typed'
    BY <1>2, <1>3, <1>4, <1>7, <2>1, <2>2, TypedKept DEF Typed, TypeOK
  <2>4. Migrating'
    BY <1>1, <1>2, <2>2, SchemaKept
  <2>5. pc' = "save_leaver" => leaver \subseteq Dirty'
    BY <1>7, <2>1
  <2>6. Durable'
    BY <1>2, <1>7, <2>1, <2>5 DEF Durable
  <2>7. RefundsBets'
    BY <1>1, <1>7 DEF RefundsBets
  <2>8. (SumOver(OnceSaved, Account) \in Nat)'
    BY <2>3, <2>6, AmountsPrimed
  <2>9. LivePot' = 0
    BY <1>7 DEF LivePot
  <2>10. ~torn => SumOver(Held', Account) + LivePot' <= granted /\ SumOver(OnceSaved', Account) <= granted
    BY <1>5, <1>6, <2>1, <2>8, <2>9
  <2>11. Backed'
    BY <1>2, <2>1, <2>10 DEF Backed
  <2>12. QED BY <2>3, <2>4, <2>6, <2>7, <2>11 DEF StorageInv
<1>8. CASE StartHand(stack)
  <2>1. Typed' /\ Migrating'
    BY <1>1, <1>2, <1>3, <1>4, <1>8, StartHandTyped
  <2>2. (\A p \in AtTable : Held[p] = stack[p]) /\ \A p \in Account \ AtTable : Held[p] = balance[p]
    BY <1>4 DEF Held
  <2>3. Durable' /\ RefundsBets' /\ Backed'
    BY <1>2, <1>3, <1>4, <1>6, <1>8, <2>2, StartHandBooks
  <2>4. QED BY <2>1, <2>3 DEF StorageInv
<1>9. QED
  <2>1. CASE pc' = "save_leaver" /\ unsaved' = leaver /\ pot' = 0 /\ UNCHANGED <<stack, dealt, hands>>
    BY <1>7, <2>1
  <2>2. CASE pc' = "serving" /\ pot' = 0 /\ UNCHANGED <<stack, unsaved, dealt, hands>>
    BY <1>1, <1>7, <2>2
  <2>3. QED BY <1>8, <2>1, <2>2 DEF AwardSaved

(* The leaver is erased; the row holds the stack unless the UPDATE failed. *)
LEMMA LeaverSavedStep == StorageInv /\ LeaverSaved => StorageInv'
<1> SUFFICES ASSUME StorageInv, LeaverSaved PROVE StorageInv'
  OBVIOUS
<1> DEFINE D == AtTable \ leaver
           stay == [p \in D |-> stack[p]]
<1>1. /\ pc = "save_leaver" /\ unsaved = {} /\ leaver' = {} /\ Running
      /\ stale' = stale \cap DOMAIN stack'
      /\ UNCHANGED <<disk, version, granted, crashes, failures>>
  BY DEF LeaverSaved, Running
<1>2. UNCHANGED <<schema, users, updated_at, balance>> /\ Account' = Account
  BY <1>1 DEF disk, Account
<1>3. Typed /\ Durable /\ Dirty = stale
  BY <1>1 DEF StorageInv, Dirty
<1>4. /\ IsFiniteSet(Account) /\ IsFiniteSet(AtTable) /\ AtTable \subseteq Account
      /\ \A p \in Account : balance[p] \in Nat
      /\ \A p \in AtTable : stack[p] \in Nat /\ Refund[p] \in Nat
      /\ SumOver(Held, Account) \in Nat /\ SumOver(OnceSaved, Account) \in Nat
      /\ SumOver(Refund, AtTable) \in Nat /\ pot \in Nat /\ granted \in Nat
  BY <1>3, Amounts
<1>5. D \subseteq AtTable /\ D \in SUBSET Account /\ stay \in [D -> Nat] /\ (\A p \in D : stay[p] = stack[p]) /\ DOMAIN stay = D
  BY <1>4
<1>6. CASE /\ stack' = NoGame /\ pot' = 0 /\ dealt' = FALSE /\ pc' = "serving"
           /\ torn' = (torn \/ stale # {}) /\ UNCHANGED <<unsaved, hands>>
  <2>1. stale' = {} /\ crashes' \in 0..MaxCrashes
    BY <1>1, <1>3, <1>6 DEF NoGame, Typed, TypeOK
  <2>2. torn' \in BOOLEAN /\ (~torn' => ~torn /\ Dirty = {})
    BY <1>3, <1>6
  <2>3. QED BY <1>1, <1>6, <2>1, <2>2, GameDropped
<1>7. ASSUME torn' = (torn \/ leaver \cap stale # {})
      PROVE  /\ torn' \in BOOLEAN
             /\ ~torn' => /\ SumOver(Held, Account) + pot <= granted /\ SumOver(OnceSaved, Account) <= granted
                          /\ \A p \in leaver : p \notin Dirty /\ balance[p] = stack[p]
  <2>1. torn' \in BOOLEAN
    BY <1>7
  <2>2. ASSUME ~torn'
        PROVE  /\ SumOver(Held, Account) + pot <= granted /\ SumOver(OnceSaved, Account) <= granted
               /\ \A p \in leaver : p \notin Dirty /\ balance[p] = stack[p]
    <3>1. ~torn /\ leaver \cap stale = {}
      BY <1>7, <2>2
    <3>2. LivePot = pot
      BY <1>1 DEF LivePot
    <3>3. QED BY <1>1, <1>3, <3>1, <3>2 DEF StorageInv, Backed, Durable
  <2>3. QED BY <2>1, <2>2
<1>8. CASE StartHand(stay) /\ torn' = (torn \/ leaver \cap stale # {})
  <2>1. IsFiniteSet(D) /\ hands \in Nat
    BY <1>3, <1>4, <1>5, AmountAssumption, FS_Subset DEF Typed, TypeOK
  <2>2. stale' \subseteq D /\ leaver' \subseteq D
    <3> HIDE DEF stay, D
    <3>1. stack' \in [D -> Nat]
      BY <1>5, <1>8, <2>1, StartHandAmounts
    <3>2. QED BY <1>1, <3>1
  <2>3. Typed' /\ Migrating'
    <3> HIDE DEF stay, D
    <3>1. QED BY <1>1, <1>3, <1>5, <1>7, <1>8, <2>2, StartHandTyped
  <2> DEFINE h == [p \in Account |-> IF p \in D THEN stack[p] ELSE balance[p]]
  <2>4. (\A p \in D : h[p] = stay[p]) /\ \A p \in Account \ D : h[p] = balance[p]
    BY <1>4, <1>5
  <2>5. ~torn' => SumOver(h, Account) <= granted
    <3>1. ASSUME ~torn' PROVE SumOver(h, Account) <= granted
      <4>1. \A p \in Account : h[p] = Held[p]
        BY <1>4, <1>7, <1>8, <3>1 DEF Held
      <4>2. SumOver(h, Account) = SumOver(Held, Account)
        BY <4>1, SumCong
      <4>3. QED BY <1>4, <1>7, <1>8, <3>1, <4>2
    <3>2. QED BY <3>1
  <2>6. Durable' /\ RefundsBets' /\ Backed'
    <3> HIDE DEF stay, D, h
    <3>1. QED BY <1>1, <1>2, <1>3, <1>5, <1>8, <2>2, <2>4, <2>5, StartHandBooks
  <2>7. QED BY <2>3, <2>6 DEF StorageInv
<1>9. CASE /\ stack' = stay /\ pc' = "serving" /\ UNCHANGED <<pot, unsaved, dealt, hands>>
           /\ torn' = (torn \/ leaver \cap stale # {})
  <2>1. AtTable' = D /\ stale' = stale \cap D /\ Dirty' = Dirty \cap D
    BY <1>1, <1>3, <1>5, <1>9 DEF AtTable, Dirty
  <2>2. Typed'
    <3> HIDE DEF stay, D
    <3>1. Account' \subseteq Player /\ balance' \in [Account' -> Nat] /\ granted' \in Nat
      BY <1>1, <1>2, <1>3 DEF Typed, TypeOK
    <3>2. AtTable' \subseteq Account' /\ stack' \in [AtTable' -> Nat] /\ pot' \in Nat
      BY <1>2, <1>4, <1>5, <1>9, <2>1
    <3>3. unsaved' = {} /\ stale' \subseteq AtTable' /\ leaver' = {} /\ torn' \in BOOLEAN /\ dealt' \in BOOLEAN
      BY <1>1, <1>3, <1>7, <1>9, <2>1 DEF Typed, TypeOK
    <3>4. crashes' \in 0..MaxCrashes /\ failures' \in 0..MaxFailures /\ hands' \in 0..MaxHands
      BY <1>1, <1>3, <1>9 DEF Typed, TypeOK
    <3>5. QED BY <1>1, <1>2, <1>3, <1>9, <3>1, <3>2, <3>3, <3>4, TypedKept
  <2>3. Migrating'
    BY <1>1, <1>2, <1>9, SchemaKept
  <2>4. \A p \in D : stack'[p] = stack[p] /\ (p \in Dirty' <=> p \in Dirty)
    BY <1>5, <1>9, <2>1
  <2>5. Durable'
    BY <1>2, <1>3, <1>5, <1>9, <2>1, <2>4 DEF Durable
  <2>6. RefundsBets'
    <3>1. \A p \in D : Refund'[p] = Refund[p]
      BY <1>2, <1>5, <2>1, <2>4 DEF Refund
    <3>2. SumOver(Refund', D) = SumOver(Refund, D)
      BY <3>1, SumCong
    <3>3. SumOver(Refund, D) <= SumOver(Refund, AtTable) /\ SumOver(Refund, D) \in Nat
      <4> HIDE DEF D
      <4>1. D \in SUBSET AtTable
        BY <1>5
      <4>2. IsFiniteSet(D) /\ SumOver(Refund, D) <= SumOver(Refund, AtTable)
        BY <1>4, <4>1, SumSubset
      <4>3. \A p \in D : Refund[p] \in Nat
        BY <1>4, <4>1
      <4>4. QED BY <4>2, <4>3, SumOverType
    <3>4. dealt => SumOver(Refund, AtTable) <= pot
      BY DEF StorageInv, RefundsBets
    <3>5. dealt => SumOver(Refund', D) <= pot
      BY <1>4, <3>2, <3>3, <3>4
    <3>6. QED BY <1>9, <2>1, <3>5 DEF RefundsBets
  <2>7. Backed'
    <3>1. ASSUME ~torn'
          PROVE  SumOver(Held', Account) + pot <= granted /\ SumOver(OnceSaved', Account) <= granted
      <4>1. \A p \in leaver : p \notin Dirty /\ balance[p] = stack[p]
        BY <1>7, <1>9, <3>1
      <4>2. ASSUME NEW p \in Account PROVE Held'[p] = Held[p] /\ OnceSaved'[p] = OnceSaved[p]
        <5>1. Held'[p] = (IF p \in D THEN stack'[p] ELSE balance[p])
          BY <1>2, <2>1 DEF Held
        <5>2. OnceSaved'[p] = (IF p \in Dirty' THEN stack'[p] ELSE balance[p])
          BY <1>2 DEF OnceSaved
        <5>3. Dirty \subseteq AtTable
          BY <1>3 DEF Typed, TypeOK
        <5>4. QED BY <2>1, <2>4, <4>1, <5>1, <5>2, <5>3 DEF Held, OnceSaved
      <4>3. SumOver(Held', Account) = SumOver(Held, Account)
        BY <4>2, SumCong
      <4>4. SumOver(OnceSaved', Account) = SumOver(OnceSaved, Account)
        BY <4>2, SumCong
      <4>5. QED BY <1>7, <1>9, <3>1, <4>3, <4>4
    <3>2. LivePot' = pot
      BY <1>9 DEF LivePot
    <3>3. QED BY <1>1, <1>2, <3>1, <3>2 DEF Backed
  <2>8. QED BY <2>2, <2>3, <2>5, <2>6, <2>7 DEF StorageInv
<1>10. QED BY <1>6, <1>8, <1>9 DEF LeaverSaved
-----------------------------------------------------------------------------
(* The theorems. *)

(* Every step of the process, and every crash, keeps the books in order. *)
LEMMA NextStorage == StorageInv /\ [Next]_vars => StorageInv'
<1> SUFFICES ASSUME StorageInv, [Next]_vars PROVE StorageInv'
  OBVIOUS
<1>1. CASE UNCHANGED vars
  <2>1. UNCHANGED <<schema, users, updated_at, balance, pc, version, stack, pot, unsaved, leaver, dealt, hands,
                    granted, stale, torn, crashes, failures>>
    BY <1>1 DEF vars, disk, game, history
  <2>2. /\ Account' = Account /\ AtTable' = AtTable /\ Dirty' = Dirty /\ Saving' = Saving /\ Running' = Running
        /\ Doomed' = Doomed /\ LivePot' = LivePot
    BY <2>1 DEF Account, AtTable, Dirty, Saving, Running, Doomed, LivePot
  <2>3. Held' = Held /\ OnceSaved' = OnceSaved /\ Refund' = Refund
    BY <2>1, <2>2 DEF Held, OnceSaved, Refund
  <2>4. Typed' /\ Migrating'
    BY <2>1, <2>2 DEF StorageInv, Typed, TypeOK, Migrating
  <2>5. Durable' /\ RefundsBets' /\ Backed'
    BY <2>1, <2>2, <2>3 DEF StorageInv, Durable, RefundsBets, Backed
  <2>6. QED BY <2>4, <2>5 DEF StorageInv
<1>2. CASE OpenDatabase \/ Migrate
  BY <1>2, MigrationStep DEF Migrate
<1>3. CASE Serve
  BY <1>3, CreateUserStep, RemovePlayerStep, StartGameStep, BetStep, HandEndsStep DEF Serve
<1>4. CASE Save
  BY <1>4, SavePlayerStep, HandSavedStep, AwardSavedStep, LeaverSavedStep DEF Save
<1>5. CASE Crash
  BY <1>5, CrashStep
<1>6. QED BY <1>1, <1>2, <1>3, <1>4, <1>5 DEF Next

(* The inductive invariant of the database and the saves of the game. *)
THEOREM StorageHolds == Spec => []StorageInv
BY InitStorage, NextStorage, PTL DEF Spec

(* database.cpp's migrate, for every number of accounts and crashes: the
   recorded version promises only what is there, a server that serves has the
   latest schema, and a start fails only on a file that is doomed. *)
THEOREM MigrationsAreSound == Spec => []SchemaIsSound
<1>1. StorageInv => SchemaIsSound
  BY DEF StorageInv, Typed, Migrating, SchemaIsSound
<1>2. QED BY <1>1, StorageHolds, PTL

(* While the server waits, the row of every player whose last UPDATE did not
   fail covers the stack in front of the player: a crash costs no chips. *)
THEOREM CrashesCostNoStack == Spec => []StacksAreDurable
<1>1. StorageInv => StacksAreDurable
  <2> SUFFICES ASSUME StorageInv, pc = "serving" PROVE \A p \in AtTable \ stale : balance[p] >= stack[p]
    BY DEF StacksAreDurable
  <2>1. Dirty = stale
    BY DEF StorageInv, Typed, Saving, Dirty
  <2>2. QED BY <2>1 DEF StorageInv, Durable
<1>2. QED BY <1>1, StorageHolds, PTL

(* The balances on disk exceed what was granted only during a save, while a
   failed UPDATE is outstanding, or after a crash in one of those moments. *)
THEOREM OnlyTornSavesMultiply == Spec => []MoneyMultipliesOnlyTorn
<1>1. StorageInv => MoneyMultipliesOnlyTorn
  <2> SUFFICES ASSUME StorageInv, ~Saving, stale = {}, ~torn PROVE SumOver(balance, Account) <= granted
    BY DEF MoneyMultipliesOnlyTorn
  <2>1. Dirty = {}
    BY DEF StorageInv, Typed, Dirty
  <2>2. \A p \in Account : OnceSaved[p] = balance[p]
    BY <2>1 DEF OnceSaved
  <2>3. SumOver(OnceSaved, Account) = SumOver(balance, Account)
    BY <2>2, SumCong
  <2>4. QED BY <2>3 DEF StorageInv, Backed
<1>2. QED BY <1>1, StorageHolds, PTL

(* A crash in the middle of a hand gives back at most the pot. *)
THEOREM CrashRefundsAtMostThePot == Spec => []CrashRefundsBets
<1>1. StorageInv => CrashRefundsBets
  <2> SUFFICES ASSUME StorageInv, pc = "serving", dealt, stale = {}
               PROVE  SumOver(balance, AtTable) <= SumOver(stack, AtTable) + pot
    BY DEF CrashRefundsBets
  <2>1. Dirty = {} /\ Typed /\ Durable
    BY DEF StorageInv, Typed, Saving, Dirty
  <2>2. /\ IsFiniteSet(AtTable) /\ AtTable \subseteq Account /\ pot \in Nat /\ SumOver(Refund, AtTable) \in Nat
        /\ \A p \in Account : balance[p] \in Nat
        /\ \A p \in AtTable : stack[p] \in Nat /\ Refund[p] \in Nat
    BY <2>1, Amounts
  <2>3. \A p \in AtTable : stack[p] \in Nat /\ Refund[p] \in Nat /\ balance[p] = stack[p] + Refund[p]
    BY <2>1, <2>2 DEF Refund
  <2>4. SumOver(balance, AtTable) = SumOver(stack, AtTable) + SumOver(Refund, AtTable)
    BY <2>2, <2>3, SumAdd
  <2>5. SumOver(stack, AtTable) \in Nat
    BY <2>2, SumOverType
  <2>6. SumOver(Refund, AtTable) <= pot
    BY DEF StorageInv, RefundsBets
  <2>7. QED BY <2>2, <2>4, <2>5, <2>6
<1>2. QED BY <1>1, StorageHolds, PTL
=============================================================================
