------------------------------- MODULE Storage -------------------------------
(***************************************************************************)
(* The server's SQLite database across crashes: the schema migrations of   *)
(* storage/database.cpp, the accounts of storage/user_repository.cpp and   *)
(* the saves that game_session.cpp makes while a game runs.                *)
(*                                                                         *)
(* What is on disk survives a crash; everything else is lost with the      *)
(* process.  One SQL statement is one atomic, durable step (the code uses  *)
(* no transactions), and the process may end between any two of them.      *)
(* The game is reduced to the chips it moves between two saves: who acts,  *)
(* and how a pot is divided, is the matter of GameSession.                 *)
(***************************************************************************)
EXTENDS SidePots, Integers

CONSTANTS
    Player,             \* the accounts
    StartingChips,      \* poker::STARTING_CHIPS
    SmallBlind,         \* poker::SMALL_BLIND
    BigBlind,           \* poker::BIG_BLIND
    MaxCrashes,         \* bound: how often the process ends or fails to start
    MaxFailures,        \* bound: how many UPDATE statements fail
    MaxHands,           \* bound: how many hands are dealt
    MaxDropped          \* bound: the chips of a pot that are in no side pot

ASSUME PlayerAssumption == IsFiniteSet(Player)
ASSUME AmountAssumption ==
    /\ {StartingChips, SmallBlind, BigBlind} \subseteq Nat \ {0}
    /\ {MaxCrashes, MaxFailures, MaxHands, MaxDropped} \subseteq Nat

VARIABLES
    \* on disk
    schema,             \* the row of schema_version, 0 if there is none
    users,              \* the table users exists
    updated_at,         \* it has the column updated_at
    balance,            \* users.chips, one entry per account
    \* in the process
    pc,                 \* what the process does next
    version,            \* migrate: the schema version that is being applied
    stack,              \* chips_ of the game in progress, empty without one
    pot,                \* pot_
    unsaved,            \* the players a save still has to write
    leaver,             \* the players erased after the save: one or none
    \* history and bounds
    dealt,              \* a hand has been dealt and not been awarded
    granted,            \* the chips given to new accounts
    stale,              \* the players whose last UPDATE failed
    torn,               \* a save was cut short or never made good
    crashes, failures, hands

disk == <<schema, users, updated_at, balance>>
game == <<stack, pot, unsaved, leaver, dealt, hands>>
history == <<granted, stale, torn, crashes, failures>>
vars == <<disk, pc, version, game, history>>

Account == DOMAIN balance
AtTable == DOMAIN stack
NoGame == [p \in {} |-> 0]
kLatestSchemaVersion == 2

\* A new file, or one that a server of schema version 1 has left behind.
Init ==
    /\ \/ schema = 0 /\ users = FALSE /\ balance = NoGame
       \/ /\ schema = 1 /\ users = TRUE
          /\ \E S \in SUBSET Player : balance = [p \in S |-> StartingChips]
    /\ updated_at = FALSE
    /\ pc = "down" /\ version = 0
    /\ stack = NoGame /\ pot = 0 /\ unsaved = {} /\ leaver = {} /\ dealt = FALSE
    /\ granted = StartingChips * Cardinality(Account)
    /\ stale = {} /\ torn = FALSE /\ crashes = 0 /\ failures = 0 /\ hands = 0
-----------------------------------------------------------------------------
(* Starting the server: Database::Database and migrate. *)

\* The head of migrate's loop, when v migrations have been applied.
Loop(v) == IF v < kLatestSchemaVersion THEN "apply" ELSE "serving"

\* sqlite3_open, the creation of schema_version where it is missing (which
\* repeats harmlessly), and the first read of the version.
OpenDatabase ==
    /\ pc \in {"down", "failed"}
    /\ version' = schema
    /\ pc' = Loop(schema)
    /\ UNCHANGED <<disk, game, history>>

\* The rules of SQLite for ALTER TABLE ... ADD COLUMN with a default that is
\* no constant, here datetime('now').
AlterAllowed == users /\ ~updated_at /\ Account = {}

\* The exception leaves Database's constructor; main reports it and returns.
StartFails == pc' = "failed" /\ UNCHANGED <<disk, version, game, history>>

\* mutant: CREATE TABLE users without IF NOT EXISTS.
ApplyMigrationCreates ==
    /\ pc = "apply"
    /\ \/ /\ version = 0 /\ ~users
          /\ users' = TRUE
          /\ pc' = "record"
          /\ version' = 1
          /\ UNCHANGED <<schema, updated_at, balance, game, history>>
       \/ /\ version = 1 /\ AlterAllowed
          /\ updated_at' = TRUE
          /\ pc' = "record"
          /\ version' = 2
          /\ UNCHANGED <<schema, users, balance, game, history>>
       \/ version = 0 /\ users /\ StartFails
       \/ version = 1 /\ ~AlterAllowed /\ StartFails

\* apply_migration(version + 1); PRAGMA journal_mode=WAL changes no data.
ApplyMigration ==
    /\ pc = "apply"
    /\ \/ /\ version = 0
          /\ users' = TRUE
          /\ pc' = "record"
          /\ version' = 1
          /\ UNCHANGED <<schema, updated_at, balance, game, history>>
       \/ /\ version = 1 /\ AlterAllowed
          /\ updated_at' = TRUE
          /\ pc' = "record"
          /\ version' = 2
          /\ UNCHANGED <<schema, users, balance, game, history>>
       \/ version = 1 /\ ~AlterAllowed /\ StartFails

\* INSERT for the first version, UPDATE for the others.
write_schema_version(v) == schema' = v

RecordVersion ==
    /\ pc = "record"
    /\ write_schema_version(version)
    /\ pc' = Loop(version)
    /\ UNCHANGED <<users, updated_at, balance, version, game, history>>
-----------------------------------------------------------------------------
(* Serving: accounts and games. *)

\* create_user, for a name that username_exists does not find.
CreateUser(p) ==
    /\ pc = "serving" /\ p \notin Account
    /\ balance' = [q \in Account \cup {p} |-> IF q = p THEN StartingChips ELSE balance[q]]
    /\ granted' = granted + StartingChips
    /\ UNCHANGED <<schema, users, updated_at, pc, version, game, stale, torn, crashes, failures>>

\* The blinds of a hand of the stacks s, posted by sb and bb.
Posted(s, sb, bb) ==
    [p \in DOMAIN s |-> s[p] - (CASE p = sb -> MinOf(SmallBlind, s[p])
                                  [] p = bb -> MinOf(BigBlind, s[p])
                                  [] OTHER -> 0)]

\* mutant: the blinds are not saved.
StartHandUnsaved(s) ==
    \E sb, bb \in DOMAIN s :
        /\ sb # bb /\ hands < MaxHands
        /\ hands' = hands + 1
        /\ stack' = Posted(s, sb, bb)
        /\ pot' = SumOver(s, DOMAIN s) - SumOver(stack', DOMAIN s)
        /\ unsaved' = {}
        /\ dealt' = TRUE
        /\ pc' = "save_hand"

\* start: the blinds are posted and persist_all_chips is called.
StartHand(s) ==
    \E sb, bb \in DOMAIN s :
        /\ sb # bb /\ hands < MaxHands
        /\ hands' = hands + 1
        /\ stack' = Posted(s, sb, bb)
        /\ pot' = SumOver(s, DOMAIN s) - SumOver(stack', DOMAIN s)
        /\ unsaved' = DOMAIN s
        /\ dealt' = TRUE
        /\ pc' = "save_hand"

\* Room::start_game: the stacks are the balances on disk, and everyone has a
\* big blind.
StartGame(S) ==
    /\ pc = "serving" /\ stack = NoGame
    /\ S \subseteq Account /\ Cardinality(S) >= 2
    /\ \A p \in S : balance[p] >= BigBlind
    /\ StartHand([p \in S |-> balance[p]])
    /\ UNCHANGED <<disk, version, leaver, history>>

\* A call or a raise; nothing is saved.
Bet(p, amount) ==
    /\ pc = "serving"
    /\ p \in AtTable /\ amount \in 1..stack[p]
    /\ stack' = [stack EXCEPT ![p] = @ - amount]
    /\ pot' = pot + amount
    /\ UNCHANGED <<disk, pc, version, unsaved, leaver, dealt, hands, history>>

\* mutant: only the winner's balance is saved.
SavedByAwardWinner(p) == {p}

\* mutant: an award is not saved.
SavedByAwardNobody(p) == {}

\* persist_all_chips after an award.
SavedByAward(p) == AtTable

\* What the side pots hold of the pot: nothing, or all but the chips of a bet
\* that nobody called or of a player who left, up to the bound MaxDropped.
Claimed == {paid \in 0..pot : paid = 0 \/ paid + MaxDropped >= pot}

\* award_all_pots: p receives `paid' of the pot.  Nothing is saved when no
\* side pot was paid.
Award(p, paid) ==
    /\ stack' = [stack EXCEPT ![p] = @ + paid]
    /\ unsaved' = IF paid > 0 THEN SavedByAward(p) ELSE {}
    /\ dealt' = FALSE
    /\ pc' = "save_award"
    /\ UNCHANGED <<disk, version, pot, hands, history>>

HandEnds(p, paid) ==
    /\ pc = "serving" /\ pot > 0
    /\ p \in AtTable /\ paid \in Claimed
    /\ Award(p, paid)
    /\ UNCHANGED leaver

\* remove_player: with one player left in the hand the pot is awarded first.
RemovePlayer(p) ==
    /\ pc = "serving" /\ p \in AtTable
    /\ leaver' = {p}
    /\ \/ \E q \in AtTable \ {p}, paid \in Claimed : Award(q, paid)
       \/ /\ Cardinality(AtTable) > 2
          /\ unsaved' = {p} /\ pc' = "save_leaver"
          /\ UNCHANGED <<disk, version, stack, pot, dealt, hands, history>>

Saving == pc \in {"save_hand", "save_award", "save_leaver"}

\* persist_player_chips of the next player, in the order of players_, which
\* is any; a failed UPDATE is only logged.
SavePlayer ==
    /\ Saving
    /\ \E p \in unsaved :
        /\ unsaved' = unsaved \ {p}
        /\ \/ /\ balance' = [balance EXCEPT ![p] = stack[p]]
              /\ stale' = stale \ {p}
              /\ UNCHANGED failures
           \/ /\ failures < MaxFailures
              /\ failures' = failures + 1
              /\ stale' = stale \cup {p}
              /\ UNCHANGED balance
    /\ UNCHANGED <<schema, users, updated_at, pc, version, stack, pot, leaver, dealt, hands,
                   granted, torn, crashes>>

\* The hand is dealt: the server waits for actions.
HandSaved ==
    /\ pc = "save_hand" /\ unsaved = {}
    /\ pc' = "serving"
    /\ UNCHANGED <<disk, version, game, history>>

\* The end of award_all_pots, back in remove_player or in try_start_new_hand.
AwardSaved ==
    /\ pc = "save_award" /\ unsaved = {}
    /\ \/ /\ leaver # {}
          /\ unsaved' = leaver
          /\ pc' = "save_leaver" /\ pot' = 0
          /\ UNCHANGED <<stack, dealt, hands>>
       \/ /\ leaver = {}
          /\ IF Cardinality({p \in AtTable : stack[p] > 0}) >= 2
             THEN StartHand(stack)
             ELSE pc' = "serving" /\ pot' = 0 /\ UNCHANGED <<stack, unsaved, dealt, hands>>
    /\ UNCHANGED <<disk, version, leaver, history>>

\* erase_player_state.  A game of one player is dropped by Room; the stack of
\* a player whose UPDATE failed is forgotten.  A hand may go on, wait for a
\* message, or start anew when the pot was awarded.
LeaverSaved ==
    LET stay == [p \in AtTable \ leaver |-> stack[p]] IN
    /\ pc = "save_leaver" /\ unsaved = {}
    /\ leaver' = {}
    /\ \/ /\ Cardinality(DOMAIN stay) < 2
          /\ stack' = NoGame /\ pot' = 0 /\ dealt' = FALSE /\ pc' = "serving"
          /\ torn' = (torn \/ stale # {})
          /\ UNCHANGED <<unsaved, hands>>
       \/ /\ Cardinality(DOMAIN stay) >= 2
          /\ IF ~dealt /\ Cardinality({p \in DOMAIN stay : stay[p] > 0}) >= 2
             THEN StartHand(stay)
             ELSE stack' = stay /\ pc' = "serving" /\ UNCHANGED <<pot, unsaved, dealt, hands>>
          /\ torn' = (torn \/ leaver \cap stale # {})
    /\ stale' = stale \cap DOMAIN stack'
    /\ UNCHANGED <<disk, version, granted, crashes, failures>>
-----------------------------------------------------------------------------
\* The process ends: it is killed, a statement of the migration fails, or an
\* exception (create_user throws, the deck runs out) leaves a handler and
\* with it io_context.run.
Crash ==
    /\ pc \notin {"down", "failed"}
    /\ crashes < MaxCrashes
    /\ crashes' = crashes + 1
    /\ torn' = (torn \/ stale # {} \/ unsaved # {})
    /\ pc' = "down" /\ version' = 0
    /\ stack' = NoGame /\ pot' = 0 /\ unsaved' = {} /\ leaver' = {}
    /\ dealt' = FALSE /\ stale' = {}
    /\ UNCHANGED <<disk, granted, failures, hands>>

Migrate == ApplyMigration \/ RecordVersion
Save == SavePlayer \/ HandSaved \/ AwardSaved \/ LeaverSaved
Serve ==
    \/ \E p \in Player : CreateUser(p) \/ RemovePlayer(p)
    \/ \E S \in SUBSET Player : StartGame(S)
    \/ \E p \in Player, amount \in 0..granted : Bet(p, amount) \/ HandEnds(p, amount)

Next == OpenDatabase \/ Migrate \/ Serve \/ Save \/ Crash

Spec == Init /\ [][Next]_vars
-----------------------------------------------------------------------------
(* Properties. *)

\* Types; above all, no unsigned stack, pot or balance goes below zero, and
\* only players with an account sit at a table.
TypeOK ==
    /\ schema \in 0..kLatestSchemaVersion /\ {users, updated_at, dealt, torn} \subseteq BOOLEAN
    /\ Account \subseteq Player /\ \A p \in Account : balance[p] \in Nat
    /\ pc \in {"down", "apply", "record", "serving", "save_hand", "save_award",
               "save_leaver", "failed"}
    /\ version \in 0..kLatestSchemaVersion
    /\ AtTable \subseteq Account /\ \A p \in AtTable : stack[p] \in Nat
    /\ pot \in Nat /\ leaver \subseteq AtTable /\ stale \subseteq AtTable
    /\ crashes \in 0..MaxCrashes /\ failures \in 0..MaxFailures
    /\ hands \in 0..MaxHands

Running == pc \notin {"down", "apply", "record", "failed"}

\* A file no later start can open: the ALTER TABLE was made and not recorded,
\* or the file of schema version 1 has accounts, for which SQLite refuses it.
Doomed == schema = 1 /\ (updated_at \/ Account # {})

\* Every variable has its type, and whatever was interrupted, the recorded
\* version never promises a table or a column that is not there; a server that
\* serves has recorded the latest version; and a start fails only on a file
\* that is doomed: every other interrupted migration is taken up again by the
\* next start (migrate records a version only after its statements).
SchemaIsSound ==
    /\ TypeOK
    /\ schema >= 1 => users
    /\ schema >= 2 => updated_at
    /\ Running => schema = kLatestSchemaVersion
    /\ pc = "failed" => Doomed

\* Chips are given to new accounts only.  The balances on disk add up to more
\* than was ever granted only while a save is under way, while an UPDATE that
\* failed has not been made good, or after a crash in one of those moments:
\* persist_all_chips writes the winner's row and the losers' rows one by one.
MoneyMultipliesOnlyTorn ==
    ~Saving /\ stale = {} /\ ~torn => SumOver(balance, Account) <= granted

\* A crash never costs a player chips that were in front of the player when
\* the server waited: the balance on disk is at least the stack, unless the
\* player's last UPDATE failed.  A failed UPDATE is made good by the next
\* save of the table.
StacksAreDurable ==
    pc = "serving" => \A p \in AtTable \ stale : balance[p] >= stack[p]

\* What a crash in the middle of a hand gives back to the players at the
\* table is at most the pot: bets are refunded, never paid out twice.
CrashRefundsBets ==
    pc = "serving" /\ dealt /\ stale = {} =>
        SumOver(balance, AtTable) <= SumOver(stack, AtTable) + pot
=============================================================================
