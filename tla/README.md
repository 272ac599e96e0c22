# A TLA+ model of ascii-poker

ascii-poker is a multiplayer Texas Hold'em game: a C++ server that keeps
accounts, rooms and tables, and a terminal client, talking JSON packets over
TCP. This directory holds TLA+ modules of the parts that keep state and of the
algorithms that decide about money, TLC configurations that check them on small
instances, and TLAPS proofs, for instances of any size, about the side pots, the
betting engine, the lobby, the database, the server's sessions, the client's
connection and its view. File names and line numbers are those of `src/`.

## The system

| Part | Where | State | Operations | Talks to |
|---|---|---|---|---|
| Betting engine | `server/src/game/game_session.cpp` | seats, stacks, bets of the round and of the hand, who folded / is all-in / has acted, pot, dealer and turn index, street | start a hand, prompt, fold / check / call / raise, next street, showdown, award, player leaves | room above it, `side_pots`, `hand_evaluator`, database, sends to the clients |
| Side pots | `common/src/side_pots.cpp` | local to one call | peel layers off the contributions | called by the award |
| Lobby, rooms | `server/src/game/lobby.cpp`, `room.cpp`, `messaging/lobby_message_processor.cpp` | rooms by id, the room of each connection, members, host, the game | create, join, leave, start, disconnect | calls each other and the betting engine; reads and writes balances |
| Login, registries | `messaging/handshake_message_processor.cpp`, `network/player_name_registry.cpp`, `connection_registry.cpp` | names in use, connections that get broadcasts | handshake, disconnect | user repository, lobby |
| User repository, database | `server/src/storage/` | SQLite table `users` | find, create, update chips, migrate | |
| Server session | `server/src/network/session.cpp` | write queue, framing buffer, closed flag | accept, read, write, close | message processors |
| Client connection | `client/src/network_client.cpp`, `main.cpp` | connection state, closed flag, write queue, socket, timer | connect, timeout, read, write, close, reconnect | asio; callbacks into the UI |
| Client view and UI | `client/src/client_view_state.cpp`, `poker_ui.cpp` | screen, prompt, saved prompt, pending flag | apply a message, buttons and hotkeys | client connection |
| Hand evaluator, deck | `common/src/hand_evaluator.cpp`, `deck.cpp` | the deck | evaluate, compare, shuffle, deal | betting engine |
| Framing, protocol, name rules, password hash | `common/src/`, `server/src/storage/password_hash.cpp` | none | encode, decode, validate, hash | everybody |
| Rendering, texts, settings | `client/src/ui_*.cpp`, `game_text.cpp`, `i18n.cpp`, `client_settings.cpp` | settings file | draw, translate, load, save | |

The server runs one `io_context` on one thread: handlers of different
connections never overlap, but they arrive in any order, and a handler that
leaves one room and enters another, or that ends a hand and deals the next,
goes through many intermediate states. What is hard there is *sequences*: a
player who leaves while it is somebody else's turn, an all-in below the blind,
a balance that is read while the chips are on another table.

The client has two threads on one object without a lock: the io thread runs
asio's handlers, the UI thread calls `reconnect()`, and handlers of a closed
socket run after the next attempt has begun. And between client and server
messages cross: an action is under way when the hand it was meant for ends.

Nothing but balances and accounts is persistent. The server writes them one
SQL statement at a time and without transactions, and a process that ends, by a
signal or by an exception that no handler catches, leaves behind what the last
statement wrote.

## Modules

| Module | Models | Lines up with the code as |
|---|---|---|
| `SidePots` | operators of one turn of the loop of `compute_side_pots` | `IsMinBet`, `PotAmount`, `TakeLayer`, `StillEligible` |
| `SidePotLoop` | `compute_side_pots` run alone on every bounded input | `PeelLayer` is a turn of the loop, `Return` its two exits |
| `GameSession` | one table, `GameSession` | one action per member function; `pc` is the function that runs next |
| `Lobby` | connections, logins, registries, rooms, balances | one action per message or disconnect; `Left`, `Added`, `StartedGames` are the functions that handlers compose |
| `NetworkClient` | `NetworkClient`, the io thread, asio's queues, the UI's calls | one action per completion handler (`RunResolve` ... `RunPost`); the operators in lower case are the member functions |
| `ClientView` | one client's screen and prompt, the two message channels, the server as that connection sees it | `Receive...` is `add_server_message`, `Serve...` what the server answers, `Other...` what other players cause |
| `ServerSession` | `Session`, the accept loop, asio's queues on the server | one action per completion handler (`RunHeader`, `RunBody`, `RunWrite`); `Ends` is the end of the process by an exception; the operators in lower case are the member functions |
| `Table` | what a table promises about chips, abstract | implemented by `GameSession` (`IsTable`) |
| `Storage` | `Database`, `UserRepository` and the saves of `GameSession`, with crashes and failing statements | one action per SQL statement that writes; `OpenDatabase`, `ApplyMigration`, `RecordVersion` are the constructor and `migrate` |
| `HandEvaluator` | `hand_evaluator.cpp`, and the rules of poker as a reference | operators with the functions' names; the reference (`HandRank`, `BestRank`) shares none of them |
| `Showdown` | the deck, the streets, `find_winners_among`, the loop of `evaluate_best`, the client's hint | `Evaluate` is one turn of the loop, `Judge` one contender |
| `Protocol` | `protocol.h`, `protocol.cpp` | one table each for the members of the structures, the keys that `to_json` writes (`...Writes`) and the keys that `from_json` looks for (`...Reads`); `CardText`/`CardOf` are the two conversions of a card |
| `Wire` | framing and reassembly of packets with the messages of `Protocol` | `Send`, `ReadHeader`, `ReadBody` are `send` and the two read handlers of either end |
| `PacketLink` | what callers of `send()` rely on, abstract | implemented by `ServerSession` (`IsPacketLink`) |
| `MC...` | constants for TLC, nothing else | |
| `ChipSums` | lemmas about sums of chips and about smallest and largest members, for all proofs about money and seats | |
| `SidePotLoopProofs`, `GameSessionProofs`, `LobbyProofs`, `StorageProofs`, `ClientViewProofs`, `ServerSessionProofs`, `NetworkClientProofs` | theorems about the module of that name | |

**GameSession.** Each private member function of the class ends in a call of
the next one, so a handler is a chain of actions: `Fold` -> `NextPhase` ->
`DoShowdown` -> `AwardBegin` -> `PayPot` ... -> `AwardEnd` ->
`TryStartNewHand` -> `Start` -> `AskCurrentPlayer`. A client's message is taken
only at `pc = "idle"`, which is what the single server thread does.
Stacks, bets, pot, indices and the saved balances are exact, and
`current_bet_ - bet` wraps at `UIntRange` as `uint32_t` does. Cards are
abstracted to the ranking of the hands: a showdown picks any ranking, ties
included. `leaver` and `after_award` are the local variables of
`remove_player` across the award that it may call. `stake`, `asked` and
`game_over` are history variables and no guard reads them.

**Table.** `GameSession` implements it with the chips that are bet and not paid
out (`InPot`) as the pot, `chips_` as the stacks, `folded_players_` as those
who cannot win, and the database as the accounts. It says what the engine may
do with chips whatever hands, streets and departures come: a hand begins only
when the last pot is gone, the pot pays only players in the hand, closing a pot
is the only step that drops chips, and a leaver takes the stack home. Two
things the engine does are odd enough to be part of the promise. A table whose
game is over goes on taking bets, even from a player who has folded (`Bet` when
`over`). And after a departure the turn may pass to a player who has folded, who
then may bet: `fix_indices_after_removal` wraps an index past the last seat to
seat 0 without asking who sits there (`Bet` when `left`). The second needs four
players and came up as a step of the refinement proof that could not be proved;
with three players TLC does not meet it. For the same reason `NeverBetAhead`
and `SomeoneIsAsked` speak of hands that nobody has left.

**Storage.** What is on disk (`schema`, `users`, `updated_at`, `balance`)
survives `Crash`; the rest is gone. `SavePlayer` is one turn of the loop of
`persist_all_chips`: an UPDATE that succeeds or one that fails and is logged.
The game between two saves is any bets and any one winner of the pot: the
totals on disk do not depend on how it is divided. A SELECT of the schema
version that fails is read as version 0 by the code (`database.cpp:115`); the
model's SELECT does not fail. SQLite is external: a
statement is atomic and durable, and `AlterAllowed` is its rule for adding a
column whose default is not constant. `granted`, `stale`, `torn` and `dealt`
are history.

**Showdown and HandEvaluator.** A card is a rank value and a suit, a shuffle
the order of the deck. The hand of five is evaluated as the code does, by
counts in a fixed order of tests (the guard of `evaluate_best` for fewer than
five cards is left out: no caller in server or client passes fewer); the reference counts all categories a hand
belongs to and takes the highest. `GameSession` takes from a showdown only how
the hands rank, in every possible way.

**Protocol and Wire.** A JSON text is an object of the model; its bytes know
which text they belong to and whether they are the last. A byte has `Base`
values, and a header is four such digits, swapped as the code swaps them.
`to_json` and `from_json` are written by hand and independently of each other,
so they are independent tables here: a key that only one of them has, a member
that is demanded where an older peer does not send it, or a default that is not
"nothing" is a difference `UnderstoodAsMeant` sees. A `legacy` sender lacks the
members of `Added`, a list of its own; the repository keeps no versions of the
protocol, so the list follows the test of legacy JSON (`test_protocol.cpp:60`)
and the branches of the same kind. What such a message means is stated without
the readers: `Blank` is no number, no flag, no list. The text of a card is the
one text built from characters, because the rank 10 has two of them and the
reader takes the last for the suit. Queues, lost connections and the order of
asynchronous operations are in `NetworkClient` and `ServerSession`.

**Lobby.** A request that is refused is a stuttering step. Members of a room are
a sequence, from which `remove_player` erases the one it finds (`Place`,
`Rest`). The table in a room
is an abstraction of `GameSession` that keeps where the chips are; it allows
any bet and any division of the pot. It also saves all balances when a hand
ends (`EndHand`, `GamesAfterLeave`); `GameSession` has the one exception to
that: an award that pays no pot saves nothing (`game_session.cpp:576`, `:648`).
The balances then stay at or above what is saved here until the next save of
the table, and no property looks at them before.
`AccountOf` maps the spelling of a name to the row it selects in the database,
where names compare without case; the name registry compares them with case.
`twice` is history: an account was online on two connections. Each of them then
plays with the whole balance, and `MoneyIsGranted` speaks of behaviours in which
that has not happened; run `two_spellings` shows that it can. `MaxMoney` bounds
the model, not the code: once more money is about, no further game starts.

**NetworkClient.** asio is external and modelled from how the client uses it:
an operation waits until it completes or its socket is closed, its completion
then joins a FIFO queue, and a completion in the queue can no longer be
cancelled. `io_context::run` returns when nothing waits and nothing is queued.
A host name resolves to one endpoint. The data race on the client object is
modelled at the level of handlers: `reconnect()` on the UI thread is two steps
(`UiClose`, `UiBegin`) between which handlers may run. Tears inside one
handler are not modelled. In that window a packet that was posted may still be
written: asio completes an operation on a closed socket at once with an error.

A packet is read in two operations with different guards: `do_read_header` asks
for `closed_` and the state, `do_read_body` for `closed_` only. The handler of an
old header that runs after `begin_connect` has reset `closed_` therefore asks the
new socket for a body. That socket is not open until its resolve has been
handled, and asio rejects the read (`is_open`, the operation `rejected`); the
error closes the new attempt. `OneOperationAtATime` counts such a read, and says
that no read or write that asio accepts is under way beside a resolve or a
connect. `waiting` is a set: two equal operations, which only overlapping
attempts can start, are one member of it.

`overlap` is history: an attempt began while the resolve or the connect of an
earlier one was unfinished. Nothing cancels a resolve (`resolver_.cancel` is
never called), and no handler can tell whose completion it handles. If the user
closes an attempt and starts another while the first one's resolve is under way,
both resolves go on to connect the socket in use, and two reads or two writes
can be under way on it at once. `OneOperationAtATime` and
`InOrderOnce` therefore speak of runs without `overlap`; `NoStuckPacket`,
`ViewMatchesConnection` and `AttemptEnds` hold with it too. This came up as a
step of the proof that failed: at the bound of two attempts the earlier, stronger
statements held.

**ServerSession.** All sessions run on one thread, so a handler is one action;
but the handler of one session sends to others, and completions of a socket
that was closed are still handled. What a processor does with a message is
`Lobby`'s subject: here it makes any number of calls of `send()` on any
sessions (`Bursts`). A packet is its number, a header the length it announces,
and only whether that length is accepted matters. Three exceptions leave a
handler and end the process: a message without a `type`
(`handshake_message_processor.cpp:109`), an answer that quotes bytes which are no
UTF-8 (`:105`, thrown by `dump` in `session.cpp:44`), both `RunBodyThrows`, and
`remote_endpoint()` of a connection that is gone already (`server.cpp:28`,
`AcceptThrows`). No `on_disconnect` is called then; what is on disk in that case
is the subject of `Storage` (`Crash`). The refinement to
`PacketLink` is the identity on `closed`, `sent` and `got`.

**ClientView.** Prompts are numbered so that an old one can be told from the
live one; the code has no such number. Messages that only add a line to the log
are left out, and so is the `GameStateUpdate` that an award sends
(`game_session.cpp:650`) where the next one follows in the same handler. That a departure can move the turn to a player who is never
prompted (run `hand_stalls`) is a matter of `GameSession`; here the server
prompts whoever it waits for.

## Runs

### Passing

| Run | Instance | What it shows |
|---|---|---|
| `side_pot_loop` | 4 players, contributions 0..4, every set of folds | the loop ends; every chip is in one pot or still with its owner at every turn; a player can win from each opponent exactly the smaller of the two contributions; later pots have strictly fewer contenders |
| `table_of_three` | 3 players with 2 chips, blinds 1 and 2, raises to 6 | seat indices stay in range through any departures; the ledger of each stack; pot against contributions; the server waits only for a player it has prompted; equal stakes at a showdown; folded players gain nothing; no step creates a chip, and chips are lost only when the pot is closed after a departure or an uncalled folded bet; the engine implements `Table`, the saving of winnings at the end of a hand included; no bet to call wraps around; every hand that nobody leaves is resolved if prompted players answer |
| `lobby` | 3 connections, 3 accounts, 2 rooms, capacities 1 to 3 | the lobby's map, the rooms and the games agree; nothing of a lost connection stays behind; no money appears although balances are read while chips are on a table |
| `client_connection` | 2 reconnects or endpoint changes; a login, the request it triggers and a message | unless attempts overlap, one operation at a time on a socket, and packets arrive in order and once; no packet is stuck in the queue; the view shows the state of the connection; every attempt that the io thread sees ends |
| `server_session` | 2 sessions, 2 packets to each and 2 from clients, lengths 1 and 3 where 2 is the limit | an open session has exactly one read and, if its queue is not empty, one write under way, of the front packet; the disconnect is reported once; a session is a `PacketLink`; a lost client is noticed unless an exception has ended the process |
| `client_view` | 3 prompts, 2 requests and 3 messages under way, 1 lost connection | a live prompt is never lost; the screen is the one for where the server has the player |
| `storage` | 3 accounts, new file or one of version 1, 2 crashes, 1 failed UPDATE, 2 hands | the schema version never promises what is not there; a start fails only on a file that is beyond repair (`Doomed`); balances exceed what was granted only after a save that was cut short; a crash costs nobody chips in front of them and gives back at most the pot |
| `cards` | every deal of two decks of nine to two players and of six hole cards to three; tables too large for the deck; all classes of five cards of the full deck and every six cards of the decks of nine | no card is dealt twice; the server runs out of cards only if the deck is too small for the table; evaluator and winners are those of the rules; the loop moves forward |
| `wire` | 2 messages out of every kind, of length 1 and of the limit, from a current or an older peer | what is received is what was meant, whatever keys the two sides use; no packet one end lets out is refused by the other; everything is delivered |

The type invariant of a module (`TypeOK`) is a conjunct of its structural
invariant (`NoChipLostWhilePeeling`, `RoomsAgree`, `ViewMatchesConnection`,
`ScreenMatchesServer`, `OpenSessionListens`, `SchemaIsSound`, `NoCardTwice`,
`UnderstoodAsMeant`); that of `GameSession` is checked by itself, for it is also
proved.

### Where documents and code disagree

| Run | The document | What the code does |
|---|---|---|
| `hand_stalls` | `README.md:147` the session continues if two players remain | after a departure the turn may belong to a player who was never prompted, and the prompted player's answer is refused |
| `two_spellings` | `error_codes.h:67` "Account is already online", `test_login_auth.cpp:105` "Login rejects already online account" | the name registry compares names with case (`player_name_registry.cpp:5`), the users table without (`COLLATE NOCASE`, `database.cpp:137`): two spellings of one name log in to one account |
| `reconnect` | `README.md:93` Reconnect opens a new session | `io.run()` has returned with the lost connection and nobody carries out the attempt |

Each of these runs checks one property and TLC prints the behaviour that
breaks it. More behaviours are part of the models without a run of their own:

* `tests/test_chip_persistence.cpp:143` "conserves chips": the chips of a player
  who left, and the part of a folded bet above every contender's, are in no side
  pot; `pot_ = 0` drops them. `ChipsConserved` names the two cases exactly.
* `README.md:77` asks for 20 chips to create or join a room. The balance is
  checked before leaving the old room saves the smaller stack of the hand in
  play (`lobby.cpp:51`), so a player may enter with less. `MoneyIsGranted` holds
  all the same.
* `README.md:63` "Schema migrations run automatically on server start". A file
  of version 1 that has accounts cannot be upgraded: SQLite refuses ADD COLUMN
  with the default `datetime('now')` on a table with rows, and the server does
  not start. The test of the migration uses an empty table. A crash between
  the ALTER TABLE and the write of the version has the same effect (`Doomed` in
  `Storage`).
* A crash inside `persist_all_chips` after an award may leave the winner's new
  balance beside a loser's old one: chips multiply on disk (`torn`).
* A table for more players than the deck serves ends the server with an
  exception (`RunsOutOnlyIfTooMany`); `max_players` has no upper limit but 255.
* `README.md:76` says that balances are written after each hand. If the last
  player in the hand has contributed nothing, no pot is paid and
  `award_all_pots` saves nothing (`game_session.cpp:648`); the database then
  holds more than the stacks, never less (`Close` of `Table`).
* With fewer than two players with chips the session does not end
  (`README.md:147`): `try_start_new_hand` returns and the session goes on
  accepting actions (`game_over` in `GameSession`). The ledger and the
  conservation of chips are checked there too.
* A big blind that cannot cover the small blind leaves the small blind ahead of
  `current_bet_`: a check is refused although there is no bet, and a call wraps
  around to all-in. `ShortBigBlind` names the case, and `NeverBetAhead` and
  `EqualStakesAtShowdown` except it.
* A `GameStateUpdate` clears the prompt only while an action is pending, so a
  prompt that the server has dropped stays on the client's screen.
* `JoinedRoom` and a lost connection reset the prompt but not its saved copy; a
  late `Error` puts it back outside the game.

### Bounds

*Three players* are the fewest with a departure that leaves a table, a folded
third contributor, three layers of side pots and a dealer who is not a blind.
Stacks of one big blind make every hand go all-in within two actions and reach
splits, busts, short blinds and the next deal; the hands go on for ever, for
the sum of chips is the only bound. Chips gather, so raises that are not all-in,
short all-in raises, later streets with bets and heads-up hands with blinds
posted by the dealer occur too. The same properties were checked once with
stacks of three (2 million states). `MaxRaise` is at least the sum of the chips:
larger totals are refused for lack of chips. `UIntRange` = 64 stands for 2^32:
any number above all chips wraps to "more than the stack".
*Four contributions of 0..4* give every order of up to four distinct all-ins.
*Two rooms and three connections* are the fewest in which a player moves from
a running table to another room and the table goes on. Rooms are numbered for
ever in the code; `MaxRoomId` ends creation, not the rest. In
`lobby` every account has one spelling, and `MaxMoney` is the sum of all grants,
which nothing exceeds; in `two_spellings` one of two accounts has two. The
invariants of `lobby` were checked once on that instance as well (74,000 states),
and they are proved for every assignment of names to accounts.
*Two reconnects* put handlers of two dead sockets behind a live one; a login,
the request for rooms that the Welcome triggers and one more message (`MaxSends`
is 3) let a write be under way with others in the queue. The invariants were also
checked once with two logins and four packets (1.1 million states) and with three
reconnects (22 million).
*Two sessions* let one handler send to the other, two packets let one wait in
the queue behind the other, and the lengths are one that is accepted and one
that is not.
*Storage*: two crashes put a crash into the recovery from a crash; one failed
UPDATE lets a later save make it good or a departure forget it; two hands let a
save follow an award. `MaxDropped` is the number of chips of a pot that are in
no side pot.
*Cards*: the decks of nine are rich in what the evaluator tells apart (low runs
with the ace in one suit, three ranks with several copies) and are dealt in
every way; five-card hands are complete up to the choice of suits.
*Wire*: a byte with two values makes a header of four digits, and the
lengths 1, 10 and 11 are the shortest, the limit and one more; two messages are enough for a
wrong length to shift the second. `MaxSent` bounds only the sender.
`MaxDown` bounds only when the server takes up something new, not what it sends
in one go.

Symmetry is used in `lobby` and `two_spellings`, on connections and on names that
are the only spelling of their account, and in `storage`, on
accounts, and only with invariants.

Deadlock is checked for `Lobby` and `ClientView`. The others really stop: a
session of fewer than two players, a client that has quit trying, sessions that
are all closed, a function that has returned, a showdown that is decided, a
sender that has sent all it may, a database that can never be opened again.

### Fairness

`GameSession`: `WF(Step)`, a handler that has begun runs to its end; and
`WF(Answer)`, a player who holds a prompt answers it. The second is an
assumption about people: the server has no timeout on a turn. Nothing says that
anybody leaves, raises or stays.
`NetworkClient`: the io thread runs handlers that are queued and `run` returns
when it is out of work; a pending resolve, connect or timer completes (the
operating system's own timeouts see to that, and the client sets a timer); the
UI thread finishes a `reconnect()` it has begun. No fairness for the network
delivering data, the user or the peer.
`ServerSession`: the thread runs the handlers that are queued, and a read that
can complete does: data that has arrived is read, and the read of a broken link
fails sooner or later. The code sets no keepalive and no timeout, so the second
half is the operating system's. Nothing says that a write ends or that a client
sends.
`SidePotLoop`: the function runs.
`Wire`: TCP delivers what was written while the connection lasts, and the
io thread runs the handlers of reads that can complete.

## Proofs

TLAPS checks 34 theorems, for every value of the constants that satisfies the
named assumptions of the module, not only for the instances of the runs. Every
invariant below was first checked by TLC on the runs' instances.

| Module | Theorem | States | For every |
|---|---|---|---|
| `SidePotLoopProofs` | `PeelingLosesNothing` | `Spec => []NoChipLostWhilePeeling` | finite set of players, contributions, folds |
| | `SidePotsAreTableStakes` | `Spec => []TableStakes` | |
| `GameSessionProofs` | `InductiveInvariant`, `TypeCorrect`, `LedgerHolds` | `Spec => []IndInv`, `[]TypeOK`, `[]StackLedger` | finite set of players, seating of two or more, bankrolls, blinds |
| | `FoldedGainNothing` | `Spec => FoldedNeverPaid`, an action property | |
| | `PromptedPlayerCanAct`, `NobodyBetsAhead`, `ShowdownIsEqual`, `PotIsBacked` | `[]SomeoneIsAsked`, `[]NeverBetAhead`, `[]EqualStakesAtShowdown`, `[]PotBacked` | |
| | `NoChipIsCreated` | `Spec => ChipsConserved`, an action property | |
| | `GameSessionIsTable` | `Spec => IsTable`, the refinement | |
| `LobbyProofs` | `LobbyHolds`, `RoomsAgreeHolds`, `GamesAgreeHolds`, `NoGhostsHolds` | `Spec => []LobbyInv`, `[]RoomsAgree`, `[]GamesAgree`, `[]NoGhosts` | finite set of connections and of accounts, names, number of rooms, capacities |
| | `MoneyIsGrantedHolds` | `Spec => []MoneyIsGranted` | also every assignment of names to accounts |
| `StorageProofs` | `StorageHolds`, `MigrationsAreSound`, `CrashesCostNoStack`, `OnlyTornSavesMultiply`, `CrashRefundsAtMostThePot` | `[]StorageInv`, `[]SchemaIsSound`, `[]StacksAreDurable`, `[]MoneyMultipliesOnlyTorn`, `[]CrashRefundsBets` | finite set of accounts, number of crashes, failures and hands |
| `ClientViewProofs` | `ViewHolds`, `NoPromptIsLost`, `ScreenFollowsServer` | `[]ViewInv`, `[]PromptIsShown`, `[]ScreenMatchesServer` | number of prompts and of messages under way |
| `ServerSessionProofs` | `SessionHolds`, `SessionsListen`, `QueuesAreWritten` | `[]SessionInv`, `[]OpenSessionListens`, `[]QueueIsWritten` | finite set of connections, lengths, number of packets |
| | `SessionsArePacketLinks` | `Spec => IsPacketLink`, the refinement | |
| `NetworkClientProofs` | `ClientHolds`, `OneOperationAtATimeHolds`, `NoStuckPacketHolds`, `InOrderOnceHolds`, `ViewMatchesConnectionHolds` | `Spec => []ClientInv`, `[]OneOperationAtATime`, `[]NoStuckPacket`, `[]InOrderOnce`, `[]ViewMatchesConnection` | number of reconnects, logins and messages |

Assumptions. `GameSession`: `Player` is finite; a player has one seat and there
are two or more (`Room::try_start_game`); blinds are positive, the small one not
above the big one; bankrolls cover the big blind (`load_player_bankrolls`).
`SidePotLoop`, `Storage`, `ServerSession`: finitely many players, accounts or
connections; the chips a new account gets and the blinds are positive.
`Lobby`: finitely many connections and accounts; nothing is assumed of how
names select accounts. The bounds of all modules are natural numbers.

**Sums.** `SumOver` counts a set of chips instead of recursing, so the facts
about finite sets apply to it. `ChipSums` derives from them that a sum is a
number, splits over disjoint sets, adds up pointwise, is monotone, changes by
what one member changes, and is the same over any set in one-to-one
correspondence (`SumReindex`).

**Side pots.** What the pots hold is not enough to go on: `LoopInv` adds that
the turns so far have taken the same amount off everybody who still has chips
outside (`SameLevel`), that the contenders of the next pot were contenders of
all pots before, in larger company (`StillCompeting`), and that whoever has
dropped out can win what table stakes say already (`DroppedAreSettled`).

**Betting engine.** `TypeOK` is not inductive alone. That the indices survive a
departure needs at least two seats while a handler runs and one seat per player
(`SeatsSound`); that the departing player can be found after the award needs
`LeaverSeated`; that an award pays whole, nonnegative amounts to players with
stacks needs `AwardSound`; the ledger needs every seated player to have an entry
in `stake` (`StakeSound`). `IndInv` is the conjunction of these with `TypeOK`
and `StackLedger`. There is a lemma per action, and `NextInv` combines them.
`TurnTypes` says that the searches for a seat end at one (through
well-foundedness of the naturals, for `Min` is a `CHOOSE`).

On top of it come three layers. `HandGoesOn` is what the order of the handlers
implies: the function that runs next, the street, who is still in the hand and
whom the server has asked belong together. `StreetLevel` says that in a hand
nobody has left no bet is above `current_bet_` and nobody who can act is behind
in an earlier street; equal stakes at the showdown follow when the last street
ends. `MoneyInv` relates the pot to the contributions, the pots not yet paid to
the chips not yet paid out, and the balances to the stacks. `ChipsConserved` and
the refinement of `Table` follow from it, one step of `Table` or a stutter for
each action: `Start` is `NewHand`, an action of a player is `Bet` or `GiveUp`,
`PayPot` is `Pay`, `AwardEnd` is `Close`, `RemovePlayer` folds the leaver's hand
(`GiveUp`) and `ErasePlayer` is `Leave`, `TryStartNewHand` is `GameOver` or
nothing, and the rest of the handlers stutter.

**Storage.** The properties speak of states in which no save is under way.
`StorageInv` says what they mean in between: a row is `Dirty` when its UPDATE is
still to come or has failed, and only rows that are not dirty cover the stack,
exceed it by no more than the pot in sum, and count as they are in the amount
that would be on disk if every pending save were made now (`OnceSaved`). A
crash that drops a pending save is what makes a save torn.

**Client view.** `ViewInv` says what the screen and the prompt will be while
messages are under way: the last message in the channel that decides them
decides rightly, and those behind it leave them alone (`Decides`); if there is
none the client shows it already (`All`). An answered prompt is the one
exception: it may be hidden as long as its answer is under way.

**Server sessions.** A read or a write is a token that is either waiting or in
the queue of completions; `SessionInv` counts them per session (`OneOf`,
`NoneOf`), says that the packet being written is the front of the queue, and
that the queue together with what the client has, less a write that is done and
not yet handled, are the packets `send()` accepted (`Counted`). Handlers of one
session call `send()` on others, so the lemmas are about the member functions
as operators on the whole world, and `Kept` is what a call leaves of the other
sessions. The map to `PacketLink` is the identity; a completed write is its
delivery and a failed or refused read its end.

**Lobby.** A handler composes `Left`, `Added` and `StartedGames` on the record
`lobby`, so the invariant is stated of such a record: `Tables(l)` says that map,
members, hosts and games of `l` agree, and each of the three operators keeps it,
whatever the record in between looks like to the others. `LobbyInv` adds what
the registries know (`Known`). For the money, `Wealth(l)` counts by account:
the stack if a connection of the account plays, the balance otherwise, and the
pots. `LocalStep` shows that no operator raises it: one account or one table
changes at a time. `Money`, which counts by connection, equals `Wealth` because
connections at tables and their accounts correspond one to one as long as
no account has been online twice (`Single`, an invariant: `twice` is set by the
login that breaks it). Only a login that creates an account adds
`StartingChips` to both sides.

**Client connection.** As for the sessions, an operation is a token that waits
or whose completion is queued, but here one object outlives many sockets.
`Sound` says of the client and the two queues: no read, write or connect waits on any
but the socket in use, packets are queued and posted in the order of `send()`
(`Ordered`), `write_in_progress_` and the writes under way agree (`Flagged`,
`Flushed`), and, without overlap (`Calm`), there is at most one of resolve,
connect and read for the socket in use, which one follows from the state
(`Phase`), and the completions of closed sockets are ahead of its resolve in the
FIFO queue (`Behind`). That the read of an old handler is rejected, and rejected
at most once, needs two facts more: such a handler runs before that of the
resolve, so while the socket is not open, and a header that has been read and a
rejected body are one token, whatever socket they come from (`Going`,
`OneRead`). A rejected read is handled before the connect it competes with, so
it never meets a connected socket. And an old write cannot pop the new queue: it has been
handled before the new socket is used. `Seen` relates view, state and
`closed_` by where the UI thread is in `reconnect()`, and `Served` what a server
has received to what is still queued. There is a lemma for each member function
and each handler, and `Good(w, v)` is what a handler must establish.

Only model-checked:

* liveness (`HandEndsUnlessLeft`, `AttemptEnds`, `LossIsNoticed`, `Terminates`,
  `Delivered`): temporal reasoning with ENABLED is beyond this prover;
* the evaluator (`BestByTheRules`, `WinnersByTheRules`): what a loop computes for
  every input needs induction over data;
* the deck and the loop's index (`NoCardTwice`, `RunsOutOnlyIfTooMany`,
  `LoopAdvances`): the questions are finite, and `cards` answers them for its
  decks;
* `UnderstoodAsMeant`: a table of message kinds, enumerated by `wire`.

## Not modelled

* Name and password rules (`auth.cpp`) and password hashing: tests on
  characters and calls of a cryptographic library, without state. A login is
  given whether its name is valid and whether its password matches.
* The text of JSON: quoting, numbers, UTF-8. `dump` and `parse` are external and
  inverse to each other.
* Failures of SQLite other than a failing UPDATE and the rule for ALTER TABLE:
  a full disk, a file locked by a second server.
* The client's line parser (`command.cpp`, `process_input`): nothing calls it.
* Rendering, focus, translation, the settings file.

## What could come next

* A proof of `NoCardTwice` and `RunsOutOnlyIfTooMany` for a deck and a table of
  any size.
* If the client learns to cancel a resolve, or handlers to compare the socket
  they belong to, `overlap` can go, and with it the condition of
  `OneOperationAtATime` and `InOrderOnce`.
* If the name registry compares names as the database does, `OneLoginPerAccount`
  becomes an invariant and `twice` can go.
