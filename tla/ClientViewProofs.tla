-------------------------- MODULE ClientViewProofs --------------------------
(***************************************************************************)
(* Proofs about what one client shows.  The promises of ClientView are     *)
(* about states in which nothing is under way; the inductive invariant     *)
(* says what they mean while messages are: the last message under way that *)
(* decides the screen, or the prompt, decides it rightly, and what comes   *)
(* after it keeps it; when there is none the client shows it already.      *)
(***************************************************************************)
EXTENDS ClientView, SequenceTheorems, TLAPS

\* Every message of s has one of the types.
All(s, types) == \A i \in 1..Len(s) : s[i].type \in types

\* A message of M is in s, and those after it have one of the types.
Decides(s, M, types) ==
    \E i \in 1..Len(s) :
        s[i] \in M /\ \A j \in 1..Len(s) : j > i => s[j].type \in types

Has(s, m) == \E i \in 1..Len(s) : s[i] = m

Prompt == 0..MaxPrompts
UpMsg == [type : {"Login", "CreateRoom", "JoinRoom", "LeaveRoom", "StartGame", "PlayerAction"},
          prompt : Prompt, start : BOOLEAN]
DownMsg == [type : {"Welcome", "JoinedRoom", "JoinedGame", "GameStateUpdate", "YourTurn", "LeftRoom", "Error"},
            prompt : Prompt, start : BOOLEAN]
OfType(types) == {m \in DownMsg : m.type \in types}

Typed ==
    /\ TypeOK
    /\ up \in Seq(UpMsg) /\ down \in Seq(DownMsg)
    /\ prompts \in Prompt
    /\ host \in BOOLEAN /\ orphaned \in BOOLEAN

\* The messages that leave a prompt on the table's screen alone.
Harmless == {"Error", "GameStateUpdate", "JoinedGame"}

\* The unanswered prompt is under way, shown, or its answer is under way.
Prompted ==
    turn # 0 =>
        \/ Decides(down, {YourTurn(turn)}, Harmless)
        \/ /\ All(down, Harmless) /\ screen = "InGame"
           /\ \/ your_turn = turn /\ saved = 0
              \/ /\ your_turn \in {0, turn} /\ saved \in {0, turn}
                 /\ Has(up, Action(turn))

\* Before the login only Login and an old action are sent, and errors answered.
Outside ==
    ~logged_in =>
        /\ screen \in {"Login", "Disconnected"}
        /\ All(up, {"Login", "PlayerAction"}) /\ All(down, {"Error"})

\* The screen is s, or becomes s by a message of those types and stays.
Shows(s, makes, keeps) ==
    \/ Decides(down, OfType(makes), keeps)
    \/ screen = s /\ All(down, keeps)

Placed ==
    /\ room = "game" =>
         Shows("InGame", {"GameStateUpdate", "YourTurn"}, {"GameStateUpdate", "YourTurn", "JoinedGame", "Error"})
    /\ room \in {"alone", "waiting"} => Shows("WaitingRoom", {"JoinedRoom"}, {"JoinedRoom", "Error"})
    /\ room = "none" /\ logged_in /\ ~orphaned =>
         Shows("Lobby", {"Welcome", "LeftRoom"}, {"Welcome", "LeftRoom", "Error"})

ViewInv == Typed /\ Prompted /\ Outside /\ Placed
-----------------------------------------------------------------------------
(* Messages under way. *)

(* Taking the first message from a sequence. *)
LEMMA TailFacts ==
  ASSUME NEW S, NEW s \in Seq(S), s # <<>>, NEW K, NEW M
  PROVE  /\ Tail(s) \in Seq(S) /\ Head(s) \in S
         /\ All(s, K) => All(Tail(s), K) /\ Head(s).type \in K
         /\ Decides(s, M, K) => Decides(Tail(s), M, K) \/ (Head(s) \in M /\ All(Tail(s), K))
         /\ \A m : Has(s, m) => Has(Tail(s), m) \/ Head(s) = m
<1>1. /\ Tail(s) \in Seq(S) /\ Head(s) = s[1] /\ s[1] \in S /\ Len(s) \in Nat /\ Len(s) >= 1
      /\ Len(Tail(s)) = Len(s) - 1 /\ \A i \in 1..Len(Tail(s)) : Tail(s)[i] = s[i + 1]
  OBVIOUS
<1>2. All(s, K) => All(Tail(s), K) /\ Head(s).type \in K
  BY <1>1 DEF All
<1>3. ASSUME Decides(s, M, K) PROVE Decides(Tail(s), M, K) \/ (Head(s) \in M /\ All(Tail(s), K))
  <2>1. PICK i \in 1..Len(s) : s[i] \in M /\ \A j \in 1..Len(s) : (j > i => s[j].type \in K)
    BY <1>3 DEF Decides
  <2>2. CASE i = 1
    BY <1>1, <2>1, <2>2 DEF All
  <2>3. CASE i # 1
    <3>1. i - 1 \in 1..Len(Tail(s)) /\ Tail(s)[i - 1] \in M
      BY <1>1, <2>1, <2>3
    <3>2. \A j \in 1..Len(Tail(s)) : (j > i - 1 => Tail(s)[j].type \in K)
      BY <1>1, <2>1
    <3>3. QED BY <3>1, <3>2 DEF Decides
  <2>4. QED BY <2>2, <2>3
<1>4. ASSUME NEW m, Has(s, m) PROVE Has(Tail(s), m) \/ Head(s) = m
  <2>1. PICK i \in 1..Len(s) : s[i] = m
    BY <1>4 DEF Has
  <2>2. CASE i # 1
    <3>1. i - 1 \in 1..Len(Tail(s)) /\ Tail(s)[i - 1] = m
      BY <1>1, <2>1, <2>2
    <3>2. QED BY <3>1 DEF Has
  <2>3. QED BY <1>1, <2>1, <2>2
<1>5. QED BY <1>1, <1>2, <1>3, <1>4

(* Sending more messages. *)
LEMMA ConcatFacts ==
  ASSUME NEW S, NEW s \in Seq(S), NEW t \in Seq(S), NEW K, NEW M
  PROVE  /\ s \o t \in Seq(S)
         /\ All(s, K) /\ All(t, K) => All(s \o t, K)
         /\ Decides(s, M, K) /\ All(t, K) => Decides(s \o t, M, K)
         /\ Decides(t, M, K) => Decides(s \o t, M, K)
<1>1. /\ s \o t \in Seq(S) /\ Len(s) \in Nat /\ Len(t) \in Nat /\ Len(s \o t) = Len(s) + Len(t)
      /\ \A i \in 1..Len(s) : (s \o t)[i] = s[i]
      /\ \A i \in 1..Len(t) : (s \o t)[Len(s) + i] = t[i]
  OBVIOUS
<1>2. \A i \in 1..Len(s \o t) : i \in 1..Len(s) \/ (i - Len(s) \in 1..Len(t) /\ (s \o t)[i] = t[i - Len(s)])
  <2>1. ASSUME NEW i \in 1..Len(s \o t), i \notin 1..Len(s)
        PROVE  i - Len(s) \in 1..Len(t) /\ (s \o t)[i] = t[i - Len(s)]
    <3>1. i - Len(s) \in 1..Len(t) /\ Len(s) + (i - Len(s)) = i
      BY <1>1, <2>1
    <3>2. QED BY <1>1, <3>1
  <2>2. QED BY <2>1
<1>3. ASSUME All(s, K), All(t, K) PROVE All(s \o t, K)
  BY <1>1, <1>2, <1>3 DEF All
<1>4. ASSUME Decides(s, M, K), All(t, K) PROVE Decides(s \o t, M, K)
  <2>1. PICK i \in 1..Len(s) : s[i] \in M /\ \A j \in 1..Len(s) : (j > i => s[j].type \in K)
    BY <1>4 DEF Decides
  <2>2. i \in 1..Len(s \o t) /\ (s \o t)[i] \in M
    BY <1>1, <2>1
  <2>3. \A j \in 1..Len(s \o t) : (j > i => (s \o t)[j].type \in K)
    BY <1>1, <1>2, <1>4, <2>1 DEF All
  <2>4. QED BY <2>2, <2>3 DEF Decides
<1>5. ASSUME Decides(t, M, K) PROVE Decides(s \o t, M, K)
  <2>1. PICK i \in 1..Len(t) : t[i] \in M /\ \A j \in 1..Len(t) : (j > i => t[j].type \in K)
    BY <1>5 DEF Decides
  <2>2. Len(s) + i \in 1..Len(s \o t) /\ (s \o t)[Len(s) + i] \in M
    BY <1>1, <2>1
  <2>3. ASSUME NEW j \in 1..Len(s \o t), j > Len(s) + i PROVE (s \o t)[j].type \in K
    <3>1. j - Len(s) \in 1..Len(t) /\ (s \o t)[j] = t[j - Len(s)] /\ j - Len(s) > i
      BY <1>1, <1>2, <2>1, <2>3
    <3>2. QED BY <2>1, <3>1
  <2>4. QED BY <2>2, <2>3 DEF Decides
<1>6. QED BY <1>1, <1>3, <1>4, <1>5

(* A single message, and none. *)
LEMMA OneFacts ==
  ASSUME NEW S, NEW m \in S, NEW K, NEW M
  PROVE  /\ <<m>> \in Seq(S) /\ (m.type \in K => All(<<m>>, K)) /\ (m \in M => Decides(<<m>>, M, K))
         /\ <<>> \in Seq(S) /\ All(<<>>, K)
BY DEF All, Decides

(* A request is made: those under way stay under way. *)
LEMMA AppendFacts ==
  ASSUME NEW S, NEW s \in Seq(S), NEW m \in S, NEW K
  PROVE  /\ Append(s, m) \in Seq(S)
         /\ All(s, K) /\ m.type \in K => All(Append(s, m), K)
         /\ Has(Append(s, m), m)
         /\ \A x : Has(s, x) => Has(Append(s, m), x)
<1>1. /\ Append(s, m) \in Seq(S) /\ Len(s) \in Nat /\ Len(Append(s, m)) = Len(s) + 1
      /\ \A i \in 1..Len(s) : Append(s, m)[i] = s[i]
      /\ Append(s, m)[Len(s) + 1] = m
  OBVIOUS
<1>2. All(s, K) /\ m.type \in K => All(Append(s, m), K)
  BY <1>1 DEF All
<1>3. Has(Append(s, m), m)
  BY <1>1 DEF Has
<1>4. \A x : Has(s, x) => Has(Append(s, m), x)
  BY <1>1 DEF Has
<1>5. QED BY <1>1, <1>2, <1>3, <1>4

(* What the messages are. *)
LEMMA MessageFacts ==
  /\ \A k \in {"Welcome", "GameStateUpdate", "LeftRoom", "Error"} :
        Msg(k) \in DownMsg /\ Msg(k).type = k
  /\ \A k \in {"Login", "CreateRoom", "JoinRoom", "LeaveRoom", "StartGame"} :
        Msg(k) \in UpMsg /\ Msg(k).type = k
  /\ \A p \in Prompt : /\ YourTurn(p) \in DownMsg /\ YourTurn(p).type = "YourTurn" /\ YourTurn(p).prompt = p
                       /\ Action(p) \in UpMsg /\ Action(p).type = "PlayerAction" /\ Action(p).prompt = p
  /\ \A b \in BOOLEAN :
        /\ JoinedRoom("game", b) \in DownMsg /\ JoinedRoom("game", b).type = "JoinedGame"
        /\ \A w \in {"alone", "waiting"} : JoinedRoom(w, b) \in DownMsg /\ JoinedRoom(w, b).type = "JoinedRoom"
<1>1. 0 \in Prompt
  BY BoundsNat DEF Prompt
<1>2. QED BY <1>1 DEF Msg, YourTurn, Action, JoinedRoom, DownMsg, UpMsg

(* Before anything is sent the client shows the login. *)
LEMMA InitView == Init => ViewInv
<1> SUFFICES ASSUME Init PROVE ViewInv
  OBVIOUS
<1>1. Typed
  <2>1. action_pending = (saved # 0)
    BY DEF Init
  <2>2. {logged_in, host, orphaned} \subseteq BOOLEAN
    BY DEF Init
  <2>3. your_turn \in 0..MaxPrompts /\ saved \in 0..MaxPrompts /\ turn \in 0..prompts /\ prompts \in 0..MaxPrompts
    BY BoundsNat DEF Init
  <2>4. up \in Seq(UpMsg) /\ down \in Seq(DownMsg)
    BY DEF Init
  <2>5. QED BY <2>1, <2>2, <2>3, <2>4 DEF Init, Typed, TypeOK, Prompt
<1>2. Prompted
  BY DEF Init, Prompted
<1>3. Outside
  BY DEF Init, Outside, All
<1>4. Placed
  BY DEF Init, Placed
<1>5. QED BY <1>1, <1>2, <1>3, <1>4 DEF ViewInv

(* The client takes a message: the message sets the screen and the prompt the
   way its type says, and one that decides neither leaves them alone. *)
LEMMA ReceiveKeeps ==
  ASSUME ViewInv, down # <<>>, down' = Tail(down), UNCHANGED <<up, server, losses>>,
         screen' \in {"Login", "Lobby", "WaitingRoom", "InGame", "Disconnected"},
         your_turn' \in Prompt, saved' \in Prompt, action_pending' = (saved' # 0),
         Head(down).type = "Error" => screen' = screen,
         Head(down).type \in {"GameStateUpdate", "YourTurn"} => screen' = "InGame",
         Head(down).type = "JoinedGame" /\ screen = "InGame" => screen' = "InGame",
         Head(down).type = "JoinedRoom" => screen' = "WaitingRoom",
         Head(down).type \in {"Welcome", "LeftRoom"} => screen' = "Lobby",
         Head(down).type = "YourTurn" => your_turn' = Head(down).prompt /\ saved' = 0,
         Head(down).type \in Harmless /\ screen = "InGame" /\ saved = 0 => your_turn' = your_turn /\ saved' = 0,
         Head(down).type \in Harmless /\ screen = "InGame" =>
            your_turn' \in {0, your_turn, saved} /\ saved' \in {0, saved}
  PROVE  ViewInv'
<1>1. UNCHANGED <<up, room, host, turn, prompts, logged_in, orphaned>>
  BY DEF server
<1>2. Typed /\ TypeOK /\ down \in Seq(DownMsg)
  BY DEF ViewInv, Typed
<1>3. Typed'
  BY <1>1, <1>2, HeadTailProperties DEF Typed, TypeOK, Prompt
<1>4. \A K, M : /\ All(down, K) => All(down', K) /\ Head(down).type \in K
                /\ Decides(down, M, K) => Decides(down', M, K) \/ (Head(down) \in M /\ All(down', K))
  BY <1>2, TailFacts
<1>5. ASSUME turn # 0
      PROVE  \/ Decides(down', {YourTurn(turn)}, Harmless)
             \/ /\ All(down', Harmless) /\ screen' = "InGame"
                /\ \/ your_turn' = turn /\ saved' = 0
                   \/ /\ your_turn' \in {0, turn} /\ saved' \in {0, turn}
                      /\ Has(up, Action(turn))
  <2>1. turn \in Prompt
    BY <1>2, BoundsNat DEF Typed, TypeOK, Prompt
  <2>2. CASE Decides(down, {YourTurn(turn)}, Harmless)
    <3>1. CASE Head(down) \in {YourTurn(turn)} /\ All(down', Harmless)
      <4>1. Head(down).type = "YourTurn" /\ Head(down).prompt = turn
        BY <2>1, <3>1, MessageFacts
      <4>2. QED BY <3>1, <4>1
    <3>2. QED BY <1>4, <2>2, <3>1
  <2>3. CASE /\ All(down, Harmless) /\ screen = "InGame"
             /\ \/ your_turn = turn /\ saved = 0
                \/ /\ your_turn \in {0, turn} /\ saved \in {0, turn}
                   /\ Has(up, Action(turn))
    <3>1. All(down', Harmless) /\ Head(down).type \in Harmless
      BY <1>4, <2>3
    <3>2. screen' = "InGame"
      BY <2>3, <3>1 DEF Harmless
    <3>3. QED BY <2>3, <3>1, <3>2
  <2>4. QED BY <1>5, <2>2, <2>3 DEF ViewInv, Prompted
<1>6. Prompted'
  BY <1>1, <1>5 DEF Prompted
<1>7. Outside'
  <2>1. ASSUME ~logged_in
        PROVE  screen' \in {"Login", "Disconnected"} /\ All(up, {"Login", "PlayerAction"}) /\ All(down', {"Error"})
    BY <1>4, <2>1 DEF ViewInv, Outside
  <2>2. QED BY <1>1, <2>1 DEF Outside
<1>8. ASSUME NEW s, NEW makes, NEW keeps, Shows(s, makes, keeps),
             Head(down).type \in makes => screen' = s,
             Head(down).type \in keeps /\ screen = s => screen' = s
      PROVE  Decides(down', OfType(makes), keeps) \/ (screen' = s /\ All(down', keeps))
  <2>1. CASE Decides(down, OfType(makes), keeps)
    <3>1. Head(down) \in OfType(makes) => Head(down).type \in makes
      BY DEF OfType
    <3>2. QED BY <1>4, <1>8, <2>1, <3>1
  <2>2. CASE screen = s /\ All(down, keeps)
    BY <1>4, <1>8, <2>2
  <2>3. QED BY <1>8, <2>1, <2>2 DEF Shows
<1>9. Placed'
  <2>1. room = "game" =>
          \/ Decides(down', OfType({"GameStateUpdate", "YourTurn"}), {"GameStateUpdate", "YourTurn", "JoinedGame", "Error"})
          \/ screen' = "InGame" /\ All(down', {"GameStateUpdate", "YourTurn", "JoinedGame", "Error"})
    BY <1>8 DEF ViewInv, Placed
  <2>2. room \in {"alone", "waiting"} =>
          \/ Decides(down', OfType({"JoinedRoom"}), {"JoinedRoom", "Error"})
          \/ screen' = "WaitingRoom" /\ All(down', {"JoinedRoom", "Error"})
    BY <1>8 DEF ViewInv, Placed
  <2>3. room = "none" /\ logged_in /\ ~orphaned =>
          \/ Decides(down', OfType({"Welcome", "LeftRoom"}), {"Welcome", "LeftRoom", "Error"})
          \/ screen' = "Lobby" /\ All(down', {"Welcome", "LeftRoom", "Error"})
    BY <1>8 DEF ViewInv, Placed
  <2>4. QED BY <1>1, <2>1, <2>2, <2>3 DEF Placed, Shows
<1>10. QED BY <1>3, <1>6, <1>7, <1>9 DEF ViewInv

(* PokerUI::add_server_message, message by message. *)
LEMMA ReceiveStep == ViewInv /\ Receive => ViewInv'
<1> SUFFICES ASSUME ViewInv, Receive PROVE ViewInv'
  OBVIOUS
<1>1. Typed /\ TypeOK /\ down \in Seq(DownMsg)
  BY DEF ViewInv, Typed
<1>2. down # <<>> => Head(down) \in DownMsg
  BY <1>1
<1>3. your_turn \in Prompt /\ saved \in Prompt /\ 0 \in Prompt /\ action_pending = (saved # 0)
  BY <1>1, BoundsNat DEF TypeOK, Prompt
<1> USE DEF Arrives, Harmless
<1>4. CASE ReceiveWelcome
  BY <1>1, <1>3, <1>4, ReceiveKeeps DEF ReceiveWelcome
<1>5. CASE ReceiveJoined
  BY <1>1, <1>3, <1>5, ReceiveKeeps DEF ReceiveJoined, TypeOK
<1>6. CASE ReceiveState
  BY <1>1, <1>3, <1>6, ReceiveKeeps DEF ReceiveState
<1>7. CASE ReceiveYourTurn
  <2>1. Head(down).prompt \in Prompt
    BY <1>2, <1>7 DEF ReceiveYourTurn, DownMsg
  <2>2. QED BY <1>3, <1>7, <2>1, ReceiveKeeps DEF ReceiveYourTurn
<1>8. CASE ReceiveLeft
  BY <1>1, <1>3, <1>8, ReceiveKeeps DEF ReceiveLeft
<1>9. CASE ReceiveError
  BY <1>1, <1>3, <1>9, ReceiveKeeps DEF ReceiveError, TypeOK
<1>10. QED BY <1>4, <1>5, <1>6, <1>7, <1>8, <1>9 DEF Receive
-----------------------------------------------------------------------------
(* The user. *)

(* A request is made.  Only a login or an action is sent before the login, and
   an action takes the prompt off the screen and saves it. *)
LEMMA UserKeeps ==
  ASSUME ViewInv, NEW m \in UpMsg, up' = Append(up, m),
         UNCHANGED <<screen, down, server, losses>>,
         logged_in \/ m.type \in {"Login", "PlayerAction"},
         \/ UNCHANGED <<your_turn, action_pending, saved>>
         \/ /\ your_turn # 0 /\ m = Action(your_turn)
            /\ saved' = your_turn /\ action_pending' = TRUE /\ your_turn' = 0
  PROVE  ViewInv'
<1>1. UNCHANGED <<down, screen, room, host, turn, prompts, logged_in, orphaned>>
  BY DEF server
<1>2. Typed /\ TypeOK /\ up \in Seq(UpMsg) /\ your_turn \in 0..MaxPrompts /\ saved \in 0..MaxPrompts
  BY DEF ViewInv, Typed, TypeOK
<1>3. \A K : /\ All(up, K) /\ m.type \in K => All(up', K)
             /\ Has(up', m) /\ \A x : Has(up, x) => Has(up', x)
  BY <1>2, AppendFacts
<1>4. Typed'
  <2>1. your_turn' \in 0..MaxPrompts /\ saved' \in 0..MaxPrompts /\ action_pending' = (saved' # 0)
    <3>1. CASE UNCHANGED <<your_turn, action_pending, saved>>
      BY <1>2, <3>1 DEF TypeOK
    <3>2. CASE your_turn # 0 /\ saved' = your_turn /\ action_pending' = TRUE /\ your_turn' = 0
      <4>1. your_turn' \in 0..MaxPrompts /\ saved' \in 0..MaxPrompts
        BY <1>2, <3>2, BoundsNat
      <4>2. action_pending' = (saved' # 0)
        BY <3>2, Zenon
      <4>3. QED BY <4>1, <4>2
    <3>3. QED BY <3>1, <3>2
  <2>2. up' \in Seq(UpMsg)
    BY <1>2
  <2>3. QED BY <1>1, <1>2, <2>1, <2>2 DEF Typed, TypeOK
<1>5. Prompted'
  <2>1. ASSUME turn # 0
        PROVE  \/ Decides(down, {YourTurn(turn)}, Harmless)
               \/ /\ All(down, Harmless) /\ screen = "InGame"
                  /\ \/ your_turn' = turn /\ saved' = 0
                     \/ /\ your_turn' \in {0, turn} /\ saved' \in {0, turn}
                        /\ Has(up', Action(turn))
    BY <1>2, <1>3, <2>1 DEF ViewInv, Prompted
  <2>2. QED BY <1>1, <2>1 DEF Prompted
<1>6. Outside'
  BY <1>1, <1>3 DEF ViewInv, Outside
<1>7. Placed'
  BY <1>1 DEF ViewInv, Placed, Shows
<1>8. QED BY <1>4, <1>5, <1>6, <1>7 DEF ViewInv

(* The buttons and keys of every screen. *)
LEMMA UserStep ==
  ViewInv /\ (SubmitLogin \/ CreateRoom \/ JoinRoom \/ LeaveRoom \/ StartGame
              \/ HotkeyAction \/ SubmitRaise \/ PresetRaise) => ViewInv'
<1> SUFFICES ASSUME ViewInv,
                    SubmitLogin \/ CreateRoom \/ JoinRoom \/ LeaveRoom \/ StartGame
                    \/ HotkeyAction \/ SubmitRaise \/ PresetRaise
             PROVE  ViewInv'
  OBVIOUS
<1>1. screen \notin {"Login", "Disconnected"} => logged_in
  BY DEF ViewInv, Outside
<1>2. CASE send_action
  <2>1. your_turn \in Prompt
    BY DEF ViewInv, Typed, TypeOK, Prompt
  <2>2. QED BY <1>2, <2>1, MessageFacts, UserKeeps DEF send_action, Request
<1>3. CASE SubmitLogin \/ CreateRoom \/ JoinRoom \/ LeaveRoom \/ StartGame
  <2>1. PICK k \in {"Login", "CreateRoom", "JoinRoom", "LeaveRoom", "StartGame"} :
          /\ up' = Append(up, Msg(k)) /\ UNCHANGED <<view, down, server, losses>>
          /\ k = "Login" \/ logged_in
    BY <1>1, <1>3 DEF SubmitLogin, CreateRoom, JoinRoom, LeaveRoom, StartGame, Request
  <2>2. QED BY <2>1, MessageFacts, UserKeeps DEF view
<1>4. QED BY <1>2, <1>3 DEF HotkeyAction, SubmitRaise, PresetRaise

(* The Reconnect button. *)
LEMMA ReconnectStep == ViewInv /\ Reconnect => ViewInv'
<1> SUFFICES ASSUME ViewInv, Reconnect PROVE ViewInv'
  OBVIOUS
<1>1. /\ screen = "Disconnected" /\ screen' = "Login" /\ your_turn' = 0
      /\ UNCHANGED <<action_pending, saved, up, down, room, host, turn, prompts, logged_in, orphaned>>
  BY DEF Reconnect, server
<1>2. Typed'
  BY <1>1, BoundsNat DEF ViewInv, Typed, TypeOK
<1>3. Prompted'
  BY <1>1 DEF ViewInv, Prompted
<1>4. Outside'
  BY <1>1 DEF ViewInv, Outside
<1>5. Placed'
  BY <1>1 DEF ViewInv, Placed, Shows
<1>6. QED BY <1>2, <1>3, <1>4, <1>5 DEF ViewInv

(* The connection breaks, at any moment. *)
LEMMA LossStep == ViewInv /\ ConnectionLost => ViewInv'
<1> SUFFICES ASSUME ViewInv, ConnectionLost PROVE ViewInv'
  OBVIOUS
<1>1. /\ screen' = "Disconnected" /\ your_turn' = 0 /\ up' = <<>> /\ down' = <<>>
      /\ room' = "none" /\ host' = FALSE /\ turn' = 0 /\ logged_in' = FALSE /\ orphaned' = FALSE
      /\ UNCHANGED <<action_pending, saved, prompts>>
  BY DEF ConnectionLost
<1>2. Typed'
  <2>1. your_turn' \in 0..MaxPrompts /\ saved' \in 0..MaxPrompts /\ turn' \in 0..prompts' /\ prompts' \in Prompt
        /\ action_pending' = (saved' # 0)
    BY <1>1, BoundsNat DEF ViewInv, Typed, TypeOK, Prompt
  <2>2. {logged_in', host', orphaned'} \subseteq BOOLEAN /\ room' = "none"
    BY <1>1
  <2>3. up' \in Seq(UpMsg) /\ down' \in Seq(DownMsg)
    BY <1>1
  <2>4. QED BY <1>1, <2>1, <2>2, <2>3 DEF Typed, TypeOK
<1>3. Prompted'
  BY <1>1 DEF Prompted
<1>4. Outside'
  BY <1>1 DEF Outside, All
<1>5. Placed'
  BY <1>1 DEF Placed
<1>6. QED BY <1>2, <1>3, <1>4, <1>5 DEF ViewInv
-----------------------------------------------------------------------------
(* The server. *)

GameMakes == {"GameStateUpdate", "YourTurn"}
GameKeeps == {"GameStateUpdate", "YourTurn", "JoinedGame", "Error"}

(* The server sends t, perhaps on a request it takes from the queue.  A prompt
   that is open after the step is in t, or was open before, nothing in t takes
   it off the screen, and no answer to it has been taken.  If the place of the
   player is new, t says so; if not, nothing in t changes the screen. *)
LEMMA ServerKeeps ==
  ASSUME ViewInv, UNCHANGED view, NEW t \in Seq(DownMsg), down' = down \o t,
         up' = up \/ (up # <<>> /\ up' = Tail(up)),
         prompts' \in Prompt, turn' \in 0..prompts', turn' # 0 => room' = "game",
         room' \in {"none", "alone", "waiting", "game"}, room' # "none" => logged_in',
         host' \in BOOLEAN, orphaned' \in BOOLEAN, logged_in' \in BOOLEAN,
         \/ turn' = 0
         \/ Decides(t, {YourTurn(turn')}, Harmless)
         \/ turn' = turn /\ All(t, Harmless) /\ (up' = up \/ Head(up) # Action(turn)),
         logged_in' \/ (~logged_in /\ All(t, {"Error"})),
         room' = "game" => \/ Decides(t, OfType(GameMakes), GameKeeps)
                           \/ room = "game" /\ All(t, GameKeeps),
         room' \in {"alone", "waiting"} => \/ Decides(t, OfType({"JoinedRoom"}), {"JoinedRoom", "Error"})
                                           \/ room \in {"alone", "waiting"} /\ All(t, {"JoinedRoom", "Error"}),
         room' = "none" /\ logged_in' /\ ~orphaned' =>
            \/ Decides(t, OfType({"Welcome", "LeftRoom"}), {"Welcome", "LeftRoom", "Error"})
            \/ /\ room = "none" /\ logged_in /\ ~orphaned
               /\ All(t, {"Welcome", "LeftRoom", "Error"})
  PROVE  ViewInv'
<1>1. UNCHANGED <<screen, your_turn, action_pending, saved, can_start>>
  BY DEF view
<1>2. Typed /\ TypeOK /\ up \in Seq(UpMsg) /\ down \in Seq(DownMsg)
  BY DEF ViewInv, Typed
<1>3. \A K, M : /\ All(down, K) /\ All(t, K) => All(down', K)
                /\ Decides(down, M, K) /\ All(t, K) => Decides(down', M, K)
                /\ Decides(t, M, K) => Decides(down', M, K)
  BY <1>2, ConcatFacts
<1>4. \A K : All(up, K) => All(up', K)
  BY <1>2, TailFacts
<1>5. \A m : Has(up, m) => Has(up', m) \/ (up' # up /\ Head(up) = m)
  BY <1>2, TailFacts
<1>6. Typed'
  <2>1. up' \in Seq(UpMsg) /\ down' \in Seq(DownMsg)
    BY <1>2, HeadTailProperties, ConcatProperties
  <2>2. QED BY <1>1, <1>2, <2>1 DEF Typed, TypeOK
<1>7. Prompted'
  <2>1. ASSUME turn' # 0
        PROVE  \/ Decides(down', {YourTurn(turn')}, Harmless)
               \/ /\ All(down', Harmless) /\ screen = "InGame"
                  /\ \/ your_turn = turn' /\ saved = 0
                     \/ /\ your_turn \in {0, turn'} /\ saved \in {0, turn'}
                        /\ Has(up', Action(turn'))
    <3>1. CASE Decides(t, {YourTurn(turn')}, Harmless)
      BY <1>3, <3>1
    <3>2. CASE turn' = turn /\ All(t, Harmless) /\ (up' = up \/ Head(up) # Action(turn))
      BY <1>3, <1>5, <2>1, <3>2 DEF ViewInv, Prompted
    <3>3. QED BY <2>1, <3>1, <3>2
  <2>2. QED BY <1>1, <2>1 DEF Prompted
<1>8. Outside'
  <2>1. ASSUME ~logged_in'
        PROVE  screen \in {"Login", "Disconnected"} /\ All(up', {"Login", "PlayerAction"}) /\ All(down', {"Error"})
    BY <1>3, <1>4, <2>1 DEF ViewInv, Outside
  <2>2. QED BY <1>1, <2>1 DEF Outside
<1>9. Placed'
  <2>1. room' = "game" => Decides(down', OfType(GameMakes), GameKeeps) \/ (screen = "InGame" /\ All(down', GameKeeps))
    BY <1>3 DEF ViewInv, Placed, Shows, GameMakes, GameKeeps
  <2>2. room' \in {"alone", "waiting"} =>
          \/ Decides(down', OfType({"JoinedRoom"}), {"JoinedRoom", "Error"})
          \/ screen = "WaitingRoom" /\ All(down', {"JoinedRoom", "Error"})
    BY <1>3 DEF ViewInv, Placed, Shows
  <2>3. room' = "none" /\ logged_in' /\ ~orphaned' =>
          \/ Decides(down', OfType({"Welcome", "LeftRoom"}), {"Welcome", "LeftRoom", "Error"})
          \/ screen = "Lobby" /\ All(down', {"Welcome", "LeftRoom", "Error"})
    BY <1>3 DEF ViewInv, Placed, Shows
  <2>4. QED BY <1>1, <2>1, <2>2, <2>3 DEF Placed, Shows, GameMakes, GameKeeps
<1>10. QED BY <1>6, <1>7, <1>8, <1>9 DEF ViewInv

\* What Sends(first, update, ask, last) sends.
Batch(first, update, ask, last) ==
    first \o ((IF update THEN <<Msg("GameStateUpdate")>> ELSE <<>>)
              \o ((IF ask THEN <<YourTurn(prompts + 1)>> ELSE <<>>) \o last))

(* Sends appends one batch, and opens the prompt it asks. *)
LEMMA SendsBatch ==
  ASSUME Typed, NEW first \in Seq(DownMsg), NEW last \in Seq(DownMsg),
         NEW update \in BOOLEAN, NEW ask \in BOOLEAN, Sends(first, update, ask, last)
  PROVE  /\ Batch(first, update, ask, last) \in Seq(DownMsg)
         /\ down' = down \o Batch(first, update, ask, last)
         /\ prompts' \in Prompt /\ turn' \in 0..prompts'
         /\ ask => turn' = prompts + 1 /\ turn' \in Prompt
         /\ ~ask => turn' = 0
<1> DEFINE u == IF update THEN <<Msg("GameStateUpdate")>> ELSE <<>>
           a == IF ask THEN <<YourTurn(prompts + 1)>> ELSE <<>>
<1>1. prompts \in Nat /\ (ask => prompts + 1 \in Prompt) /\ prompts \in Prompt
  BY BoundsNat DEF Typed, Prompt, Sends
<1>2. Msg("GameStateUpdate") \in DownMsg /\ (ask => YourTurn(prompts + 1) \in DownMsg)
  BY <1>1, MessageFacts
<1>3. u \in Seq(DownMsg) /\ a \in Seq(DownMsg) /\ down \in Seq(DownMsg)
  BY <1>2 DEF Typed
<1>4. down' = down \o first \o u \o a \o last
  BY DEF Sends
<1>5. Batch(first, update, ask, last) = first \o (u \o (a \o last))
  BY DEF Batch
<1>6. prompts' \in Prompt /\ turn' \in 0..prompts' /\ (ask => turn' = prompts + 1) /\ (~ask => turn' = 0)
  BY <1>1 DEF Sends, Prompt
<1> HIDE DEF u, a
<1> DEFINE al == a \o last
           ual == u \o al
           df == down \o first
           dfu == df \o u
<1>7. /\ al \in Seq(DownMsg) /\ ual \in Seq(DownMsg) /\ first \o ual \in Seq(DownMsg)
      /\ df \in Seq(DownMsg) /\ dfu \in Seq(DownMsg)
  BY <1>3
<1>8. (dfu \o a) \o last = dfu \o al
  <2>1. ASSUME NEW x \in Seq(DownMsg) PROVE (x \o a) \o last = x \o (a \o last)
    BY <1>3
  <2> HIDE DEF dfu
  <2>2. QED BY <1>7, <2>1
<1>9. dfu \o al = df \o ual
  <2>1. ASSUME NEW x \in Seq(DownMsg), NEW y \in Seq(DownMsg) PROVE (x \o u) \o y = x \o (u \o y)
    BY <1>3
  <2> HIDE DEF df, al
  <2>2. QED BY <1>7, <2>1
<1>10. df \o ual = down \o (first \o ual)
  <2>1. ASSUME NEW y \in Seq(DownMsg) PROVE (down \o first) \o y = down \o (first \o y)
    BY <1>3
  <2> HIDE DEF ual
  <2>2. QED BY <1>7, <2>1
<1>11. down' = down \o (first \o ual)
  BY <1>4, <1>8, <1>9, <1>10
<1>12. QED BY <1>1, <1>5, <1>6, <1>7, <1>11

(* What is in a batch. *)
LEMMA BatchFacts ==
  ASSUME NEW first \in Seq(DownMsg), NEW last \in Seq(DownMsg), NEW update \in BOOLEAN, NEW ask \in BOOLEAN,
         ask => prompts + 1 \in Prompt, NEW K, NEW M
  PROVE  /\ All(first, K) /\ All(last, K) /\ (update => "GameStateUpdate" \in K) /\ (ask => "YourTurn" \in K)
              => All(Batch(first, update, ask, last), K)
         /\ Decides(first, M, K) /\ All(last, K) /\ (update => "GameStateUpdate" \in K) /\ (ask => "YourTurn" \in K)
              => Decides(Batch(first, update, ask, last), M, K)
         /\ update /\ Msg("GameStateUpdate") \in M /\ All(last, K) /\ (ask => "YourTurn" \in K)
              => Decides(Batch(first, update, ask, last), M, K)
         /\ ask /\ YourTurn(prompts + 1) \in M /\ All(last, K) => Decides(Batch(first, update, ask, last), M, K)
         /\ Decides(last, M, K) => Decides(Batch(first, update, ask, last), M, K)
<1> DEFINE u == IF update THEN <<Msg("GameStateUpdate")>> ELSE <<>>
           a == IF ask THEN <<YourTurn(prompts + 1)>> ELSE <<>>
<1>1. /\ u \in Seq(DownMsg) /\ (~update \/ "GameStateUpdate" \in K => All(u, K))
      /\ update /\ Msg("GameStateUpdate") \in M => Decides(u, M, K)
  BY MessageFacts, OneFacts
<1>2. /\ a \in Seq(DownMsg) /\ (~ask \/ "YourTurn" \in K => All(a, K))
      /\ ask /\ YourTurn(prompts + 1) \in M => Decides(a, M, K)
  <2>1. CASE ask
    <3>1. YourTurn(prompts + 1) \in DownMsg /\ YourTurn(prompts + 1).type = "YourTurn" /\ a = <<YourTurn(prompts + 1)>>
      BY <2>1, MessageFacts
    <3>2. QED BY <2>1, <3>1, OneFacts
  <2>2. CASE ~ask
    <3>1. a = <<>>
      BY <2>2
    <3>2. a \in Seq(DownMsg) /\ All(a, K)
      BY <3>1 DEF All
    <3>3. QED BY <2>2, <3>2
  <2>3. QED BY <2>1, <2>2
<1>3. Batch(first, update, ask, last) = first \o (u \o (a \o last))
  BY DEF Batch
<1> HIDE DEF u, a
<1>4. /\ a \o last \in Seq(DownMsg)
      /\ All(a, K) /\ All(last, K) => All(a \o last, K)
      /\ Decides(a, M, K) /\ All(last, K) => Decides(a \o last, M, K)
      /\ Decides(last, M, K) => Decides(a \o last, M, K)
  BY <1>2, ConcatFacts
<1>5. /\ u \o (a \o last) \in Seq(DownMsg)
      /\ All(u, K) /\ All(a \o last, K) => All(u \o (a \o last), K)
      /\ Decides(u, M, K) /\ All(a \o last, K) => Decides(u \o (a \o last), M, K)
      /\ Decides(a \o last, M, K) => Decides(u \o (a \o last), M, K)
  BY <1>1, <1>4, ConcatFacts
<1>6. /\ All(first, K) /\ All(u \o (a \o last), K) => All(first \o (u \o (a \o last)), K)
      /\ Decides(first, M, K) /\ All(u \o (a \o last), K) => Decides(first \o (u \o (a \o last)), M, K)
      /\ Decides(u \o (a \o last), M, K) => Decides(first \o (u \o (a \o last)), M, K)
  BY <1>5, ConcatFacts
<1>7. QED BY <1>1, <1>2, <1>3, <1>4, <1>5, <1>6

(* The server sends errors or nothing and does nothing else. *)
LEMMA AnswersKeep ==
  ASSUME ViewInv, UNCHANGED <<view, room, host, logged_in, orphaned>>,
         up' = up \/ (up # <<>> /\ up' = Tail(up)),
         up' = up \/ turn = 0 \/ Head(up) # Action(turn),
         NEW msgs \in Seq(DownMsg), All(msgs, {"Error"}), Answers(msgs)
  PROVE  ViewInv'
<1>1. down' = down \o msgs /\ UNCHANGED <<turn, prompts, room, host, logged_in, orphaned, view>>
  BY DEF Answers
<1>2. /\ All(msgs, Harmless) /\ All(msgs, GameKeeps) /\ All(msgs, {"JoinedRoom", "Error"})
      /\ All(msgs, {"Welcome", "LeftRoom", "Error"})
  BY DEF All, Harmless, GameKeeps
<1>3. /\ prompts' \in Prompt /\ turn' \in 0..prompts' /\ (turn' # 0 => room' = "game")
      /\ room' \in {"none", "alone", "waiting", "game"} /\ (room' # "none" => logged_in')
      /\ host' \in BOOLEAN /\ orphaned' \in BOOLEAN /\ logged_in' \in BOOLEAN
  BY <1>1 DEF ViewInv, Typed, TypeOK
<1>4. QED BY <1>1, <1>2, <1>3, ServerKeeps

(* One message that says where the player is now; no prompt is open. *)
LEMMA PlaceSends ==
  ASSUME ViewInv, UNCHANGED view, logged_in, logged_in' = TRUE,
         up' = up \/ (up # <<>> /\ up' = Tail(up)),
         NEW m \in DownMsg,
         Sends(<<m>>, FALSE, FALSE, <<>>) \/ Sends(<<>>, FALSE, FALSE, <<m>>),
         room' \in {"none", "alone", "waiting"}, host' \in BOOLEAN, orphaned' \in BOOLEAN,
         room' \in {"alone", "waiting"} => m.type = "JoinedRoom",
         room' = "none" /\ ~orphaned' => \/ m.type = "LeftRoom"
                                         \/ m.type = "Error" /\ room = "none" /\ ~orphaned
  PROVE  ViewInv'
<1>1. Typed /\ <<m>> \in Seq(DownMsg) /\ <<>> \in Seq(DownMsg) /\ down \in Seq(DownMsg)
  BY DEF ViewInv, Typed
<1>2. down' = down \o <<m>> /\ prompts' \in Prompt /\ turn' \in 0..prompts' /\ turn' = 0
  <2>1. /\ down \o <<m>> \o <<>> \o <<>> \o <<>> = down \o <<m>>
        /\ down \o <<>> \o <<>> \o <<>> \o <<m>> = down \o <<m>>
    <3>1. down \o <<m>> \in Seq(DownMsg)
      BY <1>1
    <3>2. (down \o <<m>>) \o <<>> = down \o <<m>> /\ down \o <<>> = down
      BY <1>1, <3>1, ConcatEmptySeq
    <3>3. QED BY <3>2
  <2>2. prompts' = prompts /\ turn' = 0
    BY DEF Sends
  <2>3. prompts \in Prompt /\ prompts \in Nat
    BY <1>1, BoundsNat DEF Typed, Prompt
  <2>4. QED BY <2>1, <2>2, <2>3 DEF Sends
<1>3. /\ room' \in {"alone", "waiting"} => Decides(<<m>>, OfType({"JoinedRoom"}), {"JoinedRoom", "Error"})
      /\ room' = "none" /\ ~orphaned' =>
            \/ Decides(<<m>>, OfType({"Welcome", "LeftRoom"}), {"Welcome", "LeftRoom", "Error"})
            \/ room = "none" /\ ~orphaned /\ All(<<m>>, {"Welcome", "LeftRoom", "Error"})
  BY OneFacts DEF OfType
<1>4. QED BY <1>1, <1>2, <1>3, ServerKeeps

(* The table: the state is sent, or the player is at it already; a prompt
   that is asked is the last but for a list of the players. *)
LEMMA TableSends ==
  ASSUME ViewInv, UNCHANGED view, logged_in, logged_in' = TRUE,
         up' = up \/ (up # <<>> /\ up' = Tail(up)),
         NEW first \in Seq(DownMsg), NEW last \in Seq(DownMsg), NEW update \in BOOLEAN, NEW ask \in BOOLEAN,
         Sends(first, update, ask, last), All(last, {"JoinedGame"}),
         update \/ (room = "game" /\ first = <<>>),
         room' = "game", host' \in BOOLEAN, orphaned' \in BOOLEAN
  PROVE  ViewInv'
<1> DEFINE b == Batch(first, update, ask, last)
<1>1. /\ b \in Seq(DownMsg) /\ down' = down \o b
      /\ prompts' \in Prompt /\ turn' \in 0..prompts'
      /\ ask => turn' = prompts + 1 /\ prompts + 1 \in Prompt
      /\ ~ask => turn' = 0
  BY SendsBatch DEF ViewInv
<1>2. All(last, Harmless) /\ All(last, GameKeeps)
  BY DEF All, Harmless, GameKeeps
<1>3. ask => Decides(b, {YourTurn(turn')}, Harmless)
  BY <1>1, <1>2, BatchFacts
<1>4. Msg("GameStateUpdate") \in OfType(GameMakes)
  BY MessageFacts DEF OfType, GameMakes
<1>5. "GameStateUpdate" \in GameKeeps /\ "YourTurn" \in GameKeeps
  BY DEF GameKeeps
<1>6. update => Decides(b, OfType(GameMakes), GameKeeps)
  BY <1>1, <1>2, <1>4, <1>5, BatchFacts
<1>7. first = <<>> => All(b, GameKeeps)
  <2>1. first = <<>> => All(first, GameKeeps)
    BY DEF All
  <2>2. QED BY <1>1, <1>2, <1>5, <2>1, BatchFacts
<1> HIDE DEF b
<1>8. QED BY <1>1, <1>3, <1>6, <1>7, ServerKeeps

(* A request is taken from the queue; all but a login and an action come from
   a client that is logged in. *)
LEMMA ServeFacts ==
  ASSUME ViewInv, NEW k, Serve(k)
  PROVE  /\ up # <<>> /\ up' = Tail(up) /\ Head(up).type = k /\ Head(up) \in UpMsg
         /\ k \notin {"Login", "PlayerAction"} => logged_in
         /\ k # "PlayerAction" => turn = 0 \/ Head(up) # Action(turn)
         /\ room # "none" => logged_in
         /\ turn # 0 => room = "game"
         /\ host \in BOOLEAN /\ orphaned \in BOOLEAN /\ turn \in Prompt
<1>1. up # <<>> /\ up' = Tail(up) /\ Head(up).type = k /\ up \in Seq(UpMsg)
  BY DEF Serve, ViewInv, Typed
<1>2. Head(up) \in UpMsg
  BY <1>1
<1>3. k \notin {"Login", "PlayerAction"} => logged_in
  <2>1. ASSUME ~logged_in PROVE k \in {"Login", "PlayerAction"}
    <3>1. All(up, {"Login", "PlayerAction"})
      BY <2>1 DEF ViewInv, Outside
    <3>2. QED BY <1>1, <3>1, TailFacts
  <2>2. QED BY <2>1
<1>4. /\ room # "none" => logged_in
      /\ turn # 0 => room = "game"
      /\ host \in BOOLEAN /\ orphaned \in BOOLEAN /\ turn \in Prompt
  BY BoundsNat DEF ViewInv, Typed, TypeOK, Prompt
<1>5. Action(turn).type = "PlayerAction"
  BY <1>4, MessageFacts
<1>6. QED BY <1>1, <1>2, <1>3, <1>4, <1>5

(* The server answers with an error, or not at all. *)
LEMMA ErrorOrNothing ==
  /\ <<Msg("Error")>> \in Seq(DownMsg) /\ All(<<Msg("Error")>>, {"Error"})
  /\ <<>> \in Seq(DownMsg) /\ All(<<>>, {"Error"}) /\ All(<<>>, {"JoinedGame"})
BY MessageFacts DEF All

(* handle_login: welcome, or an error. *)
LEMMA ServeLoginStep == ViewInv /\ ServeLogin => ViewInv'
<1> SUFFICES ASSUME ViewInv, ServeLogin PROVE ViewInv'
  OBVIOUS
<1>1. Serve("Login") /\ UNCHANGED <<view, room, host, orphaned, losses>>
  BY DEF ServeLogin
<1>2. up # <<>> /\ up' = Tail(up) /\ (turn = 0 \/ Head(up) # Action(turn))
  BY <1>1, ServeFacts
<1>3. CASE Answers(<<Msg("Error")>>) /\ UNCHANGED logged_in
  BY <1>1, <1>2, <1>3, ErrorOrNothing, AnswersKeep
<1>4. CASE ~logged_in /\ logged_in' = TRUE /\ Answers(<<Msg("Welcome")>>)
  <2>1. Msg("Welcome") \in DownMsg /\ Msg("Welcome").type = "Welcome"
    BY MessageFacts
  <2>2. /\ <<Msg("Welcome")>> \in Seq(DownMsg)
        /\ Decides(<<Msg("Welcome")>>, OfType({"Welcome", "LeftRoom"}), {"Welcome", "LeftRoom", "Error"})
    BY <2>1, OneFacts DEF OfType
  <2>3. room = "none" /\ turn = 0 /\ prompts \in Prompt /\ turn \in 0..prompts /\ host \in BOOLEAN /\ orphaned \in BOOLEAN
    BY <1>4 DEF ViewInv, Typed, TypeOK
  <2>4. down' = down \o <<Msg("Welcome")>> /\ UNCHANGED <<turn, prompts>>
    BY <1>4 DEF Answers
  <2>5. QED BY <1>1, <1>2, <1>4, <2>2, <2>3, <2>4, ServerKeeps
<1>5. QED BY <1>3, <1>4 DEF ServeLogin

(* Room::add_player tells who is there, and perhaps starts the game. *)
LEMMA AddsPlayerKeeps ==
  ASSUME ViewInv, NEW h \in BOOLEAN, AddsPlayer(h), UNCHANGED view, logged_in, logged_in' = TRUE,
         up' = up \/ (up # <<>> /\ up' = Tail(up)), host' \in BOOLEAN, orphaned' \in BOOLEAN
  PROVE  ViewInv'
<1>1. JoinedRoom("waiting", h) \in DownMsg /\ JoinedRoom("waiting", h).type = "JoinedRoom"
  BY MessageFacts
<1>2. CASE room' = "waiting" /\ Sends(<<JoinedRoom("waiting", h)>>, FALSE, FALSE, <<>>)
  BY <1>1, <1>2, PlaceSends
<1>3. ASSUME room' = "game", NEW ask \in BOOLEAN, Sends(<<JoinedRoom("waiting", h)>>, TRUE, ask, <<>>)
      PROVE  ViewInv'
  <2>1. <<JoinedRoom("waiting", h)>> \in Seq(DownMsg)
    BY <1>1
  <2>2. QED BY <1>3, <2>1, ErrorOrNothing, TableSends
<1>4. QED BY <1>2, <1>3 DEF AddsPlayer

(* create_room: a new room, or an error. *)
LEMMA ServeCreateStep == ViewInv /\ ServeCreateRoom => ViewInv'
<1> SUFFICES ASSUME ViewInv, ServeCreateRoom PROVE ViewInv'
  OBVIOUS
<1>1. Serve("CreateRoom") /\ UNCHANGED <<view, logged_in, orphaned, losses>>
  BY DEF ServeCreateRoom
<1>2. up # <<>> /\ up' = Tail(up) /\ (turn = 0 \/ Head(up) # Action(turn)) /\ logged_in /\ orphaned \in BOOLEAN
  BY <1>1, ServeFacts
<1>3. CASE Answers(<<Msg("Error")>>) /\ UNCHANGED <<room, host>>
  BY <1>1, <1>2, <1>3, ErrorOrNothing, AnswersKeep
<1>4. CASE room' = "alone" /\ host' = TRUE /\ Sends(<<JoinedRoom("alone", TRUE)>>, FALSE, FALSE, <<>>)
  <2>1. JoinedRoom("alone", TRUE) \in DownMsg /\ JoinedRoom("alone", TRUE).type = "JoinedRoom"
    BY MessageFacts
  <2>2. QED BY <1>1, <1>2, <1>4, <2>1, PlaceSends
<1>5. QED BY <1>3, <1>4 DEF ServeCreateRoom

(* join_room: refused, ignored, entered, or left one and entered none. *)
LEMMA ServeJoinStep == ViewInv /\ ServeJoinRoom => ViewInv'
<1> SUFFICES ASSUME ViewInv, ServeJoinRoom PROVE ViewInv'
  OBVIOUS
<1>1. Serve("JoinRoom") /\ UNCHANGED <<view, logged_in, losses>>
  BY DEF ServeJoinRoom
<1>2. /\ up # <<>> /\ up' = Tail(up) /\ (turn = 0 \/ Head(up) # Action(turn))
      /\ logged_in /\ orphaned \in BOOLEAN
  BY <1>1, ServeFacts
<1>3. CASE (Answers(<<Msg("Error")>>) \/ Answers(<<>>)) /\ UNCHANGED <<room, host, orphaned>>
  BY <1>1, <1>2, <1>3, ErrorOrNothing, AnswersKeep
<1>4. CASE AddsPlayer(FALSE) /\ host' = FALSE /\ UNCHANGED orphaned
  BY <1>1, <1>2, <1>4, AddsPlayerKeeps
<1>5. CASE /\ room' = "none" /\ host' = FALSE /\ Sends(<<Msg("Error")>>, FALSE, FALSE, <<>>)
           /\ orphaned' = (orphaned \/ room # "none")
  <2>1. Msg("Error") \in DownMsg /\ Msg("Error").type = "Error"
    BY MessageFacts
  <2>2. orphaned' \in BOOLEAN /\ (~orphaned' => room = "none" /\ ~orphaned)
    BY <1>5
  <2>3. QED BY <1>1, <1>2, <1>5, <2>1, <2>2, PlaceSends
<1>6. QED BY <1>3, <1>4, <1>5 DEF ServeJoinRoom

(* leave_room. *)
LEMMA ServeLeaveStep == ViewInv /\ ServeLeaveRoom => ViewInv'
<1> SUFFICES ASSUME ViewInv, ServeLeaveRoom PROVE ViewInv'
  OBVIOUS
<1>1. /\ Serve("LeaveRoom") /\ UNCHANGED <<view, logged_in, orphaned, losses>>
      /\ room' = "none" /\ host' = FALSE /\ Sends(<<Msg("LeftRoom")>>, FALSE, FALSE, <<>>)
  BY DEF ServeLeaveRoom
<1>2. up # <<>> /\ up' = Tail(up) /\ logged_in /\ orphaned \in BOOLEAN
  BY <1>1, ServeFacts
<1>3. Msg("LeftRoom") \in DownMsg /\ Msg("LeftRoom").type = "LeftRoom"
  BY MessageFacts
<1>4. QED BY <1>1, <1>2, <1>3, PlaceSends

(* start_game: the first hand, or an error. *)
LEMMA ServeStartStep == ViewInv /\ ServeStartGame => ViewInv'
<1> SUFFICES ASSUME ViewInv, ServeStartGame PROVE ViewInv'
  OBVIOUS
<1>1. Serve("StartGame") /\ UNCHANGED <<view, host, logged_in, orphaned, losses>>
  BY DEF ServeStartGame
<1>2. /\ up # <<>> /\ up' = Tail(up) /\ (turn = 0 \/ Head(up) # Action(turn))
      /\ logged_in /\ orphaned \in BOOLEAN /\ host \in BOOLEAN
  BY <1>1, ServeFacts
<1>3. CASE Answers(<<Msg("Error")>>) /\ UNCHANGED room
  BY <1>1, <1>2, <1>3, ErrorOrNothing, AnswersKeep
<1>4. ASSUME room' = "game", NEW ask \in BOOLEAN, Sends(<<>>, TRUE, ask, <<>>) PROVE ViewInv'
  BY <1>1, <1>2, <1>4, ErrorOrNothing, TableSends
<1>5. QED BY <1>3, <1>4 DEF ServeStartGame

(* An action: accepted, refused or ignored; the answer to the open prompt is
   never refused. *)
LEMMA ServeActionStep == ViewInv /\ ServeAction => ViewInv'
<1> SUFFICES ASSUME ViewInv, ServeAction PROVE ViewInv'
  OBVIOUS
<1>1. Serve("PlayerAction") /\ UNCHANGED <<view, room, host, logged_in, orphaned, losses>>
  BY DEF ServeAction
<1>2. /\ up # <<>> /\ up' = Tail(up) /\ (room # "none" => logged_in) /\ (turn # 0 => room = "game")
      /\ orphaned \in BOOLEAN /\ host \in BOOLEAN /\ turn \in Prompt
  BY <1>1, ServeFacts
<1>3. ASSUME room = "game", NEW update \in BOOLEAN, NEW ask \in BOOLEAN, Sends(<<>>, update, ask, <<>>)
      PROVE  ViewInv'
  BY <1>1, <1>2, <1>3, ErrorOrNothing, TableSends
<1>4. CASE turn # Head(up).prompt /\ Answers(<<Msg("Error")>>)
  <2>1. Head(up) # Action(turn)
    BY <1>2, <1>4, MessageFacts
  <2>2. QED BY <1>1, <1>2, <1>4, <2>1, ErrorOrNothing, AnswersKeep
<1>5. CASE room # "game" /\ (Answers(<<>>) \/ Answers(<<Msg("Error")>>))
  BY <1>1, <1>2, <1>5, ErrorOrNothing, AnswersKeep
<1>6. QED BY <1>3, <1>4, <1>5 DEF ServeAction

(* The other players of the room. *)
LEMMA OthersStep == ViewInv /\ (OtherActs \/ OtherJoinsOrStarts \/ OtherLeaves) => ViewInv'
<1> SUFFICES ASSUME ViewInv, OtherActs \/ OtherJoinsOrStarts \/ OtherLeaves PROVE ViewInv'
  OBVIOUS
<1>1. /\ room # "none" => logged_in
      /\ turn # 0 => room = "game"
      /\ host \in BOOLEAN /\ orphaned \in BOOLEAN /\ turn \in 0..prompts /\ prompts \in Prompt
  BY DEF ViewInv, Typed, TypeOK
<1>2. UNCHANGED <<view, up, logged_in, orphaned>>
  BY DEF OtherActs, OtherJoinsOrStarts, OtherLeaves
<1>3. CASE OtherActs
  <2>1. PICK update, ask \in BOOLEAN : Sends(<<>>, update, ask, <<>>)
    BY <1>3 DEF OtherActs
  <2>2. room = "game" /\ UNCHANGED <<room, host>>
    BY <1>3 DEF OtherActs
  <2>3. QED BY <1>1, <1>2, <2>1, <2>2, ErrorOrNothing, TableSends
<1>4. CASE OtherJoinsOrStarts
  <2>1. CASE room \in {"alone", "waiting"} /\ AddsPlayer(host)
    BY <1>1, <1>2, <1>4, <2>1, AddsPlayerKeeps DEF OtherJoinsOrStarts
  <2>2. ASSUME room = "waiting", room' = "game", NEW ask \in BOOLEAN, Sends(<<>>, TRUE, ask, <<>>) PROVE ViewInv'
    BY <1>1, <1>2, <1>4, <2>2, ErrorOrNothing, TableSends DEF OtherJoinsOrStarts
  <2>3. QED BY <1>4, <2>1, <2>2 DEF OtherJoinsOrStarts
<1>5. CASE OtherLeaves
  <2>1. host' \in BOOLEAN /\ room # "none" /\ logged_in
    BY <1>1, <1>5 DEF OtherLeaves
  <2>2. /\ Msg("GameStateUpdate") \in DownMsg /\ Msg("GameStateUpdate").type = "GameStateUpdate"
        /\ JoinedRoom("game", host') \in DownMsg /\ JoinedRoom("game", host').type = "JoinedGame"
        /\ JoinedRoom("waiting", host') \in DownMsg /\ JoinedRoom("waiting", host').type = "JoinedRoom"
        /\ JoinedRoom("alone", TRUE) \in DownMsg /\ JoinedRoom("alone", TRUE).type = "JoinedRoom"
    BY <2>1, MessageFacts
  <2>3. CASE room = "game" /\ UNCHANGED room /\ Answers(<<Msg("GameStateUpdate"), JoinedRoom("game", host')>>)
    <3> DEFINE t == <<Msg("GameStateUpdate"), JoinedRoom("game", host')>>
    <3>1. t \in Seq(DownMsg) /\ All(t, Harmless) /\ All(t, GameKeeps)
      BY <2>2 DEF All, Harmless, GameKeeps
    <3>2. down' = down \o t /\ UNCHANGED <<turn, prompts>>
      BY <2>3 DEF Answers
    <3> HIDE DEF t
    <3>3. QED BY <1>1, <1>2, <2>1, <2>3, <3>1, <3>2, ServerKeeps
  <2>4. ASSUME room = "game", UNCHANGED room, NEW update \in BOOLEAN, NEW ask \in BOOLEAN,
               Sends(<<>>, update, ask, <<JoinedRoom("game", host')>>)
        PROVE  ViewInv'
    <3>1. <<JoinedRoom("game", host')>> \in Seq(DownMsg) /\ All(<<JoinedRoom("game", host')>>, {"JoinedGame"})
      BY <2>2, OneFacts
    <3>2. QED BY <1>1, <1>2, <2>1, <2>4, <3>1, ErrorOrNothing, TableSends
  <2>5. CASE room = "waiting" /\ UNCHANGED room /\ Answers(<<JoinedRoom("waiting", host')>>)
    <3>1. <<JoinedRoom("waiting", host')>> \in Seq(DownMsg) /\ All(<<JoinedRoom("waiting", host')>>, {"JoinedRoom", "Error"})
      BY <2>2, OneFacts
    <3>2. down' = down \o <<JoinedRoom("waiting", host')>> /\ UNCHANGED <<turn, prompts>> /\ turn = 0
      BY <1>1, <2>5 DEF Answers
    <3>3. QED BY <1>1, <1>2, <2>1, <2>5, <3>1, <3>2, ServerKeeps
  <2>6. CASE room' = "alone" /\ Sends(<<>>, FALSE, FALSE, <<JoinedRoom("alone", TRUE)>>)
    BY <1>1, <1>2, <2>1, <2>2, <2>6, PlaceSends
  <2>7. QED BY <1>5, <2>3, <2>4, <2>5, <2>6 DEF OtherLeaves
<1>6. QED BY <1>3, <1>4, <1>5
-----------------------------------------------------------------------------
(* The theorems. *)

(* Every step of the client, of the server and of the network. *)
LEMMA NextView == ViewInv /\ [Next]_vars => ViewInv'
<1> SUFFICES ASSUME ViewInv, [Next]_vars PROVE ViewInv'
  OBVIOUS
<1>1. CASE UNCHANGED vars
  <2>1. UNCHANGED <<screen, your_turn, action_pending, saved, can_start, up, down,
                    room, host, turn, prompts, logged_in, orphaned>>
    BY <1>1 DEF vars, view, server
  <2>2. QED BY <2>1 DEF ViewInv, Typed, TypeOK, Prompted, Outside, Placed, Shows
<1>2. CASE Next
  BY <1>2, ReceiveStep, UserStep, ReconnectStep, LossStep, ServeLoginStep, ServeCreateStep, ServeJoinStep,
     ServeLeaveStep, ServeStartStep, ServeActionStep, OthersStep DEF Next
<1>3. QED BY <1>1, <1>2

(* The inductive invariant of the client's view and of what is under way. *)
THEOREM ViewHolds == Spec => []ViewInv
BY InitView, NextView, PTL DEF Spec

(* For every number of messages under way: once all have arrived the client
   shows the prompt the server waits on. *)
THEOREM NoPromptIsLost == Spec => []PromptIsShown
<1>1. ViewInv => PromptIsShown
  <2> SUFFICES ASSUME ViewInv, up = <<>>, down = <<>>, turn # 0 PROVE your_turn = turn
    BY DEF PromptIsShown, Quiet
  <2>1. ~Decides(down, {YourTurn(turn)}, Harmless) /\ ~Has(up, Action(turn))
    BY DEF Decides, Has
  <2>2. QED BY <2>1 DEF ViewInv, Prompted
<1>2. QED BY <1>1, ViewHolds, PTL

(* Once all messages have arrived the screen is the one for where the server
   has the player, unless join_room left one room and could not enter another;
   and a pending action has saved its prompt at all times. *)
THEOREM ScreenFollowsServer == Spec => []ScreenMatchesServer
<1>1. ViewInv => ScreenMatchesServer
  <2> SUFFICES ASSUME ViewInv
               PROVE  /\ TypeOK
                      /\ Quiet /\ screen # "Disconnected" /\ ~orphaned =>
                           /\ room = "none" => screen \in {"Login", "Lobby"}
                           /\ room \in {"alone", "waiting"} => screen = "WaitingRoom"
                           /\ room = "game" => screen = "InGame"
    BY DEF ScreenMatchesServer
  <2>1. down = <<>> => \A M, K : ~Decides(down, M, K)
    BY DEF Decides
  <2>2. TypeOK
    BY DEF ViewInv, Typed
  <2>3. QED BY <2>1, <2>2 DEF ViewInv, Outside, Placed, Shows, Quiet, TypeOK
<1>2. QED BY <1>1, ViewHolds, PTL
=============================================================================
