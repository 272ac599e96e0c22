-------------------------------- MODULE Wire --------------------------------
(***************************************************************************)
(* Messages on their way from one end of a connection to the other: JSON,  *)
(* the packets of common/src/packet_framing.cpp, a stream of bytes that    *)
(* arrives in pieces of any size, and the two reads (header and body) with *)
(* which session.cpp and network_client.cpp take it apart again.           *)
(*                                                                         *)
(* The order of operations on one socket, lost connections and the queues  *)
(* are the matter of NetworkClient and ServerSession.                      *)
(***************************************************************************)
EXTENDS Protocol

CONSTANTS
    Messages,           \* Messages[sender]: what an end may send
    Sizes,              \* lengths of JSON texts
    MAX_PACKET_SIZE,    \* network_limits.h, scaled down
    Base,               \* 256, scaled down: the values of a byte
    MaxSent             \* bound: the number of messages

ASSUME WireAssumption ==
    /\ Base \in Nat \ {0, 1} /\ MaxSent \in Nat
    /\ MAX_PACKET_SIZE \in 1..(Base * Base * Base * Base - 1)
    /\ Sizes \subseteq Nat \ {0}

VARIABLES
    sender,     \* "client" or "server"
    legacy,     \* the sender is of an earlier version
    stream,     \* the bytes that were written and not yet read
    arrived,    \* how many of them the reader has received
    expects,    \* 0 in do_read_header, the length in do_read_body
    open,       \* the reader has not closed the connection
    sent,       \* history: the messages that were put on the wire
    got         \* history: what the reader has made of them

vars == <<sender, legacy, stream, arrived, expects, open, sent, got>>

Init ==
    /\ sender \in {"client", "server"} /\ legacy \in BOOLEAN
    /\ stream = <<>> /\ arrived = 0 /\ expects = 0 /\ open = TRUE
    /\ sent = <<>> /\ got = <<>>
-----------------------------------------------------------------------------
(* Packets. *)

Digit(v, i) == (v \div (IF i = 0 THEN 1 ELSE IF i = 1 THEN Base
                        ELSE IF i = 2 THEN Base * Base ELSE Base * Base * Base)) % Base
Number(d0, d1, d2, d3) == d0 + Base * (d1 + Base * (d2 + Base * d3))

\* to_big_endian, which is from_big_endian too.
to_big_endian(v) == Number(Digit(v, 3), Digit(v, 2), Digit(v, 1), Digit(v, 0))

\* A byte is of the text of message number text, or of a header (text = 0).
Byte(text, value) == [text |-> text, value |-> value]

\* The bytes of a uint32_t in memory, on the little-endian hosts the build
\* supports.
Memory(v) == [i \in 1..4 |-> Byte(0, Digit(v, i - 1))]
FromMemory(b) == Number(b[1].value, b[2].value, b[3].value, b[4].value)

\* mutant: the header is written without the swap.
HeaderUnswapped(length) == Memory(length)

\* The header of encode_packet.
Header(length) == Memory(to_big_endian(length))

\* out_length of decode_packet_length.
packet_length(b) == to_big_endian(FromMemory(b))

is_valid_packet_length(length) == length > 0 /\ length <= MAX_PACKET_SIZE

\* The members a version before this one did not have: no list is kept, the
\* ones here are those of "accepts legacy JSON" (test_protocol.cpp:60) and those
\* for which protocol.cpp has a branch of the same kind.
Added ==
    [Welcome |-> {"chips", "is_new_account"}, RoomInfo |-> {"in_game"}, JoinedRoom |-> {"in_game"},
     PlayerState |-> {"is_dealer", "is_small_blind", "is_big_blind", "hole_cards"},
     GameStateUpdate |-> {"current_bet", "players"}, YourTurn |-> {"to_call", "your_chips"},
     LeftRoom |-> {"your_chips", "has_your_chips"}, HandResult |-> {"winner_hand_labels"},
     PlayerAction |-> {"amount"}, ActionEvent |-> {"amount"}]

Unknown == [s \in DOMAIN Members |-> IF legacy /\ s \in DOMAIN Added THEN Added[s] ELSE {}]

\* json::parse of the bytes b: one whole text, whose last byte is marked, or an
\* error.
Bytes(k, n) == [i \in 1..n |-> Byte(k, IF i = n THEN 1 ELSE 0)]
Parse(b) ==
    LET k == b[1].text IN
    IF k > 0 /\ b = Bytes(k, Len(b)) THEN to_json(sender, sent[k], Unknown) ELSE Invalid
-----------------------------------------------------------------------------
\* What a member that nobody mentions is: nothing, as in the structure's
\* initializers in protocol.h.
Blank(type) ==
    IF type.list THEN <<>>
    ELSE CASE type.of = "number" -> 0 [] type.of = "bool" -> FALSE [] type.of = "optional" -> nullopt

\* What the sender means by the members v of a structure s.
Meant(s, v, Inner(_, _)) ==
    [m \in DOMAIN v |-> IF m \in Unknown[s] THEN Blank(Members[s][m])
                        ELSE Each(Members[s][m], Inner, v[m])]
Meaning(msg) ==
    <<msg[1], Meant(msg[1], msg[2], LAMBDA of, v : IF of \in DOMAIN Members
                                                   THEN Meant(of, v, LAMBDA o, x : x) ELSE v)>>

\* send: a text that is too long is not sent (and an error is logged).
Send ==
    \E msg \in Messages[sender], n \in Sizes :
        /\ Len(sent) < MaxSent
        /\ n <= MAX_PACKET_SIZE
        /\ stream' = stream \o Header(n) \o Bytes(Len(sent) + 1, n)
        /\ sent' = Append(sent, msg)
        /\ UNCHANGED <<sender, legacy, arrived, expects, open, got>>

\* The network delivers bytes, as many as it likes.
Arrive ==
    /\ arrived < Len(stream)
    /\ arrived' = arrived + 1
    /\ UNCHANGED <<sender, legacy, stream, expects, open, sent, got>>

Take(n) == stream' = SubSeq(stream, n + 1, Len(stream)) /\ arrived' = arrived - n

\* The handler of do_read_header.
ReadHeader ==
    LET length == packet_length(SubSeq(stream, 1, 4)) IN
    /\ open /\ expects = 0 /\ arrived >= 4
    /\ Take(4)
    /\ \/ is_valid_packet_length(length) /\ expects' = length /\ UNCHANGED open
       \/ ~is_valid_packet_length(length) /\ open' = FALSE /\ UNCHANGED expects
    /\ UNCHANGED <<sender, legacy, sent, got>>

\* The handler of do_read_body and on_message: a text that cannot be parsed or
\* decoded is answered with an error or logged, and the reading goes on.
ReadBody ==
    /\ open /\ expects > 0 /\ arrived >= expects
    /\ Take(expects)
    /\ \E json \in {Parse(SubSeq(stream, 1, expects))} :
           got' = Append(got, IF json = Invalid THEN Invalid ELSE from_json(sender, json))
    /\ expects' = 0
    /\ UNCHANGED <<sender, legacy, open, sent>>

Next == Send \/ Arrive \/ ReadHeader \/ ReadBody

\* The network delivers, and the io_context runs the handlers of reads.
Spec == Init /\ [][Next]_vars /\ WF_vars(Arrive) /\ WF_vars(ReadHeader \/ ReadBody)
-----------------------------------------------------------------------------
(* Properties. *)

\* The reader is never handed bytes that were not written, expects no more than
\* the largest packet, and handles no message that was not sent.
TypeOK ==
    /\ arrived \in 0..Len(stream)
    /\ expects \in 0..MAX_PACKET_SIZE
    /\ open \in BOOLEAN
    /\ Len(got) <= Len(sent)

\* What is received is what was meant, message by message and in order: cards,
\* enums, optional amounts and nested structures come back in the members they
\* were in, and those that an older peer does not know read as "none", whatever
\* keys each to_json writes and each from_json looks for.
UnderstoodAsMeant == TypeOK /\ \A i \in DOMAIN got : got[i] = Meaning(sent[i])

\* Everything that was sent is handled in the end: no packet that one end lets
\* out, up to the longest, makes the other close the connection, and the reader
\* never waits for bytes that nobody sends (send, encode_packet,
\* decode_packet_length, the two reads).
Delivered == <>[](Len(got) = Len(sent))
=============================================================================
