----------------------------- MODULE PacketLink -----------------------------
(***************************************************************************)
(* What the rest of the server relies on when it calls send() on a         *)
(* connection (network/i_connection.h): the packets of a connection reach  *)
(* the client in the order of the calls, each once, until the connection   *)
(* is closed, and a connection is closed once and for good.                *)
(*                                                                         *)
(* The packets sent to a connection are numbered from 1, so `sent' is a    *)
(* number and `got' must be an initial piece of 1, 2, 3, ...  One handler  *)
(* may touch many connections; a step lets each do its part.               *)
(***************************************************************************)
EXTENDS Naturals, Sequences

CONSTANT Conn

VARIABLES
    closed,     \* is the connection closed
    sent,       \* the number of packets accepted for it
    got         \* the packets its client has received

Init ==
    /\ closed = [c \in Conn |-> FALSE]
    /\ sent = [c \in Conn |-> 0]
    /\ got = [c \in Conn |-> <<>>]

Rest(c) == <<closed[c], sent[c], got[c]>>

Send(c) ==
    /\ ~closed[c] /\ sent'[c] > sent[c]
    /\ UNCHANGED <<closed[c], got[c]>>

Deliver(c) ==
    /\ ~closed[c] /\ Len(got[c]) < sent[c]
    /\ got'[c] = Append(got[c], Len(got[c]) + 1)
    /\ UNCHANGED <<closed[c], sent[c]>>

Close(c) ==
    /\ ~closed[c] /\ closed'[c]
    /\ UNCHANGED <<sent[c], got[c]>>

Next == \A c \in Conn : Send(c) \/ Deliver(c) \/ Close(c) \/ UNCHANGED Rest(c)

Spec == Init /\ [][Next]_<<closed, sent, got>>
=============================================================================
