------------------------ MODULE NetworkClientProofs ------------------------
(***************************************************************************)
(* Proofs about the client's connection, for any number of reconnects and  *)
(* messages.                                                               *)
(*                                                                         *)
(* The invariant is stated on a record w of what the member functions      *)
(* change, so that each of them has a lemma of its own.  Typed, Flagged    *)
(* and Flushed hold whatever the user does; Calm and Sent say what more    *)
(* holds as long as no attempt began before the last had ended.  Then the  *)
(* completions of closed sockets are all ahead of the handler of the       *)
(* resolve in the queue of the io thread, so they are gone before the new  *)
(* socket connects.                                                        *)
(***************************************************************************)
EXTENDS NetworkClient, FiniteSetTheorems, SequenceTheorems, TLAPS

States == {"Disconnected", "Connecting", "Connected", "Failed"}
Kinds == {"resolve", "timer", "connect", "header", "body", "write"}
Clients == [connection_state : States, closed : BOOLEAN, write_queue : Seq(Nat),
            write_in_progress : BOOLEAN, sock : Nat, screen : {"Login", "Lobby", "Disconnected"},
            connection : States, pending_auto_login : BOOLEAN, endpoint_edited : BOOLEAN]
Operation == [op : Kinds, sock : Nat, packet : Nat]
Finished == [op : Kinds \cup {"post", "rejected"}, sock : Nat, packet : Nat,
             ec : {"ok", "error", "aborted", "message", "welcome"}]
Worlds == [c : Clients, waiting : SUBSET Operation, ready : Seq(Finished), sends : Nat,
           overlap : BOOLEAN]

Attempt == {"resolve", "connect"}
Chain == {"resolve", "connect", "header", "body"}
OnSocket == {"connect", "header", "body", "write"}

\* Operation or completion x is one of kinds K on socket s.
Own(x, K, s) == x.op \in K /\ x.sock = s

NoneOf(w, K, s) ==
    /\ \A o \in w.waiting : ~Own(o, K, s)
    /\ \A i \in 1..Len(w.ready) : ~Own(w.ready[i], K, s)

AtMostOne(w, K, s) ==
    /\ \A o, p \in w.waiting : Own(o, K, s) /\ Own(p, K, s) => o = p
    /\ \A i, j \in 1..Len(w.ready) : Own(w.ready[i], K, s) /\ Own(w.ready[j], K, s) => i = j
    /\ \A o \in w.waiting, i \in 1..Len(w.ready) : ~(Own(o, K, s) /\ Own(w.ready[i], K, s))

\* Only the socket in use is read, written or connected.
Near(w) ==
    /\ \A o \in w.waiting : o.sock <= w.c.sock /\ (o.op \in OnSocket => o.sock = w.c.sock)
    /\ \A i \in 1..Len(w.ready) : w.ready[i].sock <= w.c.sock

\* Packets are queued, and posted to be queued, in the order of send().
Ordered(w) ==
    /\ \A i, j \in 1..Len(w.c.write_queue) : i < j => w.c.write_queue[i] < w.c.write_queue[j]
    /\ \A i \in 1..Len(w.c.write_queue) : w.c.write_queue[i] <= w.sends
    /\ \A k \in 1..Len(w.ready) : w.ready[k].op = "post" =>
         /\ w.ready[k].packet <= w.sends
         /\ \A i \in 1..Len(w.c.write_queue) : w.c.write_queue[i] < w.ready[k].packet
    /\ \A k, l \in 1..Len(w.ready) : k < l /\ w.ready[k].op = "post" /\ w.ready[l].op = "post" =>
         w.ready[k].packet < w.ready[l].packet

\* A packet whose header is read, or whose body asio would not read.
Going(x) == x.op = "rejected" \/ (x.op = "header" /\ x.ec = "ok")

\* There is one such packet at most, and none while a header is being read,
\* whatever socket it comes from.
OneRead(w) ==
    ~w.overlap =>
        /\ \A o, p \in w.waiting : o.op = "header" /\ p.op = "header" => o = p
        /\ \A i, j \in 1..Len(w.ready) : Going(w.ready[i]) /\ Going(w.ready[j]) => i = j
        /\ \A o \in w.waiting, i \in 1..Len(w.ready) : ~(o.op = "header" /\ Going(w.ready[i]))

Typed(w) == w \in Worlds /\ IsFiniteSet(w.waiting) /\ Near(w) /\ Ordered(w) /\ OneRead(w)

\* write_in_progress_ is set only while a write is still to be handled.
Flagged(w) ==
    w.c.write_in_progress =>
        \/ \E o \in w.waiting : Own(o, {"write"}, w.c.sock)
        \/ \E i \in 1..Len(w.ready) : w.ready[i].op = "write"

Live(w) == w.c.connection_state = "Connected" /\ ~w.c.closed

\* On a live connection queued packets are being written.
Flushed(w) == Live(w) /\ w.c.write_queue # <<>> => w.c.write_in_progress

\* No attempt of an earlier socket can still report a result.
Fresh(w) ==
    /\ \A o \in w.waiting : o.op \in Attempt => o.sock = w.c.sock
    /\ \A i \in 1..Len(w.ready) :
         w.ready[i].op \in Attempt /\ w.ready[i].ec # "aborted" => w.ready[i].sock = w.c.sock

\* The handlers of earlier sockets run before that of the resolve, and those of
\* rejected reads before that of the connect.
Behind(w) ==
    /\ \A j \in 1..Len(w.ready) :
         w.ready[j].op \in {"header", "body", "write"} /\ w.ready[j].sock # w.c.sock =>
            \/ \E o \in w.waiting : Own(o, {"resolve"}, w.c.sock)
            \/ \E i \in 1..Len(w.ready) : j < i /\ Own(w.ready[i], {"resolve"}, w.c.sock)
    /\ \A j \in 1..Len(w.ready) : w.ready[j].op = "rejected" =>
            /\ w.c.connection_state # "Connected"
            /\ \A i \in 1..Len(w.ready) : Own(w.ready[i], {"connect"}, w.c.sock) => j < i

\* The socket is used only once it is connected.
Phase(w) ==
    /\ w.c.connection_state = "Connected" => NoneOf(w, Attempt, w.c.sock)
    /\ w.c.connection_state # "Connected" => NoneOf(w, {"header", "body", "write"}, w.c.sock)

\* One packet is being written, the first of the queue.
Writing(w) ==
    w.c.connection_state = "Connected" =>
        /\ AtMostOne(w, {"write"}, w.c.sock)
        /\ ~w.c.write_in_progress => NoneOf(w, {"write"}, w.c.sock)
        /\ \A o \in w.waiting : Own(o, {"write"}, w.c.sock) =>
             w.c.write_queue # <<>> /\ o.packet = Head(w.c.write_queue)

Calm(w) ==
    ~w.overlap =>
        /\ w.c.closed => \A o \in w.waiting : o.op # "write"
        /\ ~w.c.closed => /\ Fresh(w) /\ AtMostOne(w, Chain, w.c.sock) /\ Behind(w)
                          /\ Phase(w) /\ Writing(w)

\* A packet of the socket in use is written and not yet taken from the queue.
Done(w) == \E i \in 1..Len(w.ready) : Own(w.ready[i], {"write"}, w.c.sock) /\ w.ready[i].ec = "ok"

\* What the server has of the socket in use, g, comes before what is queued.
Sent(w, g) ==
    ~w.overlap /\ ~w.c.closed =>
        /\ w.c.connection_state # "Connected" => g = <<>>
        /\ w.c.connection_state = "Connected" => \A k \in 1..Len(g) :
             /\ g[k] <= w.sends
             /\ \A i \in 1..Len(w.ready) : w.ready[i].op = "post" => g[k] < w.ready[i].packet
             /\ \A i \in 1..Len(w.c.write_queue) :
                  g[k] < w.c.write_queue[i] \/ (i = 1 /\ g[k] = w.c.write_queue[1] /\ Done(w))

\* What holds between any two handlers, and what holds within one.
Loose(w) == Typed(w) /\ Flagged(w) /\ Calm(w)
Sound(w) == Loose(w) /\ Flushed(w)
-----------------------------------------------------------------------------
(* Sequences and records. *)

(* A finite set has a sequence of its elements. *)
LEMMA SetToSeqFacts ==
  ASSUME NEW S, IsFiniteSet(S)
  PROVE  /\ SetToSeq(S) \in Seq(S)
         /\ \A x \in S : \E i \in 1..Len(SetToSeq(S)) : SetToSeq(S)[i] = x
<1> DEFINE n == Cardinality(S)
           f == SetToSeq(S)
<1>1. n \in Nat /\ IsFiniteSet(1..n) /\ Cardinality(1..n) = n
  BY FS_CardinalityType, FS_Interval
<1>2. PICK h \in Bijection(1..n, S) : TRUE
  BY FS_CardinalityType DEF ExistsBijection
<1>3. h \in [1..n -> S] /\ IsInjective(h)
  BY <1>2 DEF Bijection, Injection, IsInjective
<1>4. f \in [1..n -> S] /\ IsInjective(f)
  BY <1>3 DEF SetToSeq
<1> HIDE DEF f
<1>5. f \in Injection(1..n, S)
  BY <1>4 DEF Injection
<1>6. f \in Surjection(1..n, S)
  BY <1>1, <1>5, FS_Injection
<1>7. \A x \in S : \E i \in 1..n : f[i] = x
  BY <1>6 DEF Surjection
<1>8. f \in Seq(S) /\ Len(f) = n
  BY <1>1, <1>4
<1>9. QED BY <1>7, <1>8 DEF f

(* The members of the records. *)
LEMMA WorldFields ==
  ASSUME NEW w \in Worlds
  PROVE  /\ w.c \in Clients /\ w.waiting \subseteq Operation /\ w.ready \in Seq(Finished)
         /\ w.sends \in Nat /\ w.overlap \in BOOLEAN
         /\ w.c.connection_state \in States /\ w.c.closed \in BOOLEAN /\ w.c.write_queue \in Seq(Nat)
         /\ w.c.write_in_progress \in BOOLEAN /\ w.c.sock \in Nat
         /\ Len(w.ready) \in Nat /\ \A i \in 1..Len(w.ready) : w.ready[i] \in Finished
         /\ Len(w.c.write_queue) \in Nat /\ \A i \in 1..Len(w.c.write_queue) : w.c.write_queue[i] \in Nat
BY DEF Worlds, Clients

(* The queue of completions with more behind it. *)
LEMMA ConcatFacts ==
  ASSUME NEW a \in Seq(Finished), NEW b \in Seq(Finished), NEW r, r = a \o b
  PROVE  /\ r \in Seq(Finished) /\ Len(r) = Len(a) + Len(b) /\ Len(a) \in Nat /\ Len(b) \in Nat
         /\ \A i \in 1..Len(a) : r[i] = a[i]
         /\ \A i \in 1..Len(b) : r[Len(a) + i] = b[i]
OBVIOUS

\* From w to v the operations ops have been cancelled.
Aborts(w, v, ops) ==
    /\ v \in Worlds /\ v.c = w.c /\ v.sends = w.sends /\ v.overlap = w.overlap
    /\ v.waiting = w.waiting \ ops
    /\ Len(w.ready) <= Len(v.ready)
    /\ \A i \in 1..Len(w.ready) : v.ready[i] = w.ready[i]
    /\ \A i \in 1..Len(v.ready) : Len(w.ready) < i =>
         v.ready[i].ec = "aborted" /\ \E o \in ops : v.ready[i].op = o.op /\ v.ready[i].sock = o.sock
    /\ \A o \in ops : \E i \in 1..Len(v.ready) : v.ready[i].op = o.op /\ v.ready[i].sock = o.sock

(* Cancelled operations complete behind what is in the queue. *)
LEMMA CancelAborts ==
  ASSUME NEW w \in Worlds, IsFiniteSet(w.waiting), NEW ops \in SUBSET w.waiting, NEW v, v = Cancelled(w, ops)
  PROVE  Aborts(w, v, ops)
<1> DEFINE R == {o \in ops : o.op \in Reads}
           T == {o \in ops : o.op \notin Reads}
           dead == SetToSeq(R) \o SetToSeq(T)
           tail == [i \in DOMAIN dead |-> Completion(dead[i], "aborted")]
           W == w.waiting \ ops
<1>1. v = [w EXCEPT !.waiting = W, !.ready = @ \o tail]
  BY DEF Cancelled
<1>2. w.waiting \subseteq Operation /\ w.ready \in Seq(Finished) /\ ops \subseteq Operation
  BY WorldFields
<1>3. dead \in Seq(ops) /\ \A o \in ops : \E i \in 1..Len(dead) : dead[i] = o
  <2>1. IsFiniteSet(R) /\ IsFiniteSet(T)
    BY FS_Subset
  <2>2. PICK x, y : x = SetToSeq(R) /\ y = SetToSeq(T)
    OBVIOUS
  <2>3. x \in Seq(R) /\ y \in Seq(T) /\ (\A o \in R : \E i \in 1..Len(x) : x[i] = o)
        /\ \A o \in T : \E i \in 1..Len(y) : y[i] = o
    BY <2>1, <2>2, SetToSeqFacts
  <2>4. x \in Seq(ops) /\ y \in Seq(ops)
    BY <2>3
  <2>5. x \o y \in Seq(ops) /\ Len(x \o y) = Len(x) + Len(y)
        /\ \A i \in 1..Len(x \o y) : (x \o y)[i] = IF i <= Len(x) THEN x[i] ELSE y[i - Len(x)]
    BY <2>4
  <2>6. ASSUME NEW o \in ops PROVE \E i \in 1..Len(x \o y) : (x \o y)[i] = o
    <3>1. CASE o \in R
      <4>1. PICK i \in 1..Len(x) : x[i] = o
        BY <2>3, <3>1
      <4>2. i \in 1..Len(x \o y) /\ (x \o y)[i] = o
        BY <2>4, <2>5, <4>1
      <4>3. QED BY <4>2
    <3>2. CASE o \in T
      <4>1. PICK i \in 1..Len(y) : y[i] = o
        BY <2>3, <3>2
      <4>2. Len(x) + i \in 1..Len(x \o y) /\ (x \o y)[Len(x) + i] = o
        BY <2>4, <2>5, <4>1
      <4>3. QED BY <4>2
    <3>3. QED BY <3>1, <3>2
  <2>7. QED BY <2>2, <2>5, <2>6
<1> HIDE DEF dead
<1>4. Len(dead) \in Nat /\ DOMAIN dead = 1..Len(dead) /\ \A i \in 1..Len(dead) : dead[i] \in ops
  BY <1>3
<1>5. ASSUME NEW i \in 1..Len(dead)
      PROVE  /\ Completion(dead[i], "aborted") \in Finished
             /\ Completion(dead[i], "aborted").ec = "aborted"
             /\ Completion(dead[i], "aborted").op = dead[i].op
             /\ Completion(dead[i], "aborted").sock = dead[i].sock
  <2>1. dead[i] \in Operation
    BY <1>2, <1>4
  <2>2. QED BY <2>1 DEF Operation, Finished, Completion
<1>6. /\ tail \in Seq(Finished) /\ Len(tail) = Len(dead)
      /\ \A i \in 1..Len(tail) : tail[i] = Completion(dead[i], "aborted")
  BY <1>4, <1>5
<1> HIDE DEF tail, W
<1>7. PICK r : r = w.ready \o tail
  OBVIOUS
<1>8. /\ r \in Seq(Finished) /\ Len(r) = Len(w.ready) + Len(tail)
      /\ \A i \in 1..Len(w.ready) : r[i] = w.ready[i]
      /\ \A i \in 1..Len(tail) : r[Len(w.ready) + i] = tail[i]
      /\ Len(w.ready) \in Nat /\ Len(tail) \in Nat
  <2>1. PICK q : q = w.ready
    OBVIOUS
  <2>2. q \in Seq(Finished) /\ tail \in Seq(Finished) /\ r = q \o tail
    BY <1>2, <1>6, <1>7, <2>1
  <2>3. QED BY <2>1, <2>2, ConcatFacts
<1>9. W \subseteq Operation /\ W = w.waiting \ ops
  BY <1>2 DEF W
<1>10. /\ v \in Worlds /\ v.c = w.c /\ v.sends = w.sends /\ v.overlap = w.overlap
       /\ v.waiting = W /\ v.ready = r
  BY <1>1, <1>7, <1>8, <1>9 DEF Worlds
<1>11. ASSUME NEW i \in 1..Len(r), Len(w.ready) < i
       PROVE  r[i].ec = "aborted" /\ \E o \in ops : r[i].op = o.op /\ r[i].sock = o.sock
  <2>1. PICK k : k = i - Len(w.ready)
    OBVIOUS
  <2>2. k \in 1..Len(tail) /\ Len(w.ready) + k = i
    BY <1>8, <1>11, <2>1
  <2>3. k \in 1..Len(dead) /\ dead[k] \in ops /\ r[i] = Completion(dead[k], "aborted")
    BY <1>4, <1>6, <1>8, <2>2
  <2>4. QED BY <1>5, <2>3
<1>12. ASSUME NEW o \in ops PROVE \E i \in 1..Len(r) : r[i].op = o.op /\ r[i].sock = o.sock
  <2>1. PICK k \in 1..Len(dead) : dead[k] = o
    BY <1>3
  <2>2. Len(w.ready) + k \in 1..Len(r) /\ r[Len(w.ready) + k] = Completion(dead[k], "aborted")
    <3>1. k \in 1..Len(tail)
      BY <1>6
    <3>2. Len(w.ready) + k \in 1..Len(r)
      BY <1>8, <3>1
    <3>3. QED BY <1>6, <1>8, <3>1, <3>2
  <2>3. QED BY <1>5, <2>1, <2>2
<1>13. Len(w.ready) <= Len(r)
  BY <1>2, <1>4, <1>6, <1>8
<1>14. QED BY <1>8, <1>9, <1>10, <1>11, <1>12, <1>13 DEF Aborts
-----------------------------------------------------------------------------
(* Steps that leave the operations on the socket alone. *)

\* What the invariant reads of the client.
Core(w, v) ==
    /\ v.c.connection_state = w.c.connection_state /\ v.c.closed = w.c.closed
    /\ v.c.write_queue = w.c.write_queue /\ v.c.write_in_progress = w.c.write_in_progress
    /\ v.c.sock = w.c.sock /\ v.overlap = w.overlap

\* Completions have joined the queue.
Longer(w, v) ==
    /\ Len(w.ready) <= Len(v.ready)
    /\ \A i \in 1..Len(w.ready) : v.ready[i] = w.ready[i]

\* From w to v only timers and posted handlers have come or gone.
Padded(w, v) ==
    /\ v \in Worlds /\ IsFiniteSet(v.waiting) /\ Core(w, v) /\ Longer(w, v)
    /\ \A o : o.op # "timer" => (o \in v.waiting <=> o \in w.waiting)
    /\ \A o \in v.waiting : o.sock <= v.c.sock
    /\ \A i \in 1..Len(v.ready) : Len(w.ready) < i =>
         v.ready[i].op \in {"timer", "post"} /\ v.ready[i].sock <= v.c.sock

(* The operations of some kinds are the same. *)
LEMMA PadTokens ==
  ASSUME NEW w \in Worlds, NEW v, Padded(w, v), NEW K, "timer" \notin K, "post" \notin K, NEW s
  PROVE  /\ NoneOf(w, K, s) => NoneOf(v, K, s)
         /\ AtMostOne(w, K, s) => AtMostOne(v, K, s)
<1>1. \A o : Own(o, K, s) => (o \in v.waiting <=> o \in w.waiting)
  BY DEF Padded, Own
<1>2. /\ Len(w.ready) \in Nat /\ Len(v.ready) \in Nat
      /\ \A i \in 1..Len(v.ready) : Own(v.ready[i], K, s) => i \in 1..Len(w.ready) /\ v.ready[i] = w.ready[i]
  <2>1. Len(w.ready) \in Nat /\ Len(v.ready) \in Nat
    BY WorldFields DEF Padded
  <2>2. ASSUME NEW i \in 1..Len(v.ready), Own(v.ready[i], K, s) PROVE i \in 1..Len(w.ready) /\ v.ready[i] = w.ready[i]
    <3>1. ~(Len(w.ready) < i)
      BY <2>2 DEF Padded, Own
    <3>2. QED BY <2>1, <3>1 DEF Padded, Longer
  <2>3. QED BY <2>1, <2>2
<1>3. ASSUME NoneOf(w, K, s) PROVE NoneOf(v, K, s)
  <2>1. ASSUME NEW o \in v.waiting PROVE ~Own(o, K, s)
    BY <1>1, <1>3 DEF NoneOf
  <2>2. ASSUME NEW i \in 1..Len(v.ready) PROVE ~Own(v.ready[i], K, s)
    BY <1>2, <1>3 DEF NoneOf
  <2>3. QED BY <2>1, <2>2 DEF NoneOf
<1>4. ASSUME AtMostOne(w, K, s) PROVE AtMostOne(v, K, s)
  <2>1. ASSUME NEW o \in v.waiting, NEW p \in v.waiting, Own(o, K, s), Own(p, K, s) PROVE o = p
    BY <1>1, <1>4, <2>1 DEF AtMostOne
  <2>2. ASSUME NEW i \in 1..Len(v.ready), NEW j \in 1..Len(v.ready), Own(v.ready[i], K, s), Own(v.ready[j], K, s)
        PROVE i = j
    <3>1. i \in 1..Len(w.ready) /\ j \in 1..Len(w.ready) /\ Own(w.ready[i], K, s) /\ Own(w.ready[j], K, s)
      BY <1>2, <2>2
    <3>2. QED BY <1>4, <3>1 DEF AtMostOne
  <2>3. ASSUME NEW o \in v.waiting, NEW i \in 1..Len(v.ready) PROVE ~(Own(o, K, s) /\ Own(v.ready[i], K, s))
    <3>1. SUFFICES ASSUME Own(o, K, s), Own(v.ready[i], K, s) PROVE FALSE
      OBVIOUS
    <3>2. o \in w.waiting /\ i \in 1..Len(w.ready) /\ Own(w.ready[i], K, s)
      BY <1>1, <1>2, <3>1
    <3>3. QED BY <1>4, <3>1, <3>2 DEF AtMostOne
  <2>4. QED BY <2>1, <2>2, <2>3 DEF AtMostOne
<1>5. QED BY <1>3, <1>4

(* So the invariant is kept, but for the order of packets. *)
LEMMA PadKeeps ==
  ASSUME NEW w \in Worlds, NEW v, Padded(w, v), Near(w), Flagged(w), Calm(w)
  PROVE  /\ Near(v) /\ Flagged(v) /\ Calm(v) /\ (Flushed(w) => Flushed(v)) /\ (Done(w) => Done(v))
<1>1. /\ Len(w.ready) \in Nat /\ Len(v.ready) \in Nat /\ Core(w, v)
      /\ \A i \in 1..Len(w.ready) : i \in 1..Len(v.ready) /\ v.ready[i] = w.ready[i]
      /\ \A i \in 1..Len(v.ready) :
           \/ i \in 1..Len(w.ready) /\ v.ready[i] = w.ready[i]
           \/ v.ready[i].op \in {"timer", "post"} /\ v.ready[i].sock <= v.c.sock
  <2>1. Len(w.ready) \in Nat /\ Len(v.ready) \in Nat
    BY WorldFields DEF Padded
  <2>2. QED BY <2>1 DEF Padded, Longer
<1>2. \A o : o.op # "timer" => (o \in v.waiting <=> o \in w.waiting)
  BY DEF Padded
<1>3. Near(v)
  <2>1. ASSUME NEW o \in v.waiting PROVE o.sock <= v.c.sock /\ (o.op \in OnSocket => o.sock = v.c.sock)
    BY <1>1, <1>2 DEF Padded, Near, OnSocket, Core
  <2>2. ASSUME NEW i \in 1..Len(v.ready) PROVE v.ready[i].sock <= v.c.sock
    BY <1>1 DEF Near, Core
  <2>3. QED BY <2>1, <2>2 DEF Near
<1>4. Flagged(v)
  <2>1. SUFFICES ASSUME w.c.write_in_progress
                 PROVE  \/ \E o \in v.waiting : Own(o, {"write"}, v.c.sock)
                        \/ \E i \in 1..Len(v.ready) : v.ready[i].op = "write"
    BY <1>1 DEF Flagged, Core
  <2>2. CASE \E o \in w.waiting : Own(o, {"write"}, w.c.sock)
    BY <1>1, <1>2, <2>2 DEF Core, Own
  <2>3. CASE \E i \in 1..Len(w.ready) : w.ready[i].op = "write"
    BY <1>1, <2>3
  <2>4. QED BY <2>1, <2>2, <2>3 DEF Flagged
<1>5. Flushed(w) => Flushed(v)
  BY <1>1 DEF Flushed, Live, Core
<1>6. Done(w) => Done(v)
  BY <1>1 DEF Done, Core
<1>7. Calm(v)
  <2>1. SUFFICES ASSUME ~v.overlap PROVE /\ v.c.closed => \A o \in v.waiting : o.op # "write"
                                         /\ ~v.c.closed => /\ Fresh(v) /\ AtMostOne(v, Chain, v.c.sock) /\ Behind(v)
                                                           /\ Phase(v) /\ Writing(v)
    BY DEF Calm
  <2>2. CASE v.c.closed
    BY <1>1, <1>2, <2>1, <2>2 DEF Calm, Core
  <2>3. CASE ~v.c.closed
    <3>1. Fresh(w) /\ AtMostOne(w, Chain, w.c.sock) /\ Behind(w) /\ Phase(w) /\ Writing(w)
      BY <1>1, <2>1, <2>3 DEF Calm, Core
    <3>2. v.c.sock = w.c.sock /\ v.c.connection_state = w.c.connection_state
          /\ v.c.write_queue = w.c.write_queue /\ v.c.write_in_progress = w.c.write_in_progress
      BY <1>1 DEF Core
    <3>3. Fresh(v)
      BY <1>1, <1>2, <3>1, <3>2 DEF Fresh, Attempt
    <3>4. AtMostOne(v, Chain, v.c.sock)
      BY <3>1, <3>2, PadTokens DEF Chain
    <3>5. Behind(v)
      <4>1. ASSUME NEW j \in 1..Len(v.ready), v.ready[j].op \in {"header", "body", "write"}, v.ready[j].sock # v.c.sock
            PROVE  \/ \E o \in v.waiting : Own(o, {"resolve"}, v.c.sock)
                   \/ \E i \in 1..Len(v.ready) : j < i /\ Own(v.ready[i], {"resolve"}, v.c.sock)
        <5>1. j \in 1..Len(w.ready) /\ v.ready[j] = w.ready[j]
          BY <1>1, <4>1
        <5>2. \/ \E o \in w.waiting : Own(o, {"resolve"}, w.c.sock)
              \/ \E i \in 1..Len(w.ready) : j < i /\ Own(w.ready[i], {"resolve"}, w.c.sock)
          BY <3>1, <3>2, <4>1, <5>1 DEF Behind
        <5>3. QED BY <1>1, <1>2, <3>2, <5>2 DEF Own
      <4>2. ASSUME NEW j \in 1..Len(v.ready), v.ready[j].op = "rejected"
            PROVE  /\ v.c.connection_state # "Connected"
                   /\ \A i \in 1..Len(v.ready) : Own(v.ready[i], {"connect"}, v.c.sock) => j < i
        BY <1>1, <3>1, <3>2, <4>2 DEF Behind, Own
      <4>3. QED BY <4>1, <4>2 DEF Behind
    <3>6. Phase(v)
      BY <3>1, <3>2, PadTokens DEF Phase, Attempt
    <3>7. Writing(v)
      <4>1. SUFFICES ASSUME v.c.connection_state = "Connected"
                     PROVE  /\ AtMostOne(v, {"write"}, v.c.sock)
                            /\ ~v.c.write_in_progress => NoneOf(v, {"write"}, v.c.sock)
                            /\ \A o \in v.waiting : Own(o, {"write"}, v.c.sock) =>
                                 v.c.write_queue # <<>> /\ o.packet = Head(v.c.write_queue)
        BY DEF Writing
      <4>2. /\ AtMostOne(w, {"write"}, w.c.sock)
            /\ ~w.c.write_in_progress => NoneOf(w, {"write"}, w.c.sock)
            /\ \A o \in w.waiting : Own(o, {"write"}, w.c.sock) =>
                 w.c.write_queue # <<>> /\ o.packet = Head(w.c.write_queue)
        BY <3>1, <3>2, <4>1 DEF Writing
      <4>3. AtMostOne(v, {"write"}, v.c.sock) /\ (~v.c.write_in_progress => NoneOf(v, {"write"}, v.c.sock))
        BY <3>2, <4>2, PadTokens
      <4>4. ASSUME NEW o \in v.waiting, Own(o, {"write"}, v.c.sock)
            PROVE  v.c.write_queue # <<>> /\ o.packet = Head(v.c.write_queue)
        BY <1>2, <3>2, <4>2, <4>4 DEF Own
      <4>5. QED BY <4>3, <4>4
    <3>8. QED BY <2>3, <3>3, <3>4, <3>5, <3>6, <3>7
  <2>4. QED BY <2>2, <2>3
<1>8. QED BY <1>3, <1>4, <1>5, <1>6, <1>7

\* Nothing has been posted from w to v.
Unposted(w, v) ==
    /\ Longer(w, v) /\ v.sends = w.sends
    /\ \A i \in 1..Len(v.ready) : Len(w.ready) < i => v.ready[i].op # "post"

(* Packets stay in order if none is posted. *)
LEMMA OrderKeeps ==
  ASSUME NEW w \in Worlds, NEW v \in Worlds, Unposted(w, v), v.c.write_queue = w.c.write_queue, Ordered(w)
  PROVE  Ordered(v)
<1>1. /\ Len(w.ready) \in Nat /\ Len(v.ready) \in Nat
      /\ \A i \in 1..Len(v.ready) : v.ready[i].op = "post" => i \in 1..Len(w.ready) /\ v.ready[i] = w.ready[i]
  <2>1. Len(w.ready) \in Nat /\ Len(v.ready) \in Nat
    BY WorldFields
  <2>2. QED BY <2>1 DEF Unposted, Longer
<1>2. v.sends = w.sends
  BY DEF Unposted
<1>3. ASSUME NEW k \in 1..Len(v.ready), v.ready[k].op = "post"
      PROVE  /\ v.ready[k].packet <= v.sends
             /\ \A i \in 1..Len(v.c.write_queue) : v.c.write_queue[i] < v.ready[k].packet
  BY <1>1, <1>2, <1>3 DEF Ordered
<1>4. ASSUME NEW k \in 1..Len(v.ready), NEW l \in 1..Len(v.ready), k < l, v.ready[k].op = "post", v.ready[l].op = "post"
      PROVE  v.ready[k].packet < v.ready[l].packet
  <2>1. /\ k \in 1..Len(w.ready) /\ v.ready[k] = w.ready[k]
        /\ l \in 1..Len(w.ready) /\ v.ready[l] = w.ready[l]
    BY <1>1, <1>4
  <2>2. QED BY <1>4, <2>1 DEF Ordered
<1>5. QED BY <1>2, <1>3, <1>4 DEF Ordered

(* And so does what the server has. *)
LEMMA SentKeeps ==
  ASSUME NEW w \in Worlds, NEW v \in Worlds, Unposted(w, v), Core(w, v), Done(w) => Done(v), NEW g, Sent(w, g)
  PROVE  Sent(v, g)
<1>1. /\ Len(w.ready) \in Nat /\ Len(v.ready) \in Nat
      /\ \A i \in 1..Len(v.ready) : v.ready[i].op = "post" => i \in 1..Len(w.ready) /\ v.ready[i] = w.ready[i]
  <2>1. Len(w.ready) \in Nat /\ Len(v.ready) \in Nat
    BY WorldFields
  <2>2. QED BY <2>1 DEF Unposted, Longer
<1>2. /\ v.sends = w.sends /\ v.c.write_queue = w.c.write_queue /\ v.c.closed = w.c.closed /\ v.overlap = w.overlap
      /\ v.c.connection_state = w.c.connection_state
  BY DEF Unposted, Core
<1>3. SUFFICES ASSUME ~v.overlap, ~v.c.closed
               PROVE  /\ v.c.connection_state # "Connected" => g = <<>>
                      /\ v.c.connection_state = "Connected" => \A k \in 1..Len(g) :
                           /\ g[k] <= v.sends
                           /\ \A i \in 1..Len(v.ready) : v.ready[i].op = "post" => g[k] < v.ready[i].packet
                           /\ \A i \in 1..Len(v.c.write_queue) :
                                g[k] < v.c.write_queue[i] \/ (i = 1 /\ g[k] = v.c.write_queue[1] /\ Done(v))
  BY DEF Sent
<1>4. v.c.connection_state # "Connected" => g = <<>>
  BY <1>2, <1>3 DEF Sent
<1>5. ASSUME v.c.connection_state = "Connected", NEW k \in 1..Len(g)
      PROVE  /\ g[k] <= v.sends
             /\ \A i \in 1..Len(v.ready) : v.ready[i].op = "post" => g[k] < v.ready[i].packet
             /\ \A i \in 1..Len(v.c.write_queue) :
                  g[k] < v.c.write_queue[i] \/ (i = 1 /\ g[k] = v.c.write_queue[1] /\ Done(v))
  <2>1. /\ g[k] <= w.sends
        /\ \A i \in 1..Len(w.ready) : w.ready[i].op = "post" => g[k] < w.ready[i].packet
        /\ \A i \in 1..Len(w.c.write_queue) :
             g[k] < w.c.write_queue[i] \/ (i = 1 /\ g[k] = w.c.write_queue[1] /\ Done(w))
    BY <1>2, <1>3, <1>5 DEF Sent
  <2>2. QED BY <1>1, <1>2, <2>1
<1>6. QED BY <1>4, <1>5

(* Without a new header, and none read, there is still one packet at most. *)
LEMMA ReadKeeps ==
  ASSUME NEW w \in Worlds, NEW v \in Worlds, OneRead(w), ~v.overlap => ~w.overlap, Longer(w, v),
         \A o \in v.waiting : o.op = "header" => o \in w.waiting,
         \A i \in 1..Len(v.ready) : Len(w.ready) < i => ~Going(v.ready[i])
  PROVE  OneRead(v)
<1>1. Len(w.ready) \in Nat /\ Len(v.ready) \in Nat
  BY WorldFields
<1>2. \A i \in 1..Len(v.ready) : Going(v.ready[i]) => i \in 1..Len(w.ready) /\ Going(w.ready[i])
  BY <1>1 DEF Longer
<1>3. QED BY <1>2 DEF OneRead

(* Cancelling operations keeps what holds of any world. *)
LEMMA CancelTyped ==
  ASSUME NEW w, Typed(w), NEW ops \in SUBSET w.waiting, NEW v, v = Cancelled(w, ops)
  PROVE  /\ Typed(v) /\ Aborts(w, v, ops) /\ v \in Worlds /\ Unposted(w, v)
<1>1. w \in Worlds /\ IsFiniteSet(w.waiting) /\ Near(w) /\ Ordered(w) /\ OneRead(w)
  BY DEF Typed
<1>2. Aborts(w, v, ops)
  BY <1>1, CancelAborts
<1>3. /\ v \in Worlds /\ v.c = w.c /\ v.waiting = w.waiting \ ops /\ v.sends = w.sends
  BY <1>2 DEF Aborts
<1>4. \A o \in ops : o \in w.waiting /\ o.op # "post"
  BY <1>1, WorldFields DEF Operation, Kinds
<1>5. /\ Len(w.ready) \in Nat /\ Len(v.ready) \in Nat
      /\ \A i \in 1..Len(v.ready) :
           \/ i \in 1..Len(w.ready) /\ v.ready[i] = w.ready[i]
           \/ \E o \in ops : v.ready[i].op = o.op /\ v.ready[i].sock = o.sock
  <2>1. Len(w.ready) \in Nat /\ Len(v.ready) \in Nat
    BY <1>1, <1>3, WorldFields
  <2>2. QED BY <1>2, <2>1 DEF Aborts
<1>6. Unposted(w, v)
  BY <1>2, <1>3, <1>4 DEF Aborts, Unposted, Longer
<1>7. Ordered(v)
  BY <1>1, <1>3, <1>6, OrderKeeps
<1>8. Near(v)
  <2>1. ASSUME NEW i \in 1..Len(v.ready) PROVE v.ready[i].sock <= v.c.sock
    <3>1. CASE i \in 1..Len(w.ready) /\ v.ready[i] = w.ready[i]
      BY <1>1, <1>3, <3>1 DEF Near
    <3>2. CASE \E o \in ops : v.ready[i].op = o.op /\ v.ready[i].sock = o.sock
      BY <1>1, <1>3, <1>4, <3>2 DEF Near
    <3>3. QED BY <1>5, <3>1, <3>2
  <2>2. QED BY <1>1, <1>3, <2>1 DEF Near
<1>9. IsFiniteSet(v.waiting)
  <2>1. PICK W : W = w.waiting
    OBVIOUS
  <2>2. IsFiniteSet(W \ ops)
    BY <1>1, <2>1, FS_Difference
  <2>3. QED BY <1>3, <2>1, <2>2
<1>10. OneRead(v)
  <2>1. ASSUME NEW i \in 1..Len(v.ready), Len(w.ready) < i PROVE ~Going(v.ready[i])
    <3>1. v.ready[i].ec = "aborted" /\ \E o \in ops : v.ready[i].op = o.op
      BY <1>2, <2>1 DEF Aborts
    <3>2. PICK o \in ops : v.ready[i].op = o.op
      BY <3>1
    <3>3. o \in Operation
      BY <1>1, <1>4, WorldFields
    <3>4. o.op # "rejected"
      BY <3>3 DEF Operation, Kinds
    <3>5. QED BY <3>1, <3>2, <3>4 DEF Going
  <2>2. Longer(w, v) /\ v.overlap = w.overlap
    BY <1>2, <1>6 DEF Unposted, Aborts
  <2>3. QED BY <1>1, <1>3, <2>1, <2>2, ReadKeeps
<1>11. QED BY <1>2, <1>3, <1>6, <1>7, <1>8, <1>9, <1>10 DEF Typed

(* cancel_connect_timeout changes nothing but timers. *)
LEMMA TimersOff ==
  ASSUME NEW w, Loose(w), NEW v, v = cancel_connect_timeout(w)
  PROVE  /\ Loose(v) /\ v.c = w.c /\ v.overlap = w.overlap /\ v.sends = w.sends
         /\ Padded(w, v) /\ (Flushed(w) => Flushed(v))
         /\ \A g : Sent(w, g) => Sent(v, g)
<1> DEFINE ops == {o \in w.waiting : o.op = "timer"}
<1>1. Typed(w) /\ w \in Worlds /\ Near(w) /\ Flagged(w) /\ Calm(w) /\ ops \in SUBSET w.waiting
  BY DEF Loose, Typed
<1>2. v = Cancelled(w, ops)
  BY DEF cancel_connect_timeout
<1>3. \A o \in ops : o.op = "timer" /\ o.sock <= w.c.sock
  BY <1>1 DEF Near
<1>4. \A o : o.op # "timer" => (o \in w.waiting \ ops <=> o \in w.waiting)
  OBVIOUS
<1> HIDE DEF ops
<1>5. Typed(v) /\ Aborts(w, v, ops) /\ Unposted(w, v) /\ v \in Worlds
  BY <1>1, <1>2, CancelTyped
<1>6. v.c = w.c /\ v.overlap = w.overlap /\ v.sends = w.sends /\ v.waiting = w.waiting \ ops
  BY <1>5 DEF Aborts
<1>7. Core(w, v)
  BY <1>6 DEF Core
<1>8. Padded(w, v)
  <2>1. \A i \in 1..Len(v.ready) : Len(w.ready) < i => v.ready[i].op \in {"timer", "post"} /\ v.ready[i].sock <= v.c.sock
    BY <1>3, <1>5, <1>6 DEF Aborts
  <2>2. IsFiniteSet(v.waiting) /\ \A o \in v.waiting : o.sock <= v.c.sock
    BY <1>5 DEF Typed, Near
  <2>3. QED BY <1>4, <1>5, <1>6, <1>7, <2>1, <2>2 DEF Padded, Unposted
<1>9. Near(v) /\ Flagged(v) /\ Calm(v) /\ (Flushed(w) => Flushed(v)) /\ (Done(w) => Done(v))
  BY <1>1, <1>8, PadKeeps
<1>10. \A g : Sent(w, g) => Sent(v, g)
  BY <1>1, <1>5, <1>7, <1>9, SentKeeps
<1>11. QED BY <1>5, <1>6, <1>8, <1>9, <1>10 DEF Loose

(* Closing the socket cancels what waits on it. *)
LEMMA CloseSocket ==
  ASSUME NEW w, Typed(w), NEW v, v = close_socket(w)
  PROVE  /\ Typed(v) /\ v.c = w.c /\ v.overlap = w.overlap /\ v.sends = w.sends /\ Unposted(w, v)
         /\ v.waiting = {o \in w.waiting : o.op \notin OnSocket}
         /\ \A i \in 1..Len(v.ready) : Len(w.ready) < i =>
              /\ v.ready[i].ec = "aborted"
              /\ \E o \in w.waiting : o.op \in OnSocket /\ v.ready[i].op = o.op /\ v.ready[i].sock = o.sock
         /\ Flagged(w) => Flagged(v)
<1> DEFINE ops == {o \in w.waiting : o.op \in Reads \cup {"connect", "write"} /\ o.sock = w.c.sock}
<1>1. w \in Worlds /\ Near(w) /\ ops \in SUBSET w.waiting
  BY DEF Typed
<1>2. v = Cancelled(w, ops)
  BY DEF close_socket
<1>3. w.waiting \ ops = {o \in w.waiting : o.op \notin OnSocket}
  BY <1>1 DEF Near, OnSocket, Reads
<1>4. \A o \in ops : o \in w.waiting /\ o.op \in OnSocket
  BY DEF OnSocket, Reads
<1>5. \A o \in w.waiting : Own(o, {"write"}, w.c.sock) => o \in ops
  BY DEF Own
<1> HIDE DEF ops
<1>6. Typed(v) /\ Aborts(w, v, ops) /\ Unposted(w, v) /\ v \in Worlds
  BY <1>1, <1>2, CancelTyped
<1>7. v.c = w.c /\ v.overlap = w.overlap /\ v.sends = w.sends /\ v.waiting = w.waiting \ ops
  BY <1>6 DEF Aborts
<1>8. \A i \in 1..Len(v.ready) : Len(w.ready) < i =>
        /\ v.ready[i].ec = "aborted"
        /\ \E o \in w.waiting : o.op \in OnSocket /\ v.ready[i].op = o.op /\ v.ready[i].sock = o.sock
  BY <1>4, <1>6 DEF Aborts
<1>9. ASSUME Flagged(w), w.c.write_in_progress PROVE \E i \in 1..Len(v.ready) : v.ready[i].op = "write"
  <2>1. CASE \E o \in w.waiting : Own(o, {"write"}, w.c.sock)
    <3>1. PICK o \in ops : o.op = "write"
      BY <1>5, <2>1 DEF Own
    <3>2. QED BY <1>6, <3>1 DEF Aborts
  <2>2. CASE \E i \in 1..Len(w.ready) : w.ready[i].op = "write"
    <3>1. Len(w.ready) \in Nat /\ Len(v.ready) \in Nat
      BY <1>1, <1>6, WorldFields
    <3>2. QED BY <1>6, <2>2, <3>1 DEF Aborts
  <2>3. QED BY <1>9, <2>1, <2>2 DEF Flagged
<1>10. Flagged(w) => Flagged(v)
  BY <1>7, <1>9 DEF Flagged
<1>11. QED BY <1>3, <1>6, <1>7, <1>8, <1>10
-----------------------------------------------------------------------------
(* The member functions. *)

\* From w to v only the client has changed.
OnlyClient(w, v) ==
    v \in Worlds /\ v.waiting = w.waiting /\ v.ready = w.ready /\ v.sends = w.sends /\ v.overlap = w.overlap

(* connection_handler_ changes what is shown. *)
LEMMA SetConnection ==
  ASSUME NEW w \in Worlds, NEW v, v = set_connection(w)
  PROVE  /\ OnlyClient(w, v) /\ Core(w, v) /\ v.c.connection = w.c.connection_state
         /\ v.c.endpoint_edited = w.c.endpoint_edited /\ v.c.pending_auto_login = w.c.pending_auto_login
BY DEF set_connection, Worlds, Clients, States, OnlyClient, Core

(* What holds of any world does not depend on what is shown. *)
LEMMA CoreTyped ==
  ASSUME NEW w, Typed(w), NEW v, OnlyClient(w, v), v.c.sock = w.c.sock, v.c.write_queue = w.c.write_queue
  PROVE  Typed(v)
<1>1. w \in Worlds /\ v \in Worlds /\ IsFiniteSet(v.waiting) /\ Ordered(w)
  BY DEF Typed, OnlyClient
<1>2. Near(v)
  BY DEF Typed, Near, OnlyClient
<1>3. Ordered(v)
  BY DEF Typed, Ordered, OnlyClient
<1>4. OneRead(v)
  BY DEF Typed, OneRead, OnlyClient
<1>5. QED BY <1>1, <1>2, <1>3, <1>4 DEF Typed

(* Nor does the rest of the invariant. *)
LEMMA CoreKeeps ==
  ASSUME NEW w, Loose(w), NEW v, OnlyClient(w, v), Core(w, v)
  PROVE  /\ Loose(v) /\ Padded(w, v) /\ (Flushed(w) => Flushed(v)) /\ \A g : Sent(w, g) => Sent(v, g)
<1>1. w \in Worlds /\ v \in Worlds /\ Near(w) /\ Flagged(w) /\ Calm(w) /\ Typed(w) /\ IsFiniteSet(w.waiting)
  BY DEF Loose, Typed, OnlyClient
<1>2. Len(w.ready) \in Nat /\ v.ready = w.ready /\ v.waiting = w.waiting /\ v.sends = w.sends /\ v.c.sock = w.c.sock
  BY <1>1, WorldFields DEF OnlyClient, Core
<1>3. Padded(w, v) /\ Unposted(w, v)
  BY <1>1, <1>2 DEF Padded, Unposted, Longer, Near
<1>4. Typed(v)
  BY <1>1, CoreTyped DEF Core
<1>5. Flagged(v) /\ Calm(v) /\ (Flushed(w) => Flushed(v)) /\ (Done(w) => Done(v))
  BY <1>1, <1>3, PadKeeps
<1>6. \A g : Sent(w, g) => Sent(v, g)
  BY <1>1, <1>3, <1>5, SentKeeps
<1>7. QED BY <1>3, <1>4, <1>5, <1>6 DEF Loose

(* A closed connection with nothing queued and nothing under way is sound. *)
LEMMA ClosedSound ==
  ASSUME NEW v, Typed(v), v.c.closed, Flagged(v), \A o \in v.waiting : o.op \notin OnSocket
  PROVE  Sound(v) /\ \A g : Sent(v, g)
<1>1. Calm(v)
  BY DEF Calm, OnSocket
<1>2. Flushed(v)
  BY DEF Flushed, Live
<1>3. \A g : Sent(v, g)
  BY DEF Sent
<1>4. QED BY <1>1, <1>2, <1>3 DEF Sound, Loose

Shut(w) == [w EXCEPT !.c.closed = TRUE, !.c.write_queue = <<>>, !.c.write_in_progress = FALSE]
InState(w, s) == [w EXCEPT !.c.connection_state = s]

(* The flags that close_connection sets. *)
LEMMA CloseFlags ==
  ASSUME NEW w, Typed(w), NEW v, v = Shut(w)
  PROVE  /\ OnlyClient(w, v) /\ Typed(v) /\ v.c.closed = TRUE /\ v.c.write_queue = <<>> /\ v.c.write_in_progress = FALSE
         /\ v.c.connection_state = w.c.connection_state /\ v.c.sock = w.c.sock /\ v.c.connection = w.c.connection
         /\ v.c.endpoint_edited = w.c.endpoint_edited /\ v.c.pending_auto_login = w.c.pending_auto_login
<1>1. w \in Worlds /\ w.c \in Clients
  BY WorldFields DEF Typed
<1>2. PICK e : e = <<>>
  OBVIOUS
<1>3. e \in Seq(Nat) /\ Len(e) = 0
  BY <1>2
<1>4. PICK d : d = [w.c EXCEPT !.closed = TRUE, !.write_queue = e, !.write_in_progress = FALSE]
  OBVIOUS
<1>5. /\ d \in Clients /\ d.closed = TRUE /\ d.write_queue = e /\ d.write_in_progress = FALSE
      /\ d.connection_state = w.c.connection_state /\ d.sock = w.c.sock /\ d.connection = w.c.connection
      /\ d.endpoint_edited = w.c.endpoint_edited /\ d.pending_auto_login = w.c.pending_auto_login
  BY <1>1, <1>3, <1>4 DEF Clients
<1>6. v = [w EXCEPT !.c = d]
  BY <1>1, <1>2, <1>4 DEF Worlds, Clients, Shut
<1>7. OnlyClient(w, v) /\ v.c = d
  BY <1>1, <1>5, <1>6 DEF OnlyClient, Worlds
<1>8. Typed(v)
  <2>1. Near(v)
    BY <1>5, <1>7 DEF Typed, Near, OnlyClient
  <2>2. Ordered(v)
    <3>1. Len(v.c.write_queue) = 0 /\ v.ready = w.ready /\ v.sends = w.sends /\ Ordered(w)
      BY <1>3, <1>5, <1>7 DEF OnlyClient, Typed
    <3>2. QED BY <3>1 DEF Ordered
  <2>3. OneRead(v)
    BY <1>7 DEF Typed, OneRead, OnlyClient
  <2>4. QED BY <1>7, <2>1, <2>2, <2>3 DEF Typed, OnlyClient
<1>9. QED BY <1>2, <1>5, <1>7, <1>8

(* connection_state_ is set. *)
LEMMA StateSet ==
  ASSUME NEW w, Typed(w), NEW s \in States, NEW v, v = InState(w, s)
  PROVE  /\ OnlyClient(w, v) /\ Typed(v) /\ v.c.connection_state = s /\ v.c.closed = w.c.closed
         /\ v.c.write_queue = w.c.write_queue /\ v.c.write_in_progress = w.c.write_in_progress
         /\ v.c.sock = w.c.sock /\ v.c.connection = w.c.connection
         /\ v.c.endpoint_edited = w.c.endpoint_edited /\ v.c.pending_auto_login = w.c.pending_auto_login
<1>1. w \in Worlds
  BY DEF Typed
<1>2. /\ OnlyClient(w, v) /\ v.c.connection_state = s /\ v.c.closed = w.c.closed
      /\ v.c.write_queue = w.c.write_queue /\ v.c.write_in_progress = w.c.write_in_progress
      /\ v.c.sock = w.c.sock /\ v.c.connection = w.c.connection
      /\ v.c.endpoint_edited = w.c.endpoint_edited /\ v.c.pending_auto_login = w.c.pending_auto_login
  BY <1>1 DEF Worlds, Clients, OnlyClient, InState
<1>3. Typed(v)
  BY <1>2, CoreTyped
<1>4. QED BY <1>2, <1>3

(* close_connection leaves nothing queued and nothing under way. *)
LEMMA CloseConnection ==
  ASSUME NEW w, Typed(w), NEW notify \in BOOLEAN, NEW v, v = close_connection(w, notify)
  PROVE  /\ Sound(v) /\ \A g : Sent(v, g)
         /\ v.c.closed = TRUE /\ v.c.sock = w.c.sock /\ v.overlap = w.overlap /\ v.sends = w.sends
         /\ v.c.endpoint_edited = w.c.endpoint_edited /\ v.c.pending_auto_login = w.c.pending_auto_login
         /\ v.c.connection_state # "Connecting"
         /\ notify /\ w.c.connection_state \in {"Connected", "Connecting"} =>
              v.c.connection_state = "Disconnected" /\ v.c.connection = "Disconnected"
<1>1. PICK w0 : w0 = cancel_connect_timeout(w)
  OBVIOUS
<1>2. PICK w1 : w1 = close_socket(w0)
  OBVIOUS
<1>3. PICK w2 : w2 = Shut(w1)
  OBVIOUS
<1>4. PICK w3 : w3 = InState(w2, "Disconnected")
  OBVIOUS
<1>5. v = IF notify /\ w.c.connection_state \in {"Connected", "Connecting"} THEN set_connection(w3)
          ELSE IF w.c.connection_state = "Connecting" THEN w3 ELSE w2
  BY <1>1, <1>2, <1>3, <1>4 DEF close_connection, Shut, InState
<1>6. Typed(w0) /\ w0.c = w.c /\ w0.overlap = w.overlap /\ w0.sends = w.sends
  <2> DEFINE ops == {o \in w.waiting : o.op = "timer"}
  <2>1. w0 = Cancelled(w, ops) /\ ops \in SUBSET w.waiting
    BY <1>1 DEF cancel_connect_timeout
  <2> HIDE DEF ops
  <2>2. Typed(w0) /\ Aborts(w, w0, ops)
    BY <2>1, CancelTyped
  <2>3. QED BY <2>2 DEF Aborts
<1>7. /\ Typed(w1) /\ w1.c = w.c /\ w1.overlap = w.overlap /\ w1.sends = w.sends
      /\ \A o \in w1.waiting : o.op \notin OnSocket
  BY <1>2, <1>6, CloseSocket
<1>8. /\ OnlyClient(w1, w2) /\ Typed(w2) /\ w2.c.closed = TRUE /\ w2.c.write_queue = <<>>
      /\ w2.c.write_in_progress = FALSE
      /\ w2.c.connection_state = w.c.connection_state /\ w2.c.sock = w.c.sock /\ w2.c.connection = w.c.connection
      /\ w2.c.endpoint_edited = w.c.endpoint_edited /\ w2.c.pending_auto_login = w.c.pending_auto_login
  <2>1. /\ OnlyClient(w1, w2) /\ Typed(w2) /\ w2.c.closed = TRUE /\ w2.c.write_queue = <<>>
        /\ w2.c.write_in_progress = FALSE
        /\ w2.c.connection_state = w1.c.connection_state /\ w2.c.sock = w1.c.sock /\ w2.c.connection = w1.c.connection
        /\ w2.c.endpoint_edited = w1.c.endpoint_edited /\ w2.c.pending_auto_login = w1.c.pending_auto_login
    <3>1. Typed(w1)
      BY <1>7
    <3>2. QED BY <1>3, <3>1, CloseFlags, Zenon
  <2>2. QED BY <1>7, <2>1
<1>9. /\ OnlyClient(w2, w3) /\ Typed(w3) /\ w3.c.closed = TRUE /\ w3.c.write_in_progress = FALSE
      /\ w3.c.write_queue = <<>> /\ w3.c.connection_state = "Disconnected" /\ w3.c.sock = w.c.sock
      /\ w3.c.connection = w.c.connection
      /\ w3.c.endpoint_edited = w.c.endpoint_edited /\ w3.c.pending_auto_login = w.c.pending_auto_login
  <2>1. "Disconnected" \in States
    BY DEF States
  <2>2. QED BY <1>4, <1>8, <2>1, StateSet
<1>10. ASSUME NEW x, OnlyClient(w1, x), Typed(x), x.c.closed = TRUE, x.c.write_in_progress = FALSE
       PROVE  Sound(x) /\ (\A g : Sent(x, g)) /\ x.overlap = w.overlap /\ x.sends = w.sends
  <2>1. Flagged(x)
    BY <1>10 DEF Flagged
  <2>2. \A o \in x.waiting : o.op \notin OnSocket
    BY <1>7, <1>10 DEF OnlyClient
  <2>3. Sound(x) /\ \A g : Sent(x, g)
    BY <1>10, <2>1, <2>2, ClosedSound
  <2>4. QED BY <1>7, <1>10, <2>3 DEF OnlyClient
<1>11. CASE notify /\ w.c.connection_state \in {"Connected", "Connecting"}
  <2>1. v = set_connection(w3)
    BY <1>5, <1>11
  <2>2. w3 \in Worlds
    BY <1>9 DEF Typed
  <2>3. /\ OnlyClient(w3, v) /\ Core(w3, v) /\ v.c.connection = "Disconnected"
        /\ v.c.endpoint_edited = w.c.endpoint_edited /\ v.c.pending_auto_login = w.c.pending_auto_login
    BY <1>9, <2>1, <2>2, SetConnection
  <2>4. OnlyClient(w1, v) /\ v.c.closed = TRUE /\ v.c.write_in_progress = FALSE /\ v.c.sock = w.c.sock
        /\ v.c.connection_state = "Disconnected" /\ v.c.write_queue = w3.c.write_queue
    BY <1>8, <1>9, <2>3 DEF OnlyClient, Core
  <2>5. Typed(v)
    BY <1>9, <2>3, <2>4, CoreTyped
  <2>6. QED BY <1>10, <2>3, <2>4, <2>5
<1>12. CASE ~(notify /\ w.c.connection_state \in {"Connected", "Connecting"}) /\ w.c.connection_state = "Connecting"
  <2>1. v = w3 /\ OnlyClient(w1, v) /\ ~notify
    BY <1>5, <1>8, <1>9, <1>12 DEF OnlyClient
  <2>2. QED BY <1>9, <1>10, <2>1
<1>13. CASE ~(notify /\ w.c.connection_state \in {"Connected", "Connecting"}) /\ w.c.connection_state # "Connecting"
  <2>1. v = w2
    BY <1>5, <1>13
  <2>2. QED BY <1>8, <1>10, <1>13, <2>1
<1>14. QED BY <1>11, <1>12, <1>13

(* A connection that ends is reported. *)
LEMMA CloseTold ==
  ASSUME NEW w, Typed(w), w.c.connection_state \in {"Connected", "Connecting"}, NEW v, v = close_connection(w, TRUE)
  PROVE  /\ Sound(v) /\ v.c.closed = TRUE /\ v.c.sock = w.c.sock /\ v.c.endpoint_edited = w.c.endpoint_edited
         /\ v.overlap = w.overlap
         /\ v.c.connection_state = "Disconnected" /\ v.c.connection = "Disconnected"
<1>1. TRUE \in BOOLEAN
  OBVIOUS
<1>2. /\ Sound(v) /\ v.c.closed = TRUE /\ v.c.sock = w.c.sock /\ v.c.endpoint_edited = w.c.endpoint_edited
      /\ v.overlap = w.overlap
      /\ (TRUE /\ w.c.connection_state \in {"Connected", "Connecting"} =>
            v.c.connection_state = "Disconnected" /\ v.c.connection = "Disconnected")
  BY <1>1, CloseConnection, ZenonT(60)
<1>3. QED BY <1>2

Begun(w, s) ==
    [w EXCEPT !.c.sock = s, !.c.closed = FALSE, !.c.connection_state = "Connecting",
              !.waiting = @ \cup {Op("resolve", s)}, !.overlap = @ \/ Unfinished(w)]

\* The fields of v, the world w with an attempt on socket s.
BegunAs(w, s, v) ==
    /\ v \in Worlds /\ v.waiting = w.waiting \cup {Op("resolve", s)} /\ v.ready = w.ready /\ v.sends = w.sends
    /\ ~v.overlap => ~w.overlap /\ ~Unfinished(w)
    /\ v.c.sock = s /\ v.c.closed = FALSE /\ v.c.connection_state = "Connecting"
    /\ v.c.write_queue = w.c.write_queue /\ v.c.write_in_progress = w.c.write_in_progress
    /\ v.c.endpoint_edited = w.c.endpoint_edited /\ v.c.pending_auto_login = w.c.pending_auto_login
    /\ Op("resolve", s).op = "resolve" /\ Op("resolve", s).sock = s

(* The record that begin_connect makes. *)
LEMMA BegunFields ==
  ASSUME NEW w \in Worlds, NEW s \in Nat, NEW v, v = Begun(w, s)
  PROVE  BegunAs(w, s, v)
<1>1. w.c \in Clients /\ w.waiting \subseteq Operation /\ w.ready \in Seq(Finished) /\ w.sends \in Nat /\ w.overlap \in BOOLEAN
  BY WorldFields
<1>2. PICK d : d = [w.c EXCEPT !.sock = s, !.closed = FALSE, !.connection_state = "Connecting"]
  OBVIOUS
<1>3. /\ d \in Clients /\ d.sock = s /\ d.closed = FALSE /\ d.connection_state = "Connecting"
      /\ d.write_queue = w.c.write_queue /\ d.write_in_progress = w.c.write_in_progress
      /\ d.endpoint_edited = w.c.endpoint_edited /\ d.pending_auto_login = w.c.pending_auto_login
  BY <1>1, <1>2 DEF Clients, States
<1>4. PICK o : o = Op("resolve", s)
  OBVIOUS
<1>5. o \in Operation /\ o.op = "resolve" /\ o.sock = s
  BY <1>4 DEF Op, Operation, Kinds
<1>6. PICK b \in BOOLEAN : b = (w.overlap \/ Unfinished(w))
  BY DEF Unfinished
<1>7. PICK W : W = w.waiting \cup {o}
  OBVIOUS
<1>8. W \subseteq Operation
  BY <1>1, <1>5, <1>7
<1>9. v = [w EXCEPT !.c = d, !.waiting = W, !.overlap = b]
  BY <1>1, <1>2, <1>4, <1>6, <1>7 DEF Begun, Worlds
<1>10. v \in Worlds /\ v.c = d /\ v.waiting = W /\ v.ready = w.ready /\ v.sends = w.sends /\ v.overlap = b
  BY <1>1, <1>3, <1>8, <1>9 DEF Worlds
<1>11. QED BY <1>3, <1>4, <1>5, <1>6, <1>7, <1>10 DEF BegunAs

(* begin_connect opens a socket on which nothing has happened. *)
LEMMA BeginConnect ==
  ASSUME NEW w, Typed(w), Flagged(w), w.c.connection_state # "Connecting", NEW v, v = begin_connect(w)
  PROVE  /\ Sound(v) /\ Sent(v, <<>>) /\ v.sends = w.sends /\ (~v.overlap => ~w.overlap)
         /\ v.c.connection_state = "Connecting" /\ v.c.connection = "Connecting" /\ v.c.closed = FALSE
         /\ v.c.sock = w.c.sock + 1
         /\ v.c.endpoint_edited = w.c.endpoint_edited /\ v.c.pending_auto_login = w.c.pending_auto_login
<1>1. PICK w1 : w1 = close_socket(w)
  OBVIOUS
<1>2. PICK s : s = w.c.sock + 1
  OBVIOUS
<1>3. PICK x : x = Begun(w1, s)
  OBVIOUS
<1>4. v = set_connection(x)
  BY <1>1, <1>2, <1>3 DEF begin_connect, Begun
<1>5. w.c.sock \in Nat /\ s \in Nat /\ s > w.c.sock
  BY <1>2, WorldFields DEF Typed
<1>6. /\ Typed(w1) /\ w1.c = w.c /\ w1.sends = w.sends /\ w1.overlap = w.overlap /\ Flagged(w1)
      /\ w1.waiting = {o \in w.waiting : o.op \notin OnSocket}
  BY <1>1, CloseSocket
<1>7. w1 \in Worlds /\ IsFiniteSet(w1.waiting) /\ Near(w1) /\ Ordered(w1) /\ OneRead(w1)
  BY <1>6 DEF Typed
<1>8. /\ x \in Worlds /\ x.waiting = w1.waiting \cup {Op("resolve", s)} /\ x.ready = w1.ready /\ x.sends = w1.sends
      /\ (~x.overlap => ~w1.overlap /\ ~Unfinished(w1))
      /\ x.c.sock = s /\ x.c.closed = FALSE /\ x.c.connection_state = "Connecting"
      /\ x.c.write_queue = w1.c.write_queue /\ x.c.write_in_progress = w1.c.write_in_progress
      /\ x.c.endpoint_edited = w1.c.endpoint_edited /\ x.c.pending_auto_login = w1.c.pending_auto_login
      /\ Op("resolve", s).op = "resolve" /\ Op("resolve", s).sock = s
  <2>1. w1 \in Worlds /\ s \in Nat
    BY <1>5, <1>7
  <2>2. BegunAs(w1, s, x)
    BY <1>3, <2>1, BegunFields, Zenon
  <2>3. QED BY <2>2 DEF BegunAs
<1>9. /\ \A o \in x.waiting : o = Op("resolve", s) \/ (o \in w1.waiting /\ o.op \notin OnSocket /\ o.sock <= w.c.sock)
      /\ \A i \in 1..Len(x.ready) : x.ready[i].sock <= w.c.sock
  BY <1>6, <1>7, <1>8 DEF Near
<1>10. \A i \in 1..Len(x.ready) : x.ready[i].sock # s
  <2>1. \A i \in 1..Len(x.ready) : x.ready[i].sock \in Nat
    BY <1>8, WorldFields DEF Finished
  <2>2. QED BY <1>5, <1>9, <2>1
<1>11. \A o \in x.waiting : o.sock = s => o = Op("resolve", s)
  <2>1. \A o \in x.waiting : o.sock \in Nat
    BY <1>8, WorldFields DEF Operation
  <2>2. QED BY <1>5, <1>9, <2>1
<1>12. Near(x)
  <2>1. ASSUME NEW o \in x.waiting PROVE o.sock <= s /\ (o.op \in OnSocket => o.sock = s)
    <3>1. o.sock \in Nat
      BY <1>8, WorldFields DEF Operation
    <3>2. QED BY <1>5, <1>8, <1>9, <3>1
  <2>2. ASSUME NEW i \in 1..Len(x.ready) PROVE x.ready[i].sock <= s
    <3>1. x.ready[i].sock \in Nat
      BY <1>8, WorldFields DEF Finished
    <3>2. QED BY <1>5, <1>9, <3>1
  <2>3. QED BY <1>8, <2>1, <2>2 DEF Near
<1>13. Ordered(x)
  BY <1>7, <1>8 DEF Ordered
<1>14. Typed(x)
  <2>1. IsFiniteSet(x.waiting)
    BY <1>7, <1>8, FS_AddElement
  <2>2. OneRead(x)
    <3>1. \A o \in x.waiting : o.op = "header" => o \in w1.waiting
      BY <1>8
    <3>2. Longer(w1, x) /\ \A i \in 1..Len(x.ready) : Len(w1.ready) < i => ~Going(x.ready[i])
      BY <1>7, <1>8, WorldFields DEF Longer
    <3>3. QED BY <1>7, <1>8, <3>1, <3>2, ReadKeeps
  <2>3. QED BY <1>8, <1>12, <1>13, <2>1, <2>2 DEF Typed
<1>15. Flagged(x)
  <2>1. ASSUME x.c.write_in_progress PROVE \E i \in 1..Len(x.ready) : x.ready[i].op = "write"
    <3>1. \A o \in w1.waiting : ~Own(o, {"write"}, w1.c.sock)
      BY <1>6 DEF Own, OnSocket
    <3>2. QED BY <1>6, <1>8, <2>1, <3>1 DEF Flagged
  <2>2. QED BY <2>1 DEF Flagged
<1>16. Calm(x)
  <2>1. SUFFICES ASSUME ~x.overlap
                 PROVE  Fresh(x) /\ AtMostOne(x, Chain, s) /\ Behind(x) /\ Phase(x) /\ Writing(x)
    BY <1>8 DEF Calm
  <2>2. /\ \A o \in w1.waiting : o.op \notin Attempt
        /\ \A i \in DOMAIN w1.ready : ~(w1.ready[i].op \in Attempt /\ w1.ready[i].ec # "aborted")
    BY <1>8, <2>1 DEF Unfinished, Attempt
  <2>3. DOMAIN w1.ready = 1..Len(w1.ready)
    BY <1>7, WorldFields
  <2>4. Fresh(x)
    BY <1>8, <2>2, <2>3 DEF Fresh
  <2>5. AtMostOne(x, Chain, s)
    BY <1>10, <1>11 DEF AtMostOne, Own
  <2>6. Behind(x)
    BY <1>8, <1>10 DEF Behind, Own
  <2>7. Phase(x)
    <3>1. NoneOf(x, {"header", "body", "write"}, s)
      BY <1>8, <1>10, <1>11 DEF NoneOf, Own
    <3>2. QED BY <1>8, <3>1 DEF Phase
  <2>8. Writing(x)
    BY <1>8 DEF Writing
  <2>9. QED BY <2>4, <2>5, <2>6, <2>7, <2>8
<1>17. Flushed(x) /\ Sent(x, <<>>)
  BY <1>8 DEF Flushed, Live, Sent
<1>18. /\ OnlyClient(x, v) /\ Core(x, v) /\ v.c.connection = x.c.connection_state
       /\ v.c.endpoint_edited = x.c.endpoint_edited /\ v.c.pending_auto_login = x.c.pending_auto_login
  BY <1>4, <1>8, SetConnection
<1>19. Loose(x)
  BY <1>14, <1>15, <1>16 DEF Loose
<1>20. Loose(v) /\ Flushed(v) /\ Sent(v, <<>>)
  BY <1>17, <1>18, <1>19, CoreKeeps
<1>21. QED BY <1>2, <1>6, <1>8, <1>18, <1>20 DEF Sound, Core, OnlyClient

(* The queue of completions with one more. *)
LEMMA AppendFacts ==
  ASSUME NEW a \in Seq(Finished), NEW x \in Finished, NEW r, r = Append(a, x)
  PROVE  /\ r \in Seq(Finished) /\ Len(r) = Len(a) + 1 /\ Len(a) \in Nat
         /\ (\A i \in 1..Len(a) : r[i] = a[i]) /\ r[Len(a) + 1] = x
OBVIOUS

(* send() posts a packet that is later than all others. *)
LEMMA Send ==
  ASSUME NEW w, Loose(w), NEW v, v = send(w)
  PROVE  /\ Loose(v) /\ v.c = w.c /\ v.overlap = w.overlap /\ Padded(w, v) /\ (Flushed(w) => Flushed(v))
         /\ \A g \in Seq(Nat) : Sent(w, g) => Sent(v, g)
<1> DEFINE x == [op |-> "post", sock |-> w.c.sock, packet |-> w.sends + 1, ec |-> "ok"]
<1>1. w \in Worlds /\ Typed(w) /\ OneRead(w) /\ Near(w) /\ Ordered(w) /\ Flagged(w) /\ Calm(w) /\ IsFiniteSet(w.waiting)
  BY DEF Loose, Typed
<1>2. /\ w.c.sock \in Nat /\ w.sends \in Nat /\ w.ready \in Seq(Finished)
      /\ w.waiting \subseteq Operation /\ w.c \in Clients /\ w.overlap \in BOOLEAN
  BY <1>1, WorldFields
<1>3. x \in Finished /\ x.op = "post" /\ x.sock = w.c.sock /\ x.packet = w.sends + 1
  BY <1>2 DEF Finished
<1>4. PICK q, r : q = w.ready /\ r = Append(q, x)
  OBVIOUS
<1>5. PICK n : n = w.sends + 1
  OBVIOUS
<1>15. n \in Nat /\ v = [w EXCEPT !.sends = n, !.ready = r]
  BY <1>2, <1>4, <1>5 DEF send
<1> HIDE DEF x
<1>6. /\ r \in Seq(Finished) /\ Len(r) = Len(q) + 1 /\ Len(q) \in Nat
      /\ (\A i \in 1..Len(q) : r[i] = q[i]) /\ r[Len(q) + 1] = x
  BY <1>2, <1>3, <1>4, AppendFacts
<1>7. /\ v \in Worlds /\ v.c = w.c /\ v.waiting = w.waiting /\ v.overlap = w.overlap /\ v.ready = r
      /\ v.sends = w.sends + 1
  <2>1. v.sends = n /\ v \in Worlds /\ v.c = w.c /\ v.waiting = w.waiting /\ v.overlap = w.overlap /\ v.ready = r
    BY <1>1, <1>6, <1>15 DEF Worlds
  <2>2. QED BY <1>5, <2>1
<1>8. /\ Len(w.ready) \in Nat /\ Len(v.ready) = Len(w.ready) + 1
      /\ \A i \in 1..Len(w.ready) : v.ready[i] = w.ready[i]
      /\ \A i \in 1..Len(v.ready) : (i \in 1..Len(w.ready) /\ v.ready[i] = w.ready[i]) \/ (i = Len(w.ready) + 1 /\ v.ready[i] = x)
  BY <1>4, <1>6, <1>7
<1>9. Padded(w, v)
  <2>1. \A i \in 1..Len(v.ready) : Len(w.ready) < i => v.ready[i].op \in {"timer", "post"} /\ v.ready[i].sock <= v.c.sock
    BY <1>2, <1>3, <1>7, <1>8
  <2>2. Core(w, v) /\ Longer(w, v)
    BY <1>7, <1>8 DEF Core, Longer
  <2>3. QED BY <1>1, <1>7, <2>1, <2>2 DEF Padded, Near
<1>10. Near(v) /\ Flagged(v) /\ Calm(v) /\ (Flushed(w) => Flushed(v)) /\ (Done(w) => Done(v))
  BY <1>1, <1>9, PadKeeps
<1>11. Ordered(v)
  <2>1. /\ v.c.write_queue = w.c.write_queue /\ Len(w.c.write_queue) \in Nat
        /\ \A i \in 1..Len(w.c.write_queue) : w.c.write_queue[i] \in Nat /\ w.c.write_queue[i] <= w.sends
    BY <1>1, <1>7, WorldFields DEF Ordered
  <2>2. \A k \in 1..Len(w.ready) : w.ready[k].packet \in Nat
    BY <1>1, WorldFields DEF Finished
  <2>3. ASSUME NEW k \in 1..Len(v.ready), v.ready[k].op = "post"
        PROVE  v.ready[k].packet <= v.sends /\ \A i \in 1..Len(v.c.write_queue) : v.c.write_queue[i] < v.ready[k].packet
    <3>1. CASE k \in 1..Len(w.ready) /\ v.ready[k] = w.ready[k]
      BY <1>1, <1>2, <1>7, <2>1, <2>2, <2>3, <3>1 DEF Ordered
    <3>2. CASE k = Len(w.ready) + 1 /\ v.ready[k] = x
      BY <1>2, <1>3, <1>7, <2>1, <3>2
    <3>3. QED BY <1>8, <3>1, <3>2
  <2>4. ASSUME NEW k \in 1..Len(v.ready), NEW l \in 1..Len(v.ready), k < l, v.ready[k].op = "post", v.ready[l].op = "post"
        PROVE  v.ready[k].packet < v.ready[l].packet
    <3>1. k \in 1..Len(w.ready) /\ v.ready[k] = w.ready[k]
      BY <1>8, <2>4
    <3>2. w.ready[k].packet <= w.sends
      BY <1>1, <2>4, <3>1 DEF Ordered
    <3>3. CASE l \in 1..Len(w.ready) /\ v.ready[l] = w.ready[l]
      BY <1>1, <2>4, <3>1, <3>3 DEF Ordered
    <3>4. CASE l = Len(w.ready) + 1 /\ v.ready[l] = x
      BY <1>2, <1>3, <2>2, <3>1, <3>2, <3>4
    <3>5. QED BY <1>8, <3>3, <3>4
  <2>5. \A i \in 1..Len(v.c.write_queue) : v.c.write_queue[i] <= v.sends
    BY <1>2, <1>7, <2>1
  <2>6. \A i, j \in 1..Len(v.c.write_queue) : i < j => v.c.write_queue[i] < v.c.write_queue[j]
    BY <1>1, <2>1 DEF Ordered
  <2>7. QED BY <2>3, <2>4, <2>5, <2>6 DEF Ordered
<1>12. ASSUME NEW g \in Seq(Nat), Sent(w, g) PROVE Sent(v, g)
  <2>1. \A k \in 1..Len(g) : g[k] \in Nat
    OBVIOUS
  <2>2. ASSUME ~v.overlap, ~v.c.closed, v.c.connection_state = "Connected", NEW k \in 1..Len(g)
        PROVE  /\ g[k] <= v.sends
               /\ \A i \in 1..Len(v.ready) : v.ready[i].op = "post" => g[k] < v.ready[i].packet
               /\ \A i \in 1..Len(v.c.write_queue) :
                    g[k] < v.c.write_queue[i] \/ (i = 1 /\ g[k] = v.c.write_queue[1] /\ Done(v))
    <3>1. /\ g[k] <= w.sends
          /\ \A i \in 1..Len(w.ready) : w.ready[i].op = "post" => g[k] < w.ready[i].packet
          /\ \A i \in 1..Len(w.c.write_queue) :
               g[k] < w.c.write_queue[i] \/ (i = 1 /\ g[k] = w.c.write_queue[1] /\ Done(w))
      BY <1>7, <1>12, <2>2 DEF Sent
    <3>2. g[k] <= v.sends /\ g[k] < x.packet
      BY <1>2, <1>3, <1>7, <2>1, <3>1
    <3>3. \A i \in 1..Len(v.ready) : v.ready[i].op = "post" => g[k] < v.ready[i].packet
      BY <1>8, <3>1, <3>2
    <3>4. QED BY <1>7, <1>10, <3>1, <3>2, <3>3
  <2>3. ~v.overlap /\ ~v.c.closed /\ v.c.connection_state # "Connected" => g = <<>>
    BY <1>7, <1>12 DEF Sent
  <2>4. QED BY <2>2, <2>3 DEF Sent
<1>13. Loose(v)
  <2>1. OneRead(v)
    <3>1. Longer(w, v) /\ \A i \in 1..Len(v.ready) : Len(w.ready) < i => ~Going(v.ready[i])
      BY <1>3, <1>8, <1>9 DEF Padded, Going
    <3>2. QED BY <1>1, <1>7, <3>1, ReadKeeps
  <2>2. QED BY <1>1, <1>7, <1>10, <1>11, <2>1 DEF Loose, Typed
<1>14. QED BY <1>7, <1>9, <1>10, <1>12, <1>13

\* The client but for write_in_progress_.
ButFlag(w, v) ==
    /\ v.c.connection_state = w.c.connection_state /\ v.c.closed = w.c.closed
    /\ v.c.write_queue = w.c.write_queue /\ v.c.sock = w.c.sock /\ v.c.connection = w.c.connection
    /\ v.c.endpoint_edited = w.c.endpoint_edited /\ v.c.pending_auto_login = w.c.pending_auto_login
    /\ v.overlap = w.overlap /\ v.sends = w.sends

\* write_in_progress_ is set, with W waiting and r ready.
Started(w, W, r) == [w EXCEPT !.c.write_in_progress = TRUE, !.waiting = W, !.ready = r]

StartedAs(w, W, r, v) ==
    /\ v \in Worlds /\ ButFlag(w, v) /\ v.c.write_in_progress = TRUE /\ v.waiting = W /\ v.ready = r

(* The record that do_write makes. *)
LEMMA StartedFields ==
  ASSUME NEW w \in Worlds, NEW W \in SUBSET Operation, NEW r \in Seq(Finished), NEW v, v = Started(w, W, r)
  PROVE  StartedAs(w, W, r, v)
<1>1. PICK d : d = [w.c EXCEPT !.write_in_progress = TRUE]
  OBVIOUS
<1>2. /\ d \in Clients /\ d.write_in_progress = TRUE /\ d.connection_state = w.c.connection_state
      /\ d.closed = w.c.closed /\ d.write_queue = w.c.write_queue /\ d.sock = w.c.sock /\ d.connection = w.c.connection
      /\ d.endpoint_edited = w.c.endpoint_edited /\ d.pending_auto_login = w.c.pending_auto_login
  BY <1>1, WorldFields DEF Clients
<1>3. v = [w EXCEPT !.c = d, !.waiting = W, !.ready = r]
  BY <1>1 DEF Started, Worlds, Clients
<1>4. v \in Worlds /\ v.c = d /\ v.waiting = W /\ v.ready = r /\ v.sends = w.sends /\ v.overlap = w.overlap
  BY <1>2, <1>3 DEF Worlds
<1>5. QED BY <1>2, <1>4 DEF StartedAs, ButFlag

(* do_write starts a write if it is needed. *)
LEMMA DoWrite ==
  ASSUME NEW w, Loose(w), NEW v, v = do_write(w)
  PROVE  /\ Sound(v) /\ ButFlag(w, v)
         /\ \A g : Sent(w, g) => Sent(v, g)
         /\ ~w.c.closed /\ NoneOf(w, Chain, w.c.sock) => NoneOf(v, Chain, v.c.sock)
<1>1. w \in Worlds /\ Typed(w) /\ OneRead(w) /\ Near(w) /\ Ordered(w) /\ Flagged(w) /\ Calm(w) /\ IsFiniteSet(w.waiting)
  BY DEF Loose, Typed
<1>2. /\ w.c.sock \in Nat /\ w.sends \in Nat /\ w.ready \in Seq(Finished) /\ w.c.write_queue \in Seq(Nat)
      /\ w.waiting \subseteq Operation
  BY <1>1, WorldFields
<1>3. CASE w.c.connection_state # "Connected" \/ w.c.write_in_progress \/ w.c.write_queue = <<>>
  <2>1. v = w
    BY <1>3 DEF do_write
  <2>2. Flushed(w)
    BY <1>3 DEF Flushed, Live
  <2>3. QED BY <2>1, <2>2 DEF Sound, ButFlag
<1>4. CASE w.c.connection_state = "Connected" /\ ~w.c.write_in_progress /\ w.c.write_queue # <<>>
  <2>1. PICK o : o = WriteOp(w.c.sock, Head(w.c.write_queue))
    OBVIOUS
  <2>2. o \in Operation /\ o.op = "write" /\ o.sock = w.c.sock /\ o.packet = Head(w.c.write_queue)
    <3>1. PICK p : p = Head(w.c.write_queue)
      OBVIOUS
    <3>2. p \in Nat
      BY <1>2, <1>4, <3>1
    <3>3. QED BY <1>2, <2>1, <3>1, <3>2 DEF WriteOp, Operation, Kinds
  <2>3. CASE w.c.closed
    <3>1. PICK x : x = Completion(o, "error")
      OBVIOUS
    <3>2. x \in Finished /\ x.op = "write" /\ x.sock = w.c.sock
      BY <1>2, <2>2, <3>1 DEF Completion, Finished, Kinds, Operation
    <3>3. PICK q, r : q = w.ready /\ r = Append(q, x)
      OBVIOUS
    <3>4. /\ r \in Seq(Finished) /\ Len(r) = Len(q) + 1 /\ Len(q) \in Nat
          /\ (\A i \in 1..Len(q) : r[i] = q[i]) /\ r[Len(q) + 1] = x
      BY <1>2, <3>2, <3>3, AppendFacts
    <3>5. v = Started(w, w.waiting, r)
      <4>1. v = [w EXCEPT !.c.write_in_progress = TRUE, !.ready = r]
        BY <1>4, <2>1, <2>3, <3>1, <3>3 DEF do_write
      <4>2. QED BY <1>1, <4>1 DEF Started, Worlds
    <3>6. StartedAs(w, w.waiting, r, v)
      BY <1>1, <1>2, <3>4, <3>5, StartedFields
    <3>7. /\ v \in Worlds /\ ButFlag(w, v) /\ v.waiting = w.waiting /\ v.ready = r /\ v.c.closed = w.c.closed
          /\ v.c.sock = w.c.sock /\ v.c.write_queue = w.c.write_queue /\ v.overlap = w.overlap
      BY <3>6 DEF StartedAs, ButFlag
    <3>8. \A i \in 1..Len(v.ready) : (i \in 1..Len(w.ready) /\ v.ready[i] = w.ready[i]) \/ (i = Len(w.ready) + 1 /\ v.ready[i] = x)
      BY <3>3, <3>4, <3>7
    <3>9. Unposted(w, v)
      BY <3>2, <3>3, <3>4, <3>7 DEF Unposted, Longer, ButFlag
    <3>10. Ordered(v)
      BY <1>1, <3>7, <3>9, OrderKeeps
    <3>11. Near(v)
      BY <1>1, <1>2, <3>2, <3>7, <3>8 DEF Near
    <3>12. Flagged(v)
      <4>1. Len(q) + 1 \in 1..Len(v.ready) /\ v.ready[Len(q) + 1].op = "write"
        BY <3>2, <3>4, <3>7
      <4>2. QED BY <4>1 DEF Flagged
    <3>13. Calm(v) /\ Flushed(v) /\ \A g : Sent(v, g)
      BY <1>1, <2>3, <3>7 DEF Calm, Flushed, Live, Sent
    <3>14. OneRead(v)
      <4>1. Longer(w, v) /\ \A i \in 1..Len(v.ready) : Len(w.ready) < i => ~Going(v.ready[i])
        BY <3>2, <3>3, <3>4, <3>8, <3>9 DEF Unposted, Going
      <4>2. QED BY <1>1, <3>7, <4>1, ReadKeeps
    <3>15. QED BY <1>1, <2>3, <3>7, <3>10, <3>11, <3>12, <3>13, <3>14 DEF Sound, Loose, Typed
  <2>4. CASE ~w.c.closed
    <3>1. PICK W : W = w.waiting \cup {o}
      OBVIOUS
    <3>2. W \subseteq Operation
      BY <1>2, <2>2, <3>1
    <3>3. v = Started(w, W, w.ready)
      <4>1. v = [w EXCEPT !.c.write_in_progress = TRUE, !.waiting = W]
        BY <1>4, <2>1, <2>4, <3>1 DEF do_write
      <4>2. QED BY <1>1, <4>1 DEF Started, Worlds
    <3>4. StartedAs(w, W, w.ready, v)
      BY <1>1, <1>2, <3>2, <3>3, StartedFields
    <3>5. /\ v \in Worlds /\ ButFlag(w, v) /\ v.waiting = W /\ v.ready = w.ready /\ v.c.closed = w.c.closed
          /\ v.c.sock = w.c.sock /\ v.c.write_queue = w.c.write_queue /\ v.overlap = w.overlap /\ v.sends = w.sends
          /\ v.c.connection_state = w.c.connection_state /\ v.c.write_in_progress = TRUE
      BY <3>4 DEF StartedAs, ButFlag
    <3>6. Near(v)
      BY <1>1, <1>2, <2>2, <3>1, <3>5 DEF Near
    <3>7. Ordered(v)
      BY <1>1, <3>5 DEF Ordered
    <3>8. Flagged(v) /\ Flushed(v)
      BY <2>2, <3>1, <3>5 DEF Flagged, Own, Flushed
    <3>9. IsFiniteSet(v.waiting)
      BY <1>1, <3>1, <3>5, FS_AddElement
    <3>10. \A g : Sent(w, g) => Sent(v, g)
      <4>1. Done(w) <=> Done(v)
        BY <3>5 DEF Done
      <4>2. QED BY <3>5, <4>1 DEF Sent
    <3>11. \A K, s : NoneOf(w, K, s) /\ "write" \notin K => NoneOf(v, K, s)
      BY <2>2, <3>1, <3>5 DEF NoneOf, Own
    <3>12. Calm(v)
      <4>1. SUFFICES ASSUME ~w.overlap
                     PROVE  Fresh(v) /\ AtMostOne(v, Chain, v.c.sock) /\ Behind(v) /\ Phase(v) /\ Writing(v)
        BY <2>4, <3>5 DEF Calm
      <4>2. Fresh(w) /\ AtMostOne(w, Chain, w.c.sock) /\ Behind(w) /\ Phase(w) /\ Writing(w)
        BY <1>1, <2>4, <4>1 DEF Calm
      <4>3. Fresh(v)
        BY <2>2, <3>1, <3>5, <4>2 DEF Fresh
      <4>4. AtMostOne(v, Chain, v.c.sock)
        BY <2>2, <3>1, <3>5, <4>2 DEF AtMostOne, Own, Chain
      <4>5. Behind(v)
        BY <3>1, <3>5, <4>2 DEF Behind
      <4>6. Phase(v)
        BY <1>4, <3>5, <3>11, <4>2 DEF Phase, Attempt
      <4>7. Writing(v)
        <5>1. NoneOf(w, {"write"}, w.c.sock)
          BY <1>4, <4>2 DEF Writing
        <5>2. AtMostOne(v, {"write"}, v.c.sock)
          BY <3>1, <3>5, <5>1 DEF AtMostOne, NoneOf
        <5>3. \A p \in v.waiting : Own(p, {"write"}, v.c.sock) => p = o
          BY <3>1, <3>5, <5>1 DEF NoneOf
        <5>4. QED BY <1>4, <2>2, <3>5, <5>2, <5>3 DEF Writing
      <4>8. QED BY <4>3, <4>4, <4>5, <4>6, <4>7
    <3>13. NoneOf(w, Chain, w.c.sock) => NoneOf(v, Chain, v.c.sock)
      BY <3>5, <3>11 DEF Chain
    <3>14. OneRead(v)
      BY <1>1, <2>2, <3>1, <3>5 DEF OneRead
    <3>15. QED BY <3>5, <3>6, <3>7, <3>8, <3>9, <3>10, <3>12, <3>13, <3>14 DEF Sound, Loose, Typed
  <2>5. QED BY <2>3, <2>4
<1>5. QED BY <1>3, <1>4

\* No header is being read, and none is read.
Unread(w) ==
    /\ \A o \in w.waiting : o.op # "header"
    /\ \A i \in 1..Len(w.ready) : ~Going(w.ready[i])

(* A read starts on a connected socket on which none is under way. *)
LEMMA AddRead ==
  ASSUME NEW w, Sound(w), ~w.overlap => Live(w) /\ NoneOf(w, Chain, w.c.sock),
         NEW k \in {"header", "body"}, ~w.overlap /\ k = "header" => Unread(w),
         NEW v, v = [w EXCEPT !.waiting = @ \cup {Op(k, w.c.sock)}]
  PROVE  /\ Sound(v) /\ v.c = w.c /\ v.overlap = w.overlap /\ \A g : Sent(w, g) => Sent(v, g)
<1>1. /\ w \in Worlds /\ Typed(w) /\ OneRead(w) /\ Near(w) /\ Ordered(w) /\ Flagged(w) /\ Calm(w)
      /\ IsFiniteSet(w.waiting) /\ Flushed(w)
  BY DEF Sound, Loose, Typed
<1>2. w.c.sock \in Nat /\ w.waiting \subseteq Operation
  BY <1>1, WorldFields
<1>3. PICK o : o = Op(k, w.c.sock)
  OBVIOUS
<1>4. o \in Operation /\ o.op = k /\ o.sock = w.c.sock
  BY <1>2, <1>3 DEF Op, Operation, Kinds
<1>5. PICK W : W = w.waiting \cup {o}
  OBVIOUS
<1>6. W \subseteq Operation
  BY <1>2, <1>4, <1>5
<1>7. v = [w EXCEPT !.waiting = W]
  BY <1>3, <1>5
<1>8. /\ v \in Worlds /\ v.c = w.c /\ v.waiting = W /\ v.ready = w.ready /\ v.overlap = w.overlap /\ v.sends = w.sends
  BY <1>1, <1>6, <1>7 DEF Worlds
<1>9. Near(v)
  BY <1>1, <1>2, <1>4, <1>5, <1>8 DEF Near
<1>10. Ordered(v)
  BY <1>1, <1>8 DEF Ordered
<1>11. Flagged(v) /\ Flushed(v)
  BY <1>1, <1>5, <1>8 DEF Flagged, Flushed, Live
<1>12. IsFiniteSet(v.waiting)
  BY <1>1, <1>5, <1>8, FS_AddElement
<1>13. \A g : Sent(w, g) => Sent(v, g)
  <2>1. Done(w) <=> Done(v)
    BY <1>8 DEF Done
  <2>2. QED BY <1>8, <2>1 DEF Sent
<1>14. \A K, s : NoneOf(w, K, s) /\ "header" \notin K /\ "body" \notin K => NoneOf(v, K, s)
  BY <1>4, <1>5, <1>8 DEF NoneOf, Own
<1>15. OneRead(v)
  <2>1. CASE k = "header"
    BY <1>4, <1>5, <1>8, <2>1 DEF OneRead, Unread
  <2>2. CASE k = "body"
    BY <1>1, <1>4, <1>5, <1>8, <2>2 DEF OneRead
  <2>3. QED BY <2>1, <2>2
<1>16. Calm(v)
  <2>1. SUFFICES ASSUME ~w.overlap
                 PROVE  Fresh(v) /\ AtMostOne(v, Chain, v.c.sock) /\ Behind(v) /\ Phase(v) /\ Writing(v)
    BY <1>8 DEF Calm, Live
  <2>2. Fresh(w) /\ Behind(w) /\ Phase(w) /\ Writing(w) /\ NoneOf(w, Chain, w.c.sock) /\ w.c.connection_state = "Connected"
    BY <1>1, <2>1 DEF Calm, Live
  <2>3. Fresh(v)
    BY <1>4, <1>5, <1>8, <2>2 DEF Fresh
  <2>4. AtMostOne(v, Chain, v.c.sock)
    BY <1>5, <1>8, <2>2 DEF AtMostOne, NoneOf
  <2>5. Behind(v)
    BY <1>5, <1>8, <2>2 DEF Behind
  <2>6. Phase(v)
    BY <1>8, <1>14, <2>2 DEF Phase, Attempt
  <2>7. Writing(v)
    <3>1. AtMostOne(v, {"write"}, v.c.sock)
      BY <1>4, <1>5, <1>8, <2>2 DEF Writing, AtMostOne, Own
    <3>2. ~v.c.write_in_progress => NoneOf(v, {"write"}, v.c.sock)
      BY <1>8, <1>14, <2>2 DEF Writing
    <3>3. \A p \in v.waiting : Own(p, {"write"}, v.c.sock) => p \in w.waiting
      BY <1>4, <1>5, <1>8 DEF Own
    <3>4. QED BY <1>8, <2>2, <3>1, <3>2, <3>3 DEF Writing
  <2>8. QED BY <2>3, <2>4, <2>5, <2>6, <2>7
<1>17. QED BY <1>8, <1>9, <1>10, <1>11, <1>12, <1>13, <1>15, <1>16 DEF Sound, Loose, Typed

(* do_read_header starts a read if it is needed: nothing is left of a packet
   read from an earlier socket then. *)
LEMMA DoReadHeader ==
  ASSUME NEW w, Sound(w), ~w.overlap /\ Live(w) => NoneOf(w, Chain, w.c.sock), NEW v, v = do_read_header(w)
  PROVE  /\ Sound(v) /\ v.c = w.c /\ v.overlap = w.overlap /\ \A g : Sent(w, g) => Sent(v, g)
<1>1. CASE ~Live(w)
  <2>1. v = w
    BY <1>1 DEF do_read_header, Live
  <2>2. QED BY <2>1
<1>2. CASE Live(w)
  <2>1. v = [w EXCEPT !.waiting = @ \cup {Op("header", w.c.sock)}]
    BY <1>2 DEF do_read_header, Live
  <2>2. ASSUME ~w.overlap PROVE Unread(w)
    <3>1. Behind(w) /\ NoneOf(w, Chain, w.c.sock) /\ w.c.connection_state = "Connected" /\ Near(w)
      BY <1>2, <2>2 DEF Sound, Loose, Typed, Calm, Live
    <3>2. \A p \in w.waiting : p.op # "header"
      BY <3>1 DEF Near, OnSocket, NoneOf, Own, Chain
    <3>3. ASSUME NEW i \in 1..Len(w.ready), w.ready[i].op = "header" PROVE FALSE
      <4>1. w.ready[i].sock # w.c.sock
        BY <3>1, <3>3 DEF NoneOf, Own, Chain
      <4>2. QED BY <3>1, <3>3, <4>1 DEF Behind, NoneOf, Own, Chain
    <3>4. \A i \in 1..Len(w.ready) : w.ready[i].op # "rejected"
      BY <3>1 DEF Behind
    <3>5. QED BY <3>2, <3>3, <3>4 DEF Unread, Going
  <2>3. "header" \in {"header", "body"}
    OBVIOUS
  <2>4. QED BY <1>2, <2>1, <2>2, <2>3, AddRead
<1>3. QED BY <1>1, <1>2

(* A read of a socket that is not open completes at once. *)
LEMMA Reject ==
  ASSUME NEW w, Sound(w), ~w.overlap => Unread(w) /\ ~w.c.closed /\ ~Live(w) /\ NoneOf(w, {"connect"}, w.c.sock),
         NEW v, v = [w EXCEPT !.ready = Append(@, Completion(Op("rejected", w.c.sock), "error"))]
  PROVE  /\ Sound(v) /\ v.c = w.c /\ v.overlap = w.overlap /\ \A g : Sent(w, g) => Sent(v, g)
<1>1. /\ w \in Worlds /\ Typed(w) /\ OneRead(w) /\ Near(w) /\ Ordered(w) /\ Flagged(w) /\ Calm(w)
      /\ IsFiniteSet(w.waiting) /\ Flushed(w)
  BY DEF Sound, Loose, Typed
<1>2. w.c.sock \in Nat /\ w.ready \in Seq(Finished)
  BY <1>1, WorldFields
<1>3. PICK x : x = Completion(Op("rejected", w.c.sock), "error")
  OBVIOUS
<1>4. x \in Finished /\ x.op = "rejected" /\ x.sock = w.c.sock
  BY <1>2, <1>3 DEF Completion, Op, Finished, Kinds
<1>5. PICK q, r : q = w.ready /\ r = Append(q, x)
  OBVIOUS
<1>6. /\ r \in Seq(Finished) /\ Len(r) = Len(q) + 1 /\ Len(q) \in Nat
      /\ (\A i \in 1..Len(q) : r[i] = q[i]) /\ r[Len(q) + 1] = x
  BY <1>2, <1>4, <1>5, AppendFacts
<1>7. v = [w EXCEPT !.ready = r]
  BY <1>3, <1>5
<1>8. /\ v \in Worlds /\ v.c = w.c /\ v.waiting = w.waiting /\ v.ready = r /\ v.overlap = w.overlap /\ v.sends = w.sends
  BY <1>1, <1>6, <1>7 DEF Worlds
<1>9. /\ Len(w.ready) \in Nat /\ Len(v.ready) = Len(w.ready) + 1
      /\ \A i \in 1..Len(w.ready) : i \in 1..Len(v.ready) /\ v.ready[i] = w.ready[i]
      /\ \A i \in 1..Len(v.ready) : (i \in 1..Len(w.ready) /\ v.ready[i] = w.ready[i]) \/ (i = Len(w.ready) + 1 /\ v.ready[i] = x)
  BY <1>5, <1>6, <1>8
<1>10. Unposted(w, v) /\ Core(w, v)
  BY <1>4, <1>8, <1>9 DEF Unposted, Longer, Core
<1>11. Ordered(v)
  BY <1>1, <1>8, <1>10, OrderKeeps
<1>12. Near(v)
  BY <1>1, <1>2, <1>4, <1>8, <1>9 DEF Near
<1>13. Flagged(v) /\ Flushed(v) /\ (Done(w) => Done(v))
  BY <1>1, <1>8, <1>9 DEF Flagged, Flushed, Live, Done
<1>14. \A g : Sent(w, g) => Sent(v, g)
  BY <1>1, <1>8, <1>10, <1>13, SentKeeps
<1>15. OneRead(v)
  BY <1>8, <1>9 DEF OneRead, Unread
<1>16. \A K, s : "rejected" \notin K => /\ NoneOf(w, K, s) => NoneOf(v, K, s)
                                        /\ AtMostOne(w, K, s) => AtMostOne(v, K, s)
  <2>1. ASSUME NEW K, NEW s, "rejected" \notin K
        PROVE  \A i \in 1..Len(v.ready) : Own(v.ready[i], K, s) => i \in 1..Len(w.ready) /\ v.ready[i] = w.ready[i]
    BY <1>4, <1>9, <2>1 DEF Own
  <2>2. v.waiting = w.waiting
    BY <1>8
  <2>3. ASSUME NEW K, NEW s, "rejected" \notin K, NoneOf(w, K, s) PROVE NoneOf(v, K, s)
    BY <2>1, <2>2, <2>3 DEF NoneOf
  <2>4. ASSUME NEW K, NEW s, "rejected" \notin K, AtMostOne(w, K, s) PROVE AtMostOne(v, K, s)
    <3>0. \A i \in 1..Len(v.ready) : Own(v.ready[i], K, s) => i \in 1..Len(w.ready) /\ v.ready[i] = w.ready[i]
      BY <2>1, <2>4
    <3>1. \A i, j \in 1..Len(v.ready) : Own(v.ready[i], K, s) /\ Own(v.ready[j], K, s) => i = j
      BY <2>4, <3>0, Zenon DEF AtMostOne
    <3>2. \A o \in v.waiting, i \in 1..Len(v.ready) : ~(Own(o, K, s) /\ Own(v.ready[i], K, s))
      BY <2>2, <2>4, <3>0, Zenon DEF AtMostOne
    <3>3. QED BY <2>2, <2>4, <3>1, <3>2 DEF AtMostOne
  <2>5. QED BY <2>3, <2>4
<1>17. Calm(v)
  <2>1. SUFFICES ASSUME ~w.overlap
                 PROVE  Fresh(v) /\ AtMostOne(v, Chain, v.c.sock) /\ Behind(v) /\ Phase(v) /\ Writing(v)
    BY <1>8 DEF Calm
  <2>2. /\ Fresh(w) /\ AtMostOne(w, Chain, w.c.sock) /\ Behind(w) /\ Phase(w) /\ w.c.connection_state # "Connected"
        /\ NoneOf(w, {"connect"}, w.c.sock)
    BY <1>1, <2>1 DEF Calm, Live
  <2>3. Fresh(v)
    BY <1>4, <1>8, <1>9, <2>2 DEF Fresh, Attempt
  <2>4. AtMostOne(v, Chain, v.c.sock)
    BY <1>8, <1>16, <2>2 DEF Chain
  <2>5. Behind(v)
    <3>1. ASSUME NEW j \in 1..Len(v.ready), v.ready[j].op \in {"header", "body", "write"}, v.ready[j].sock # v.c.sock
          PROVE  \/ \E o \in v.waiting : Own(o, {"resolve"}, v.c.sock)
                 \/ \E i \in 1..Len(v.ready) : j < i /\ Own(v.ready[i], {"resolve"}, v.c.sock)
      <4>1. j \in 1..Len(w.ready) /\ v.ready[j] = w.ready[j]
        BY <1>4, <1>9, <3>1
      <4>2. \/ \E o \in w.waiting : Own(o, {"resolve"}, w.c.sock)
            \/ \E i \in 1..Len(w.ready) : j < i /\ Own(w.ready[i], {"resolve"}, w.c.sock)
        BY <1>8, <2>2, <3>1, <4>1 DEF Behind
      <4>3. QED BY <1>8, <1>9, <4>2
    <3>2. \A i \in 1..Len(v.ready) : ~Own(v.ready[i], {"connect"}, v.c.sock)
      BY <1>8, <1>16, <2>2 DEF NoneOf
    <3>3. QED BY <1>8, <2>2, <3>1, <3>2 DEF Behind
  <2>6. Phase(v)
    BY <1>8, <1>16, <2>2 DEF Phase
  <2>7. Writing(v)
    BY <1>8, <2>2 DEF Writing
  <2>8. QED BY <2>3, <2>4, <2>5, <2>6, <2>7
<1>18. QED BY <1>1, <1>8, <1>11, <1>12, <1>13, <1>14, <1>15, <1>17 DEF Sound, Loose, Typed

(* do_read_body reads a connected socket; one that is not is not open. *)
LEMMA DoReadBody ==
  ASSUME NEW w, Sound(w), ~w.overlap => Unread(w), ~w.overlap /\ Live(w) => NoneOf(w, Chain, w.c.sock),
         ~w.overlap /\ ~w.c.closed /\ ~Live(w) => NoneOf(w, {"connect"}, w.c.sock),
         NEW v, v = do_read_body(w)
  PROVE  /\ Sound(v) /\ v.c = w.c /\ v.overlap = w.overlap /\ \A g : Sent(w, g) => Sent(v, g)
<1>1. DOMAIN w.ready = 1..Len(w.ready)
  BY WorldFields DEF Sound, Loose, Typed
<1>2. CASE w.c.closed
  <2>1. v = w
    BY <1>2 DEF do_read_body
  <2>2. QED BY <2>1
<1>3. CASE ~w.c.closed /\ is_open(w)
  <2>1. v = [w EXCEPT !.waiting = @ \cup {Op("body", w.c.sock)}]
    BY <1>3 DEF do_read_body
  <2>2. ~w.overlap => Live(w)
    BY <1>1, <1>3 DEF is_open, NoneOf, Own, Live
  <2>3. "body" \in {"header", "body"} /\ "body" # "header"
    OBVIOUS
  <2>4. QED BY <2>1, <2>2, <2>3, AddRead
<1>4. CASE ~w.c.closed /\ ~is_open(w)
  <2>1. v = [w EXCEPT !.ready = Append(@, Completion(Op("rejected", w.c.sock), "error"))]
    BY <1>4 DEF do_read_body
  <2>2. ~Live(w)
    BY <1>4 DEF is_open, Live
  <2>3. QED BY <1>4, <2>1, <2>2, Reject
<1>5. QED BY <1>2, <1>3, <1>4
-----------------------------------------------------------------------------
(* The handlers. *)

Took(w) == [w EXCEPT !.ready = Tail(@)]

(* The queue of completions without the oldest. *)
LEMMA TailFacts ==
  ASSUME NEW a \in Seq(Finished), a # <<>>, NEW r, r = Tail(a)
  PROVE  /\ r \in Seq(Finished) /\ Len(a) \in Nat /\ Len(r) = Len(a) - 1 /\ 1 \in 1..Len(a) /\ Head(a) = a[1]
         /\ \A i \in 1..Len(r) : i + 1 \in 1..Len(a) /\ r[i] = a[i + 1]
         /\ \A i \in 1..Len(a) : i # 1 => i - 1 \in 1..Len(r) /\ r[i - 1] = a[i]
OBVIOUS

\* Completion h is the oldest of w, and t is w without it.
Takes(w, t, h) ==
    /\ h \in Finished /\ t \in Worlds
    /\ t.c = w.c /\ t.waiting = w.waiting /\ t.sends = w.sends /\ t.overlap = w.overlap
    /\ Len(w.ready) \in Nat /\ 1 \in 1..Len(w.ready) /\ w.ready[1] = h /\ Len(t.ready) \in Nat
    /\ \A i \in 1..Len(t.ready) : i + 1 \in 1..Len(w.ready) /\ t.ready[i] = w.ready[i + 1]
    /\ \A i \in 1..Len(w.ready) : i # 1 => i - 1 \in 1..Len(t.ready) /\ t.ready[i - 1] = w.ready[i]

(* The record of a handler that has begun. *)
LEMMA TookTakes ==
  ASSUME NEW w \in Worlds, w.ready # <<>>, NEW t, t = Took(w)
  PROVE  Takes(w, t, Head(w.ready))
<1>1. PICK a, r : a = w.ready /\ r = Tail(a)
  OBVIOUS
<1>2. a \in Seq(Finished) /\ a # <<>>
  BY <1>1, WorldFields
<1>3. /\ r \in Seq(Finished) /\ Len(a) \in Nat /\ Len(r) = Len(a) - 1 /\ 1 \in 1..Len(a) /\ Head(a) = a[1]
      /\ \A i \in 1..Len(r) : i + 1 \in 1..Len(a) /\ r[i] = a[i + 1]
      /\ \A i \in 1..Len(a) : i # 1 => i - 1 \in 1..Len(r) /\ r[i - 1] = a[i]
  BY <1>1, <1>2, TailFacts
<1>4. t = [w EXCEPT !.ready = r]
  BY <1>1 DEF Took
<1>5. t \in Worlds /\ t.c = w.c /\ t.waiting = w.waiting /\ t.sends = w.sends /\ t.overlap = w.overlap /\ t.ready = r
  BY <1>3, <1>4 DEF Worlds
<1>6. Head(w.ready) \in Finished /\ Len(r) \in Nat
  BY <1>1, <1>2, <1>3
<1>7. QED BY <1>1, <1>3, <1>5, <1>6 DEF Takes

(* Taking a completion keeps what is said of those that are left. *)
LEMMA TakesKeeps ==
  ASSUME NEW w, Sound(w), NEW t, NEW h, Takes(w, t, h)
  PROVE  /\ Typed(t) /\ Calm(t) /\ Flushed(t)
         /\ h.op # "write" => Flagged(t) /\ (\A g : Sent(w, g) => Sent(t, g))
<1>1. /\ w \in Worlds /\ OneRead(w) /\ Near(w) /\ Ordered(w) /\ Flagged(w) /\ Calm(w) /\ IsFiniteSet(w.waiting) /\ Flushed(w)
  BY DEF Sound, Loose, Typed
<1>2. /\ t \in Worlds /\ t.c = w.c /\ t.waiting = w.waiting /\ t.sends = w.sends /\ t.overlap = w.overlap
      /\ Len(w.ready) \in Nat /\ 1 \in 1..Len(w.ready) /\ w.ready[1] = h /\ Len(t.ready) \in Nat
      /\ \A i \in 1..Len(t.ready) : i + 1 \in 1..Len(w.ready) /\ t.ready[i] = w.ready[i + 1]
      /\ \A i \in 1..Len(w.ready) : i # 1 => i - 1 \in 1..Len(t.ready) /\ t.ready[i - 1] = w.ready[i]
  BY DEF Takes
<1>3. Near(t)
  BY <1>1, <1>2 DEF Near
<1>4. Ordered(t)
  <2>1. ASSUME NEW k \in 1..Len(t.ready), t.ready[k].op = "post"
        PROVE  t.ready[k].packet <= t.sends /\ \A i \in 1..Len(t.c.write_queue) : t.c.write_queue[i] < t.ready[k].packet
    <3>1. k + 1 \in 1..Len(w.ready) /\ t.ready[k] = w.ready[k + 1] /\ t.c = w.c /\ t.sends = w.sends
      BY <1>2
    <3>2. PICK j \in 1..Len(w.ready) : t.ready[k] = w.ready[j]
      BY <3>1
    <3>3. w.ready[j].op = "post"
      BY <2>1, <3>2
    <3>4. w.ready[j].packet <= w.sends /\ \A i \in 1..Len(w.c.write_queue) : w.c.write_queue[i] < w.ready[j].packet
      BY <1>1, <3>2, <3>3 DEF Ordered
    <3>5. QED BY <3>1, <3>2, <3>4
  <2>2. ASSUME NEW k \in 1..Len(t.ready), NEW l \in 1..Len(t.ready), k < l, t.ready[k].op = "post", t.ready[l].op = "post"
        PROVE  t.ready[k].packet < t.ready[l].packet
    <3>1. /\ k + 1 \in 1..Len(w.ready) /\ l + 1 \in 1..Len(w.ready) /\ k + 1 < l + 1
          /\ t.ready[k] = w.ready[k + 1] /\ t.ready[l] = w.ready[l + 1]
      <4>1. k + 1 \in 1..Len(w.ready) /\ t.ready[k] = w.ready[k + 1]
        BY <1>2
      <4>2. l + 1 \in 1..Len(w.ready) /\ t.ready[l] = w.ready[l + 1]
        BY <1>2
      <4>3. k + 1 < l + 1
        BY <1>2, <2>2
      <4>4. QED BY <4>1, <4>2, <4>3
    <3>2. QED BY <1>1, <2>2, <3>1 DEF Ordered
  <2>3. QED BY <1>1, <1>2, <2>1, <2>2 DEF Ordered
<1>5. Flushed(t)
  BY <1>1, <1>2 DEF Flushed, Live
<1>6. ASSUME NEW K, NEW s
      PROVE  /\ NoneOf(w, K, s) => NoneOf(t, K, s)
             /\ AtMostOne(w, K, s) => AtMostOne(t, K, s)
  <2>1. ASSUME NoneOf(w, K, s) PROVE NoneOf(t, K, s)
    BY <1>2, <2>1 DEF NoneOf
  <2>2. ASSUME AtMostOne(w, K, s) PROVE AtMostOne(t, K, s)
    <3>1. ASSUME NEW i \in 1..Len(t.ready), NEW j \in 1..Len(t.ready), Own(t.ready[i], K, s), Own(t.ready[j], K, s)
          PROVE  i = j
      <4>1. i + 1 = j + 1
        BY <1>2, <2>2, <3>1 DEF AtMostOne
      <4>2. QED BY <4>1
    <3>2. QED BY <1>2, <2>2, <3>1 DEF AtMostOne
  <2>3. QED BY <2>1, <2>2
<1>7. Calm(t)
  <2>1. SUFFICES ASSUME ~w.overlap, ~w.c.closed
                 PROVE  Fresh(t) /\ AtMostOne(t, Chain, t.c.sock) /\ Behind(t) /\ Phase(t) /\ Writing(t)
    BY <1>1, <1>2 DEF Calm
  <2>2. Fresh(w) /\ AtMostOne(w, Chain, w.c.sock) /\ Behind(w) /\ Phase(w) /\ Writing(w)
    BY <1>1, <2>1 DEF Calm
  <2>3. Fresh(t)
    BY <1>2, <2>2 DEF Fresh
  <2>4. Behind(t)
    <3>1. ASSUME NEW j \in 1..Len(t.ready), t.ready[j].op \in {"header", "body", "write"}, t.ready[j].sock # t.c.sock,
                 \A o \in t.waiting : ~Own(o, {"resolve"}, t.c.sock)
          PROVE  \E i \in 1..Len(t.ready) : j < i /\ Own(t.ready[i], {"resolve"}, t.c.sock)
      <4>0. /\ j + 1 \in 1..Len(w.ready) /\ w.ready[j + 1].op \in {"header", "body", "write"}
            /\ w.ready[j + 1].sock # w.c.sock /\ \A o \in w.waiting : ~Own(o, {"resolve"}, w.c.sock)
        BY <1>2, <3>1
      <4>1. PICK i \in 1..Len(w.ready) : j + 1 < i /\ Own(w.ready[i], {"resolve"}, w.c.sock)
        BY <2>2, <4>0 DEF Behind
      <4>2. i - 1 \in 1..Len(t.ready) /\ t.ready[i - 1] = w.ready[i] /\ j < i - 1
        BY <1>2, <4>1
      <4>3. QED BY <1>2, <4>1, <4>2
    <3>2. ASSUME NEW j \in 1..Len(t.ready), t.ready[j].op = "rejected"
          PROVE  /\ t.c.connection_state # "Connected"
                 /\ \A i \in 1..Len(t.ready) : Own(t.ready[i], {"connect"}, t.c.sock) => j < i
      <4>1. j + 1 \in 1..Len(w.ready) /\ w.ready[j + 1].op = "rejected"
        BY <1>2, <3>2
      <4>2. ASSUME NEW i \in 1..Len(t.ready), Own(t.ready[i], {"connect"}, t.c.sock) PROVE j < i
        <5>1. i + 1 \in 1..Len(w.ready) /\ Own(w.ready[i + 1], {"connect"}, w.c.sock)
          BY <1>2, <4>2
        <5>2. j + 1 < i + 1
          BY <2>2, <4>1, <5>1 DEF Behind
        <5>3. QED BY <1>2, <5>2
      <4>3. QED BY <1>2, <2>2, <4>1, <4>2 DEF Behind
    <3>3. QED BY <3>1, <3>2 DEF Behind
  <2>5. AtMostOne(t, Chain, t.c.sock) /\ Phase(t)
    BY <1>2, <1>6, <2>2 DEF Phase
  <2>6. Writing(t)
    BY <1>2, <1>6, <2>2 DEF Writing
  <2>7. QED BY <2>3, <2>4, <2>5, <2>6
<1>8. ASSUME h.op # "write" PROVE Flagged(t) /\ \A g : Sent(w, g) => Sent(t, g)
  <2>1. \A i \in 1..Len(w.ready) : w.ready[i].op = "write" => i - 1 \in 1..Len(t.ready) /\ t.ready[i - 1] = w.ready[i]
    BY <1>2, <1>8
  <2>2. Flagged(t)
    <3>1. SUFFICES ASSUME w.c.write_in_progress
                   PROVE  \/ \E o \in t.waiting : Own(o, {"write"}, t.c.sock)
                          \/ \E i \in 1..Len(t.ready) : t.ready[i].op = "write"
      BY <1>2 DEF Flagged
    <3>2. CASE \E o \in w.waiting : Own(o, {"write"}, w.c.sock)
      BY <1>2, <3>2
    <3>3. CASE \E i \in 1..Len(w.ready) : w.ready[i].op = "write"
      <4>1. PICK i \in 1..Len(w.ready) : w.ready[i].op = "write"
        BY <3>3
      <4>2. i - 1 \in 1..Len(t.ready) /\ t.ready[i - 1].op = "write"
        BY <2>1, <4>1
      <4>3. QED BY <4>2
    <3>4. QED BY <1>1, <3>1, <3>2, <3>3 DEF Flagged
  <2>3. Done(w) => Done(t)
    BY <1>2, <2>1 DEF Done, Own
  <2>4. ASSUME NEW g, Sent(w, g) PROVE Sent(t, g)
    <3>1. ASSUME ~t.overlap, ~t.c.closed, t.c.connection_state = "Connected", NEW k \in 1..Len(g)
          PROVE  /\ g[k] <= t.sends
                 /\ \A i \in 1..Len(t.ready) : t.ready[i].op = "post" => g[k] < t.ready[i].packet
                 /\ \A i \in 1..Len(t.c.write_queue) :
                      g[k] < t.c.write_queue[i] \/ (i = 1 /\ g[k] = t.c.write_queue[1] /\ Done(t))
      <4>1. /\ g[k] <= w.sends
            /\ \A i \in 1..Len(w.ready) : w.ready[i].op = "post" => g[k] < w.ready[i].packet
            /\ \A i \in 1..Len(w.c.write_queue) :
                 g[k] < w.c.write_queue[i] \/ (i = 1 /\ g[k] = w.c.write_queue[1] /\ Done(w))
        BY <1>2, <2>4, <3>1 DEF Sent
      <4>2. \A i \in 1..Len(t.ready) : t.ready[i].op = "post" => g[k] < t.ready[i].packet
        <5>1. ASSUME NEW i \in 1..Len(t.ready), t.ready[i].op = "post" PROVE g[k] < t.ready[i].packet
          <6>1. i + 1 \in 1..Len(w.ready) /\ t.ready[i] = w.ready[i + 1]
            BY <1>2
          <6>2. QED BY <4>1, <5>1, <6>1
        <5>2. QED BY <5>1
      <4>3. t.c = w.c /\ t.sends = w.sends
        BY <1>2
      <4>4. QED BY <2>3, <4>1, <4>2, <4>3
    <3>2. ~t.overlap /\ ~t.c.closed /\ t.c.connection_state # "Connected" => g = <<>>
      BY <1>2, <2>4 DEF Sent
    <3>3. QED BY <3>1, <3>2 DEF Sent
  <2>5. QED BY <2>2, <2>4
<1>9. OneRead(t)
  <2>1. SUFFICES ASSUME ~w.overlap
                 PROVE  /\ \A o, p \in t.waiting : o.op = "header" /\ p.op = "header" => o = p
                        /\ \A i, j \in 1..Len(t.ready) : Going(t.ready[i]) /\ Going(t.ready[j]) => i = j
                        /\ \A o \in t.waiting, i \in 1..Len(t.ready) : ~(o.op = "header" /\ Going(t.ready[i]))
    BY <1>2 DEF OneRead
  <2>2. ASSUME NEW i \in 1..Len(t.ready), NEW j \in 1..Len(t.ready), Going(t.ready[i]), Going(t.ready[j]) PROVE i = j
    <3>1. i + 1 \in 1..Len(w.ready) /\ Going(w.ready[i + 1]) /\ j + 1 \in 1..Len(w.ready) /\ Going(w.ready[j + 1])
      BY <1>2, <2>2
    <3>2. i + 1 = j + 1
      BY <1>1, <2>1, <3>1 DEF OneRead
    <3>3. QED BY <1>2, <3>2
  <2>3. QED BY <1>1, <1>2, <2>1, <2>2 DEF OneRead
<1>10. QED BY <1>1, <1>2, <1>3, <1>4, <1>5, <1>7, <1>8, <1>9 DEF Typed
-----------------------------------------------------------------------------
(* The outcome of an attempt. *)

Used == {"resolve", "connect", "header", "body", "write"}

\* What the UI sees: nothing has changed, the connection has ended, or an open
\* connection is still open or has made way for an attempt at a new endpoint.
Same(w, v) ==
    /\ v.c.connection_state = w.c.connection_state /\ v.c.closed = w.c.closed
    /\ v.c.connection = w.c.connection
    /\ v.c.sock = w.c.sock /\ v.c.endpoint_edited = w.c.endpoint_edited

Ended(w, v) ==
    /\ v.c.closed = TRUE /\ v.c.connection_state \in {"Disconnected", "Failed"}
    /\ v.c.connection = v.c.connection_state
    /\ v.c.sock = w.c.sock /\ v.c.endpoint_edited = w.c.endpoint_edited

Opened(w, v) ==
    /\ ~w.c.closed /\ v.c.closed = FALSE /\ v.c.connection_state \in {"Connected", "Connecting"}
    /\ v.c.connection = v.c.connection_state
    /\ \/ v.c.sock = w.c.sock /\ v.c.endpoint_edited = w.c.endpoint_edited
       \/ v.c.sock = w.c.sock + 1 /\ w.c.endpoint_edited /\ v.c.endpoint_edited = FALSE

\* A handler has taken w to v: the invariant holds, and what the server has of
\* the socket in use still comes before what is queued.
Good(w, v) ==
    /\ Sound(v) /\ (Same(w, v) \/ Ended(w, v) \/ Opened(w, v)) /\ (~v.overlap => ~w.overlap)
    /\ \A g \in Seq(Nat) : Sent(w, g) =>
         /\ v.c.sock = w.c.sock => Sent(v, g)
         /\ v.c.sock # w.c.sock => Sent(v, <<>>)

Failing(w) == [w EXCEPT !.c.closed = TRUE, !.c.connection_state = "Failed", !.c.write_queue = <<>>]

(* A failed attempt is closed and reported. *)
LEMMA FailAttempt ==
  ASSUME NEW w, Typed(w), Flagged(w), ~w.overlap => \A o \in w.waiting : o.op # "write",
         NEW v, v = set_connection(Failing(w))
  PROVE  Good(w, v) /\ Sound(v) /\ Ended(w, v) /\ v.overlap = w.overlap
<1>1. w \in Worlds /\ w.c \in Clients
  BY WorldFields DEF Typed
<1>2. PICK e : e = <<>>
  OBVIOUS
<1>3. e \in Seq(Nat) /\ Len(e) = 0
  BY <1>2
<1>4. PICK d : d = [w.c EXCEPT !.closed = TRUE, !.connection_state = "Failed", !.write_queue = e]
  OBVIOUS
<1>5. /\ d \in Clients /\ d.closed = TRUE /\ d.connection_state = "Failed" /\ d.write_queue = e
      /\ d.write_in_progress = w.c.write_in_progress /\ d.sock = w.c.sock /\ d.endpoint_edited = w.c.endpoint_edited
  BY <1>1, <1>3, <1>4 DEF Clients, States
<1>6. PICK x : x = Failing(w)
  OBVIOUS
<1>7. x = [w EXCEPT !.c = d]
  BY <1>1, <1>2, <1>4, <1>6 DEF Worlds, Clients, Failing
<1>8. OnlyClient(w, x) /\ x.c = d /\ x \in Worlds
  BY <1>1, <1>5, <1>7 DEF OnlyClient, Worlds
<1>9. OnlyClient(x, v) /\ Core(x, v) /\ v.c.connection = x.c.connection_state /\ v.c.endpoint_edited = x.c.endpoint_edited
  BY <1>6, <1>8, SetConnection
<1>10. /\ v \in Worlds /\ v.waiting = w.waiting /\ v.ready = w.ready /\ v.sends = w.sends /\ v.overlap = w.overlap
       /\ v.c.sock = w.c.sock /\ v.c.closed = TRUE /\ v.c.connection_state = "Failed" /\ v.c.connection = "Failed"
       /\ Len(v.c.write_queue) = 0 /\ v.c.write_in_progress = w.c.write_in_progress
       /\ v.c.endpoint_edited = w.c.endpoint_edited
  BY <1>3, <1>5, <1>8, <1>9 DEF OnlyClient, Core
<1>11. Typed(v)
  <2>1. Near(v)
    BY <1>10 DEF Typed, Near
  <2>2. Ordered(v)
    BY <1>10 DEF Typed, Ordered
  <2>3. OneRead(v)
    BY <1>10 DEF Typed, OneRead
  <2>4. QED BY <1>10, <2>1, <2>2, <2>3 DEF Typed
<1>12. Flagged(v) /\ Calm(v) /\ Flushed(v)
  BY <1>10 DEF Flagged, Calm, Flushed, Live
<1>13. \A g : Sent(v, g)
  BY <1>10 DEF Sent
<1>14. Ended(w, v)
  BY <1>10 DEF Ended
<1>15. QED BY <1>10, <1>11, <1>12, <1>13, <1>14 DEF Good, Sound, Loose

\* A socket that is connecting and was not used yet.
Untouched(w) ==
    ~w.overlap => /\ NoneOf(w, Used, w.c.sock) /\ w.c.connection_state = "Connecting"
                  /\ \A j \in 1..Len(w.ready) : w.ready[j].op # "rejected"

(* A connected socket is ready for use: the connection has not been used yet. *)
LEMMA NowConnected ==
  ASSUME NEW w, Loose(w), ~w.c.closed,
         Untouched(w),
         NEW v, v = set_connection(InState(w, "Connected"))
  PROVE  /\ Loose(v) /\ v.c.connection_state = "Connected" /\ v.c.connection = "Connected" /\ v.c.closed = FALSE
         /\ v.c.sock = w.c.sock /\ v.c.endpoint_edited = w.c.endpoint_edited
         /\ v.c.pending_auto_login = w.c.pending_auto_login /\ v.overlap = w.overlap
         /\ ~v.overlap => NoneOf(v, Chain, v.c.sock)
         /\ \A g : Sent(w, g) => Sent(v, g)
<1>1. w \in Worlds /\ Typed(w) /\ Flagged(w) /\ Calm(w) /\ w.c.closed \in BOOLEAN
  BY WorldFields DEF Loose, Typed
<1>2. PICK x : x = InState(w, "Connected")
  OBVIOUS
<1>3. /\ OnlyClient(w, x) /\ Typed(x) /\ x.c.connection_state = "Connected" /\ x.c.closed = w.c.closed
      /\ x.c.write_queue = w.c.write_queue /\ x.c.write_in_progress = w.c.write_in_progress
      /\ x.c.sock = w.c.sock
      /\ x.c.endpoint_edited = w.c.endpoint_edited /\ x.c.pending_auto_login = w.c.pending_auto_login
  <2>1. "Connected" \in States
    BY DEF States
  <2>2. QED BY <1>1, <1>2, <2>1, StateSet
<1>4. /\ x \in Worlds /\ x.waiting = w.waiting /\ x.ready = w.ready /\ x.sends = w.sends /\ x.overlap = w.overlap
  BY <1>3 DEF OnlyClient
<1>5. Flagged(x)
  BY <1>1, <1>3, <1>4 DEF Flagged
<1>6. ASSUME ~x.overlap
      PROVE  NoneOf(x, Chain, x.c.sock) /\ NoneOf(x, Attempt, x.c.sock) /\ NoneOf(x, {"write"}, x.c.sock)
  <2>1. NoneOf(w, Used, w.c.sock)
    BY <1>4, <1>6 DEF Untouched
  <2>2. QED BY <1>3, <1>4, <2>1 DEF NoneOf, Own, Used, Chain, Attempt
<1>7. Calm(x)
  <2>1. SUFFICES ASSUME ~x.overlap
                 PROVE  Fresh(x) /\ AtMostOne(x, Chain, x.c.sock) /\ Behind(x) /\ Phase(x) /\ Writing(x)
    BY <1>3 DEF Calm
  <2>2. Fresh(w) /\ Behind(w)
    BY <1>1, <1>4, <2>1 DEF Calm
  <2>3. Fresh(x)
    BY <1>3, <1>4, <2>2 DEF Fresh
  <2>4. Behind(x)
    BY <1>3, <1>4, <2>1, <2>2 DEF Behind, Untouched
  <2>5. AtMostOne(x, Chain, x.c.sock) /\ AtMostOne(x, {"write"}, x.c.sock)
    BY <1>6, <2>1 DEF NoneOf, AtMostOne
  <2>6. Phase(x)
    BY <1>3, <1>6, <2>1 DEF Phase
  <2>7. Writing(x)
    BY <1>6, <2>1, <2>5 DEF Writing, NoneOf
  <2>8. QED BY <2>3, <2>4, <2>5, <2>6, <2>7
<1>8. Loose(x)
  BY <1>3, <1>5, <1>7 DEF Loose
<1>9. \A g : Sent(w, g) => Sent(x, g)
  <2>1. ASSUME NEW g, Sent(w, g), ~x.overlap PROVE g = <<>>
    BY <1>4, <2>1 DEF Sent, Untouched
  <2>2. QED BY <1>3, <2>1 DEF Sent
<1>10. /\ OnlyClient(x, v) /\ Core(x, v) /\ v.c.connection = x.c.connection_state
       /\ v.c.endpoint_edited = x.c.endpoint_edited /\ v.c.pending_auto_login = x.c.pending_auto_login
  BY <1>2, <1>4, SetConnection
<1>11. Loose(v) /\ \A g : Sent(w, g) => Sent(v, g)
  BY <1>8, <1>9, <1>10, CoreKeeps
<1>12. ~v.overlap => NoneOf(v, Chain, v.c.sock)
  BY <1>6, <1>10 DEF NoneOf, OnlyClient, Core
<1>13. QED BY <1>1, <1>3, <1>4, <1>10, <1>11, <1>12 DEF Core

\* As Good, within a handler: packets may wait to be written.
Halfway(w, v) ==
    /\ Loose(v) /\ Opened(w, v) /\ (~v.overlap => ~w.overlap)
    /\ ~v.overlap /\ v.c.connection_state = "Connected" => NoneOf(v, Chain, v.c.sock)
    /\ \A g \in Seq(Nat) : Sent(w, g) =>
         /\ v.c.sock = w.c.sock => Sent(v, g)
         /\ v.c.sock # w.c.sock => Sent(v, <<>>)

(* Once connected the UI logs in, or asks for the endpoint it was given. *)
LEMMA OnConnected ==
  ASSUME NEW w, Loose(w), ~w.c.closed,
         Untouched(w),
         NEW v, v = on_connected(w)
  PROVE  Halfway(w, v)
<1>1. PICK w1 : w1 = set_connection(InState(w, "Connected"))
  OBVIOUS
<1>2. /\ Loose(w1) /\ w1.c.connection_state = "Connected" /\ w1.c.connection = "Connected" /\ w1.c.closed = FALSE
      /\ w1.c.sock = w.c.sock /\ w1.c.endpoint_edited = w.c.endpoint_edited
      /\ w1.c.pending_auto_login = w.c.pending_auto_login /\ w1.overlap = w.overlap
      /\ (~w1.overlap => NoneOf(w1, Chain, w1.c.sock))
      /\ \A g : Sent(w, g) => Sent(w1, g)
  BY <1>1, NowConnected
<1>3. w1 \in Worlds /\ w.c.sock \in Nat
  BY <1>2, WorldFields DEF Loose, Typed
<1>4. CASE ~w.c.pending_auto_login
  <2>1. v = w1
    BY <1>1, <1>4 DEF on_connected, InState
  <2>2. Opened(w, v)
    BY <1>2, <2>1 DEF Opened
  <2>3. QED BY <1>2, <2>1, <2>2 DEF Halfway
<1>5. CASE w.c.pending_auto_login
  <2>1. PICK w2 : w2 = [w1 EXCEPT !.c.pending_auto_login = FALSE]
    OBVIOUS
  <2>2. v = submit_login(w2)
    BY <1>1, <1>5, <2>1 DEF on_connected, InState
  <2>3. OnlyClient(w1, w2) /\ Core(w1, w2) /\ w2.c.connection = w1.c.connection /\ w2.c.endpoint_edited = w1.c.endpoint_edited
    BY <1>3, <2>1 DEF Worlds, Clients, OnlyClient, Core
  <2>4. Loose(w2) /\ (\A g : Sent(w1, g) => Sent(w2, g)) /\ (~w2.overlap => NoneOf(w2, Chain, w2.c.sock))
    <3>1. Loose(w2) /\ \A g : Sent(w1, g) => Sent(w2, g)
      BY <1>2, <2>3, CoreKeeps
    <3>2. ~w2.overlap => NoneOf(w2, Chain, w2.c.sock)
      BY <1>2, <2>3 DEF NoneOf, OnlyClient, Core
    <3>3. QED BY <3>1, <3>2
  <2>5. w2.c.connection_state = "Connected" /\ w2.c.closed = FALSE /\ w2.c.sock = w.c.sock
    BY <1>2, <2>3 DEF Core
  <2>6. w2 \in Worlds
    BY <2>3 DEF OnlyClient
  <2>7. CASE ~w2.c.endpoint_edited
    <3>1. v = send(w2)
      BY <2>2, <2>5, <2>7 DEF submit_login
    <3>2. Loose(v) /\ v.c = w2.c /\ v.overlap = w2.overlap /\ Padded(w2, v) /\ \A g \in Seq(Nat) : Sent(w2, g) => Sent(v, g)
      BY <2>4, <3>1, Send
    <3>3. ~v.overlap => NoneOf(v, Chain, v.c.sock)
      <4>1. PICK K, s : K = Chain /\ s = w2.c.sock
        OBVIOUS
      <4>2. "timer" \notin K /\ "post" \notin K
        BY <4>1 DEF Chain
      <4>3. NoneOf(w2, K, s) => NoneOf(v, K, s)
        BY <2>6, <3>2, <4>2, PadTokens
      <4>4. QED BY <2>4, <3>2, <4>1, <4>3
    <3>4. Opened(w, v)
      BY <1>2, <2>3, <2>5, <3>2 DEF Opened
    <3>5. QED BY <1>2, <2>3, <2>4, <2>5, <3>2, <3>3, <3>4 DEF Halfway, Core
  <2>8. CASE w2.c.endpoint_edited
    <3>1. PICK w3 : w3 = [w2 EXCEPT !.c.endpoint_edited = FALSE, !.c.pending_auto_login = TRUE]
      OBVIOUS
    <3>2. OnlyClient(w2, w3) /\ Core(w2, w3) /\ w3.c.endpoint_edited = FALSE
      BY <2>6, <3>1 DEF Worlds, Clients, OnlyClient, Core
    <3>3. Typed(w3)
      <4>1. Loose(w3)
        BY <2>4, <3>2, CoreKeeps
      <4>2. QED BY <4>1 DEF Loose
    <3>4. PICK w4 : w4 = close_connection(w3, FALSE)
      OBVIOUS
    <3>5. /\ Sound(w4) /\ w4.c.sock = w3.c.sock /\ w4.c.endpoint_edited = FALSE
          /\ w4.c.connection_state # "Connecting" /\ w4.overlap = w3.overlap
      <4>1. FALSE \in BOOLEAN
        OBVIOUS
      <4>2. /\ Sound(w4) /\ w4.c.sock = w3.c.sock /\ w4.c.endpoint_edited = w3.c.endpoint_edited
            /\ w4.c.connection_state # "Connecting" /\ w4.overlap = w3.overlap
        BY <3>3, <3>4, <4>1, CloseConnection, ZenonT(60)
      <4>3. QED BY <3>2, <4>2
    <3>6. v = begin_connect(w4)
      BY <2>2, <2>5, <2>8, <3>1, <3>4 DEF submit_login
    <3>7. Typed(w4) /\ Flagged(w4)
      BY <3>5 DEF Sound, Loose
    <3>8. /\ Sound(v) /\ Sent(v, <<>>) /\ (~v.overlap => ~w4.overlap)
          /\ v.c.connection_state = "Connecting" /\ v.c.connection = "Connecting" /\ v.c.closed = FALSE
          /\ v.c.sock = w4.c.sock + 1 /\ v.c.endpoint_edited = w4.c.endpoint_edited
      BY <3>5, <3>6, <3>7, BeginConnect
    <3>9. v.c.sock = w.c.sock + 1 /\ v.c.sock # w.c.sock /\ w.c.endpoint_edited
      BY <1>2, <1>3, <2>3, <2>5, <2>8, <3>2, <3>5, <3>8 DEF Core
    <3>10. Opened(w, v)
      BY <3>5, <3>8, <3>9 DEF Opened
    <3>11. ~v.overlap => ~w.overlap
      BY <1>2, <2>3, <3>2, <3>5, <3>8 DEF Core
    <3>12. QED BY <3>8, <3>9, <3>10, <3>11 DEF Halfway, Sound
  <2>9. QED BY <2>7, <2>8
<1>6. QED BY <1>4, <1>5

(* An attempt that has not been aborted has an outcome. *)
LEMMA ConnectResult ==
  ASSUME NEW w, Loose(w), ~w.c.closed, NEW ec, ec # "aborted",
         ~w.overlap => /\ NoneOf(w, Used, w.c.sock) /\ w.c.connection_state = "Connecting"
                       /\ ec = "ok" => \A j \in 1..Len(w.ready) : w.ready[j].op # "rejected",
         NEW v, v = on_connect_result(w, ec)
  PROVE  Good(w, v)
<1>1. w \in Worlds /\ Typed(w) /\ Flagged(w) /\ Near(w)
  BY DEF Loose, Typed
<1>2. CASE ec # "ok"
  <2>1. v = set_connection(Failing(w))
    BY <1>2 DEF on_connect_result, Failing
  <2>2. ~w.overlap => \A o \in w.waiting : o.op # "write"
    BY <1>1 DEF NoneOf, Own, Used, Near, OnSocket
  <2>3. QED BY <1>1, <2>1, <2>2, FailAttempt
<1>3. CASE ec = "ok"
  <2>1. PICK x : x = on_connected(w)
    OBVIOUS
  <2>2. PICK y : y = do_write(x)
    OBVIOUS
  <2>3. v = do_read_header(y)
    BY <1>3, <2>1, <2>2 DEF on_connect_result
  <2>4. Halfway(w, x)
    BY <1>3, <2>1, OnConnected DEF Untouched
  <2>5. Loose(x) /\ Opened(w, x)
    BY <2>4 DEF Halfway
  <2>6. Sound(y) /\ ButFlag(x, y) /\ (\A g : Sent(x, g) => Sent(y, g))
        /\ (~x.c.closed /\ NoneOf(x, Chain, x.c.sock) => NoneOf(y, Chain, y.c.sock))
    BY <2>2, <2>5, DoWrite
  <2>7. ~y.overlap /\ Live(y) => NoneOf(y, Chain, y.c.sock)
    BY <2>4, <2>5, <2>6 DEF Halfway, ButFlag, Live, Opened
  <2>8. Sound(v) /\ v.c = y.c /\ v.overlap = y.overlap /\ \A g : Sent(y, g) => Sent(v, g)
    BY <2>3, <2>6, <2>7, DoReadHeader
  <2>9. Opened(w, v) /\ v.c.sock = x.c.sock
    BY <2>5, <2>6, <2>8 DEF Opened, ButFlag
  <2>10. QED BY <2>4, <2>6, <2>8, <2>9 DEF Halfway, Good, ButFlag
<1>4. QED BY <1>2, <1>3
-----------------------------------------------------------------------------
(* The handlers, each from the world w with the oldest completion h to v. *)

\* closed_ and connection_state_ agree, but between the calls of reconnect().
Agreed(w) ==
    IF w.c.closed THEN w.c.connection_state # "Connecting"
    ELSE w.c.connection_state \in {"Connected", "Connecting"}

(* A handler that only takes its completion. *)
LEMMA OnlyTaken ==
  ASSUME NEW w, Sound(w), NEW t, NEW h, Takes(w, t, h), h.op # "write"
  PROVE  /\ Good(w, t) /\ Sound(t) /\ Loose(t) /\ t.c = w.c /\ t.overlap = w.overlap
         /\ \A g : Sent(w, g) => Sent(t, g)
<1>1. Typed(t) /\ Calm(t) /\ Flushed(t) /\ Flagged(t) /\ \A g : Sent(w, g) => Sent(t, g)
  BY TakesKeeps
<1>2. t.c = w.c /\ t.overlap = w.overlap
  BY DEF Takes
<1>3. Sound(t) /\ Loose(t)
  BY <1>1 DEF Sound, Loose
<1>4. Same(w, t)
  BY <1>2 DEF Same
<1>5. QED BY <1>1, <1>2, <1>3, <1>4 DEF Good

(* What a handler goes on to do after changes that nobody sees. *)
LEMMA GoodChain ==
  ASSUME NEW w, NEW t, NEW v, t.c = w.c, t.overlap = w.overlap, \A g \in Seq(Nat) : Sent(w, g) => Sent(t, g), Good(t, v)
  PROVE  Good(w, v)
<1>1. Same(w, v) \/ Ended(w, v) \/ Opened(w, v)
  BY DEF Good, Same, Ended, Opened
<1>2. QED BY <1>1 DEF Good

(* The connection has ended: nothing is owed to the server. *)
LEMMA GoodEnd ==
  ASSUME NEW w, NEW v, Sound(v), Ended(w, v), v.overlap = w.overlap
  PROVE  Good(w, v)
<1>1. \A g : Sent(v, g)
  BY DEF Sent, Ended
<1>2. QED BY <1>1 DEF Good, Ended

(* The result of an attempt is that of the socket in use, which is not used
   yet; behind a resolve no completion of an earlier socket is left. *)
LEMMA HeadAttempt ==
  ASSUME NEW w, Sound(w), Agreed(w), NEW t, NEW h, Takes(w, t, h), h.op \in Attempt, h.ec # "aborted",
         ~w.c.closed, ~w.overlap
  PROVE  /\ w.c.connection_state = "Connecting" /\ NoneOf(t, Used, t.c.sock)
         /\ \A j \in 1..Len(t.ready) : t.ready[j].op \notin {"header", "body", "write"} \/ h.op # "resolve"
         /\ \A j \in 1..Len(t.ready) : t.ready[j].op # "rejected" \/ h.op # "connect"
<1>1. /\ w \in Worlds /\ Fresh(w) /\ AtMostOne(w, Chain, w.c.sock) /\ Behind(w) /\ Phase(w)
  BY DEF Sound, Loose, Typed, Calm
<1>2. /\ t.c = w.c /\ t.waiting = w.waiting /\ Len(w.ready) \in Nat /\ 1 \in 1..Len(w.ready) /\ w.ready[1] = h
      /\ Len(t.ready) \in Nat
      /\ \A i \in 1..Len(t.ready) : i + 1 \in 1..Len(w.ready) /\ t.ready[i] = w.ready[i + 1]
  BY DEF Takes
<1>3. h.sock = w.c.sock
  BY <1>1, <1>2 DEF Fresh
<1>4. w.c.connection_state = "Connecting"
  <2>1. ~NoneOf(w, Attempt, w.c.sock)
    BY <1>2, <1>3 DEF NoneOf, Own
  <2>2. QED BY <1>1, <2>1 DEF Phase, Agreed
<1>5. NoneOf(w, {"header", "body", "write"}, w.c.sock)
  BY <1>1, <1>4 DEF Phase
<1>6. Own(w.ready[1], Chain, w.c.sock)
  BY <1>2, <1>3 DEF Own, Chain, Attempt
<1>7. \A o \in t.waiting : ~Own(o, Chain, t.c.sock)
  BY <1>1, <1>2, <1>6 DEF AtMostOne
<1>8. ASSUME NEW i \in 1..Len(t.ready) PROVE ~Own(t.ready[i], Chain, t.c.sock)
  <2>1. i + 1 \in 1..Len(w.ready) /\ t.ready[i] = w.ready[i + 1] /\ i + 1 # 1
    BY <1>2
  <2>2. QED BY <1>1, <1>2, <1>6, <2>1 DEF AtMostOne
<1>9. \A o \in t.waiting : ~Own(o, Used, t.c.sock)
  BY <1>2, <1>5, <1>7 DEF NoneOf, Own, Used, Chain
<1>10. ASSUME NEW i \in 1..Len(t.ready) PROVE ~Own(t.ready[i], Used, t.c.sock)
  <2>1. i + 1 \in 1..Len(w.ready) /\ t.ready[i] = w.ready[i + 1]
    BY <1>2
  <2>2. ~Own(t.ready[i], {"header", "body", "write"}, t.c.sock)
    BY <1>2, <1>5, <2>1 DEF NoneOf
  <2>3. QED BY <1>8, <2>2 DEF Own, Used, Chain
<1>11. NoneOf(t, Used, t.c.sock)
  BY <1>9, <1>10 DEF NoneOf
<1>12. ASSUME NEW j \in 1..Len(t.ready), t.ready[j].op \in {"header", "body", "write"}, h.op = "resolve" PROVE FALSE
  <2>1. Calm(t)
    BY TakesKeeps
  <2>2. Behind(t)
    <3>1. ~t.overlap
      BY DEF Takes
    <3>2. QED BY <1>2, <2>1, <3>1 DEF Calm
  <2>3. t.ready[j].sock # t.c.sock
    BY <1>10, <1>12 DEF Own, Used
  <2>4. \/ \E o \in t.waiting : Own(o, {"resolve"}, t.c.sock)
        \/ \E i \in 1..Len(t.ready) : j < i /\ Own(t.ready[i], {"resolve"}, t.c.sock)
    BY <1>12, <2>2, <2>3 DEF Behind
  <2>5. QED BY <1>9, <1>10, <2>4 DEF Own, Used
<1>13. ASSUME NEW j \in 1..Len(t.ready), t.ready[j].op = "rejected", h.op = "connect" PROVE FALSE
  <2>1. j + 1 \in 1..Len(w.ready) /\ w.ready[j + 1].op = "rejected"
    BY <1>2, <1>13
  <2>2. Own(w.ready[1], {"connect"}, w.c.sock)
    BY <1>2, <1>3, <1>13 DEF Own
  <2>3. j + 1 < 1
    BY <1>1, <1>2, <2>1, <2>2 DEF Behind
  <2>4. QED BY <1>2, <2>3
<1>14. QED BY <1>4, <1>11, <1>12, <1>13

(* Resolved: the connect and its timer start. *)
LEMMA StartConnect ==
  ASSUME NEW x, Typed(x), Flagged(x), ~x.c.closed,
         ~x.overlap => /\ x.c.connection_state = "Connecting" /\ NoneOf(x, Used, x.c.sock) /\ Fresh(x)
                       /\ \A j \in 1..Len(x.ready) : x.ready[j].op \notin {"header", "body", "write"},
         NEW v, v = [x EXCEPT !.waiting = @ \cup {Op("timer", x.c.sock), Op("connect", x.c.sock)}]
  PROVE  Loose(v) /\ v.c = x.c /\ v.overlap = x.overlap
<1>1. x \in Worlds /\ IsFiniteSet(x.waiting) /\ Near(x) /\ Ordered(x) /\ OneRead(x)
  BY DEF Typed
<1>2. x.c.sock \in Nat /\ x.waiting \subseteq Operation
  BY <1>1, WorldFields
<1>3. PICK o, p : o = Op("timer", x.c.sock) /\ p = Op("connect", x.c.sock)
  OBVIOUS
<1>4. o \in Operation /\ o.op = "timer" /\ o.sock = x.c.sock /\ p \in Operation /\ p.op = "connect" /\ p.sock = x.c.sock
  BY <1>2, <1>3 DEF Op, Operation, Kinds
<1>5. PICK W : W = x.waiting \cup {o, p}
  OBVIOUS
<1>6. W \subseteq Operation /\ \A q \in W : q \in x.waiting \/ q = o \/ q = p
  BY <1>2, <1>4, <1>5
<1>7. v = [x EXCEPT !.waiting = W]
  BY <1>3, <1>5
<1>8. v \in Worlds /\ v.c = x.c /\ v.waiting = W /\ v.ready = x.ready /\ v.sends = x.sends /\ v.overlap = x.overlap
  BY <1>1, <1>6, <1>7 DEF Worlds
<1>9. IsFiniteSet(W)
  <2>1. W = (x.waiting \cup {o}) \cup {p}
    BY <1>5
  <2>2. QED BY <1>1, <2>1, FS_AddElement
<1>10. Near(v)
  BY <1>1, <1>2, <1>4, <1>6, <1>8 DEF Near
<1>11. Ordered(v)
  BY <1>1, <1>8 DEF Ordered
<1>12. Flagged(v)
  BY <1>5, <1>8 DEF Flagged
<1>13. Calm(v)
  <2>1. SUFFICES ASSUME ~x.overlap
                 PROVE  Fresh(v) /\ AtMostOne(v, Chain, v.c.sock) /\ Behind(v) /\ Phase(v) /\ Writing(v)
    BY <1>8 DEF Calm
  <2>2. /\ x.c.connection_state = "Connecting" /\ NoneOf(x, Used, x.c.sock) /\ Fresh(x)
        /\ \A j \in 1..Len(x.ready) : x.ready[j].op \notin {"header", "body", "write"}
    BY <2>1
  <2>3. Fresh(v)
    BY <1>4, <1>6, <1>8, <2>2 DEF Fresh, Attempt
  <2>4. \A q \in v.waiting : Own(q, Used, v.c.sock) => q = p
    BY <1>4, <1>6, <1>8, <2>2 DEF NoneOf, Own, Used
  <2>5. \A i \in 1..Len(v.ready) : ~Own(v.ready[i], Used, v.c.sock)
    BY <1>8, <2>2 DEF NoneOf
  <2>6. AtMostOne(v, Chain, v.c.sock)
    BY <2>4, <2>5 DEF AtMostOne, Own, Chain, Used
  <2>7. Behind(v)
    BY <1>8, <2>2, <2>5 DEF Behind, Own, Used
  <2>8. Phase(v)
    <3>1. NoneOf(v, {"header", "body", "write"}, v.c.sock)
      BY <1>4, <2>4, <2>5 DEF NoneOf, Own, Used
    <3>2. QED BY <1>8, <2>2, <3>1 DEF Phase
  <2>9. Writing(v)
    BY <1>8, <2>2 DEF Writing
  <2>10. QED BY <2>3, <2>6, <2>7, <2>8, <2>9
<1>14. OneRead(v)
  BY <1>1, <1>4, <1>6, <1>8 DEF OneRead
<1>15. QED BY <1>8, <1>9, <1>10, <1>11, <1>12, <1>13, <1>14 DEF Loose, Typed

(* The socket is closed before the connect starts: nothing waits on it then. *)
LEMMA ClearSocket ==
  ASSUME NEW t, Loose(t), NEW x, x = close_socket(cancel_connect_timeout(t))
  PROVE  /\ Typed(x) /\ Flagged(x) /\ x.c = t.c /\ x.overlap = t.overlap
         /\ NoneOf(t, Used, t.c.sock) => Padded(t, x)
<1>1. PICK y : y = cancel_connect_timeout(t)
  OBVIOUS
<1>2. Loose(y) /\ y.c = t.c /\ y.overlap = t.overlap /\ Padded(t, y)
  BY <1>1, TimersOff
<1>3. Typed(y) /\ Flagged(y)
  BY <1>2 DEF Loose
<1>4. /\ Typed(x) /\ x.c = y.c /\ x.overlap = y.overlap /\ Unposted(y, x) /\ Flagged(x)
      /\ x.waiting = {o \in y.waiting : o.op \notin OnSocket}
      /\ \A i \in 1..Len(x.ready) : Len(y.ready) < i =>
           \E o \in y.waiting : o.op \in OnSocket /\ x.ready[i].op = o.op /\ x.ready[i].sock = o.sock
  BY <1>1, <1>3, CloseSocket
<1>5. ASSUME NoneOf(t, Used, t.c.sock) PROVE Padded(t, x)
  <2>1. PICK K, s : K = Used /\ s = t.c.sock
    OBVIOUS
  <2>2. "timer" \notin K /\ "post" \notin K /\ t \in Worlds
    BY <2>1 DEF Used, Loose, Typed
  <2>3. NoneOf(y, K, s)
    BY <1>2, <1>5, <2>1, <2>2, PadTokens
  <2>4. \A o \in y.waiting : o.op \notin OnSocket
    BY <1>2, <1>3, <2>1, <2>3 DEF NoneOf, Own, Used, OnSocket, Typed, Near
  <2>5. x.waiting = y.waiting
    BY <1>4, <2>4
  <2>6. \A i \in 1..Len(x.ready) : ~(Len(y.ready) < i)
    BY <1>4, <2>4
  <2>7. Len(t.ready) \in Nat /\ Len(y.ready) \in Nat /\ Len(x.ready) \in Nat /\ Len(t.ready) <= Len(y.ready)
        /\ Len(y.ready) <= Len(x.ready)
    BY <1>2, <1>3, <1>4, <2>2, WorldFields DEF Typed, Padded, Longer, Unposted
  <2>8. \A i \in 1..Len(x.ready) : i \in 1..Len(y.ready) /\ x.ready[i] = y.ready[i]
    BY <1>4, <2>6, <2>7 DEF Unposted, Longer
  <2>9. Longer(t, x)
    <3>1. \A i \in 1..Len(t.ready) : i \in 1..Len(x.ready) /\ y.ready[i] = t.ready[i]
      BY <1>2, <2>7 DEF Padded, Longer
    <3>2. QED BY <2>7, <2>8, <3>1 DEF Longer
  <2>10. Core(t, x)
    BY <1>2, <1>4 DEF Core
  <2>11. \A i \in 1..Len(x.ready) : Len(t.ready) < i => x.ready[i].op \in {"timer", "post"} /\ x.ready[i].sock <= x.c.sock
    BY <1>2, <1>4, <2>8 DEF Padded
  <2>12. QED BY <1>2, <1>4, <2>5, <2>9, <2>10, <2>11 DEF Padded, Typed
<1>6. QED BY <1>2, <1>4, <1>5

(* The handler of async_resolve. *)
LEMMA HandleResolve ==
  ASSUME NEW w, Sound(w), Agreed(w), NEW t, NEW h, Takes(w, t, h), h.op = "resolve", NEW v,
         v = IF w.c.closed THEN t
             ELSE IF h.ec # "ok" THEN on_connect_result(t, h.ec)
             ELSE LET x == close_socket(cancel_connect_timeout(t))
                  IN  [x EXCEPT !.waiting = @ \cup {Op("timer", w.c.sock), Op("connect", w.c.sock)}]
  PROVE  Good(w, v)
<1>1. Good(w, t) /\ Sound(t) /\ Loose(t) /\ t.c = w.c /\ t.overlap = w.overlap /\ \A g : Sent(w, g) => Sent(t, g)
  BY OnlyTaken
<1>2. CASE w.c.closed
  BY <1>1, <1>2
<1>3. CASE ~w.c.closed /\ h.ec = "aborted"
  <2>1. v = t
    BY <1>1, <1>3 DEF on_connect_result
  <2>2. QED BY <1>1, <2>1
<1>4. CASE ~w.c.closed /\ h.ec # "aborted" /\ h.ec # "ok"
  <2>1. v = on_connect_result(t, h.ec)
    BY <1>4
  <2>2. ~t.overlap => NoneOf(t, Used, t.c.sock) /\ t.c.connection_state = "Connecting"
    BY <1>1, <1>4, HeadAttempt DEF Attempt
  <2>3. PICK e : e = h.ec
    OBVIOUS
  <2>4. Good(t, v)
    BY <1>1, <1>4, <2>1, <2>2, <2>3, ConnectResult
  <2>5. QED BY <1>1, <2>4, GoodChain
<1>5. CASE ~w.c.closed /\ h.ec = "ok"
  <2>1. PICK x : x = close_socket(cancel_connect_timeout(t))
    OBVIOUS
  <2>2. /\ Typed(x) /\ Flagged(x) /\ x.c = t.c /\ x.overlap = t.overlap
        /\ (NoneOf(t, Used, t.c.sock) => Padded(t, x))
    BY <1>1, <2>1, ClearSocket
  <2>3. v = [x EXCEPT !.waiting = @ \cup {Op("timer", x.c.sock), Op("connect", x.c.sock)}]
    BY <1>1, <1>5, <2>1, <2>2
  <2>4. ASSUME ~w.overlap
        PROVE  /\ w.c.connection_state = "Connecting" /\ NoneOf(t, Used, t.c.sock)
               /\ \A j \in 1..Len(t.ready) : t.ready[j].op \notin {"header", "body", "write"}
    BY <1>5, <2>4, HeadAttempt DEF Attempt
  <2>5. ASSUME ~x.overlap
        PROVE  /\ x.c.connection_state = "Connecting" /\ NoneOf(x, Used, x.c.sock) /\ Fresh(x)
               /\ \A j \in 1..Len(x.ready) : x.ready[j].op \notin {"header", "body", "write"}
    <3>1. ~w.overlap /\ Padded(t, x)
      BY <1>1, <2>2, <2>4, <2>5
    <3>2. PICK K, s : K = Used /\ s = t.c.sock
      OBVIOUS
    <3>3. "timer" \notin K /\ "post" \notin K /\ t \in Worlds /\ Near(t) /\ Flagged(t) /\ Calm(t)
      BY <1>1, <3>2 DEF Used, Loose, Typed
    <3>4. NoneOf(x, K, s)
      BY <2>4, <3>1, <3>2, <3>3, PadTokens
    <3>5. Calm(x)
      BY <3>1, <3>3, PadKeeps
    <3>6. Fresh(x)
      BY <1>1, <1>5, <2>2, <2>5, <3>5 DEF Calm
    <3>7. \A j \in 1..Len(x.ready) : x.ready[j].op \notin {"header", "body", "write"}
      <4>1. Len(t.ready) \in Nat /\ Len(x.ready) \in Nat
        BY <2>2, <3>3, WorldFields DEF Typed
      <4>2. ASSUME NEW j \in 1..Len(x.ready) PROVE x.ready[j].op \notin {"header", "body", "write"}
        <5>1. CASE Len(t.ready) < j
          BY <3>1, <5>1 DEF Padded
        <5>2. CASE ~(Len(t.ready) < j)
          <6>1. j \in 1..Len(t.ready)
            BY <4>1, <5>2
          <6>2. QED BY <2>4, <3>1, <6>1 DEF Padded, Longer
        <5>3. QED BY <5>1, <5>2
      <4>3. QED BY <4>2
    <3>8. QED BY <1>1, <2>2, <2>4, <3>1, <3>2, <3>4, <3>6, <3>7
  <2>6. Loose(v) /\ v.c = x.c /\ v.overlap = x.overlap
    <3>1. ~x.c.closed
      BY <1>1, <1>5, <2>2
    <3>2. QED BY <2>2, <2>3, <2>5, <3>1, StartConnect
  <2>7. Flushed(v)
    BY <1>1, <2>2, <2>6 DEF Sound, Flushed, Live
  <2>8. ASSUME NEW g, Sent(w, g) PROVE Sent(v, g)
    <3>1. ASSUME ~v.overlap PROVE v.c.connection_state = "Connecting" /\ g = <<>>
      <4>1. ~w.overlap /\ w.c.connection_state = "Connecting"
        BY <1>1, <2>2, <2>4, <2>6, <3>1
      <4>2. QED BY <1>1, <1>5, <2>2, <2>6, <2>8, <4>1 DEF Sent
    <3>2. QED BY <3>1 DEF Sent
  <2>9. Same(w, v) /\ v.c.sock = w.c.sock
    BY <1>1, <2>2, <2>6 DEF Same
  <2>10. QED BY <1>1, <2>2, <2>6, <2>7, <2>8, <2>9 DEF Good, Sound
<1>6. QED BY <1>2, <1>3, <1>4, <1>5

(* The handler of the connect timeout. *)
LEMMA HandleTimer ==
  ASSUME NEW w, Sound(w), NEW t, NEW h, Takes(w, t, h), h.op = "timer", NEW v,
         v = IF h.ec = "aborted" \/ w.c.closed \/ w.c.connection_state # "Connecting"
             THEN t ELSE on_connect_result(close_socket(t), "timed_out")
  PROVE  Good(w, v)
<1>1. Good(w, t) /\ Sound(t) /\ Loose(t) /\ t.c = w.c /\ t.overlap = w.overlap
  BY OnlyTaken
<1>2. CASE h.ec = "aborted" \/ w.c.closed \/ w.c.connection_state # "Connecting"
  BY <1>1, <1>2
<1>3. CASE ~(h.ec = "aborted" \/ w.c.closed \/ w.c.connection_state # "Connecting")
  <2>1. PICK x : x = close_socket(t)
    OBVIOUS
  <2>2. Typed(t) /\ Flagged(t)
    BY <1>1 DEF Loose
  <2>3. Typed(x) /\ Flagged(x) /\ x.c = t.c /\ x.overlap = t.overlap /\ x.waiting = {o \in t.waiting : o.op \notin OnSocket}
    BY <2>1, <2>2, CloseSocket
  <2>4. v = set_connection(Failing(x))
    BY <1>1, <1>3, <2>1, <2>3 DEF on_connect_result, Failing
  <2>5. \A o \in x.waiting : o.op # "write"
    BY <2>3 DEF OnSocket
  <2>6. Sound(v) /\ Ended(x, v) /\ v.overlap = x.overlap
    BY <2>3, <2>4, <2>5, FailAttempt
  <2>7. Ended(w, v)
    BY <1>1, <2>3, <2>6 DEF Ended
  <2>8. QED BY <1>1, <2>3, <2>6, <2>7, GoodEnd
<1>4. QED BY <1>2, <1>3

(* The handler of async_connect. *)
LEMMA HandleConnect ==
  ASSUME NEW w, Sound(w), Agreed(w), NEW t, NEW h, Takes(w, t, h), h.op = "connect", NEW v,
         NEW ec, ec = h.ec \/ ec = "aborted", v = on_connect_result(cancel_connect_timeout(t), ec)
  PROVE  Good(w, v)
<1>1. Good(w, t) /\ Sound(t) /\ Loose(t) /\ t.c = w.c /\ t.overlap = w.overlap /\ \A g : Sent(w, g) => Sent(t, g)
  BY OnlyTaken
<1>2. PICK x : x = cancel_connect_timeout(t)
  OBVIOUS
<1>3. /\ Loose(x) /\ x.c = t.c /\ x.overlap = t.overlap
      /\ Padded(t, x) /\ (Flushed(t) => Flushed(x))
      /\ \A g : Sent(t, g) => Sent(x, g)
  BY <1>1, <1>2, TimersOff
<1>4. CASE w.c.closed \/ ec = "aborted"
  <2>1. v = x
    BY <1>1, <1>2, <1>3, <1>4 DEF on_connect_result
  <2>2. Sound(x) /\ Same(w, x)
    BY <1>1, <1>3 DEF Sound, Same
  <2>3. QED BY <1>1, <1>3, <2>1, <2>2 DEF Good
<1>5. CASE ~w.c.closed /\ ec # "aborted"
  <2>1. ~t.overlap => /\ NoneOf(t, Used, t.c.sock) /\ t.c.connection_state = "Connecting"
                      /\ \A j \in 1..Len(t.ready) : t.ready[j].op # "rejected"
    BY <1>1, <1>5, HeadAttempt DEF Attempt
  <2>2. PICK K, s : K = Used /\ s = t.c.sock
    OBVIOUS
  <2>3. "timer" \notin K /\ "post" \notin K /\ t \in Worlds
    BY <1>1, <2>2 DEF Used, Loose, Typed
  <2>4. NoneOf(t, K, s) => NoneOf(x, K, s)
    BY <1>3, <2>3, PadTokens
  <2>5. ~x.overlap => NoneOf(x, Used, x.c.sock) /\ x.c.connection_state = "Connecting"
    BY <1>3, <2>1, <2>2, <2>4
  <2>6. ~x.overlap => \A j \in 1..Len(x.ready) : x.ready[j].op # "rejected"
    <3>1. Len(t.ready) \in Nat /\ Len(x.ready) \in Nat
      BY <1>3, <2>3, WorldFields DEF Padded
    <3>2. QED BY <1>3, <2>1, <3>1 DEF Padded, Longer
  <2>7. Good(x, v)
    BY <1>1, <1>2, <1>3, <1>5, <2>5, <2>6, ConnectResult
  <2>8. QED BY <1>1, <1>3, <2>7, GoodChain
<1>6. QED BY <1>4, <1>5

(* On a live connection a handled read or write is one of the socket in use. *)
LEMMA HeadOwn ==
  ASSUME NEW w, Sound(w), NEW t, NEW h, Takes(w, t, h), h.op \in {"header", "body", "write"}, Live(w), ~w.overlap
  PROVE  h.sock = w.c.sock
<1>1. Behind(w) /\ NoneOf(w, Attempt, w.c.sock)
  BY DEF Sound, Loose, Calm, Live, Phase
<1>2. 1 \in 1..Len(w.ready) /\ w.ready[1] = h
  BY DEF Takes
<1>3. SUFFICES ASSUME h.sock # w.c.sock PROVE FALSE
  OBVIOUS
<1>4. \/ \E o \in w.waiting : Own(o, {"resolve"}, w.c.sock)
      \/ \E i \in 1..Len(w.ready) : Own(w.ready[i], {"resolve"}, w.c.sock)
  BY <1>1, <1>2, <1>3 DEF Behind
<1>5. QED BY <1>1, <1>4 DEF NoneOf, Own, Attempt

(* It is the only one. *)
LEMMA TakenLast ==
  ASSUME NEW w \in Worlds, NEW t, NEW h, Takes(w, t, h), NEW K, AtMostOne(w, K, w.c.sock), Own(h, K, w.c.sock)
  PROVE  NoneOf(t, K, t.c.sock)
<1>1. /\ t.c = w.c /\ t.waiting = w.waiting /\ Len(w.ready) \in Nat /\ 1 \in 1..Len(w.ready) /\ w.ready[1] = h
      /\ Len(t.ready) \in Nat
      /\ \A i \in 1..Len(t.ready) : i + 1 \in 1..Len(w.ready) /\ t.ready[i] = w.ready[i + 1]
  BY DEF Takes
<1>2. \A o \in t.waiting : ~Own(o, K, t.c.sock)
  BY <1>1 DEF AtMostOne
<1>3. ASSUME NEW i \in 1..Len(t.ready) PROVE ~Own(t.ready[i], K, t.c.sock)
  <2>1. i + 1 \in 1..Len(w.ready) /\ t.ready[i] = w.ready[i + 1] /\ i + 1 # 1
    BY <1>1
  <2>2. QED BY <1>1, <2>1 DEF AtMostOne
<1>4. QED BY <1>2, <1>3 DEF NoneOf

(* The handler of a header: the body of a packet from an earlier socket is
   asked of a socket that is not open yet. *)
LEMMA HandleHeader ==
  ASSUME NEW w, Sound(w), Agreed(w), NEW t, NEW h, Takes(w, t, h), h.op = "header", NEW v,
         v = IF t.c.closed THEN t ELSE IF h.ec = "ok" THEN do_read_body(t) ELSE close_connection(t, TRUE)
  PROVE  Good(w, v)
<1>1. Good(w, t) /\ Sound(t) /\ Loose(t) /\ t.c = w.c /\ t.overlap = w.overlap /\ \A g : Sent(w, g) => Sent(t, g)
  BY OnlyTaken
<1>2. w \in Worlds /\ t \in Worlds
  BY <1>1 DEF Sound, Loose, Typed
<1>3. /\ t.waiting = w.waiting /\ Len(w.ready) \in Nat /\ 1 \in 1..Len(w.ready) /\ w.ready[1] = h /\ Len(t.ready) \in Nat
      /\ \A i \in 1..Len(t.ready) : i + 1 \in 1..Len(w.ready) /\ t.ready[i] = w.ready[i + 1] /\ i + 1 # 1
  <2>1. \A i \in 1..Len(t.ready) : i + 1 # 1
    BY DEF Takes
  <2>2. QED BY <2>1 DEF Takes
<1>4. CASE w.c.closed
  BY <1>1, <1>4
<1>5. CASE ~w.c.closed /\ h.ec = "ok"
  <2>1. v = do_read_body(t)
    BY <1>1, <1>5
  <2>2. ASSUME ~t.overlap PROVE Unread(t)
    <3>1. OneRead(w) /\ Going(w.ready[1])
      BY <1>3, <1>5 DEF Sound, Loose, Typed, Going
    <3>2. QED BY <1>1, <1>3, <2>2, <3>1 DEF OneRead, Unread
  <2>3. ASSUME ~t.overlap, Live(t) PROVE NoneOf(t, Chain, t.c.sock)
    <3>1. ~w.overlap /\ Live(w)
      BY <1>1, <2>3 DEF Live
    <3>2. h.sock = w.c.sock
      BY <3>1, HeadOwn
    <3>3. Own(h, Chain, w.c.sock)
      BY <3>2 DEF Own, Chain
    <3>4. AtMostOne(w, Chain, w.c.sock)
      BY <3>1 DEF Sound, Loose, Calm, Live
    <3>5. QED BY <1>2, <3>3, <3>4, TakenLast
  <2>4. ASSUME ~t.overlap, ~t.c.closed, ~Live(t) PROVE NoneOf(t, {"connect"}, t.c.sock)
    <3>1. AtMostOne(w, Chain, w.c.sock) /\ Behind(w) /\ Phase(w) /\ w.c.connection_state # "Connected"
      BY <1>1, <2>4 DEF Sound, Loose, Calm, Live
    <3>2. h.sock # w.c.sock
      BY <1>3, <3>1 DEF Phase, NoneOf, Own
    <3>3. \/ \E o \in w.waiting : Own(o, {"resolve"}, w.c.sock)
          \/ \E i \in 1..Len(w.ready) : Own(w.ready[i], {"resolve"}, w.c.sock)
      BY <1>3, <3>1, <3>2 DEF Behind
    <3>4. NoneOf(w, {"connect"}, w.c.sock)
      <4>1. \A y : Own(y, {"connect"}, w.c.sock) => Own(y, Chain, w.c.sock) /\ ~Own(y, {"resolve"}, w.c.sock)
        BY DEF Own, Chain
      <4>2. \A y : Own(y, {"resolve"}, w.c.sock) => Own(y, Chain, w.c.sock)
        BY DEF Own, Chain
      <4>3. CASE \E o \in w.waiting : Own(o, {"resolve"}, w.c.sock)
        BY <3>1, <4>1, <4>2, <4>3 DEF AtMostOne, NoneOf
      <4>4. CASE \E i \in 1..Len(w.ready) : Own(w.ready[i], {"resolve"}, w.c.sock)
        <5>1. PICK i \in 1..Len(w.ready) : Own(w.ready[i], {"resolve"}, w.c.sock)
          BY <4>4
        <5>2. \A o \in w.waiting : ~Own(o, {"connect"}, w.c.sock)
          BY <3>1, <4>1, <4>2, <5>1 DEF AtMostOne
        <5>3. ASSUME NEW j \in 1..Len(w.ready), Own(w.ready[j], {"connect"}, w.c.sock) PROVE FALSE
          <6>1. i = j
            BY <3>1, <4>1, <4>2, <5>1, <5>3 DEF AtMostOne
          <6>2. QED BY <4>1, <5>1, <5>3, <6>1
        <5>4. QED BY <5>2, <5>3 DEF NoneOf
      <4>5. QED BY <3>3, <4>3, <4>4
    <3>5. QED BY <1>1, <1>3, <3>4 DEF NoneOf
  <2>5. Sound(v) /\ v.c = t.c /\ v.overlap = t.overlap /\ \A g : Sent(t, g) => Sent(v, g)
    BY <1>1, <2>1, <2>2, <2>3, <2>4, DoReadBody
  <2>6. Same(w, v)
    BY <1>1, <2>5 DEF Same
  <2>7. QED BY <1>1, <2>5, <2>6 DEF Good
<1>6. CASE ~w.c.closed /\ h.ec # "ok"
  <2>1. v = close_connection(t, TRUE)
    BY <1>1, <1>6
  <2>2. Typed(t) /\ t.c.connection_state \in {"Connected", "Connecting"}
    BY <1>1, <1>6 DEF Loose, Agreed
  <2>3. /\ Sound(v) /\ v.c.closed = TRUE /\ v.c.sock = t.c.sock /\ v.c.endpoint_edited = t.c.endpoint_edited
        /\ v.overlap = t.overlap
        /\ v.c.connection_state = "Disconnected" /\ v.c.connection = "Disconnected"
    BY <2>1, <2>2, CloseTold
  <2>4. Ended(w, v)
    BY <1>1, <2>3 DEF Ended
  <2>5. QED BY <1>1, <2>3, <2>4, GoodEnd
<1>7. QED BY <1>4, <1>5, <1>6

\* What the handler of a body makes of t, with result ec.
AfterBody(t, ec) ==
    IF t.c.closed THEN t
    ELSE CASE ec = "message" -> do_read_header(t)
           [] ec = "welcome" -> do_read_header(send([t EXCEPT !.c.screen = "Lobby"]))
           [] OTHER -> close_connection(t, TRUE)

(* The handler of a body that is read, or that asio would not read. *)
LEMMA HandleBody ==
  ASSUME NEW w, Sound(w), Agreed(w), NEW t, NEW h, Takes(w, t, h), h.op \in {"body", "rejected"},
         NEW v, v = AfterBody(t, h.ec)
  PROVE  Good(w, v)
<1>1. Good(w, t) /\ Sound(t) /\ Loose(t) /\ t.c = w.c /\ t.overlap = w.overlap /\ \A g : Sent(w, g) => Sent(t, g)
  BY OnlyTaken
<1>2. w \in Worlds /\ t \in Worlds
  BY <1>1 DEF Sound, Loose, Typed
<1>3. ~t.overlap /\ Live(t) => NoneOf(t, Chain, t.c.sock)
  <2>1. ASSUME ~t.overlap, Live(t) PROVE NoneOf(t, Chain, t.c.sock)
    <3>1. ~w.overlap /\ Live(w)
      BY <1>1, <2>1 DEF Live
    <3>2. h.op = "body" /\ h.sock = w.c.sock
      <4>1. Behind(w) /\ w.c.connection_state = "Connected" /\ 1 \in 1..Len(w.ready) /\ w.ready[1] = h
        BY <3>1 DEF Sound, Loose, Calm, Live, Takes
      <4>2. h.op = "body"
        BY <4>1 DEF Behind
      <4>3. QED BY <3>1, <4>2, HeadOwn
    <3>3. Own(h, Chain, w.c.sock)
      BY <3>2 DEF Own, Chain
    <3>4. AtMostOne(w, Chain, w.c.sock)
      BY <3>1 DEF Sound, Loose, Calm, Live
    <3>5. QED BY <1>2, <3>3, <3>4, TakenLast
  <2>2. QED BY <2>1
<1>4. CASE w.c.closed
  BY <1>1, <1>4 DEF AfterBody
<1>5. CASE ~w.c.closed /\ h.ec = "message"
  <2>1. v = do_read_header(t)
    BY <1>1, <1>5 DEF AfterBody
  <2>2. Sound(v) /\ v.c = t.c /\ v.overlap = t.overlap /\ \A g : Sent(t, g) => Sent(v, g)
    BY <1>1, <1>3, <2>1, DoReadHeader
  <2>3. Same(w, v)
    BY <1>1, <2>2 DEF Same
  <2>4. QED BY <1>1, <2>2, <2>3 DEF Good
<1>6. CASE ~w.c.closed /\ h.ec = "welcome"
  <2>1. PICK x : x = [t EXCEPT !.c.screen = "Lobby"]
    OBVIOUS
  <2>2. PICK y : y = send(x)
    OBVIOUS
  <2>3. v = do_read_header(y)
    BY <1>1, <1>6, <2>1, <2>2 DEF AfterBody
  <2>4. OnlyClient(t, x) /\ Core(t, x) /\ x.c.connection = t.c.connection /\ x.c.endpoint_edited = t.c.endpoint_edited
    BY <1>2, <2>1 DEF Worlds, Clients, OnlyClient, Core
  <2>5. Loose(x) /\ (Flushed(t) => Flushed(x)) /\ \A g : Sent(t, g) => Sent(x, g)
    BY <1>1, <2>4, CoreKeeps
  <2>6. Loose(y) /\ y.c = x.c /\ y.overlap = x.overlap /\ Padded(x, y) /\ (Flushed(x) => Flushed(y))
        /\ \A g \in Seq(Nat) : Sent(x, g) => Sent(y, g)
    BY <2>2, <2>5, Send
  <2>7. Sound(y)
    BY <1>1, <2>5, <2>6 DEF Sound
  <2>8. ~y.overlap /\ Live(y) => NoneOf(y, Chain, y.c.sock)
    <3>1. PICK K, s : K = Chain /\ s = x.c.sock
      OBVIOUS
    <3>2. "timer" \notin K /\ "post" \notin K /\ x \in Worlds
      BY <2>4, <3>1 DEF Chain, OnlyClient
    <3>3. NoneOf(x, K, s) => NoneOf(y, K, s)
      BY <2>6, <3>2, PadTokens
    <3>4. ~x.overlap /\ Live(x) => NoneOf(x, Chain, x.c.sock)
      BY <1>3, <2>4 DEF OnlyClient, Core, Live, NoneOf
    <3>5. QED BY <2>6, <3>1, <3>3, <3>4 DEF Live
  <2>9. Sound(v) /\ v.c = y.c /\ v.overlap = y.overlap /\ \A g : Sent(y, g) => Sent(v, g)
    BY <2>3, <2>7, <2>8, DoReadHeader
  <2>10. Same(w, v)
    BY <1>1, <2>4, <2>6, <2>9 DEF Same, Core
  <2>11. QED BY <1>1, <2>4, <2>5, <2>6, <2>9, <2>10 DEF Good, Same, Core
<1>7. CASE ~w.c.closed /\ h.ec # "message" /\ h.ec # "welcome"
  <2>1. v = close_connection(t, TRUE)
    BY <1>1, <1>7 DEF AfterBody
  <2>2. Typed(t) /\ t.c.connection_state \in {"Connected", "Connecting"}
    BY <1>1, <1>7 DEF Loose, Agreed
  <2>4. /\ Sound(v) /\ v.c.closed = TRUE /\ v.c.sock = t.c.sock /\ v.c.endpoint_edited = t.c.endpoint_edited
        /\ v.overlap = t.overlap
        /\ v.c.connection_state = "Disconnected" /\ v.c.connection = "Disconnected"
    BY <2>1, <2>2, CloseTold
  <2>5. Ended(w, v)
    BY <1>1, <2>4 DEF Ended
  <2>6. QED BY <1>1, <2>4, <2>5, GoodEnd
<1>8. QED BY <1>4, <1>5, <1>6, <1>7

Unset(t) == [t EXCEPT !.c.write_in_progress = FALSE]

(* write_in_progress_ is cleared by the handler of the write. *)
LEMMA UnsetFields ==
  ASSUME NEW t \in Worlds, NEW x, x = Unset(t)
  PROVE  OnlyClient(t, x) /\ ButFlag(t, x) /\ x.c.write_in_progress = FALSE
BY DEF Unset, Worlds, Clients, OnlyClient, ButFlag

Dequeued(x) == [x EXCEPT !.c.write_queue = IF @ = <<>> THEN @ ELSE Tail(@)]

\* Client and queue of y are those of x, but for the first packet.
DequeuedAs(x, y) ==
    /\ OnlyClient(x, y)
    /\ y.c.connection_state = x.c.connection_state /\ y.c.closed = x.c.closed
    /\ y.c.sock = x.c.sock /\ y.c.connection = x.c.connection
    /\ y.c.endpoint_edited = x.c.endpoint_edited /\ y.c.write_in_progress = x.c.write_in_progress
    /\ Len(x.c.write_queue) \in Nat /\ Len(y.c.write_queue) \in Nat
    /\ \A i \in 1..Len(y.c.write_queue) :
         i + 1 \in 1..Len(x.c.write_queue) /\ y.c.write_queue[i] = x.c.write_queue[i + 1]

(* The packet that is written leaves the queue. *)
LEMMA DequeuedFields ==
  ASSUME NEW x \in Worlds, NEW y, y = Dequeued(x)
  PROVE  DequeuedAs(x, y)
<1>1. PICK q, r : q = x.c.write_queue /\ r = IF q = <<>> THEN q ELSE Tail(q)
  OBVIOUS
<1>2. q \in Seq(Nat) /\ x.c \in Clients
  BY <1>1, WorldFields
<1>3. /\ r \in Seq(Nat) /\ Len(q) \in Nat /\ Len(r) \in Nat
      /\ \A i \in 1..Len(r) : i + 1 \in 1..Len(q) /\ r[i] = q[i + 1]
  <2>1. CASE q = <<>>
    BY <1>1, <1>2, <2>1
  <2>2. CASE q # <<>>
    BY <1>1, <1>2, <2>2
  <2>3. QED BY <2>1, <2>2
<1>4. PICK d : d = [x.c EXCEPT !.write_queue = r]
  OBVIOUS
<1>5. /\ d \in Clients /\ d.write_queue = r /\ d.connection_state = x.c.connection_state /\ d.closed = x.c.closed
      /\ d.sock = x.c.sock /\ d.connection = x.c.connection /\ d.endpoint_edited = x.c.endpoint_edited
      /\ d.write_in_progress = x.c.write_in_progress
  BY <1>2, <1>3, <1>4 DEF Clients
<1>6. y = [x EXCEPT !.c = d]
  BY <1>1, <1>2, <1>4 DEF Dequeued, Worlds, Clients
<1>7. OnlyClient(x, y) /\ y.c = d
  BY <1>5, <1>6 DEF OnlyClient, Worlds
<1>8. QED BY <1>1, <1>3, <1>5, <1>7 DEF DequeuedAs

(* Without its first packet the queue is in order. *)
LEMMA DequeuedTyped ==
  ASSUME NEW x, Typed(x), NEW y, DequeuedAs(x, y)
  PROVE  Typed(y)
<1>1. /\ y \in Worlds /\ y.waiting = x.waiting /\ y.ready = x.ready /\ y.sends = x.sends /\ y.overlap = x.overlap /\ y.c.sock = x.c.sock
      /\ Len(x.c.write_queue) \in Nat /\ Len(y.c.write_queue) \in Nat
      /\ \A i \in 1..Len(y.c.write_queue) :
           i + 1 \in 1..Len(x.c.write_queue) /\ y.c.write_queue[i] = x.c.write_queue[i + 1]
  BY DEF DequeuedAs, OnlyClient
<1>2. Near(x) /\ Ordered(x)
  BY DEF Typed
<1>3. Near(y)
  BY <1>1, <1>2 DEF Near
<1>4. Ordered(y)
  <2>1. ASSUME NEW i \in 1..Len(y.c.write_queue), NEW j \in 1..Len(y.c.write_queue), i < j
        PROVE  y.c.write_queue[i] < y.c.write_queue[j]
    <3>1. i + 1 \in 1..Len(x.c.write_queue) /\ y.c.write_queue[i] = x.c.write_queue[i + 1]
      BY <1>1
    <3>2. j + 1 \in 1..Len(x.c.write_queue) /\ y.c.write_queue[j] = x.c.write_queue[j + 1]
      BY <1>1
    <3>3. i + 1 < j + 1
      BY <1>1, <2>1
    <3>4. QED BY <1>2, <3>1, <3>2, <3>3 DEF Ordered
  <2>2. ASSUME NEW i \in 1..Len(y.c.write_queue) PROVE y.c.write_queue[i] <= y.sends
    <3>1. i + 1 \in 1..Len(x.c.write_queue) /\ y.c.write_queue[i] = x.c.write_queue[i + 1]
      BY <1>1
    <3>2. QED BY <1>1, <1>2, <3>1 DEF Ordered
  <2>3. ASSUME NEW k \in 1..Len(y.ready), y.ready[k].op = "post", NEW i \in 1..Len(y.c.write_queue)
        PROVE  y.c.write_queue[i] < y.ready[k].packet
    <3>1. i + 1 \in 1..Len(x.c.write_queue) /\ y.c.write_queue[i] = x.c.write_queue[i + 1]
      BY <1>1
    <3>2. QED BY <1>1, <1>2, <2>3, <3>1 DEF Ordered
  <2>4. \A k \in 1..Len(y.ready) : y.ready[k].op = "post" => y.ready[k].packet <= y.sends
    BY <1>1, <1>2 DEF Ordered
  <2>5. \A k, l \in 1..Len(y.ready) : k < l /\ y.ready[k].op = "post" /\ y.ready[l].op = "post" =>
          y.ready[k].packet < y.ready[l].packet
    BY <1>1, <1>2 DEF Ordered
  <2>6. QED BY <2>1, <2>2, <2>3, <2>4, <2>5 DEF Ordered
<1>5. OneRead(y)
  BY <1>1 DEF Typed, OneRead
<1>6. QED BY <1>1, <1>3, <1>4, <1>5 DEF Typed

(* The handler of async_write. *)
LEMMA HandleWrite ==
  ASSUME NEW w, Sound(w), NEW t, NEW h, Takes(w, t, h), h.op = "write", NEW v,
         v = IF w.c.connection_state # "Connected" THEN Unset(t)
             ELSE IF h.ec = "ok" THEN do_write(Dequeued(Unset(t)))
             ELSE close_connection(Unset(t), TRUE)
  PROVE  Good(w, v)
<1>1. Typed(t) /\ Calm(t) /\ t \in Worlds
  <2>1. Typed(t) /\ Calm(t)
    BY TakesKeeps
  <2>2. QED BY <2>1 DEF Typed
<1>2. /\ t.c = w.c /\ t.overlap = w.overlap /\ t.sends = w.sends /\ t.waiting = w.waiting
      /\ \A i \in 1..Len(t.ready) : i + 1 \in 1..Len(w.ready) /\ t.ready[i] = w.ready[i + 1]
  BY DEF Takes
<1>3. PICK x : x = Unset(t)
  OBVIOUS
<1>4. OnlyClient(t, x) /\ ButFlag(t, x) /\ x.c.write_in_progress = FALSE
  BY <1>1, <1>3, UnsetFields
<1>5. /\ x \in Worlds /\ x.waiting = t.waiting /\ x.ready = t.ready /\ x.sends = t.sends /\ x.overlap = t.overlap
      /\ x.c.connection_state = w.c.connection_state /\ x.c.closed = w.c.closed /\ x.c.sock = w.c.sock
      /\ x.c.write_queue = w.c.write_queue /\ x.c.connection = w.c.connection /\ x.c.endpoint_edited = w.c.endpoint_edited
  BY <1>2, <1>4 DEF OnlyClient, ButFlag
<1>6. Typed(x)
  BY <1>1, <1>4, CoreTyped DEF ButFlag
<1>7. ASSUME NEW y, OnlyClient(x, y), y.c.connection_state = x.c.connection_state, y.c.closed = x.c.closed,
             y.c.sock = x.c.sock, y.c.write_in_progress = FALSE
      PROVE  Flagged(y) /\ Calm(y)
  <2>1. y.waiting = t.waiting /\ y.ready = t.ready /\ y.overlap = w.overlap /\ y.c.sock = t.c.sock
        /\ y.c.closed = w.c.closed /\ y.c.connection_state = w.c.connection_state
    BY <1>2, <1>5, <1>7 DEF OnlyClient
  <2>2. Flagged(y)
    BY <1>7 DEF Flagged
  <2>3. w.c.closed /\ ~w.overlap => \A o \in y.waiting : o.op # "write"
    BY <1>1, <1>2, <2>1 DEF Calm
  <2>4. ASSUME ~w.overlap, ~w.c.closed
        PROVE  Fresh(y) /\ AtMostOne(y, Chain, y.c.sock) /\ Behind(y) /\ Phase(y) /\ Writing(y)
    <3>1. Fresh(t) /\ AtMostOne(t, Chain, t.c.sock) /\ Behind(t) /\ Phase(t)
      BY <1>1, <1>2, <2>4 DEF Calm
    <3>2. \A K, s : NoneOf(t, K, s) => NoneOf(y, K, s)
      BY <2>1 DEF NoneOf
    <3>3. Fresh(y)
      BY <2>1, <3>1 DEF Fresh
    <3>4. AtMostOne(y, Chain, y.c.sock)
      BY <2>1, <3>1 DEF AtMostOne
    <3>5. Behind(y)
      BY <1>2, <2>1, <3>1, <3>2 DEF Behind
    <3>6. Phase(y)
      BY <1>2, <2>1, <3>1, <3>2 DEF Phase
    <3>7. Writing(y)
      <4>1. SUFFICES ASSUME w.c.connection_state = "Connected" PROVE NoneOf(y, {"write"}, y.c.sock)
        BY <2>1 DEF Writing, AtMostOne, NoneOf
      <4>2. Live(w)
        BY <2>4, <4>1 DEF Live
      <4>3. h.sock = w.c.sock
        BY <2>4, <4>2, HeadOwn
      <4>4. PICK K : K = {"write"}
        OBVIOUS
      <4>5. Own(h, K, w.c.sock) /\ AtMostOne(w, K, w.c.sock) /\ w \in Worlds
        BY <2>4, <4>1, <4>3, <4>4 DEF Own, Sound, Loose, Typed, Calm, Writing
      <4>6. NoneOf(t, K, t.c.sock)
        BY <4>5, TakenLast
      <4>7. QED BY <2>1, <3>2, <4>4, <4>6
    <3>8. QED BY <3>3, <3>4, <3>5, <3>6, <3>7
  <2>5. Calm(y)
    BY <2>1, <2>3, <2>4 DEF Calm
  <2>6. QED BY <2>2, <2>5
<1>8. CASE w.c.connection_state # "Connected"
  <2>1. v = x
    BY <1>3, <1>8
  <2>2. Flagged(x) /\ Calm(x)
    BY <1>4, <1>5, <1>7 DEF OnlyClient
  <2>3. Flushed(x) /\ Same(w, x)
    BY <1>5, <1>8 DEF Flushed, Live, Same
  <2>4. \A g : Sent(w, g) => Sent(x, g)
    BY <1>2, <1>5, <1>8 DEF Sent
  <2>5. QED BY <1>2, <1>5, <1>6, <2>1, <2>2, <2>3, <2>4 DEF Good, Sound, Loose
<1>9. CASE w.c.connection_state = "Connected" /\ h.ec = "ok"
  <2>1. PICK y : y = Dequeued(x)
    OBVIOUS
  <2>2. DequeuedAs(x, y)
    BY <1>5, <2>1, DequeuedFields
  <2>3. /\ OnlyClient(x, y) /\ y.c.connection_state = x.c.connection_state /\ y.c.closed = x.c.closed
        /\ y.c.sock = x.c.sock /\ y.c.connection = x.c.connection
        /\ y.c.endpoint_edited = x.c.endpoint_edited /\ y.c.write_in_progress = FALSE
    BY <1>4, <2>2 DEF DequeuedAs
  <2>4. Loose(y)
    <3>1. Typed(y)
      BY <1>6, <2>2, DequeuedTyped
    <3>2. Flagged(y) /\ Calm(y)
      BY <1>7, <2>3
    <3>3. QED BY <3>1, <3>2 DEF Loose
  <2>5. v = do_write(y)
    BY <1>3, <1>9, <2>1
  <2>6. Sound(v) /\ ButFlag(y, v) /\ \A g : Sent(y, g) => Sent(v, g)
    BY <2>4, <2>5, DoWrite
  <2>7. ASSUME NEW g, Sent(w, g) PROVE Sent(y, g)
    <3>1. ASSUME ~y.overlap, ~y.c.closed, NEW k \in 1..Len(g)
          PROVE  /\ g[k] <= y.sends
                 /\ \A i \in 1..Len(y.ready) : y.ready[i].op = "post" => g[k] < y.ready[i].packet
                 /\ \A i \in 1..Len(y.c.write_queue) : g[k] < y.c.write_queue[i]
      <4>1. y.overlap = w.overlap /\ y.c.closed = w.c.closed /\ y.sends = w.sends /\ y.ready = t.ready
        BY <1>2, <1>5, <2>3 DEF OnlyClient
      <4>2. /\ g[k] <= w.sends
            /\ \A i \in 1..Len(w.ready) : w.ready[i].op = "post" => g[k] < w.ready[i].packet
            /\ \A i \in 1..Len(w.c.write_queue) : g[k] < w.c.write_queue[i] \/ i = 1
        BY <1>9, <2>7, <3>1, <4>1 DEF Sent
      <4>3. ASSUME NEW i \in 1..Len(y.ready), y.ready[i].op = "post" PROVE g[k] < y.ready[i].packet
        <5>1. i + 1 \in 1..Len(w.ready) /\ y.ready[i] = w.ready[i + 1]
          BY <1>2, <4>1
        <5>2. QED BY <4>2, <4>3, <5>1
      <4>4. ASSUME NEW i \in 1..Len(y.c.write_queue) PROVE g[k] < y.c.write_queue[i]
        <5>1. i + 1 \in 1..Len(w.c.write_queue) /\ y.c.write_queue[i] = w.c.write_queue[i + 1] /\ i + 1 # 1
          BY <1>5, <2>2 DEF DequeuedAs
        <5>2. QED BY <4>2, <5>1
      <4>5. QED BY <4>1, <4>2, <4>3, <4>4
    <3>2. y.c.connection_state = "Connected"
      BY <1>5, <1>9, <2>3
    <3>3. QED BY <3>1, <3>2 DEF Sent
  <2>8. Same(w, v)
    BY <1>5, <2>3, <2>6 DEF Same, ButFlag
  <2>9. v.overlap = w.overlap
    BY <1>2, <1>5, <2>3, <2>6 DEF OnlyClient, ButFlag
  <2>10. QED BY <2>6, <2>7, <2>8, <2>9 DEF Good, Same
<1>10. CASE w.c.connection_state = "Connected" /\ h.ec # "ok"
  <2>1. v = close_connection(x, TRUE)
    BY <1>3, <1>10
  <2>2. x.c.connection_state \in {"Connected", "Connecting"}
    BY <1>5, <1>10
  <2>3. /\ Sound(v) /\ v.c.closed = TRUE /\ v.c.sock = x.c.sock /\ v.c.endpoint_edited = x.c.endpoint_edited
        /\ v.overlap = x.overlap
        /\ v.c.connection_state = "Disconnected" /\ v.c.connection = "Disconnected"
    BY <1>6, <2>1, <2>2, CloseTold
  <2>4. Ended(w, v)
    BY <1>5, <2>3 DEF Ended
  <2>5. v.overlap = w.overlap
    BY <1>2, <1>5, <2>3 DEF OnlyClient
  <2>6. QED BY <2>3, <2>4, <2>5, GoodEnd
<1>11. QED BY <1>8, <1>9, <1>10

Queued(t, p) == [t EXCEPT !.c.write_queue = Append(@, p)]

\* Client and queue of y are those of t, with packet p queued last.
QueuedAs(t, p, y) ==
    /\ OnlyClient(t, y)
    /\ y.c.connection_state = t.c.connection_state /\ y.c.closed = t.c.closed
    /\ y.c.sock = t.c.sock /\ y.c.connection = t.c.connection
    /\ y.c.endpoint_edited = t.c.endpoint_edited /\ y.c.write_in_progress = t.c.write_in_progress
    /\ Len(t.c.write_queue) \in Nat /\ Len(y.c.write_queue) = Len(t.c.write_queue) + 1
    /\ \A i \in 1..Len(t.c.write_queue) : y.c.write_queue[i] = t.c.write_queue[i]
    /\ y.c.write_queue[Len(t.c.write_queue) + 1] = p
    /\ t.c.write_queue # <<>> => y.c.write_queue # <<>> /\ Head(y.c.write_queue) = Head(t.c.write_queue)

(* A packet joins the queue. *)
LEMMA QueuedFields ==
  ASSUME NEW t \in Worlds, NEW p \in Nat, NEW y, y = Queued(t, p)
  PROVE  QueuedAs(t, p, y)
<1>1. PICK q, r : q = t.c.write_queue /\ r = Append(q, p)
  OBVIOUS
<1>2. q \in Seq(Nat) /\ t.c \in Clients
  BY <1>1, WorldFields
<1>3. /\ r \in Seq(Nat) /\ Len(q) \in Nat /\ Len(r) = Len(q) + 1
      /\ (\A i \in 1..Len(q) : r[i] = q[i]) /\ r[Len(q) + 1] = p
  BY <1>1, <1>2
<1>4. q # <<>> => r # <<>> /\ Head(r) = Head(q)
  <2>1. SUFFICES ASSUME q # <<>> PROVE r # <<>> /\ Head(r) = Head(q)
    OBVIOUS
  <2>2. 1 \in 1..Len(q) /\ Head(q) = q[1] /\ r # <<>> /\ Head(r) = r[1]
    BY <1>2, <1>3, <2>1
  <2>3. QED BY <1>3, <2>2
<1>5. PICK d : d = [t.c EXCEPT !.write_queue = r]
  OBVIOUS
<1>6. /\ d \in Clients /\ d.write_queue = r /\ d.connection_state = t.c.connection_state /\ d.closed = t.c.closed
      /\ d.sock = t.c.sock /\ d.connection = t.c.connection /\ d.endpoint_edited = t.c.endpoint_edited
      /\ d.write_in_progress = t.c.write_in_progress
  BY <1>2, <1>3, <1>5 DEF Clients
<1>7. y = [t EXCEPT !.c = d]
  BY <1>1, <1>2, <1>5 DEF Queued, Worlds, Clients
<1>8. OnlyClient(t, y) /\ y.c = d
  BY <1>6, <1>7 DEF OnlyClient, Worlds
<1>9. QED BY <1>1, <1>3, <1>4, <1>6, <1>8 DEF QueuedAs

(* The handler that send() posted. *)
LEMMA HandlePost ==
  ASSUME NEW w, Sound(w), NEW t, NEW h, Takes(w, t, h), h.op = "post", NEW v,
         v = CASE w.c.connection_state = "Connecting" -> Queued(t, h.packet)
               [] w.c.connection_state = "Connected" -> do_write(Queued(t, h.packet))
               [] OTHER -> t
  PROVE  Good(w, v)
<1>1. Good(w, t) /\ Sound(t) /\ Loose(t) /\ t.c = w.c /\ t.overlap = w.overlap /\ \A g : Sent(w, g) => Sent(t, g)
  BY OnlyTaken
<1>2. /\ w \in Worlds /\ t \in Worlds /\ Ordered(w) /\ Near(t) /\ Ordered(t) /\ Flagged(t) /\ Calm(t)
      /\ IsFiniteSet(t.waiting)
  BY <1>1 DEF Sound, Loose, Typed
<1>3. /\ t.waiting = w.waiting /\ t.sends = w.sends
      /\ Len(w.ready) \in Nat /\ 1 \in 1..Len(w.ready) /\ w.ready[1] = h /\ h \in Finished
      /\ \A i \in 1..Len(t.ready) : i + 1 \in 1..Len(w.ready) /\ t.ready[i] = w.ready[i + 1] /\ 1 < i + 1
  <2>1. \A i \in 1..Len(t.ready) : 1 < i + 1
    OBVIOUS
  <2>2. QED BY <2>1 DEF Takes
<1>4. PICK p : p = h.packet
  OBVIOUS
<1>5. p \in Nat /\ p <= w.sends /\ \A i \in 1..Len(w.c.write_queue) : w.c.write_queue[i] < p
  BY <1>2, <1>3, <1>4 DEF Finished, Ordered
<1>6. ASSUME NEW i \in 1..Len(t.ready), t.ready[i].op = "post" PROVE p < t.ready[i].packet
  <2>1. i + 1 \in 1..Len(w.ready) /\ t.ready[i] = w.ready[i + 1] /\ 1 < i + 1
    BY <1>3
  <2>2. QED BY <1>2, <1>3, <1>4, <1>6, <2>1 DEF Ordered
<1>7. PICK y : y = Queued(t, p)
  OBVIOUS
<1>8. QueuedAs(t, p, y)
  BY <1>2, <1>5, <1>7, QueuedFields
<1>9. /\ y \in Worlds /\ y.waiting = t.waiting /\ y.ready = t.ready /\ y.sends = t.sends /\ y.overlap = t.overlap
      /\ y.c.connection_state = t.c.connection_state /\ y.c.closed = t.c.closed
      /\ y.c.sock = t.c.sock /\ y.c.connection = t.c.connection
      /\ y.c.endpoint_edited = t.c.endpoint_edited /\ y.c.write_in_progress = t.c.write_in_progress
      /\ t.c.write_queue # <<>> => y.c.write_queue # <<>> /\ Head(y.c.write_queue) = Head(t.c.write_queue)
  BY <1>8 DEF QueuedAs, OnlyClient
<1>10. \A i \in 1..Len(y.c.write_queue) :
          \/ i \in 1..Len(t.c.write_queue) /\ y.c.write_queue[i] = t.c.write_queue[i]
          \/ i = Len(t.c.write_queue) + 1 /\ y.c.write_queue[i] = p
  BY <1>8 DEF QueuedAs
<1>11. Typed(y)
  <2>1. Near(y)
    BY <1>2, <1>9 DEF Near
  <2>2. Ordered(y)
    <3>1. ASSUME NEW i \in 1..Len(y.c.write_queue), NEW j \in 1..Len(y.c.write_queue), i < j
          PROVE  y.c.write_queue[i] < y.c.write_queue[j]
      <4>1. i \in 1..Len(t.c.write_queue) /\ y.c.write_queue[i] = t.c.write_queue[i]
        BY <1>8, <1>10, <3>1 DEF QueuedAs
      <4>2. CASE j \in 1..Len(t.c.write_queue) /\ y.c.write_queue[j] = t.c.write_queue[j]
        BY <1>2, <3>1, <4>1, <4>2 DEF Ordered
      <4>3. CASE y.c.write_queue[j] = p
        BY <1>1, <1>5, <4>1, <4>3
      <4>4. QED BY <1>10, <4>2, <4>3
    <3>2. \A i \in 1..Len(y.c.write_queue) : y.c.write_queue[i] <= y.sends
      BY <1>2, <1>3, <1>5, <1>9, <1>10 DEF Ordered
    <3>3. ASSUME NEW k \in 1..Len(y.ready), y.ready[k].op = "post"
          PROVE  y.ready[k].packet <= y.sends /\ \A i \in 1..Len(y.c.write_queue) : y.c.write_queue[i] < y.ready[k].packet
      <4>1. /\ y.ready[k].packet <= y.sends
            /\ \A i \in 1..Len(t.c.write_queue) : t.c.write_queue[i] < y.ready[k].packet
        BY <1>2, <1>9, <3>3 DEF Ordered
      <4>2. p < y.ready[k].packet
        BY <1>6, <1>9, <3>3
      <4>3. QED BY <1>10, <4>1, <4>2
    <3>4. \A k, l \in 1..Len(y.ready) : k < l /\ y.ready[k].op = "post" /\ y.ready[l].op = "post" =>
            y.ready[k].packet < y.ready[l].packet
      BY <1>2, <1>9 DEF Ordered
    <3>5. QED BY <3>1, <3>2, <3>3, <3>4 DEF Ordered
  <2>3. OneRead(y)
    BY <1>1, <1>9 DEF Loose, Typed, OneRead
  <2>4. QED BY <1>2, <1>9, <2>1, <2>2, <2>3 DEF Typed
<1>12. Flagged(y)
  BY <1>2, <1>9 DEF Flagged
<1>13. Calm(y)
  <2>1. y.c.closed /\ ~y.overlap => \A o \in y.waiting : o.op # "write"
    BY <1>2, <1>9 DEF Calm
  <2>2. ASSUME ~y.overlap, ~y.c.closed
        PROVE  Fresh(y) /\ AtMostOne(y, Chain, y.c.sock) /\ Behind(y) /\ Phase(y) /\ Writing(y)
    <3>1. Fresh(t) /\ AtMostOne(t, Chain, t.c.sock) /\ Behind(t) /\ Phase(t) /\ Writing(t)
      BY <1>2, <1>9, <2>2 DEF Calm
    <3>2. \A K, s : (NoneOf(t, K, s) => NoneOf(y, K, s)) /\ (AtMostOne(t, K, s) => AtMostOne(y, K, s))
      BY <1>9 DEF NoneOf, AtMostOne
    <3>3. Fresh(y)
      BY <1>9, <3>1 DEF Fresh
    <3>4. Behind(y)
      BY <1>9, <3>1 DEF Behind
    <3>5. AtMostOne(y, Chain, y.c.sock) /\ Phase(y)
      BY <1>9, <3>1, <3>2 DEF Phase
    <3>6. Writing(y)
      BY <1>9, <3>1, <3>2 DEF Writing
    <3>7. QED BY <3>3, <3>4, <3>5, <3>6
  <2>3. QED BY <2>1, <2>2 DEF Calm
<1>14. Loose(y) /\ Same(w, y)
  BY <1>1, <1>9, <1>11, <1>12, <1>13 DEF Loose, Same
<1>15. ASSUME NEW g, Sent(w, g) PROVE Sent(y, g)
  <2>1. Sent(t, g)
    BY <1>1, <1>15
  <2>2. ~y.overlap /\ ~y.c.closed /\ y.c.connection_state # "Connected" => g = <<>>
    BY <1>9, <2>1 DEF Sent
  <2>3. ASSUME ~y.overlap, ~y.c.closed, y.c.connection_state = "Connected", NEW k \in 1..Len(g)
        PROVE  /\ g[k] <= y.sends
               /\ \A i \in 1..Len(y.ready) : y.ready[i].op = "post" => g[k] < y.ready[i].packet
               /\ \A i \in 1..Len(y.c.write_queue) :
                    g[k] < y.c.write_queue[i] \/ (i = 1 /\ g[k] = y.c.write_queue[1] /\ Done(y))
    <3>1. /\ g[k] <= t.sends
          /\ \A i \in 1..Len(t.ready) : t.ready[i].op = "post" => g[k] < t.ready[i].packet
          /\ \A i \in 1..Len(t.c.write_queue) :
               g[k] < t.c.write_queue[i] \/ (i = 1 /\ g[k] = t.c.write_queue[1] /\ Done(t))
      BY <1>9, <2>1, <2>3 DEF Sent
    <3>2. g[k] < p
      BY <1>1, <1>3, <1>4, <1>9, <1>15, <2>3 DEF Sent
    <3>3. Done(t) => Done(y)
      BY <1>9 DEF Done
    <3>4. \A i \in 1..Len(y.c.write_queue) :
            g[k] < y.c.write_queue[i] \/ (i = 1 /\ g[k] = y.c.write_queue[1] /\ Done(y))
      BY <1>10, <3>1, <3>2, <3>3
    <3>5. QED BY <1>9, <3>1, <3>4
  <2>4. QED BY <2>2, <2>3 DEF Sent
<1>16. CASE w.c.connection_state = "Connecting"
  <2>1. v = y
    BY <1>4, <1>7, <1>16
  <2>2. Flushed(y)
    BY <1>1, <1>9, <1>16 DEF Flushed, Live
  <2>3. QED BY <1>1, <1>9, <1>14, <1>15, <2>1, <2>2 DEF Good, Sound, Same
<1>17. CASE w.c.connection_state = "Connected"
  <2>1. v = do_write(y)
    BY <1>4, <1>7, <1>17
  <2>2. Sound(v) /\ ButFlag(y, v) /\ \A g : Sent(y, g) => Sent(v, g)
    BY <1>14, <2>1, DoWrite
  <2>3. Same(w, v)
    BY <1>14, <2>2 DEF Same, ButFlag
  <2>4. QED BY <1>1, <1>9, <1>15, <2>2, <2>3 DEF Good, Same, ButFlag
<1>18. CASE w.c.connection_state \notin {"Connecting", "Connected"}
  BY <1>1, <1>18
<1>19. QED BY <1>16, <1>17, <1>18
-----------------------------------------------------------------------------
(* The network. *)

\* Operation o of w has completed as x, not by being cancelled.
Completed(w, v, o, x) ==
    /\ o \in w.waiting /\ x.op = o.op /\ x.sock = o.sock /\ x.packet = o.packet /\ x.ec # "aborted"
    /\ v \in Worlds /\ v.c = w.c /\ v.sends = w.sends /\ v.overlap = w.overlap
    /\ v.waiting = w.waiting \ {o}
    /\ Len(w.ready) \in Nat /\ Len(v.ready) = Len(w.ready) + 1 /\ v.ready[Len(w.ready) + 1] = x
    /\ \A i \in 1..Len(w.ready) : v.ready[i] = w.ready[i]

(* The record that a completion makes. *)
LEMMA CompletedFields ==
  ASSUME NEW w \in Worlds, NEW o \in w.waiting, NEW ec \in {"ok", "error", "message", "welcome"},
         NEW v, v = [c |-> w.c, waiting |-> w.waiting \ {o}, ready |-> Append(w.ready, Completion(o, ec)),
                     sends |-> w.sends, overlap |-> w.overlap]
  PROVE  Completed(w, v, o, Completion(o, ec)) /\ Completion(o, ec).ec = ec
<1>1. PICK x : x = Completion(o, ec)
  OBVIOUS
<1>2. o \in Operation /\ w.ready \in Seq(Finished) /\ w.waiting \subseteq Operation
  BY WorldFields
<1>3. x \in Finished /\ x.op = o.op /\ x.sock = o.sock /\ x.packet = o.packet /\ x.ec = ec
  BY <1>1, <1>2 DEF Completion, Operation, Finished
<1>4. PICK q, r : q = w.ready /\ r = Append(q, x)
  OBVIOUS
<1>5. /\ r \in Seq(Finished) /\ Len(r) = Len(q) + 1 /\ Len(q) \in Nat
      /\ (\A i \in 1..Len(q) : r[i] = q[i]) /\ r[Len(q) + 1] = x
  BY <1>2, <1>3, <1>4, AppendFacts
<1>6. PICK W : W = w.waiting \ {o}
  OBVIOUS
<1>7. v = [c |-> w.c, waiting |-> W, ready |-> r, sends |-> w.sends, overlap |-> w.overlap] /\ W \subseteq Operation
  BY <1>1, <1>2, <1>4, <1>6
<1>8. v \in Worlds /\ v.c = w.c /\ v.sends = w.sends /\ v.overlap = w.overlap /\ v.waiting = W /\ v.ready = r
  BY <1>5, <1>7, WorldFields DEF Worlds
<1>9. Completed(w, v, o, x)
  BY <1>3, <1>4, <1>5, <1>6, <1>8 DEF Completed
<1>10. QED BY <1>1, <1>3, <1>9

(* A completion changes no more than where an operation is to be found. *)
LEMMA CompletedTokens ==
  ASSUME NEW w \in Worlds, NEW v, NEW o, NEW x, Completed(w, v, o, x), NEW K, NEW s
  PROVE  /\ NoneOf(w, K, s) => NoneOf(v, K, s)
         /\ AtMostOne(w, K, s) => AtMostOne(v, K, s)
<1>1. /\ o \in w.waiting /\ x.op = o.op /\ x.sock = o.sock
      /\ v.waiting = w.waiting \ {o}
      /\ Len(w.ready) \in Nat /\ Len(v.ready) = Len(w.ready) + 1 /\ v.ready[Len(w.ready) + 1] = x
      /\ \A i \in 1..Len(w.ready) : v.ready[i] = w.ready[i]
  BY DEF Completed
<1>2. \A i \in 1..Len(v.ready) : (i \in 1..Len(w.ready) /\ v.ready[i] = w.ready[i]) \/ (i = Len(w.ready) + 1 /\ v.ready[i] = x)
  BY <1>1
<1>3. Own(x, K, s) <=> Own(o, K, s)
  BY <1>1 DEF Own
<1>4. ASSUME NoneOf(w, K, s) PROVE NoneOf(v, K, s)
  <2>1. \A p \in v.waiting : ~Own(p, K, s)
    BY <1>1, <1>4 DEF NoneOf
  <2>2. \A i \in 1..Len(v.ready) : ~Own(v.ready[i], K, s)
    BY <1>1, <1>2, <1>3, <1>4 DEF NoneOf
  <2>3. QED BY <2>1, <2>2 DEF NoneOf
<1>5. ASSUME AtMostOne(w, K, s) PROVE AtMostOne(v, K, s)
  <2>1. ASSUME NEW p \in v.waiting, NEW q \in v.waiting, Own(p, K, s), Own(q, K, s) PROVE p = q
    BY <1>1, <1>5, <2>1 DEF AtMostOne
  <2>2. ASSUME NEW i \in 1..Len(v.ready), NEW j \in 1..Len(v.ready), Own(v.ready[i], K, s), Own(v.ready[j], K, s)
        PROVE i = j
    <3>1. CASE i \in 1..Len(w.ready) /\ v.ready[i] = w.ready[i] /\ j \in 1..Len(w.ready) /\ v.ready[j] = w.ready[j]
      BY <1>5, <2>2, <3>1 DEF AtMostOne
    <3>2. CASE i \in 1..Len(w.ready) /\ v.ready[i] = w.ready[i] /\ j = Len(w.ready) + 1 /\ v.ready[j] = x
      BY <1>1, <1>3, <1>5, <2>2, <3>2 DEF AtMostOne
    <3>3. CASE j \in 1..Len(w.ready) /\ v.ready[j] = w.ready[j] /\ i = Len(w.ready) + 1 /\ v.ready[i] = x
      BY <1>1, <1>3, <1>5, <2>2, <3>3 DEF AtMostOne
    <3>4. QED BY <1>2, <3>1, <3>2, <3>3
  <2>3. ASSUME NEW p \in v.waiting, NEW i \in 1..Len(v.ready), Own(p, K, s), Own(v.ready[i], K, s) PROVE FALSE
    <3>1. CASE i \in 1..Len(w.ready) /\ v.ready[i] = w.ready[i]
      BY <1>1, <1>5, <2>3, <3>1 DEF AtMostOne
    <3>2. CASE v.ready[i] = x
      BY <1>1, <1>3, <1>5, <2>3, <3>2 DEF AtMostOne
    <3>3. QED BY <1>2, <3>1, <3>2
  <2>4. QED BY <2>1, <2>2, <2>3 DEF AtMostOne
<1>6. QED BY <1>4, <1>5

(* A completion keeps the invariant: its handler runs behind those of earlier
   sockets. *)
LEMMA CompletedSound ==
  ASSUME NEW w, Sound(w), NEW v, NEW o, NEW x, Completed(w, v, o, x)
  PROVE  Sound(v) /\ Core(w, v) /\ Unposted(w, v) /\ (Done(w) => Done(v))
<1>1. /\ w \in Worlds /\ Typed(w) /\ OneRead(w) /\ Near(w) /\ Ordered(w) /\ Flagged(w) /\ Calm(w) /\ IsFiniteSet(w.waiting) /\ Flushed(w)
      /\ w.waiting \subseteq Operation
  BY WorldFields DEF Sound, Loose, Typed
<1>2. /\ o \in w.waiting /\ x.op = o.op /\ x.sock = o.sock /\ x.ec # "aborted"
      /\ v \in Worlds /\ v.c = w.c /\ v.sends = w.sends /\ v.overlap = w.overlap
      /\ v.waiting = w.waiting \ {o}
      /\ Len(w.ready) \in Nat /\ Len(v.ready) = Len(w.ready) + 1 /\ v.ready[Len(w.ready) + 1] = x
      /\ \A i \in 1..Len(w.ready) : v.ready[i] = w.ready[i]
  BY DEF Completed
<1>3. /\ \A i \in 1..Len(v.ready) : (i \in 1..Len(w.ready) /\ v.ready[i] = w.ready[i]) \/ (i = Len(w.ready) + 1 /\ v.ready[i] = x)
      /\ \A i \in 1..Len(w.ready) : i \in 1..Len(v.ready) /\ v.ready[i] = w.ready[i]
      /\ Len(w.ready) + 1 \in 1..Len(v.ready)
  BY <1>2
<1>4. x.op # "post" /\ x.op # "rejected" /\ x.sock <= w.c.sock /\ (x.op \in OnSocket => x.sock = w.c.sock)
  BY <1>1, <1>2 DEF Near, Operation, Kinds
<1>5. Core(w, v)
  BY <1>2 DEF Core
<1>6. Unposted(w, v)
  BY <1>2, <1>3, <1>4 DEF Unposted, Longer
<1>7. Ordered(v)
  BY <1>1, <1>2, <1>6, OrderKeeps
<1>8. Near(v)
  BY <1>1, <1>2, <1>3, <1>4 DEF Near
<1>9. IsFiniteSet(v.waiting)
  BY <1>1, <1>2, FS_Subset
<1>10. Flagged(v)
  <2>1. SUFFICES ASSUME w.c.write_in_progress
                 PROVE  \/ \E p \in v.waiting : Own(p, {"write"}, v.c.sock)
                        \/ \E i \in 1..Len(v.ready) : v.ready[i].op = "write"
    BY <1>2 DEF Flagged
  <2>2. CASE \E p \in w.waiting : Own(p, {"write"}, w.c.sock)
    <3>1. PICK p \in w.waiting : Own(p, {"write"}, w.c.sock)
      BY <2>2
    <3>2. CASE p = o
      <4>1. v.ready[Len(w.ready) + 1].op = "write"
        BY <1>2, <3>1, <3>2 DEF Own
      <4>2. QED BY <1>3, <4>1
    <3>3. CASE p # o
      BY <1>2, <3>1, <3>3
    <3>4. QED BY <3>2, <3>3
  <2>3. CASE \E i \in 1..Len(w.ready) : w.ready[i].op = "write"
    BY <1>3, <2>3
  <2>4. QED BY <1>1, <2>1, <2>2, <2>3 DEF Flagged
<1>11. Flushed(v)
  BY <1>1, <1>2 DEF Flushed, Live
<1>12. Done(w) => Done(v)
  BY <1>2, <1>3 DEF Done
<1>13. Calm(v)
  <2>1. v.c.closed /\ ~v.overlap => \A p \in v.waiting : p.op # "write"
    BY <1>1, <1>2 DEF Calm
  <2>2. ASSUME ~v.overlap, ~v.c.closed
        PROVE  Fresh(v) /\ AtMostOne(v, Chain, v.c.sock) /\ Behind(v) /\ Phase(v) /\ Writing(v)
    <3>1. Fresh(w) /\ AtMostOne(w, Chain, w.c.sock) /\ Behind(w) /\ Phase(w) /\ Writing(w)
      BY <1>1, <1>2, <2>2 DEF Calm
    <3>2. \A K, s : (NoneOf(w, K, s) => NoneOf(v, K, s)) /\ (AtMostOne(w, K, s) => AtMostOne(v, K, s))
      BY <1>1, CompletedTokens
    <3>3. Fresh(v)
      <4>1. \A p \in v.waiting : p.op \in Attempt => p.sock = v.c.sock
        BY <1>2, <3>1 DEF Fresh
      <4>2. x.op \in Attempt => x.sock = v.c.sock
        BY <1>2, <3>1 DEF Fresh
      <4>3. \A i \in 1..Len(v.ready) :
              v.ready[i].op \in Attempt /\ v.ready[i].ec # "aborted" => v.ready[i].sock = v.c.sock
        BY <1>2, <1>3, <3>1, <4>2 DEF Fresh
      <4>4. QED BY <4>1, <4>3 DEF Fresh
    <3>4. Behind(v)
      <4>1. ASSUME NEW j \in 1..Len(v.ready), v.ready[j].op \in {"header", "body", "write"}, v.ready[j].sock # v.c.sock
            PROVE  \/ \E p \in v.waiting : Own(p, {"resolve"}, v.c.sock)
                   \/ \E i \in 1..Len(v.ready) : j < i /\ Own(v.ready[i], {"resolve"}, v.c.sock)
        <5>2. j \in 1..Len(w.ready) /\ v.ready[j] = w.ready[j]
          BY <1>2, <1>3, <1>4, <4>1 DEF OnSocket
        <5>3. CASE \E p \in w.waiting : Own(p, {"resolve"}, w.c.sock)
          <6>1. PICK p \in w.waiting : Own(p, {"resolve"}, w.c.sock)
            BY <5>3
          <6>2. CASE p = o
            <7>1. j < Len(w.ready) + 1 /\ Own(v.ready[Len(w.ready) + 1], {"resolve"}, v.c.sock)
              BY <1>2, <5>2, <6>1, <6>2 DEF Own
            <7>2. QED BY <1>3, <7>1
          <6>3. CASE p # o
            BY <1>2, <6>1, <6>3
          <6>4. QED BY <6>2, <6>3
        <5>4. CASE \E i \in 1..Len(w.ready) : j < i /\ Own(w.ready[i], {"resolve"}, w.c.sock)
          BY <1>2, <1>3, <5>4
        <5>5. QED BY <1>2, <3>1, <4>1, <5>2, <5>3, <5>4 DEF Behind
      <4>2. ASSUME NEW j \in 1..Len(v.ready), v.ready[j].op = "rejected"
            PROVE  /\ v.c.connection_state # "Connected"
                   /\ \A i \in 1..Len(v.ready) : Own(v.ready[i], {"connect"}, v.c.sock) => j < i
        <5>1. j \in 1..Len(w.ready) /\ w.ready[j].op = "rejected"
          BY <1>2, <1>3, <1>4, <4>2
        <5>2. QED BY <1>2, <1>3, <3>1, <5>1 DEF Behind
      <4>3. QED BY <4>1, <4>2 DEF Behind
    <3>5. AtMostOne(v, Chain, v.c.sock) /\ Phase(v)
      BY <1>2, <3>1, <3>2 DEF Phase
    <3>6. Writing(v)
      <4>1. \A p \in v.waiting : p \in w.waiting
        BY <1>2
      <4>2. QED BY <1>2, <3>1, <3>2, <4>1 DEF Writing
    <3>7. QED BY <3>3, <3>4, <3>5, <3>6
  <2>3. QED BY <2>1, <2>2 DEF Calm
<1>14. OneRead(v)
  <2>1. SUFFICES ASSUME ~w.overlap PROVE OneRead(v)
    BY <1>2 DEF OneRead
  <2>2. Going(x) => o.op = "header"
    BY <1>2, <1>4 DEF Going
  <2>3. ASSUME NEW i \in 1..Len(v.ready), NEW j \in 1..Len(v.ready), Going(v.ready[i]), Going(v.ready[j]) PROVE i = j
    BY <1>1, <1>2, <1>3, <2>1, <2>2, <2>3 DEF OneRead
  <2>4. ASSUME NEW p \in v.waiting, NEW i \in 1..Len(v.ready), p.op = "header", Going(v.ready[i]) PROVE FALSE
    BY <1>1, <1>2, <1>3, <2>1, <2>2, <2>4 DEF OneRead
  <2>5. QED BY <1>1, <1>2, <2>1, <2>3, <2>4 DEF OneRead
<1>15. QED BY <1>2, <1>5, <1>6, <1>7, <1>8, <1>9, <1>10, <1>11, <1>12, <1>13, <1>14 DEF Sound, Loose, Typed

Rising(g) == \A i, j \in 1..Len(g) : i < j => g[i] < g[j]

(* The server receives the first packet of the queue, later than all it has. *)
LEMMA WriteArrives ==
  ASSUME NEW w, Sound(w), NEW v, NEW o, NEW x, Completed(w, v, o, x), x.op = "write", x.ec = "ok",
         NEW g \in Seq(Nat), Sent(w, g), NEW g2, g2 = Append(g, o.packet)
  PROVE  Sent(v, g2) /\ (~w.overlap /\ Rising(g) => Rising(g2))
<1>1. /\ w \in Worlds /\ Near(w) /\ Ordered(w) /\ Calm(w) /\ w.waiting \subseteq Operation
      /\ w.c.write_queue \in Seq(Nat)
  BY WorldFields DEF Sound, Loose, Typed
<1>2. /\ o \in w.waiting /\ o.op = "write" /\ x.sock = o.sock /\ o \in Operation
      /\ v.c = w.c /\ v.sends = w.sends /\ v.overlap = w.overlap
      /\ Len(w.ready) \in Nat /\ Len(v.ready) = Len(w.ready) + 1 /\ v.ready[Len(w.ready) + 1] = x
      /\ \A i \in 1..Len(w.ready) : v.ready[i] = w.ready[i]
  BY <1>1 DEF Completed
<1>3. Own(o, {"write"}, w.c.sock) /\ Own(x, {"write"}, w.c.sock)
  BY <1>1, <1>2 DEF Near, Own, OnSocket
<1>4. ASSUME ~w.overlap
      PROVE  ~w.c.closed /\ w.c.connection_state = "Connected" /\ Writing(w)
  <2>1. ~w.c.closed
    BY <1>1, <1>2, <1>4 DEF Calm
  <2>2. Phase(w) /\ Writing(w)
    BY <1>1, <1>4, <2>1 DEF Calm
  <2>3. ~NoneOf(w, {"header", "body", "write"}, w.c.sock)
    BY <1>2, <1>3 DEF NoneOf, Own
  <2>4. QED BY <2>1, <2>2, <2>3 DEF Phase
<1>5. PICK p : p = o.packet
  OBVIOUS
<1>6. p \in Nat /\ g2 = Append(g, p)
  BY <1>2, <1>5 DEF Operation
<1>7. /\ g2 \in Seq(Nat) /\ Len(g) \in Nat /\ Len(g2) = Len(g) + 1
      /\ \A k \in 1..Len(g2) : (k \in 1..Len(g) /\ g2[k] = g[k]) \/ (k = Len(g) + 1 /\ g2[k] = p)
  BY <1>6
<1>8. ASSUME ~w.overlap
      PROVE  1 \in 1..Len(w.c.write_queue) /\ p = w.c.write_queue[1] /\ ~Done(w) /\ Done(v)
  <2>1. w.c.write_queue # <<>> /\ p = Head(w.c.write_queue)
    BY <1>2, <1>3, <1>4, <1>5, <1>8 DEF Writing
  <2>2. 1 \in 1..Len(w.c.write_queue) /\ Head(w.c.write_queue) = w.c.write_queue[1]
    BY <1>1, <2>1
  <2>3. ~Done(w)
    BY <1>2, <1>3, <1>4, <1>8 DEF Done, Writing, AtMostOne
  <2>4. Done(v)
    <3>1. Len(w.ready) + 1 \in 1..Len(v.ready)
      BY <1>2
    <3>2. QED BY <1>2, <1>3, <3>1 DEF Done
  <2>5. QED BY <2>1, <2>2, <2>3, <2>4
<1>9. ASSUME ~w.overlap, NEW k \in 1..Len(g)
      PROVE  /\ g[k] <= w.sends
             /\ \A i \in 1..Len(w.ready) : w.ready[i].op = "post" => g[k] < w.ready[i].packet
             /\ \A i \in 1..Len(w.c.write_queue) : g[k] < w.c.write_queue[i]
  BY <1>4, <1>8, <1>9 DEF Sent
<1>10. ASSUME ~w.overlap, Rising(g) PROVE Rising(g2)
  <2>1. SUFFICES ASSUME NEW i \in 1..Len(g2), NEW j \in 1..Len(g2), i < j PROVE g2[i] < g2[j]
    BY DEF Rising
  <2>2. i \in 1..Len(g) /\ g2[i] = g[i]
    BY <1>7, <2>1
  <2>3. CASE j \in 1..Len(g) /\ g2[j] = g[j]
    BY <1>10, <2>1, <2>2, <2>3 DEF Rising
  <2>4. CASE g2[j] = p
    BY <1>8, <1>9, <1>10, <2>2, <2>4
  <2>5. QED BY <1>7, <2>3, <2>4
<1>11. ASSUME ~w.overlap, NEW k \in 1..Len(g2)
       PROVE  /\ g2[k] <= v.sends
              /\ \A i \in 1..Len(v.ready) : v.ready[i].op = "post" => g2[k] < v.ready[i].packet
              /\ \A i \in 1..Len(v.c.write_queue) :
                   g2[k] < v.c.write_queue[i] \/ (i = 1 /\ g2[k] = v.c.write_queue[1] /\ Done(v))
  <2>1. \A i \in 1..Len(v.ready) : v.ready[i].op = "post" => i \in 1..Len(w.ready) /\ v.ready[i] = w.ready[i]
    <3>1. x.op # "post"
      OBVIOUS
    <3>2. \A i \in 1..Len(v.ready) : i \in 1..Len(w.ready) \/ i = Len(w.ready) + 1
      BY <1>2
    <3>3. ASSUME NEW i \in 1..Len(v.ready), v.ready[i].op = "post"
          PROVE  i \in 1..Len(w.ready) /\ v.ready[i] = w.ready[i]
      <4>1. CASE i = Len(w.ready) + 1
        BY <1>2, <3>1, <3>3, <4>1
      <4>2. CASE i \in 1..Len(w.ready)
        BY <1>2, <4>2
      <4>3. QED BY <3>2, <4>1, <4>2
    <3>4. QED BY <3>3
  <2>2. CASE k \in 1..Len(g) /\ g2[k] = g[k]
    BY <1>2, <1>9, <1>11, <2>1, <2>2
  <2>3. CASE g2[k] = p
    <3>1. p <= w.sends
      BY <1>1, <1>8, <1>11 DEF Ordered
    <3>2. \A i \in 1..Len(w.ready) : w.ready[i].op = "post" => p < w.ready[i].packet
      BY <1>1, <1>8, <1>11 DEF Ordered
    <3>3. \A i \in 1..Len(w.c.write_queue) : i # 1 => p < w.c.write_queue[i]
      <4>1. \A i \in 1..Len(w.c.write_queue) : i # 1 => 1 < i
        OBVIOUS
      <4>2. QED BY <1>1, <1>8, <1>11, <4>1 DEF Ordered
    <3>4. QED BY <1>2, <1>8, <1>11, <2>1, <2>3, <3>1, <3>2, <3>3
  <2>4. QED BY <1>7, <2>2, <2>3
<1>12. Sent(v, g2)
  BY <1>2, <1>4, <1>11 DEF Sent
<1>13. QED BY <1>10, <1>12
-----------------------------------------------------------------------------
(* The invariant of the specification. *)

Peers == [Socket -> [up : BOOLEAN, welcomed : BOOLEAN, got : Seq(Nat)]]

\* What is shown, by what the UI thread u is doing.
Seen(c, u) ==
    /\ u # "begin" => (c.closed <=> c.connection_state \in {"Disconnected", "Failed"})
    /\ u = "begin" => c.closed /\ c.connection_state # "Connecting"
    /\ u = "ready" => c.connection = c.connection_state

\* Each socket, and each one still to come, was asked for by the user.
Within(c, u, n) ==
    /\ n \in Nat /\ n <= MaxRequests /\ 1 <= c.sock
    /\ c.sock + (IF c.endpoint_edited THEN 1 ELSE 0) + (IF u = "ready" THEN 0 ELSE 1) <= n + 1

Served(w, p) ==
    /\ p \in Peers
    /\ \A s \in Socket : w.c.sock < s => p[s].got = <<>>
    /\ Sent(w, p[w.c.sock].got)
    /\ ~w.overlap => \A s \in Socket : Rising(p[s].got)

Invariant(w, r, u, p, n) ==
    /\ Sound(w) /\ r \in BOOLEAN /\ u \in {"ready", "close", "begin"}
    /\ Seen(w.c, u) /\ Within(w.c, u, n) /\ Served(w, p)

\* The inductive invariant.
ClientInv == Invariant(World, io_running, ui, peer, requests)

(* The socket in use is one of those the peer knows. *)
LEMMA InUse ==
  ASSUME NEW w, Sound(w), NEW u, NEW n, Within(w.c, u, n), NEW p, Served(w, p)
  PROVE  /\ w.c.sock \in Nat /\ w.c.sock \in Socket /\ w \in Worlds /\ w.c \in Clients
         /\ p[w.c.sock].got \in Seq(Nat)
         /\ \A s \in Socket : s \in Nat /\ p[s].got \in Seq(Nat)
<1>1. w \in Worlds /\ w.c.sock \in Nat /\ w.c \in Clients
  BY WorldFields DEF Sound, Loose, Typed
<1>2. w.c.sock \in Socket
  <2>1. w.c.sock <= n + 1 /\ n \in Nat /\ n <= MaxRequests /\ 1 <= w.c.sock
    BY <1>1 DEF Within
  <2>2. QED BY <1>1, <2>1, BoundsNat DEF Socket
<1>3. \A s \in Socket : s \in Nat /\ p[s].got \in Seq(Nat)
  BY BoundsNat DEF Served, Peers, Socket
<1>4. QED BY <1>1, <1>2, <1>3

(* The handlers keep the invariant. *)
LEMMA GoodInvariant ==
  ASSUME NEW w, NEW r, NEW u, NEW p, NEW n, Invariant(w, r, u, p, n), NEW v, Good(w, v)
  PROVE  Invariant(v, r, u, p, n)
<1>1. Sound(w) /\ u \in {"ready", "close", "begin"} /\ Seen(w.c, u) /\ Within(w.c, u, n) /\ Served(w, p)
  BY DEF Invariant
<1>2. /\ w.c.sock \in Nat /\ w.c.sock \in Socket /\ w \in Worlds /\ p[w.c.sock].got \in Seq(Nat)
      /\ \A s \in Socket : s \in Nat
      /\ w.c \in Clients
  BY <1>1, InUse
<1>3. Sound(v) /\ (~v.overlap => ~w.overlap) /\ (Same(w, v) \/ Ended(w, v) \/ Opened(w, v))
  BY DEF Good
<1>4. v \in Worlds /\ v.c \in Clients /\ v.c.sock \in Nat
  BY <1>3, WorldFields DEF Sound, Loose, Typed
<1>5. Seen(v.c, u)
  <2>1. CASE Same(w, v)
    BY <1>1, <2>1 DEF Same, Seen
  <2>2. CASE Ended(w, v)
    BY <2>2 DEF Ended, Seen
  <2>3. CASE Opened(w, v)
    BY <1>1, <2>3 DEF Opened, Seen
  <2>4. QED BY <1>3, <2>1, <2>2, <2>3
<1>6. Within(v.c, u, n) /\ (v.c.sock = w.c.sock \/ v.c.sock = w.c.sock + 1)
  <2>1. CASE v.c.sock = w.c.sock /\ v.c.endpoint_edited = w.c.endpoint_edited
    BY <1>1, <2>1 DEF Within
  <2>2. CASE v.c.sock = w.c.sock + 1 /\ w.c.endpoint_edited /\ v.c.endpoint_edited = FALSE
    BY <1>1, <1>2, <2>2 DEF Within
  <2>3. QED BY <1>3, <2>1, <2>2 DEF Same, Ended, Opened
<1>7. Served(v, p)
  <2>1. /\ p \in Peers /\ (\A s \in Socket : w.c.sock < s => p[s].got = <<>>) /\ Sent(w, p[w.c.sock].got)
        /\ (~w.overlap => \A s \in Socket : Rising(p[s].got))
    BY <1>1 DEF Served
  <2>2. \A s \in Socket : v.c.sock < s => p[s].got = <<>>
    BY <1>2, <1>4, <1>6, <2>1
  <2>3. Sent(v, p[v.c.sock].got)
    <3>1. PICK g : g = p[w.c.sock].got
      OBVIOUS
    <3>2. (v.c.sock = w.c.sock => Sent(v, g)) /\ (v.c.sock # w.c.sock => Sent(v, <<>>))
      BY <1>2, <2>1, <3>1 DEF Good
    <3>3. CASE v.c.sock = w.c.sock
      BY <3>1, <3>2, <3>3
    <3>4. CASE v.c.sock # w.c.sock
      <4>1. v.c.sock \in Socket /\ w.c.sock < v.c.sock
        <5>1. v.c.sock = w.c.sock + 1
          BY <1>6, <3>4
        <5>2. v.c.sock <= n + 1 /\ n \in Nat /\ n <= MaxRequests
          BY <1>4, <1>6 DEF Within
        <5>3. QED BY <1>2, <1>4, <5>1, <5>2, BoundsNat DEF Socket
      <4>2. p[v.c.sock].got = <<>>
        BY <2>1, <4>1
      <4>3. QED BY <3>2, <3>4, <4>2
    <3>5. QED BY <3>3, <3>4
  <2>4. QED BY <1>3, <2>1, <2>2, <2>3 DEF Served
<1>8. QED BY <1>3, <1>5, <1>6, <1>7 DEF Invariant

(* So do completions that bring the server no packet. *)
LEMMA CompletedInvariant ==
  ASSUME NEW w, NEW r, NEW u, NEW p, NEW n, Invariant(w, r, u, p, n), NEW v, NEW o, NEW x, Completed(w, v, o, x),
         NEW p2 \in Peers, \A s \in Socket : p2[s].got = p[s].got
  PROVE  Invariant(v, r, u, p2, n)
<1>1. Sound(w) /\ Within(w.c, u, n) /\ Served(w, p) /\ Seen(w.c, u)
  BY DEF Invariant
<1>2. w.c.sock \in Socket /\ w \in Worlds
  BY <1>1, InUse
<1>3. Sound(v) /\ Core(w, v) /\ Unposted(w, v) /\ (Done(w) => Done(v)) /\ v.c = w.c /\ v.overlap = w.overlap /\ v \in Worlds
  <2>1. Sound(v) /\ Core(w, v) /\ Unposted(w, v) /\ (Done(w) => Done(v))
    BY <1>1, CompletedSound
  <2>2. QED BY <2>1 DEF Completed
<1>4. PICK g : g = p[w.c.sock].got
  OBVIOUS
<1>5. Sent(w, g) /\ p2[v.c.sock].got = g
  BY <1>1, <1>2, <1>3, <1>4 DEF Served
<1>6. Sent(v, g)
  BY <1>2, <1>3, <1>5, SentKeeps
<1>7. Served(v, p2)
  BY <1>1, <1>3, <1>5, <1>6 DEF Served
<1>8. QED BY <1>1, <1>3, <1>7 DEF Invariant

(* And those that bring one. *)
LEMMA ArrivedInvariant ==
  ASSUME NEW w, NEW r, NEW u, NEW p, NEW n, Invariant(w, r, u, p, n), NEW v, NEW o, NEW x, Completed(w, v, o, x),
         x.op = "write", x.ec = "ok", NEW p2, p2 = [p EXCEPT ![o.sock].got = Append(@, o.packet)]
  PROVE  Invariant(v, r, u, p2, n)
<1>1. Sound(w) /\ Within(w.c, u, n) /\ Served(w, p) /\ Seen(w.c, u)
  BY DEF Invariant
<1>2. /\ w.c.sock \in Nat /\ w.c.sock \in Socket /\ w \in Worlds /\ p[w.c.sock].got \in Seq(Nat)
      /\ \A s \in Socket : s \in Nat
  BY <1>1, InUse
<1>3. Sound(v) /\ v.c = w.c /\ v.overlap = w.overlap
  <2>1. Sound(v)
    BY <1>1, CompletedSound
  <2>2. QED BY <2>1 DEF Completed
<1>4. PICK s, g, g2 : s = w.c.sock /\ g = p[s].got /\ g2 = Append(g, o.packet)
  OBVIOUS
<1>5. o.sock = s /\ o.packet \in Nat
  <2>1. o \in w.waiting /\ o.op = "write"
    BY DEF Completed
  <2>2. w.waiting \subseteq Operation /\ Near(w)
    BY <1>1, <1>2, WorldFields DEF Sound, Loose, Typed
  <2>3. QED BY <1>4, <2>1, <2>2 DEF Near, OnSocket, Operation
<1>6. p \in Peers /\ g \in Seq(Nat) /\ Sent(w, g) /\ s \in Socket
  BY <1>1, <1>2, <1>4 DEF Served
<1>7. g2 \in Seq(Nat)
  BY <1>4, <1>5, <1>6
<1>8. Sent(v, g2) /\ (~w.overlap /\ Rising(g) => Rising(g2))
  BY <1>1, <1>4, <1>6, WriteArrives
<1>9. p2 = [p EXCEPT ![s].got = g2]
  BY <1>4, <1>5
<1>10. p2 \in Peers /\ p2[s].got = g2 /\ \A z \in Socket : z # s => p2[z].got = p[z].got
  <2>1. PICK q : q = [p[s] EXCEPT !.got = g2]
    OBVIOUS
  <2>2. p[s] \in [up : BOOLEAN, welcomed : BOOLEAN, got : Seq(Nat)]
    BY <1>6 DEF Peers
  <2>3. q \in [up : BOOLEAN, welcomed : BOOLEAN, got : Seq(Nat)] /\ q.got = g2
    BY <1>7, <2>1, <2>2
  <2>4. p2 = [p EXCEPT ![s] = q]
    BY <1>9, <2>1
  <2>5. QED BY <1>6, <2>3, <2>4 DEF Peers
<1>11. Served(v, p2)
  <2>1. \A z \in Socket : v.c.sock < z => p2[z].got = <<>>
    <3>1. \A z \in Socket : s < z => z # s
      BY <1>2, <1>4
    <3>2. QED BY <1>1, <1>3, <1>4, <1>10, <3>1 DEF Served
  <2>2. Sent(v, p2[v.c.sock].got)
    BY <1>3, <1>4, <1>8, <1>10
  <2>3. ~v.overlap => \A z \in Socket : Rising(p2[z].got)
    BY <1>1, <1>3, <1>4, <1>6, <1>8, <1>10 DEF Served
  <2>4. QED BY <1>10, <2>1, <2>2, <2>3 DEF Served
<1>12. QED BY <1>1, <1>3, <1>11 DEF Invariant

(* send() keeps it. *)
LEMMA SendInvariant ==
  ASSUME NEW w, NEW r, NEW u, NEW p, NEW n, Invariant(w, r, u, p, n), NEW v, v = send(w)
  PROVE  Invariant(v, r, u, p, n)
<1>1. Sound(w) /\ Loose(w) /\ Flushed(w)
  BY DEF Invariant, Sound
<1>2. /\ Loose(v) /\ v.c = w.c /\ v.overlap = w.overlap /\ (Flushed(w) => Flushed(v))
      /\ \A g \in Seq(Nat) : Sent(w, g) => Sent(v, g)
  BY <1>1, Send
<1>3. Good(w, v)
  BY <1>1, <1>2 DEF Good, Sound, Same
<1>4. QED BY <1>3, GoodInvariant

(* What the UI thread changes of the client alone. *)
LEMMA ShownInvariant ==
  ASSUME NEW w, NEW r, NEW u, NEW p, NEW n, Invariant(w, r, u, p, n), NEW v, OnlyClient(w, v), Core(w, v),
         NEW u2 \in {"ready", "close", "begin"}, NEW n2, Seen(v.c, u2), Within(v.c, u2, n2)
  PROVE  Invariant(v, r, u2, p, n2)
<1>1. Loose(w) /\ Flushed(w) /\ Served(w, p)
  BY DEF Invariant, Sound
<1>2. Loose(v) /\ (Flushed(w) => Flushed(v)) /\ \A g : Sent(w, g) => Sent(v, g)
  BY <1>1, CoreKeeps
<1>3. Served(v, p)
  BY <1>1, <1>2 DEF Served, Core
<1>4. QED BY <1>1, <1>2, <1>3 DEF Invariant, Sound

(* reconnect(), its first call. *)
LEMMA CloseInvariant ==
  ASSUME NEW w, NEW r, NEW p, NEW n, Invariant(w, r, "close", p, n), NEW v, v = close_connection(w, FALSE)
  PROVE  Invariant(v, r, "begin", p, n)
<1>1. Sound(w) /\ Typed(w) /\ Within(w.c, "close", n) /\ Served(w, p) /\ r \in BOOLEAN
  BY DEF Invariant, Sound, Loose
<1>2. FALSE \in BOOLEAN
  OBVIOUS
<1>3. /\ Sound(v) /\ (\A g : Sent(v, g)) /\ v.c.closed = TRUE /\ v.c.sock = w.c.sock /\ v.overlap = w.overlap
      /\ v.c.endpoint_edited = w.c.endpoint_edited /\ v.c.connection_state # "Connecting"
  BY <1>1, <1>2, CloseConnection, ZenonT(60)
<1>4. Seen(v.c, "begin") /\ Within(v.c, "begin", n)
  BY <1>1, <1>3 DEF Seen, Within
<1>5. Served(v, p)
  BY <1>1, <1>3 DEF Served
<1>6. QED BY <1>1, <1>3, <1>4, <1>5 DEF Invariant

(* reconnect(), its second call. *)
LEMMA BeginInvariant ==
  ASSUME NEW w, NEW r, NEW p, NEW n, Invariant(w, r, "begin", p, n), NEW v, v = begin_connect(w)
  PROVE  Invariant(v, r, "ready", p, n)
<1>1. /\ Sound(w) /\ Typed(w) /\ Flagged(w) /\ Seen(w.c, "begin") /\ Within(w.c, "begin", n) /\ Served(w, p)
      /\ r \in BOOLEAN
  BY DEF Invariant, Sound, Loose
<1>2. w.c.connection_state # "Connecting"
  BY <1>1 DEF Seen
<1>3. /\ Sound(v) /\ Sent(v, <<>>) /\ (~v.overlap => ~w.overlap)
      /\ v.c.connection_state = "Connecting" /\ v.c.connection = "Connecting" /\ v.c.closed = FALSE
      /\ v.c.sock = w.c.sock + 1 /\ v.c.endpoint_edited = w.c.endpoint_edited
  BY <1>1, <1>2, BeginConnect
<1>4. w.c.sock \in Nat /\ \A s \in Socket : s \in Nat
  BY <1>1, InUse
<1>5. Seen(v.c, "ready")
  BY <1>3 DEF Seen
<1>6. Within(v.c, "ready", n) /\ v.c.sock \in Socket
  <2>1. Within(v.c, "ready", n)
    BY <1>1, <1>3, <1>4 DEF Within
  <2>2. v.c.sock \in Nat /\ v.c.sock <= n + 1 /\ n \in Nat /\ n <= MaxRequests /\ 1 <= v.c.sock
    BY <1>3, <1>4, <2>1 DEF Within
  <2>3. QED BY <2>1, <2>2, BoundsNat DEF Socket
<1>7. Served(v, p)
  <2>1. /\ p \in Peers /\ (\A s \in Socket : w.c.sock < s => p[s].got = <<>>)
        /\ (~w.overlap => \A s \in Socket : Rising(p[s].got))
    BY <1>1 DEF Served
  <2>2. p[v.c.sock].got = <<>>
    BY <1>3, <1>4, <1>6, <2>1
  <2>3. \A s \in Socket : v.c.sock < s => p[s].got = <<>>
    BY <1>3, <1>4, <2>1
  <2>4. QED BY <1>3, <2>1, <2>2, <2>3 DEF Served
<1>8. QED BY <1>1, <1>3, <1>5, <1>6, <1>7 DEF Invariant

(* The record of the variables after a step. *)
LEMMA NextWorld ==
  ASSUME NEW e \in Worlds, Becomes(e)
  PROVE  World' = e
<1>1. client' = e.c /\ waiting' = e.waiting /\ ready' = e.ready /\ sends' = e.sends /\ overlap' = e.overlap
  BY DEF Becomes
<1>2. QED BY <1>1 DEF World, Worlds

(* A handler that is good for the world is good for the specification. *)
LEMMA GoodStep ==
  ASSUME ClientInv, NEW w, w = World, NEW e, Good(w, e), Becomes(e), UNCHANGED <<io_running, ui, peer, requests>>
  PROVE  ClientInv'
<1>1. e \in Worlds
  BY DEF Good, Sound, Loose, Typed
<1>2. World' = e
  BY <1>1, NextWorld
<1>3. PICK r, u, p, n : r = io_running /\ u = ui /\ p = peer /\ n = requests
  OBVIOUS
<1>4. Invariant(w, r, u, p, n)
  BY <1>3 DEF ClientInv
<1>5. Invariant(e, r, u, p, n)
  BY <1>4, GoodInvariant
<1>6. io_running' = r /\ ui' = u /\ peer' = p /\ requests' = n
  BY <1>3
<1>7. QED BY <1>2, <1>5, <1>6 DEF ClientInv

(* The state a handler starts from. *)
LEMMA HandlerStarts ==
  ASSUME ClientInv, NEW kind, Handle(kind), NEW w, w = World, NEW t, t = Taken, NEW h, h = Head(ready)
  PROVE  /\ Sound(w) /\ Agreed(w) /\ Takes(w, t, h) /\ h.op = kind /\ h.ec = Result
         /\ w.c = client
<1>1. Sound(w) /\ ui \in {"ready", "close", "begin"} /\ Seen(w.c, ui) /\ w.ready = ready /\ w.c = client
  BY DEF ClientInv, Invariant, World
<1>2. w \in Worlds /\ w.c.connection_state \in States
  BY <1>1, WorldFields DEF Sound, Loose, Typed
<1>3. w.ready # <<>> /\ h = Head(w.ready) /\ h.op = kind /\ h.ec = Result
  BY <1>1 DEF Handle, Result
<1>4. t = Took(w)
  BY DEF Taken, Took
<1>5. Takes(w, t, h)
  BY <1>2, <1>3, <1>4, TookTakes
<1>6. Agreed(w)
  BY <1>1, <1>2 DEF Agreed, Seen, States
<1>7. QED BY <1>1, <1>3, <1>5, <1>6

(* The io thread keeps the invariant. *)
LEMMA HandlersKeep ==
  ASSUME ClientInv, RunHandler
  PROVE  ClientInv'
<1>1. PICK w, t, h : w = World /\ t = Taken /\ h = Head(ready)
  OBVIOUS
<1>2. CASE RunResolve
  <2>1. Handle("resolve") /\ UNCHANGED <<io_running, ui, peer, requests>>
    BY <1>2 DEF RunResolve
  <2>2. Sound(w) /\ Agreed(w) /\ Takes(w, t, h) /\ h.op = "resolve" /\ h.ec = Result /\ w.c = client
    BY <1>1, <2>1, HandlerStarts
  <2>3. PICK e : e = IF w.c.closed THEN t
                     ELSE IF h.ec # "ok" THEN on_connect_result(t, h.ec)
                     ELSE LET x == close_socket(cancel_connect_timeout(t))
                          IN  [x EXCEPT !.waiting = @ \cup {Op("timer", w.c.sock), Op("connect", w.c.sock)}]
    OBVIOUS
  <2>4. Good(w, e)
    BY <2>2, <2>3, HandleResolve
  <2>5. Becomes(e)
    BY <1>1, <1>2, <2>2, <2>3 DEF RunResolve
  <2>6. QED BY <1>1, <2>1, <2>4, <2>5, GoodStep
<1>3. CASE RunTimer
  <2>1. Handle("timer") /\ UNCHANGED <<io_running, ui, peer, requests>>
    BY <1>3 DEF RunTimer
  <2>2. Sound(w) /\ Agreed(w) /\ Takes(w, t, h) /\ h.op = "timer" /\ h.ec = Result /\ w.c = client
    BY <1>1, <2>1, HandlerStarts
  <2>3. PICK e : e = IF h.ec = "aborted" \/ w.c.closed \/ w.c.connection_state # "Connecting"
                     THEN t ELSE on_connect_result(close_socket(t), "timed_out")
    OBVIOUS
  <2>4. Good(w, e)
    BY <2>2, <2>3, HandleTimer
  <2>5. Becomes(e)
    BY <1>1, <1>3, <2>2, <2>3 DEF RunTimer
  <2>6. QED BY <1>1, <2>1, <2>4, <2>5, GoodStep
<1>4. CASE RunConnect
  <2>1. Handle("connect") /\ UNCHANGED <<io_running, ui, peer, requests>>
    BY <1>4 DEF RunConnect
  <2>2. Sound(w) /\ Agreed(w) /\ Takes(w, t, h) /\ h.op = "connect" /\ h.ec = Result /\ w.c = client
    BY <1>1, <2>1, HandlerStarts
  <2>3. PICK e : e = on_connect_result(cancel_connect_timeout(t), IF is_open(w) THEN h.ec ELSE "aborted")
    OBVIOUS
  <2>4. Good(w, e)
    <3>1. PICK ec : ec = IF is_open(w) THEN h.ec ELSE "aborted"
      OBVIOUS
    <3>2. (ec = h.ec \/ ec = "aborted") /\ e = on_connect_result(cancel_connect_timeout(t), ec)
      BY <2>3, <3>1
    <3>3. QED BY <2>2, <3>2, HandleConnect
  <2>5. Becomes(e)
    BY <1>1, <1>4, <2>2, <2>3 DEF RunConnect
  <2>6. QED BY <1>1, <2>1, <2>4, <2>5, GoodStep
<1>5. CASE RunHeader
  <2>1. Handle("header") /\ UNCHANGED <<io_running, ui, peer, requests>>
    BY <1>5 DEF RunHeader
  <2>2. Sound(w) /\ Agreed(w) /\ Takes(w, t, h) /\ h.op = "header" /\ h.ec = Result /\ w.c = client
    BY <1>1, <2>1, HandlerStarts
  <2>3. PICK e : e = IF t.c.closed THEN t ELSE IF h.ec = "ok" THEN do_read_body(t) ELSE close_connection(t, TRUE)
    OBVIOUS
  <2>4. Good(w, e)
    BY <2>2, <2>3, HandleHeader
  <2>5. Becomes(e)
    <3>1. t.c = client
      BY <2>2 DEF Takes
    <3>2. QED BY <1>1, <1>5, <2>2, <2>3, <3>1 DEF RunHeader
  <2>6. QED BY <1>1, <2>1, <2>4, <2>5, GoodStep
<1>9. CASE RunBody
  <2>1. PICK kind \in {"body", "rejected"} : Handle(kind)
    BY <1>9 DEF RunBody
  <2>2. UNCHANGED <<io_running, ui, peer, requests>>
    BY <1>9 DEF RunBody
  <2>3. Sound(w) /\ Agreed(w) /\ Takes(w, t, h) /\ h.op = kind /\ h.ec = Result /\ w.c = client
    BY <1>1, <2>1, HandlerStarts
  <2>4. PICK e : e = AfterBody(t, h.ec)
    OBVIOUS
  <2>5. Good(w, e)
    BY <2>1, <2>3, <2>4, HandleBody
  <2>6. Becomes(e)
    <3>1. t.c = client
      BY <2>3 DEF Takes
    <3>2. QED BY <1>1, <1>9, <2>3, <2>4, <3>1 DEF RunBody, AfterBody
  <2>7. QED BY <1>1, <2>2, <2>5, <2>6, GoodStep
<1>6. CASE RunWrite
  <2>1. Handle("write") /\ UNCHANGED <<io_running, ui, peer, requests>>
    BY <1>6 DEF RunWrite
  <2>2. Sound(w) /\ Agreed(w) /\ Takes(w, t, h) /\ h.op = "write" /\ h.ec = Result /\ w.c = client
    BY <1>1, <2>1, HandlerStarts
  <2>3. PICK e : e = IF w.c.connection_state # "Connected" THEN Unset(t)
                     ELSE IF h.ec = "ok" THEN do_write(Dequeued(Unset(t)))
                     ELSE close_connection(Unset(t), TRUE)
    OBVIOUS
  <2>4. Good(w, e)
    BY <2>2, <2>3, HandleWrite
  <2>5. Becomes(e)
    BY <1>1, <1>6, <2>2, <2>3 DEF RunWrite, Unset, Dequeued
  <2>6. QED BY <1>1, <2>1, <2>4, <2>5, GoodStep
<1>7. CASE RunPost
  <2>1. Handle("post") /\ UNCHANGED <<io_running, ui, peer, requests>>
    BY <1>7 DEF RunPost
  <2>2. Sound(w) /\ Agreed(w) /\ Takes(w, t, h) /\ h.op = "post" /\ h.ec = Result /\ w.c = client
    BY <1>1, <2>1, HandlerStarts
  <2>3. PICK e : e = CASE w.c.connection_state = "Connecting" -> Queued(t, h.packet)
                       [] w.c.connection_state = "Connected" -> do_write(Queued(t, h.packet))
                       [] OTHER -> t
    OBVIOUS
  <2>4. Good(w, e)
    BY <2>2, <2>3, HandlePost
  <2>5. Becomes(e)
    BY <1>1, <1>7, <2>2, <2>3 DEF RunPost, Queued
  <2>6. QED BY <1>1, <2>1, <2>4, <2>5, GoodStep
<1>8. QED BY <1>2, <1>3, <1>4, <1>5, <1>6, <1>7, <1>9 DEF RunHandler

(* What a completion does to the variables. *)
LEMMA CompletesAs ==
  ASSUME ClientInv, NEW o \in waiting, NEW ec \in {"ok", "error", "message", "welcome"}, Completes(o, ec),
         NEW w, w = World, NEW v, v = World'
  PROVE  /\ Completed(w, v, o, Completion(o, ec)) /\ Completion(o, ec).ec = ec /\ Completion(o, ec).op = o.op
         /\ io_running' = io_running /\ ui' = ui /\ requests' = requests
         /\ Invariant(w, io_running, ui, peer, requests)
<1>1. /\ client' = client /\ waiting' = waiting \ {o} /\ ready' = Append(ready, Completion(o, ec))
      /\ sends' = sends /\ overlap' = overlap /\ io_running' = io_running /\ ui' = ui /\ requests' = requests
  BY DEF Completes
<1>2. w \in Worlds /\ o \in w.waiting /\ Invariant(w, io_running, ui, peer, requests)
  BY DEF ClientInv, Invariant, Sound, Loose, Typed, World
<1>3. v = [c |-> w.c, waiting |-> w.waiting \ {o}, ready |-> Append(w.ready, Completion(o, ec)),
           sends |-> w.sends, overlap |-> w.overlap]
  <2>1. PICK W, q : W = waiting \ {o} /\ q = Append(ready, Completion(o, ec))
    OBVIOUS
  <2>2. v = [c |-> client, waiting |-> W, ready |-> q, sends |-> sends, overlap |-> overlap]
    BY <1>1, <2>1 DEF World
  <2>3. w.c = client /\ w.waiting = waiting /\ w.ready = ready /\ w.sends = sends /\ w.overlap = overlap
    BY DEF World
  <2>4. QED BY <2>1, <2>2, <2>3
<1>4. Completed(w, v, o, Completion(o, ec)) /\ Completion(o, ec).ec = ec
  BY <1>2, <1>3, CompletedFields
<1>5. QED BY <1>1, <1>2, <1>4 DEF Completion

(* A completion that brings the server no packet. *)
LEMMA CompletesKeeps ==
  ASSUME ClientInv, NEW o \in waiting, NEW ec \in {"ok", "error", "message", "welcome"}, Completes(o, ec),
         peer' \in Peers, \A s \in Socket : peer'[s].got = peer[s].got
  PROVE  ClientInv'
<1>1. PICK w, v, x, r, u, p, n, p2 : /\ w = World /\ v = World' /\ x = Completion(o, ec)
                                     /\ r = io_running /\ u = ui /\ p = peer /\ n = requests /\ p2 = peer'
  OBVIOUS
<1>2. Completed(w, v, o, x) /\ Invariant(w, r, u, p, n) /\ io_running' = r /\ ui' = u /\ requests' = n
  BY <1>1, CompletesAs
<1>3. p2 \in Peers /\ \A s \in Socket : p2[s].got = p[s].got
  BY <1>1
<1>4. Invariant(v, r, u, p2, n)
  BY <1>2, <1>3, CompletedInvariant
<1>5. QED BY <1>1, <1>2, <1>4 DEF ClientInv

\* The link of socket s goes up or down, is welcomed, or stays as it is.
Linked(p, s, p2) ==
    \/ p2 = [p EXCEPT ![s].up = TRUE]
    \/ p2 = [p EXCEPT ![s].up = FALSE]
    \/ p2 = [p EXCEPT ![s].welcomed = TRUE]
    \/ p2 = p

(* It leaves alone what the server has. *)
LEMMA LinkSet ==
  ASSUME NEW p \in Peers, NEW s, NEW p2, Linked(p, s, p2)
  PROVE  p2 \in Peers /\ \A z \in Socket : p2[z].got = p[z].got
<1>1. CASE p2 = p
  BY <1>1
<1>2. CASE s \in Socket /\ p2 # p
  <2>1. p[s] \in [up : BOOLEAN, welcomed : BOOLEAN, got : Seq(Nat)]
    BY <1>2 DEF Peers
  <2>2. PICK q \in [up : BOOLEAN, welcomed : BOOLEAN, got : Seq(Nat)] : q.got = p[s].got /\ p2 = [p EXCEPT ![s] = q]
    <3>1. CASE p2 = [p EXCEPT ![s].up = TRUE]
      BY <2>1, <3>1
    <3>2. CASE p2 = [p EXCEPT ![s].up = FALSE]
      BY <2>1, <3>2
    <3>3. CASE p2 = [p EXCEPT ![s].welcomed = TRUE]
      BY <2>1, <3>3
    <3>4. QED BY <1>2, <3>1, <3>2, <3>3 DEF Linked
  <2>3. QED BY <1>2, <2>2 DEF Peers
<1>3. CASE s \notin Socket
  <2>1. p2 = p
    BY <1>3 DEF Linked, Peers
  <2>2. QED BY <2>1
<1>4. QED BY <1>1, <1>2, <1>3

(* The network keeps the invariant. *)
LEMMA NetworkKeeps ==
  ASSUME ClientInv, AttemptCompletes \/ TimerExpires \/ ReadCompletes \/ WriteCompletes
  PROVE  ClientInv'
<1>1. peer \in Peers
  BY DEF ClientInv, Invariant, Served
<1>2. CASE AttemptCompletes
  <2>1. PICK o \in waiting, ec \in {"ok", "error"} :
          Completes(o, ec) /\ peer' = IF o.op = "connect" /\ ec = "ok" THEN [peer EXCEPT ![o.sock].up = TRUE] ELSE peer
    BY <1>2 DEF AttemptCompletes
  <2>2. PICK p, p2, s : p = peer /\ p2 = peer' /\ s = o.sock
    OBVIOUS
  <2>3. p \in Peers /\ Linked(p, s, p2)
    BY <1>1, <2>1, <2>2 DEF Linked
  <2>4. p2 \in Peers /\ \A z \in Socket : p2[z].got = p[z].got
    BY <2>3, LinkSet
  <2>5. QED BY <2>1, <2>2, <2>4, CompletesKeeps
<1>3. CASE TimerExpires
  <2>1. PICK o \in waiting : Completes(o, "ok") /\ peer' = peer
    BY <1>3 DEF TimerExpires
  <2>2. QED BY <1>1, <2>1, CompletesKeeps
<1>4. CASE ReadCompletes
  <2>1. PICK o \in waiting : \/ Completes(o, "ok") /\ peer' = peer
                             \/ Completes(o, "message") /\ peer' = peer
                             \/ Completes(o, "welcome") /\ peer' = [peer EXCEPT ![o.sock].welcomed = TRUE]
                             \/ Completes(o, "error") /\ peer' = [peer EXCEPT ![o.sock].up = FALSE]
    BY <1>4 DEF ReadCompletes
  <2>2. PICK p, p2, s : p = peer /\ p2 = peer' /\ s = o.sock
    OBVIOUS
  <2>3. p \in Peers /\ Linked(p, s, p2)
    BY <1>1, <2>1, <2>2 DEF Linked
  <2>4. p2 \in Peers /\ \A z \in Socket : p2[z].got = p[z].got
    BY <2>3, LinkSet
  <2>5. QED BY <2>1, <2>2, <2>4, CompletesKeeps
<1>5. CASE WriteCompletes
  <2>1. PICK o \in waiting : /\ o.op = "write"
                             /\ \/ Completes(o, "ok") /\ peer' = [peer EXCEPT ![o.sock].got = Append(@, o.packet)]
                                \/ Completes(o, "error") /\ peer' = [peer EXCEPT ![o.sock].up = FALSE]
    BY <1>5 DEF WriteCompletes
  <2>2. CASE Completes(o, "error") /\ peer' = [peer EXCEPT ![o.sock].up = FALSE]
    <3>1. PICK p, p2, s : p = peer /\ p2 = peer' /\ s = o.sock
      OBVIOUS
    <3>2. p \in Peers /\ Linked(p, s, p2)
      BY <1>1, <2>2, <3>1 DEF Linked
    <3>3. p2 \in Peers /\ \A z \in Socket : p2[z].got = p[z].got
      BY <3>2, LinkSet
    <3>4. QED BY <2>2, <3>1, <3>3, CompletesKeeps
  <2>3. CASE Completes(o, "ok") /\ peer' = [peer EXCEPT ![o.sock].got = Append(@, o.packet)]
    <3>1. PICK w, v, x, r, u, p, n, p2 : /\ w = World /\ v = World' /\ x = Completion(o, "ok")
                                         /\ r = io_running /\ u = ui /\ p = peer /\ n = requests /\ p2 = peer'
      OBVIOUS
    <3>2. /\ Completed(w, v, o, x) /\ x.ec = "ok" /\ x.op = "write" /\ Invariant(w, r, u, p, n)
          /\ io_running' = r /\ ui' = u /\ requests' = n
      BY <2>1, <2>3, <3>1, CompletesAs
    <3>3. p2 = [p EXCEPT ![o.sock].got = Append(@, o.packet)]
      BY <2>3, <3>1
    <3>4. Invariant(v, r, u, p2, n)
      BY <3>2, <3>3, ArrivedInvariant
    <3>5. QED BY <3>1, <3>2, <3>4 DEF ClientInv
  <2>4. QED BY <2>1, <2>2, <2>3
<1>6. QED BY <1>2, <1>3, <1>4, <1>5

(* A step of the UI thread that changes only the client. *)
LEMMA ShownStep ==
  ASSUME ClientInv, NEW w, w = World, NEW v, v = World', OnlyClient(w, v), Core(w, v),
         io_running' = io_running, peer' = peer, ui' \in {"ready", "close", "begin"},
         Seen(client', ui'), Within(client', ui', requests')
  PROVE  ClientInv'
<1>1. PICK r, u, p, n, u2, n2 : /\ r = io_running /\ u = ui /\ p = peer /\ n = requests
                                /\ u2 = ui' /\ n2 = requests'
  OBVIOUS
<1>2. v.c = client' /\ Invariant(w, r, u, p, n)
  BY <1>1 DEF World, ClientInv
<1>3. u2 \in {"ready", "close", "begin"} /\ Seen(v.c, u2) /\ Within(v.c, u2, n2)
  BY <1>1, <1>2
<1>4. Invariant(v, r, u2, p, n2)
  BY <1>2, <1>3, ShownInvariant
<1>5. QED BY <1>1, <1>4 DEF ClientInv

(* The record of a step that changes only the client. *)
LEMMA ClientChanges ==
  ASSUME ClientInv, NEW w, w = World, NEW v, v = World', client' \in Clients,
         client'.connection_state = client.connection_state, client'.closed = client.closed,
         client'.write_queue = client.write_queue, client'.write_in_progress = client.write_in_progress,
         client'.sock = client.sock, UNCHANGED <<waiting, ready, sends, overlap>>
  PROVE  OnlyClient(w, v) /\ Core(w, v)
<1>1. w \in Worlds
  BY DEF ClientInv, Invariant, Sound, Loose, Typed
<1>2. w.c = client /\ w.waiting = waiting /\ w.ready = ready /\ w.sends = sends /\ w.overlap = overlap
  BY DEF World
<1>3. PICK d : d = client'
  OBVIOUS
<1>4. v = [c |-> d, waiting |-> w.waiting, ready |-> w.ready, sends |-> w.sends, overlap |-> w.overlap]
  BY <1>2, <1>3 DEF World
<1>5. v \in Worlds /\ v.c = d /\ v.waiting = w.waiting /\ v.ready = w.ready /\ v.sends = w.sends /\ v.overlap = w.overlap
  BY <1>1, <1>3, <1>4, WorldFields DEF Worlds
<1>6. QED BY <1>2, <1>3, <1>5 DEF OnlyClient, Core

(* A message that the user sends. *)
LEMMA SendStep ==
  ASSUME ClientInv, Becomes(send(World)), UNCHANGED <<io_running, ui, peer, requests>>
  PROVE  ClientInv'
<1>1. PICK w, e, r, u, p, n : w = World /\ e = send(w) /\ r = io_running /\ u = ui /\ p = peer /\ n = requests
  OBVIOUS
<1>2. Invariant(w, r, u, p, n)
  BY <1>1 DEF ClientInv
<1>3. Invariant(e, r, u, p, n)
  BY <1>1, <1>2, SendInvariant
<1>4. e \in Worlds /\ Becomes(e)
  BY <1>1, <1>3 DEF Invariant, Sound, Loose, Typed
<1>5. World' = e
  BY <1>4, NextWorld
<1>6. QED BY <1>1, <1>3, <1>5 DEF ClientInv

(* The UI thread keeps the invariant. *)
LEMMA UserKeeps ==
  ASSUME ClientInv, EditEndpoint \/ ClickJoin \/ (\E b \in BOOLEAN : ClickReconnect(b)) \/ UiClose \/ UiBegin \/ UserSends
  PROVE  ClientInv'
<1>1. PICK w, v, r, p, n : w = World /\ v = World' /\ r = io_running /\ p = peer /\ n = requests
  OBVIOUS
<1>2. /\ client \in Clients /\ client.sock \in Nat /\ Seen(client, ui) /\ Within(client, ui, requests)
      /\ ui \in {"ready", "close", "begin"}
  <2>1. World.c = client
    BY DEF World
  <2>2. Sound(w) /\ Within(w.c, ui, requests) /\ Served(w, peer) /\ Seen(w.c, ui) /\ ui \in {"ready", "close", "begin"}
    BY <1>1 DEF ClientInv, Invariant
  <2>3. w.c \in Clients /\ w.c.sock \in Nat
    BY <2>2, InUse
  <2>4. QED BY <1>1, <2>1, <2>2, <2>3
<1>3. CASE EditEndpoint
  <2>1. /\ ui = "ready" /\ ~client.endpoint_edited /\ requests < MaxRequests /\ requests' = requests + 1
        /\ client' = [client EXCEPT !.endpoint_edited = TRUE]
        /\ UNCHANGED <<waiting, ready, io_running, ui, peer, sends, overlap>>
    BY <1>3 DEF EditEndpoint
  <2>2. /\ client' \in Clients /\ client'.connection_state = client.connection_state /\ client'.closed = client.closed
        /\ client'.write_queue = client.write_queue /\ client'.write_in_progress = client.write_in_progress
        /\ client'.sock = client.sock /\ client'.connection = client.connection /\ client'.endpoint_edited = TRUE
    BY <1>2, <2>1 DEF Clients
  <2>3. OnlyClient(w, v) /\ Core(w, v)
    BY <1>1, <2>1, <2>2, ClientChanges
  <2>4. Seen(client', ui')
    BY <1>2, <2>1, <2>2 DEF Seen
  <2>5. Within(client', ui', requests')
    BY <1>2, <2>1, <2>2, BoundsNat DEF Within
  <2>6. QED BY <1>1, <1>2, <2>1, <2>3, <2>4, <2>5, ShownStep
<1>4. CASE ClickJoin
  <2>1. ui = "ready" /\ UNCHANGED <<io_running, peer, requests>>
    BY <1>4 DEF ClickJoin
  <2>2. CASE /\ client.endpoint_edited
             /\ client' = [client EXCEPT !.endpoint_edited = FALSE, !.pending_auto_login = TRUE]
             /\ ui' = "close" /\ UNCHANGED <<waiting, ready, sends, overlap>>
    <3>1. /\ client' \in Clients /\ client'.connection_state = client.connection_state /\ client'.closed = client.closed
          /\ client'.write_queue = client.write_queue /\ client'.write_in_progress = client.write_in_progress
          /\ client'.sock = client.sock /\ client'.connection = client.connection /\ client'.endpoint_edited = FALSE
      BY <1>2, <2>2 DEF Clients
    <3>2. OnlyClient(w, v) /\ Core(w, v)
      BY <1>1, <2>2, <3>1, ClientChanges
    <3>3. Seen(client', ui')
      BY <1>2, <2>1, <2>2, <3>1 DEF Seen
    <3>4. Within(client', ui', requests')
      BY <1>2, <2>1, <2>2, <3>1 DEF Within
    <3>5. QED BY <1>1, <2>1, <2>2, <3>2, <3>3, <3>4, ShownStep
  <2>3. CASE Becomes(send(World)) /\ UNCHANGED ui
    BY <2>1, <2>3, SendStep
  <2>4. QED BY <1>4, <2>2, <2>3 DEF ClickJoin
<1>5. CASE \E b \in BOOLEAN : ClickReconnect(b)
  <2>1. PICK b \in BOOLEAN : ClickReconnect(b)
    BY <1>5
  <2>2. /\ ui = "ready" /\ requests < MaxRequests /\ requests' = requests + 1
        /\ client' = [client EXCEPT !.pending_auto_login = b, !.connection = "Connecting", !.screen = "Login"]
        /\ ui' = "close" /\ UNCHANGED <<waiting, ready, io_running, peer, sends, overlap>>
    BY <2>1 DEF ClickReconnect
  <2>3. /\ client' \in Clients /\ client'.connection_state = client.connection_state /\ client'.closed = client.closed
        /\ client'.write_queue = client.write_queue /\ client'.write_in_progress = client.write_in_progress
        /\ client'.sock = client.sock /\ client'.endpoint_edited = client.endpoint_edited
    BY <1>2, <2>2 DEF Clients, States
  <2>4. OnlyClient(w, v) /\ Core(w, v)
    BY <1>1, <2>2, <2>3, ClientChanges
  <2>5. Seen(client', ui')
    BY <1>2, <2>2, <2>3 DEF Seen
  <2>6. Within(client', ui', requests')
    BY <1>2, <2>2, <2>3, BoundsNat DEF Within
  <2>7. QED BY <1>1, <2>2, <2>4, <2>5, <2>6, ShownStep
<1>6. CASE UiClose
  <2>1. ui = "close" /\ ui' = "begin" /\ Becomes(close_connection(World, FALSE)) /\ UNCHANGED <<io_running, peer, requests>>
    BY <1>6 DEF UiClose
  <2>2. PICK e : e = close_connection(w, FALSE)
    OBVIOUS
  <2>3. Invariant(w, r, "close", p, n)
    BY <1>1, <2>1 DEF ClientInv
  <2>4. Invariant(e, r, "begin", p, n)
    BY <2>2, <2>3, CloseInvariant
  <2>5. e \in Worlds /\ Becomes(e)
    BY <1>1, <2>1, <2>2, <2>4 DEF Invariant, Sound, Loose, Typed
  <2>6. World' = e
    BY <2>5, NextWorld
  <2>7. QED BY <1>1, <2>1, <2>4, <2>6 DEF ClientInv
<1>7. CASE UiBegin
  <2>1. ui = "begin" /\ ui' = "ready" /\ Becomes(begin_connect(World)) /\ UNCHANGED <<io_running, peer, requests>>
    BY <1>7 DEF UiBegin
  <2>2. PICK e : e = begin_connect(w)
    OBVIOUS
  <2>3. Invariant(w, r, "begin", p, n)
    BY <1>1, <2>1 DEF ClientInv
  <2>4. Invariant(e, r, "ready", p, n)
    BY <2>2, <2>3, BeginInvariant
  <2>5. e \in Worlds /\ Becomes(e)
    BY <1>1, <2>1, <2>2, <2>4 DEF Invariant, Sound, Loose, Typed
  <2>6. World' = e
    BY <2>5, NextWorld
  <2>7. QED BY <1>1, <2>1, <2>4, <2>6 DEF ClientInv
<1>8. CASE UserSends
  <2>1. Becomes(send(World)) /\ UNCHANGED <<io_running, ui, peer, requests>>
    BY <1>8 DEF UserSends
  <2>2. QED BY <2>1, SendStep
<1>9. QED BY <1>3, <1>4, <1>5, <1>6, <1>7, <1>8

(* The first attempt is on its way. *)
LEMMA InitInvariant ==
  ASSUME Init
  PROVE  ClientInv
<1>1. PICK w, o, e : w = World /\ o = Op("resolve", 1) /\ e = <<>>
  OBVIOUS
<1>2. o \in Operation /\ o.op = "resolve" /\ o.sock = 1
  BY <1>1 DEF Op, Operation, Kinds
<1>3. e \in Seq(Nat) /\ e \in Seq(Finished) /\ Len(e) = 0
  BY <1>1
<1>4. PICK d : d = [connection_state |-> "Connecting", closed |-> FALSE,
                    write_queue |-> e, write_in_progress |-> FALSE, sock |-> 1,
                    screen |-> "Login", connection |-> "Connecting",
                    pending_auto_login |-> FALSE, endpoint_edited |-> FALSE]
  OBVIOUS
<1>5. /\ d \in Clients /\ d.connection_state = "Connecting" /\ d.closed = FALSE /\ d.write_queue = e
      /\ d.write_in_progress = FALSE /\ d.sock = 1 /\ d.connection = "Connecting" /\ d.endpoint_edited = FALSE
  BY <1>3, <1>4 DEF Clients, States
<1>6. w = [c |-> d, waiting |-> {o}, ready |-> e, sends |-> 0, overlap |-> FALSE]
  BY <1>1, <1>4 DEF Init, World
<1>7. w \in Worlds /\ w.c = d /\ w.waiting = {o} /\ w.ready = e /\ w.sends = 0 /\ w.overlap = FALSE
  BY <1>2, <1>3, <1>5, <1>6 DEF Worlds
<1>8. Sound(w)
  <2>1. Near(w) /\ Ordered(w)
    BY <1>2, <1>3, <1>5, <1>7 DEF Near, Ordered, OnSocket
  <2>2. IsFiniteSet(w.waiting)
    BY <1>7, FS_Singleton
  <2>3. Flagged(w) /\ Flushed(w)
    BY <1>5, <1>7 DEF Flagged, Flushed, Live
  <2>4. Fresh(w) /\ Behind(w)
    BY <1>2, <1>3, <1>5, <1>7 DEF Fresh, Behind
  <2>5. AtMostOne(w, Chain, w.c.sock) /\ Writing(w)
    BY <1>3, <1>5, <1>7 DEF AtMostOne, Writing
  <2>6. Phase(w)
    BY <1>2, <1>3, <1>5, <1>7 DEF Phase, NoneOf, Own
  <2>7. Calm(w)
    BY <1>5, <1>7, <2>4, <2>5, <2>6 DEF Calm
  <2>8. OneRead(w)
    BY <1>3, <1>7 DEF OneRead
  <2>9. QED BY <1>7, <2>1, <2>2, <2>3, <2>7, <2>8 DEF Sound, Loose, Typed
<1>9. io_running = TRUE /\ ui = "ready" /\ requests = 0
  BY DEF Init
<1>10. Seen(w.c, ui) /\ Within(w.c, ui, requests)
  BY <1>5, <1>7, <1>9, BoundsNat DEF Seen, Within
<1>11. Served(w, peer)
  <2>1. peer = [s \in Socket |-> [up |-> FALSE, welcomed |-> FALSE, got |-> e]]
    BY <1>1 DEF Init
  <2>2. 1 \in Socket
    BY BoundsNat DEF Socket
  <2>3. peer \in Peers /\ \A s \in Socket : peer[s].got = e
    BY <1>3, <2>1 DEF Peers
  <2>4. Sent(w, e) /\ Rising(e)
    BY <1>1, <1>3, <1>5, <1>7 DEF Sent, Rising
  <2>5. QED BY <1>1, <1>5, <1>7, <2>2, <2>3, <2>4 DEF Served
<1>12. QED BY <1>1, <1>8, <1>9, <1>10, <1>11 DEF ClientInv, Invariant

(* Every step keeps the invariant. *)
LEMMA NextInvariant ==
  ASSUME ClientInv, [Next]_vars
  PROVE  ClientInv'
<1>1. CASE UNCHANGED vars
  <2>1. World' = World /\ io_running' = io_running /\ ui' = ui /\ peer' = peer /\ requests' = requests
    BY <1>1 DEF vars, World
  <2>2. QED BY <2>1 DEF ClientInv
<1>2. CASE IoReturns
  <2>1. PICK w, u, p, n : w = World /\ u = ui /\ p = peer /\ n = requests
    OBVIOUS
  <2>2. World' = w /\ io_running' \in BOOLEAN /\ ui' = u /\ peer' = p /\ requests' = n
    BY <1>2, <2>1 DEF IoReturns, World
  <2>3. QED BY <2>1, <2>2 DEF ClientInv, Invariant
<1>3. CASE RunHandler
  BY <1>3, HandlersKeep
<1>4. CASE AttemptCompletes \/ TimerExpires \/ ReadCompletes \/ WriteCompletes
  BY <1>4, NetworkKeeps
<1>5. CASE EditEndpoint \/ ClickJoin \/ (\E b \in BOOLEAN : ClickReconnect(b)) \/ UiClose \/ UiBegin \/ UserSends
  BY <1>5, UserKeeps
<1>6. QED BY <1>1, <1>2, <1>3, <1>4, <1>5 DEF Next
-----------------------------------------------------------------------------
(* The results. *)

(* Of one operation at most, one at most is to be counted. *)
LEMMA CountPending ==
  ASSUME NEW K, World.ready \in Seq(Finished), AtMostOne(World, K, client.sock)
  PROVE  Pending(K) <= 1
<1> DEFINE A == {o \in waiting : o.op \in K /\ o.sock = client.sock}
           B == {i \in DOMAIN ready : ready[i].op \in K /\ ready[i].sock = client.sock}
<1>1. World.waiting = waiting /\ World.ready = ready
  BY DEF World
<1>2. DOMAIN ready = 1..Len(ready)
  BY <1>1
<1>3. \A o, p \in A : o = p
  BY <1>1 DEF AtMostOne, Own
<1>4. \A i, j \in B : i = j
  BY <1>1, <1>2 DEF AtMostOne, Own
<1>5. A = {} \/ B = {}
  BY <1>1, <1>2 DEF AtMostOne, Own
<1>6. Pending(K) = Cardinality(A) + Cardinality(B)
  BY DEF Pending
<1> HIDE DEF A, B
<1>7. Cardinality(A) = 0 \/ Cardinality(A) = 1
  <2>1. CASE A = {}
    BY <2>1, FS_EmptySet
  <2>2. CASE A # {}
    <3>1. PICK o : o \in A
      BY <2>2
    <3>2. A = {o}
      BY <1>3, <3>1
    <3>3. QED BY <3>2, FS_Singleton
  <2>3. QED BY <2>1, <2>2
<1>8. Cardinality(B) = 0 \/ Cardinality(B) = 1
  <2>1. CASE B = {}
    BY <2>1, FS_EmptySet
  <2>2. CASE B # {}
    <3>1. PICK o : o \in B
      BY <2>2
    <3>2. B = {o}
      BY <1>4, <3>1
    <3>3. QED BY <3>2, FS_Singleton
  <2>3. QED BY <2>1, <2>2
<1>9. Cardinality(A) = 0 \/ Cardinality(B) = 0
  BY <1>5, FS_EmptySet
<1>10. QED BY <1>6, <1>7, <1>8, <1>9

(* Of none, none is to be counted. *)
LEMMA NonePending ==
  ASSUME NEW K, World.ready \in Seq(Finished), NoneOf(World, K, client.sock)
  PROVE  Pending(K) = 0
<1>1. World.waiting = waiting /\ World.ready = ready
  BY DEF World
<1>2. DOMAIN ready = 1..Len(ready)
  BY <1>1
<1> DEFINE A == {o \in waiting : o.op \in K /\ o.sock = client.sock}
           B == {i \in DOMAIN ready : ready[i].op \in K /\ ready[i].sock = client.sock}
<1>3. A = {}
  BY <1>1 DEF NoneOf, Own
<1>4. B = {}
  BY <1>1, <1>2 DEF NoneOf, Own
<1>5. Pending(K) = Cardinality(A) + Cardinality(B)
  BY DEF Pending
<1> HIDE DEF A, B
<1>6. Cardinality(A) = 0 /\ Cardinality(B) = 0
  BY <1>3, <1>4, FS_EmptySet
<1>7. QED BY <1>5, <1>6

(* What the invariant says of each property. *)
LEMMA InvariantImplies ==
  ASSUME ClientInv
  PROVE  OneOperationAtATime /\ NoStuckPacket /\ InOrderOnce /\ ViewMatchesConnection
<1>1. PICK w : w = World
  OBVIOUS
<1>2. /\ Sound(w) /\ io_running \in BOOLEAN /\ ui \in {"ready", "close", "begin"}
      /\ Seen(w.c, ui) /\ Within(w.c, ui, requests) /\ Served(w, peer)
  BY <1>1 DEF ClientInv, Invariant
<1>3. /\ w.c = client /\ w.waiting = waiting /\ w.ready = ready /\ w.overlap = overlap
  BY <1>1 DEF World
<1>4. /\ w.c.sock \in Socket /\ w \in Worlds /\ w.c \in Clients /\ \A s \in Socket : peer[s].got \in Seq(Nat)
  BY <1>2, InUse
<1>5. w.waiting \subseteq Operation /\ w.ready \in Seq(Finished)
  BY <1>4, WorldFields
<1>6. DOMAIN ready = 1..Len(ready)
  BY <1>3, <1>5
<1>7. OneOperationAtATime
  <2>1. SUFFICES ASSUME ~overlap, ~client.closed
                 PROVE  /\ Pending({"header", "body", "rejected"}) <= 1
                        /\ Pending({"write"}) <= 1
                        /\ Pending({"resolve", "connect"}) <= 1
                        /\ Pending({"resolve", "connect"}) = 1 => Pending({"header", "body", "write"}) = 0
    BY DEF OneOperationAtATime
  <2>2. AtMostOne(w, Chain, w.c.sock) /\ Phase(w) /\ Writing(w) /\ Behind(w) /\ OneRead(w)
    BY <1>2, <1>3, <2>1 DEF Sound, Loose, Typed, Calm
  <2>3. AtMostOne(w, {"write"}, w.c.sock)
    <3>1. CASE w.c.connection_state = "Connected"
      BY <2>2, <3>1 DEF Writing
    <3>2. CASE w.c.connection_state # "Connected"
      BY <2>2, <3>2 DEF Phase, NoneOf, AtMostOne, Own
    <3>3. QED BY <3>1, <3>2
  <2>4. PICK K, L, M, N : /\ K = {"header", "body", "rejected"} /\ L = {"write"} /\ M = {"resolve", "connect"}
                          /\ N = {"header", "body", "write"}
    OBVIOUS
  <2>5. AtMostOne(w, M, w.c.sock)
    BY <2>2, <2>4 DEF AtMostOne, Own, Chain
  <2>6. AtMostOne(w, K, w.c.sock)
    <3>1. \A o \in w.waiting : o.op # "rejected"
      BY <1>5 DEF Operation, Kinds
    <3>2. CASE w.c.connection_state = "Connected"
      <4>1. \A i \in 1..Len(w.ready) : w.ready[i].op # "rejected"
        BY <2>2, <3>2 DEF Behind
      <4>2. \A o \in w.waiting : Own(o, K, w.c.sock) => Own(o, Chain, w.c.sock)
        BY <2>4, <3>1 DEF Own, Chain
      <4>3. \A i \in 1..Len(w.ready) : Own(w.ready[i], K, w.c.sock) => Own(w.ready[i], Chain, w.c.sock)
        BY <2>4, <4>1 DEF Own, Chain
      <4>4. QED BY <2>2, <4>2, <4>3 DEF AtMostOne
    <3>3. CASE w.c.connection_state # "Connected"
      <4>1. \A o \in w.waiting : ~Own(o, K, w.c.sock)
        BY <2>2, <2>4, <3>1, <3>3 DEF Phase, NoneOf, Own
      <4>2. \A i \in 1..Len(w.ready) : Own(w.ready[i], K, w.c.sock) => Going(w.ready[i])
        BY <2>2, <2>4, <3>3 DEF Phase, NoneOf, Own, Going
      <4>3. QED BY <1>3, <2>1, <2>2, <4>1, <4>2 DEF AtMostOne, OneRead
    <3>4. QED BY <3>2, <3>3
  <2>7. ASSUME ~NoneOf(w, M, w.c.sock) PROVE NoneOf(w, N, w.c.sock)
    BY <2>2, <2>4, <2>7 DEF Phase, Attempt
  <2>8. Pending(K) <= 1 /\ Pending(L) <= 1 /\ Pending(M) <= 1
    <3>1. /\ AtMostOne(World, K, client.sock) /\ AtMostOne(World, L, client.sock) /\ AtMostOne(World, M, client.sock)
          /\ World.ready \in Seq(Finished)
      BY <1>1, <1>3, <1>5, <2>3, <2>4, <2>5, <2>6
    <3>2. QED BY <3>1, CountPending
  <2>9. Pending(M) = 1 => Pending(N) = 0
    <3>1. World.ready \in Seq(Finished) /\ World.c.sock = client.sock
      BY <1>1, <1>3, <1>5
    <3>2. CASE NoneOf(w, M, w.c.sock)
      <4>1. Pending(M) = 0
        BY <1>1, <1>3, <3>1, <3>2, NonePending
      <4>2. QED BY <4>1
    <3>3. CASE NoneOf(w, N, w.c.sock)
      <4>1. Pending(N) = 0
        BY <1>1, <1>3, <3>1, <3>3, NonePending
      <4>2. QED BY <4>1
    <3>4. QED BY <2>7, <3>2, <3>3
  <2>10. QED BY <2>4, <2>8, <2>9
<1>8. NoStuckPacket
  <2>1. SUFFICES ASSUME client.connection_state = "Connected", ~client.closed
                 PROVE  /\ client.write_queue # <<>> => client.write_in_progress
                        /\ client.write_in_progress =>
                             \/ \E o \in waiting : o.op = "write" /\ o.sock = client.sock
                             \/ \E i \in DOMAIN ready : ready[i].op = "write"
    BY DEF NoStuckPacket
  <2>2. client.write_queue # <<>> => client.write_in_progress
    BY <1>2, <1>3, <2>1 DEF Sound, Flushed, Live
  <2>3. client.write_in_progress =>
          \/ \E o \in waiting : o.op = "write" /\ o.sock = client.sock
          \/ \E i \in DOMAIN ready : ready[i].op = "write"
    BY <1>2, <1>3, <1>6 DEF Sound, Loose, Flagged, Own
  <2>4. QED BY <2>2, <2>3
<1>9. InOrderOnce
  <2>1. SUFFICES ASSUME ~overlap, NEW s \in Socket, NEW i \in DOMAIN peer[s].got, NEW j \in DOMAIN peer[s].got, i < j
                 PROVE  peer[s].got[i] < peer[s].got[j]
    BY DEF InOrderOnce
  <2>2. Rising(peer[s].got)
    BY <1>2, <1>3, <2>1 DEF Served
  <2>3. DOMAIN peer[s].got = 1..Len(peer[s].got)
    BY <1>4
  <2>4. QED BY <2>1, <2>2, <2>3 DEF Rising
<1>10. ViewMatchesConnection
  <2>1. /\ client.connection_state \in States /\ client.connection \in States
        /\ client.screen \in {"Login", "Lobby", "Disconnected"} /\ client.sock \in Socket
    BY <1>3, <1>4 DEF Clients
  <2>2. \A o \in waiting : o.op \in Kinds
    BY <1>3, <1>5 DEF Operation
  <2>3. ui # "begin" => (client.closed <=> client.connection_state \in {"Disconnected", "Failed"})
    BY <1>2, <1>3 DEF Seen
  <2>4. ui = "ready" => client.connection = client.connection_state
    BY <1>2, <1>3 DEF Seen
  <2>5. TypeOK
    BY <1>2, <2>1, <2>2, <2>3 DEF TypeOK, States, Kinds
  <2>6. QED BY <2>4, <2>5 DEF ViewMatchesConnection
<1>11. QED BY <1>7, <1>8, <1>9, <1>10

(* The inductive invariant of the connection: whatever the order in which
   handlers, the network and the user act, the operations under way are those
   the client's flags say, and while no attempt has begun before the last had
   ended, the completions of closed sockets are handled before the new socket
   is used. *)
THEOREM ClientHolds == Spec => []ClientInv
<1>1. Init => ClientInv
  BY InitInvariant
<1>2. ClientInv /\ [Next]_vars => ClientInv'
  BY NextInvariant
<1>3. QED BY <1>1, <1>2, PTL DEF Spec

(* On the socket in use at most one read and at most one write is under way or
   waits for its handler, and none while the socket is resolved or connected,
   for any number of reconnects, as long as no attempt began before the last
   had ended.  The one read that a packet of an earlier socket may still ask for
   then is rejected. *)
THEOREM OneOperationAtATimeHolds == Spec => []OneOperationAtATime
<1>1. ClientInv => OneOperationAtATime
  BY InvariantImplies
<1>2. QED BY <1>1, ClientHolds, PTL

(* On a live connection queued packets are being written: write_in_progress_ is
   set, and a write or its handler is still to come.  This holds with attempts
   that overlap too. *)
THEOREM NoStuckPacketHolds == Spec => []NoStuckPacket
<1>1. ClientInv => NoStuckPacket
  BY InvariantImplies
<1>2. QED BY <1>1, ClientHolds, PTL

(* The server receives the packets of each connection in the order of send(),
   each once, for any number of packets and reconnects, as long as no attempt
   began before the last had ended. *)
THEOREM InOrderOnceHolds == Spec => []InOrderOnce
<1>1. ClientInv => InOrderOnce
  BY InvariantImplies
<1>2. QED BY <1>1, ClientHolds, PTL

(* The UI shows the state of the connection whenever it is not inside
   reconnect(), and closed_ agrees with connection_state_. *)
THEOREM ViewMatchesConnectionHolds == Spec => []ViewMatchesConnection
<1>1. ClientInv => ViewMatchesConnection
  BY InvariantImplies
<1>2. QED BY <1>1, ClientHolds, PTL
=============================================================================
