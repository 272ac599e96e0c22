------------------------ MODULE ServerSessionProofs ------------------------
(***************************************************************************)
(* Proofs about the server's end of its connections.  Every read and every *)
(* write of a session is a token that is waiting or ready, never both; the *)
(* inductive invariant says which tokens a session has, and that the       *)
(* packet being written is the first of the queue, whose packets are the   *)
(* last ones that send() accepted.                                         *)
(***************************************************************************)
EXTENDS ServerSession, FiniteSetTheorems, SequenceTheorems, TLAPS

Read == {"header", "body"}
Write == {"write"}

\* x, an operation or its completion, belongs to session c and has a kind of K.
Token(x, c, K) == x.c = c /\ x.op \in K

NoneOf(W, r, c, K) ==
    /\ \A o \in W : ~Token(o, c, K)
    /\ \A i \in 1..Len(r) : ~Token(r[i], c, K)

OneOf(W, r, c, K) ==
    \/ /\ \E o \in W : Token(o, c, K) /\ \A x \in W : (Token(x, c, K) => x = o)
       /\ \A i \in 1..Len(r) : ~Token(r[i], c, K)
    \/ /\ \A o \in W : ~Token(o, c, K)
       /\ \E i \in 1..Len(r) : Token(r[i], c, K) /\ \A j \in 1..Len(r) : (Token(r[j], c, K) => j = i)

\* A completion of that kind has not been handled.
Done(r, c, K) == \E i \in 1..Len(r) : Token(r[i], c, K)
-----------------------------------------------------------------------------
(* Tokens. *)

(* The handler of a completion takes its token, and no other. *)
LEMMA TokenTaken ==
  ASSUME NEW S, NEW r \in Seq(S), r # <<>>, NEW W, NEW c, NEW K
  PROVE  /\ Token(Head(r), c, K) /\ OneOf(W, r, c, K) => NoneOf(W, Tail(r), c, K)
         /\ ~Token(Head(r), c, K) /\ OneOf(W, r, c, K) => OneOf(W, Tail(r), c, K)
         /\ NoneOf(W, r, c, K) => ~Token(Head(r), c, K) /\ NoneOf(W, Tail(r), c, K)
         /\ ~Token(Head(r), c, K) => (Done(Tail(r), c, K) <=> Done(r, c, K))
<1>1. /\ Head(r) = r[1] /\ Len(r) \in Nat /\ Len(r) >= 1
      /\ Len(Tail(r)) = Len(r) - 1 /\ \A i \in 1..Len(Tail(r)) : i + 1 \in 1..Len(r) /\ Tail(r)[i] = r[i + 1]
  OBVIOUS
<1>2. \A i \in 1..Len(r) : i # 1 => i - 1 \in 1..Len(Tail(r)) /\ Tail(r)[i - 1] = r[i]
  <2>1. ASSUME NEW i \in 1..Len(r), i # 1 PROVE i - 1 \in 1..Len(Tail(r)) /\ Tail(r)[i - 1] = r[i]
    <3>1. i - 1 \in 1..Len(Tail(r)) /\ (i - 1) + 1 = i
      BY <1>1, <2>1
    <3>2. QED BY <1>1, <3>1
  <2>2. QED BY <2>1
<1>3. ASSUME Token(Head(r), c, K), OneOf(W, r, c, K) PROVE NoneOf(W, Tail(r), c, K)
  <2>1. 1 \in 1..Len(r) /\ Token(r[1], c, K)
    BY <1>1, <1>3
  <2>2. (\A o \in W : ~Token(o, c, K)) /\ \A j \in 1..Len(r) : (Token(r[j], c, K) => j = 1)
    BY <1>3, <2>1 DEF OneOf
  <2>3. \A i \in 1..Len(Tail(r)) : ~Token(Tail(r)[i], c, K)
    <3>1. ASSUME NEW i \in 1..Len(Tail(r)), Token(Tail(r)[i], c, K) PROVE FALSE
      <4>1. i + 1 \in 1..Len(r) /\ Token(r[i + 1], c, K) /\ i + 1 # 1
        BY <1>1, <3>1
      <4>2. QED BY <2>2, <4>1
    <3>2. QED BY <3>1
  <2>4. QED BY <2>2, <2>3 DEF NoneOf
<1>4. ASSUME ~Token(Head(r), c, K), OneOf(W, r, c, K) PROVE OneOf(W, Tail(r), c, K)
  <2>1. CASE \A i \in 1..Len(r) : ~Token(r[i], c, K)
    <3>1. \A i \in 1..Len(Tail(r)) : ~Token(Tail(r)[i], c, K)
      BY <1>1, <2>1
    <3>2. QED BY <1>4, <2>1, <3>1 DEF OneOf
  <2>2. CASE /\ \A o \in W : ~Token(o, c, K)
             /\ \E i \in 1..Len(r) : Token(r[i], c, K) /\ \A j \in 1..Len(r) : (Token(r[j], c, K) => j = i)
    <3>1. PICK i \in 1..Len(r) : Token(r[i], c, K) /\ \A j \in 1..Len(r) : (Token(r[j], c, K) => j = i)
      BY <2>2
    <3>2. i # 1
      BY <1>1, <1>4, <3>1
    <3>3. i - 1 \in 1..Len(Tail(r)) /\ Token(Tail(r)[i - 1], c, K)
      BY <1>2, <3>1, <3>2
    <3>4. \A j \in 1..Len(Tail(r)) : (Token(Tail(r)[j], c, K) => j = i - 1)
      <4>1. ASSUME NEW j \in 1..Len(Tail(r)), Token(Tail(r)[j], c, K) PROVE j = i - 1
        <5>1. j + 1 \in 1..Len(r) /\ Token(r[j + 1], c, K)
          BY <1>1, <4>1
        <5>2. j + 1 = i
          BY <3>1, <5>1
        <5>3. QED BY <1>1, <5>2
      <4>2. QED BY <4>1
    <3>5. QED BY <2>2, <3>3, <3>4 DEF OneOf
  <2>3. QED BY <1>4, <2>1, <2>2 DEF OneOf
<1>5. ASSUME NoneOf(W, r, c, K) PROVE ~Token(Head(r), c, K) /\ NoneOf(W, Tail(r), c, K)
  BY <1>1, <1>5 DEF NoneOf
<1>6. ASSUME ~Token(Head(r), c, K) PROVE Done(Tail(r), c, K) <=> Done(r, c, K)
  <2>1. ASSUME Done(Tail(r), c, K) PROVE Done(r, c, K)
    BY <1>1, <2>1 DEF Done
  <2>2. ASSUME Done(r, c, K) PROVE Done(Tail(r), c, K)
    <3>1. PICK i \in 1..Len(r) : Token(r[i], c, K)
      BY <2>2 DEF Done
    <3>2. i # 1
      BY <1>1, <1>6, <3>1
    <3>3. QED BY <1>2, <3>1, <3>2 DEF Done
  <2>3. QED BY <2>1, <2>2
<1>7. QED BY <1>3, <1>4, <1>5, <1>6

(* Operations that start. *)
LEMMA TokensStarted ==
  ASSUME NEW W, NEW r, NEW c, NEW K, NEW A
  PROVE  /\ NoneOf(W, r, c, K) /\ (\E o \in A : Token(o, c, K) /\ \A x \in A : (Token(x, c, K) => x = o))
              => OneOf(W \cup A, r, c, K)
         /\ (\A o \in A : ~Token(o, c, K)) =>
              /\ OneOf(W, r, c, K) => OneOf(W \cup A, r, c, K)
              /\ NoneOf(W, r, c, K) => NoneOf(W \cup A, r, c, K)
<1>1. ASSUME NoneOf(W, r, c, K), NEW o \in A, Token(o, c, K), \A x \in A : (Token(x, c, K) => x = o)
      PROVE  OneOf(W \cup A, r, c, K)
  BY <1>1 DEF NoneOf, OneOf
<1>2. ASSUME \A o \in A : ~Token(o, c, K), OneOf(W, r, c, K) PROVE OneOf(W \cup A, r, c, K)
  <2>1. \A x \in W \cup A : (Token(x, c, K) => x \in W)
    BY <1>2
  <2>2. CASE /\ \E o \in W : Token(o, c, K) /\ \A x \in W : (Token(x, c, K) => x = o)
             /\ \A i \in 1..Len(r) : ~Token(r[i], c, K)
    <3>1. PICK o \in W : Token(o, c, K) /\ \A x \in W : (Token(x, c, K) => x = o)
      BY <2>2
    <3>2. o \in W \cup A /\ \A x \in W \cup A : (Token(x, c, K) => x = o)
      BY <2>1, <3>1
    <3>3. QED BY <2>2, <3>1, <3>2 DEF OneOf
  <2>3. CASE \A o \in W : ~Token(o, c, K)
    BY <1>2, <2>1, <2>3 DEF OneOf
  <2>4. QED BY <1>2, <2>2, <2>3 DEF OneOf
<1>3. ASSUME \A o \in A : ~Token(o, c, K), NoneOf(W, r, c, K) PROVE NoneOf(W \cup A, r, c, K)
  BY <1>3 DEF NoneOf
<1>4. QED BY <1>1, <1>2, <1>3

(* An operation completes: its token moves to the end of the queue. *)
LEMMA TokenMoved ==
  ASSUME NEW S, NEW r \in Seq(S), NEW e \in S, NEW W, NEW o \in W, NEW c, NEW K,
         Token(e, c, K) <=> Token(o, c, K)
  PROVE  /\ OneOf(W, r, c, K) => OneOf(W \ {o}, Append(r, e), c, K)
         /\ NoneOf(W, r, c, K) => NoneOf(W \ {o}, Append(r, e), c, K)
         /\ Done(Append(r, e), c, K) <=> Done(r, c, K) \/ Token(o, c, K)
<1> DEFINE q == Append(r, e)
           n == Len(r)
<1>1. /\ n \in Nat /\ Len(q) = n + 1 /\ q[n + 1] = e /\ \A i \in 1..n : q[i] = r[i]
  OBVIOUS
<1>2. \A i \in 1..Len(q) : i \in 1..n \/ i = n + 1
  BY <1>1
<1>3. 1..n \subseteq 1..Len(q) /\ n + 1 \in 1..Len(q)
  BY <1>1
<1> HIDE DEF q, n
<1>4. ASSUME OneOf(W, r, c, K) PROVE OneOf(W \ {o}, q, c, K)
  <2>1. CASE Token(o, c, K)
    <3>1. (\A x \in W : (Token(x, c, K) => x = o)) /\ \A i \in 1..n : ~Token(r[i], c, K)
      BY <1>4, <2>1 DEF OneOf, n
    <3>2. \A x \in W \ {o} : ~Token(x, c, K)
      BY <3>1
    <3>3. Token(q[n + 1], c, K) /\ \A j \in 1..Len(q) : (Token(q[j], c, K) => j = n + 1)
      BY <1>1, <1>2, <2>1, <3>1
    <3>4. QED BY <1>3, <3>2, <3>3 DEF OneOf
  <2>2. CASE ~Token(o, c, K)
    <3>1. \A i \in 1..Len(q) : (Token(q[i], c, K) => i \in 1..n /\ Token(r[i], c, K))
      BY <1>1, <1>2, <2>2
    <3>2. CASE /\ \E x \in W : Token(x, c, K) /\ \A y \in W : (Token(y, c, K) => y = x)
               /\ \A i \in 1..n : ~Token(r[i], c, K)
      <4>1. PICK x \in W : Token(x, c, K) /\ \A y \in W : (Token(y, c, K) => y = x)
        BY <3>2
      <4>2. x \in W \ {o}
        BY <2>2, <4>1
      <4>3. QED BY <3>1, <3>2, <4>1, <4>2 DEF OneOf
    <3>3. CASE /\ \A x \in W : ~Token(x, c, K)
               /\ \E i \in 1..n : Token(r[i], c, K) /\ \A j \in 1..n : (Token(r[j], c, K) => j = i)
      <4>1. PICK i \in 1..n : Token(r[i], c, K) /\ \A j \in 1..n : (Token(r[j], c, K) => j = i)
        BY <3>3
      <4>2. i \in 1..Len(q) /\ Token(q[i], c, K) /\ \A j \in 1..Len(q) : (Token(q[j], c, K) => j = i)
        BY <1>1, <1>3, <3>1, <4>1
      <4>3. QED BY <3>3, <4>2 DEF OneOf
    <3>4. QED BY <1>4, <3>2, <3>3 DEF OneOf, n
  <2>3. QED BY <2>1, <2>2
<1>5. ASSUME NoneOf(W, r, c, K) PROVE NoneOf(W \ {o}, q, c, K)
  BY <1>1, <1>2, <1>5 DEF NoneOf, n
<1>6. Done(q, c, K) <=> Done(r, c, K) \/ Token(o, c, K)
  BY <1>1, <1>2, <1>3 DEF Done, n
<1>7. QED BY <1>4, <1>5, <1>6 DEF q

(* The operations of another session are cancelled. *)
LEMMA TokensOfOthers ==
  ASSUME NEW S, NEW r \in Seq(S), NEW s \in Seq(S), NEW W, NEW V, NEW c, NEW K,
         \A i \in 1..Len(s) : s[i].c # c, \A o : o.c = c => (o \in V <=> o \in W)
  PROVE  /\ OneOf(W, r, c, K) => OneOf(V, r \o s, c, K)
         /\ NoneOf(W, r, c, K) => NoneOf(V, r \o s, c, K)
         /\ Done(r \o s, c, K) <=> Done(r, c, K)
<1> DEFINE q == r \o s
           n == Len(r)
<1>1. /\ n \in Nat /\ Len(s) \in Nat /\ Len(q) = n + Len(s)
      /\ \A i \in 1..n : q[i] = r[i]
      /\ \A i \in 1..Len(q) : i \in 1..n \/ (i - n \in 1..Len(s) /\ q[i] = s[i - n])
  OBVIOUS
<1> HIDE DEF q, n
<1>2. /\ \A i \in 1..Len(q) : (Token(q[i], c, K) => i \in 1..n /\ Token(r[i], c, K))
      /\ \A i \in 1..n : i \in 1..Len(q) /\ (Token(r[i], c, K) => Token(q[i], c, K))
  <2>1. ASSUME NEW i \in 1..Len(q), Token(q[i], c, K) PROVE i \in 1..n /\ Token(r[i], c, K)
    BY <1>1, <2>1 DEF Token
  <2>2. QED BY <1>1, <2>1
<1>3. /\ \A o \in V : (Token(o, c, K) => o \in W)
      /\ \A o \in W : (Token(o, c, K) => o \in V)
  BY DEF Token
<1>4. ASSUME OneOf(W, r, c, K) PROVE OneOf(V, q, c, K)
  <2>1. CASE /\ \E x \in W : Token(x, c, K) /\ \A y \in W : (Token(y, c, K) => y = x)
             /\ \A i \in 1..n : ~Token(r[i], c, K)
    <3>1. PICK x \in W : Token(x, c, K) /\ \A y \in W : (Token(y, c, K) => y = x)
      BY <2>1
    <3>2. x \in V /\ \A y \in V : (Token(y, c, K) => y = x)
      BY <1>3, <3>1
    <3>3. QED BY <1>2, <2>1, <3>1, <3>2 DEF OneOf
  <2>2. CASE /\ \A x \in W : ~Token(x, c, K)
             /\ \E i \in 1..n : Token(r[i], c, K) /\ \A j \in 1..n : (Token(r[j], c, K) => j = i)
    <3>1. PICK i \in 1..n : Token(r[i], c, K) /\ \A j \in 1..n : (Token(r[j], c, K) => j = i)
      BY <2>2
    <3>2. i \in 1..Len(q) /\ Token(q[i], c, K) /\ \A j \in 1..Len(q) : (Token(q[j], c, K) => j = i)
      BY <1>2, <3>1
    <3>3. \A x \in V : ~Token(x, c, K)
      BY <1>3, <2>2
    <3>4. QED BY <3>2, <3>3 DEF OneOf
  <2>3. QED BY <1>4, <2>1, <2>2 DEF OneOf, n
<1>5. ASSUME NoneOf(W, r, c, K) PROVE NoneOf(V, q, c, K)
  BY <1>2, <1>3, <1>5 DEF NoneOf, n
<1>6. Done(q, c, K) <=> Done(r, c, K)
  BY <1>2 DEF Done, n
<1>7. QED BY <1>4, <1>5, <1>6 DEF q

(* A finite set has a sequence of its elements. *)
LEMMA SetToSeqFacts ==
  ASSUME NEW S, IsFiniteSet(S)
  PROVE  SetToSeq(S) \in Seq(S)
<1>1. PICK f \in Bijection(1..Cardinality(S), S) : TRUE
  BY FS_CardinalityType DEF ExistsBijection
<1>2. f \in [1..Cardinality(S) -> S] /\ IsInjective(f)
  BY <1>1 DEF Bijection, Injection, IsInjective
<1>3. SetToSeq(S) \in [1..Cardinality(S) -> S]
  BY <1>2 DEF SetToSeq
<1>4. Cardinality(S) \in Nat
  BY FS_CardinalityType
<1>5. QED BY <1>3, <1>4
-----------------------------------------------------------------------------
(* The invariant, on a record w of what the member functions change. *)

Operation == [op : {"header", "body", "write"}, c : Conn, packet : Nat]
Finished == [op : {"header", "body", "write"}, c : Conn, packet : Nat,
             ec : {"ok", "error", "aborted"}, length : Nat]
Worlds == [closed : [Conn -> BOOLEAN], notified : [Conn -> Nat], queue : [Conn -> Seq(Nat)],
           writing : [Conn -> BOOLEAN], sent : [Conn -> Nat],
           waiting : SUBSET Operation, ready : Seq(Finished)]

\* The queue holds the last packets that send() accepted, in their order.
Numbered(q, n) ==
    /\ Len(q) <= n
    /\ \A i \in 1..Len(q) : q[i] + Len(q) = n + i

\* What holds also in the middle of a handler; A are the accepted connections.
Sound(w, A) ==
    /\ w \in Worlds /\ IsFiniteSet(w.waiting)
    /\ \A c \in Conn : w.notified[c] = (IF w.closed[c] THEN 1 ELSE 0)
    /\ \A o \in w.waiting : o.c \in A
    /\ \A i \in 1..Len(w.ready) : w.ready[i].c \in A
    /\ \A c \in Conn \ A : ~w.closed[c] /\ w.sent[c] = 0 /\ w.queue[c] = <<>>
    /\ \A c \in Conn : Numbered(w.queue[c], w.sent[c])

\* The flag of session c knows its write, which is the front of the queue.
Half(w, c) ==
    /\ w.writing[c] => w.queue[c] # <<>> /\ OneOf(w.waiting, w.ready, c, Write)
    /\ ~w.writing[c] => NoneOf(w.waiting, w.ready, c, Write)
    /\ \A o \in w.waiting : (Token(o, c, Write) => o.packet = Head(w.queue[c]))

Writing(w, c) == ~w.closed[c] => Half(w, c) /\ (w.queue[c] # <<>> => w.writing[c])
Reading(w, c) == ~w.closed[c] => OneOf(w.waiting, w.ready, c, Read)
Open(w) == \A o \in w.waiting : ~w.closed[o.c]

\* What the client has and what the queue has are all packets of a session;
\* a packet whose write has completed is in both.
Counted(w, g, c) ==
    ~w.closed[c] => Len(g[c]) + Len(w.queue[c]) = w.sent[c] + (IF Done(w.ready, c, Write) THEN 1 ELSE 0)

Placed ==
    /\ accepted \subseteq Conn /\ up \subseteq accepted
    /\ got \in [Conn -> Seq(Nat)] /\ inbox \in [Conn -> Seq(Nat)]
    /\ \A c \in Conn \ accepted : got[c] = <<>>

\* The inductive invariant.
SessionInv ==
    /\ Placed
    /\ Sound(World, accepted) /\ Open(World)
    /\ \A c \in Conn : Writing(World, c)
    /\ \A c \in accepted : Reading(World, c)
    /\ \A c \in up : Counted(World, got, c)
-----------------------------------------------------------------------------
(* The member functions. *)

\* What a call leaves of session d: it may have accepted packets for it.
Kept(w, v, d) ==
    /\ OneOf(w.waiting, w.ready, d, Read) => OneOf(v.waiting, v.ready, d, Read)
    /\ NoneOf(w.waiting, w.ready, d, Read) => NoneOf(v.waiting, v.ready, d, Read)
    /\ Writing(w, d) => Writing(v, d)
    /\ Done(v.ready, d, Write) <=> Done(w.ready, d, Write)
    /\ v.closed[d] <=> w.closed[d]
    /\ v.sent[d] >= w.sent[d]
    /\ Len(v.queue[d]) + w.sent[d] = Len(w.queue[d]) + v.sent[d]
    /\ w.closed[d] => v.sent[d] = w.sent[d]

\* Two calls in a row leave what each of them leaves.
LEMMA KeptTwice ==
  ASSUME NEW w \in Worlds, NEW v \in Worlds, NEW u \in Worlds, NEW d \in Conn, Kept(w, v, d), Kept(v, u, d)
  PROVE  Kept(w, u, d)
<1>1. /\ w.sent[d] \in Nat /\ v.sent[d] \in Nat /\ u.sent[d] \in Nat
      /\ w.queue[d] \in Seq(Nat) /\ v.queue[d] \in Seq(Nat) /\ u.queue[d] \in Seq(Nat)
  BY DEF Worlds
<1>2. /\ Len(w.queue[d]) \in Nat /\ Len(v.queue[d]) \in Nat /\ Len(u.queue[d]) \in Nat
  BY <1>1, LenProperties
<1>a. /\ v.sent[d] >= w.sent[d] /\ u.sent[d] >= v.sent[d]
      /\ Len(v.queue[d]) + w.sent[d] = Len(w.queue[d]) + v.sent[d]
      /\ Len(u.queue[d]) + v.sent[d] = Len(v.queue[d]) + u.sent[d]
  BY DEF Kept
<1>b. w.closed[d] => u.sent[d] = w.sent[d]
  BY Zenon DEF Kept
<1>3. /\ u.sent[d] >= w.sent[d]
      /\ Len(u.queue[d]) + w.sent[d] = Len(w.queue[d]) + u.sent[d]
  <2> DEFINE a == w.sent[d]
             b == v.sent[d]
             e == u.sent[d]
             k == Len(w.queue[d])
             l == Len(v.queue[d])
             m == Len(u.queue[d])
  <2>1. /\ a \in Nat /\ b \in Nat /\ e \in Nat /\ k \in Nat /\ l \in Nat /\ m \in Nat
        /\ b >= a /\ e >= b /\ l + a = k + b /\ m + b = l + e
    BY <1>1, <1>2, <1>a
  <2> HIDE DEF a, b, e, k, l, m
  <2>2. e >= a /\ m + a = k + e
    BY <2>1
  <2>3. QED BY <2>2 DEF a, b, e, k, l, m
<1>4. (u.closed[d] <=> w.closed[d]) /\ (Done(u.ready, d, Write) <=> Done(w.ready, d, Write))
  BY DEF Kept
<1>5. QED BY <1>3, <1>4, <1>b DEF Kept

\* do_write starts the write of the front of the queue of an idle session.
LEMMA WriteStarts ==
  ASSUME NEW w, NEW A, Sound(w, A), NEW S \in SUBSET Conn, NEW v, v = do_write(w, S)
  PROVE  /\ Sound(v, A)
         /\ v.closed = w.closed /\ v.queue = w.queue /\ v.sent = w.sent /\ v.ready = w.ready
         /\ \A o \in v.waiting : o \in w.waiting \/ ~w.closed[o.c]
         /\ \A c \in Conn : /\ OneOf(w.waiting, w.ready, c, Read) => OneOf(v.waiting, v.ready, c, Read)
                            /\ NoneOf(w.waiting, w.ready, c, Read) => NoneOf(v.waiting, v.ready, c, Read)
         /\ \A c \in Conn : ~w.closed[c] /\ Half(w, c) /\ (c \in S \/ (w.queue[c] # <<>> => w.writing[c])) => Writing(v, c)
<1> DEFINE idle == {c \in S : ~w.closed[c] /\ ~w.writing[c] /\ w.queue[c] # <<>>}
           B == {WriteOp(c, Head(w.queue[c])) : c \in idle}
<1>1. v = [w EXCEPT !.writing = [c \in Conn |-> c \in idle \/ w.writing[c]], !.waiting = @ \cup B]
  BY DEF do_write
<1>2. w \in Worlds
  BY DEF Sound
<1>3. /\ v.closed = w.closed /\ v.queue = w.queue /\ v.sent = w.sent /\ v.ready = w.ready
      /\ v.notified = w.notified
      /\ v.waiting = w.waiting \cup B /\ v.writing = [c \in Conn |-> c \in idle \/ w.writing[c]]
  BY <1>1, <1>2 DEF Worlds
<1>4. \A o \in B : /\ o.c \in idle /\ o.op = "write" /\ o.packet = Head(w.queue[o.c]) /\ o \in Operation
  <2>1. ASSUME NEW c \in idle PROVE WriteOp(c, Head(w.queue[c])) \in Operation
    <3>1. w.queue[c] \in Seq(Nat) /\ w.queue[c] # <<>>
      BY <1>2 DEF Worlds
    <3>2. Head(w.queue[c]) \in Nat
      BY <3>1
    <3>3. QED BY <3>2 DEF WriteOp, Operation
  <2>2. QED BY <2>1 DEF WriteOp
<1>5. IsFiniteSet(B)
  <2>1. IsFiniteSet(idle)
    BY ConnAssumption, FS_Subset
  <2> DEFINE f == [c \in idle |-> WriteOp(c, Head(w.queue[c]))]
  <2>2. f \in Surjection(idle, B)
    BY DEF Surjection
  <2> HIDE DEF f
  <2>3. QED BY <2>1, <2>2, FS_Surjection
<1>6. v \in Worlds
  <2>1. [c \in Conn |-> c \in idle \/ w.writing[c]] \in [Conn -> BOOLEAN]
    BY Zenon
  <2>2. w.waiting \cup B \subseteq Operation
    BY <1>2, <1>4 DEF Worlds
  <2> HIDE DEF idle, B
  <2>3. QED BY <1>1, <1>2, <2>1, <2>2 DEF Worlds
<1>7. idle \subseteq A
  BY <1>2 DEF Sound
<1>w. \A c \in idle : WriteOp(c, Head(w.queue[c])) \in B /\ Token(WriteOp(c, Head(w.queue[c])), c, Write)
  BY DEF WriteOp, Token, Write
<1>q. \A c \in Conn : (c \in idle <=> c \in S /\ ~w.closed[c] /\ ~w.writing[c] /\ w.queue[c] # <<>>)
  OBVIOUS
<1> HIDE DEF idle, B
<1>8. Sound(v, A)
  <2>1. IsFiniteSet(v.waiting)
    <3>1. IsFiniteSet(w.waiting)
      BY DEF Sound
    <3>2. IsFiniteSet(w.waiting \cup B)
      BY <1>5, <3>1, FS_Union
    <3>3. QED BY <1>3, <3>2
  <2>2. \A o \in v.waiting : o.c \in A
    BY <1>3, <1>4, <1>7 DEF Sound
  <2>3. QED BY <1>3, <1>6, <2>1, <2>2 DEF Sound
<1>9. \A o \in v.waiting : o \in w.waiting \/ ~w.closed[o.c]
  BY <1>3, <1>4, <1>q, <1>2 DEF idle
<1>10. \A o \in B, c \in Conn : ~Token(o, c, Read)
  BY <1>4 DEF Token, Read
<1>11. ASSUME NEW c \in Conn
       PROVE  /\ OneOf(w.waiting, w.ready, c, Read) => OneOf(v.waiting, v.ready, c, Read)
              /\ NoneOf(w.waiting, w.ready, c, Read) => NoneOf(v.waiting, v.ready, c, Read)
  BY <1>3, <1>10, TokensStarted
<1>12. ASSUME NEW c \in Conn, ~w.closed[c], Half(w, c), c \in S \/ (w.queue[c] # <<>> => w.writing[c])
       PROVE  Writing(v, c)
  <2>1. CASE c \in idle
    <3> DEFINE o == WriteOp(c, Head(w.queue[c]))
    <3>1. o \in B /\ Token(o, c, Write) /\ \A x \in B : (Token(x, c, Write) => x = o)
      BY <1>4, <1>w, <2>1 DEF Token, Write, WriteOp, Operation
    <3>2. ~w.writing[c] /\ w.queue[c] # <<>>
      BY <1>q, <2>1
    <3>3. NoneOf(w.waiting, w.ready, c, Write)
      BY <1>12, <3>2 DEF Half
    <3>4. OneOf(v.waiting, v.ready, c, Write)
      <4> HIDE DEF o
      <4>1. QED BY <1>3, <3>1, <3>3, TokensStarted
    <3>5. v.writing[c]
      BY <1>3, <2>1
    <3>6. ASSUME NEW x \in v.waiting, Token(x, c, Write) PROVE x.packet = Head(v.queue[c])
      BY <1>3, <1>4, <3>3, <3>6 DEF NoneOf, Token
    <3>7. QED BY <1>3, <3>2, <3>4, <3>5, <3>6 DEF Writing, Half
  <2>2. CASE c \notin idle
    <3>1. \A x \in B : ~Token(x, c, Write)
      BY <1>4, <2>2 DEF Token
    <3>2. v.writing[c] <=> w.writing[c]
      BY <1>3, <2>2
    <3>3. /\ OneOf(w.waiting, w.ready, c, Write) => OneOf(v.waiting, v.ready, c, Write)
          /\ NoneOf(w.waiting, w.ready, c, Write) => NoneOf(v.waiting, v.ready, c, Write)
      BY <1>3, <3>1, TokensStarted
    <3>4. w.queue[c] # <<>> => w.writing[c]
      BY <1>q, <1>12, <2>2
    <3>5. QED BY <1>3, <1>12, <3>1, <3>2, <3>3, <3>4 DEF Writing, Half
  <2>3. QED BY <2>1, <2>2
<1>13. QED BY <1>3, <1>8, <1>9, <1>11, <1>12

\* g is q followed by the k packets after number n.
Extends(g, q, n, k) ==
    /\ Len(g) = Len(q) + k
    /\ \A i \in 1..Len(g) : IF i <= Len(q) THEN g[i] = q[i] ELSE g[i] = n + (i - Len(q))

\* Packets that send() appends are numbered on.
LEMMA Appended ==
  ASSUME NEW q \in Seq(Nat), NEW n \in Nat, NEW k \in Nat, Numbered(q, n),
         NEW g \in Seq(Nat), Extends(g, q, n, k)
  PROVE  /\ Numbered(g, n + k)
         /\ q # <<>> => g # <<>> /\ Head(g) = Head(q)
         /\ k = 0 => g = q
<1> USE DEF Extends
<1>2. Len(q) \in Nat
  OBVIOUS
<1>4. Numbered(g, n + k)
  <2>1. Len(q) <= n /\ \A i \in 1..Len(q) : q[i] \in Nat /\ q[i] + Len(q) = n + i
    <3>1. \A i \in 1..Len(q) : q[i] \in Nat
      OBVIOUS
    <3>2. QED BY Zenon, <3>1 DEF Numbered
  <2>2. ASSUME NEW i \in 1..Len(g) PROVE g[i] + Len(g) = (n + k) + i
    <3>1. CASE i <= Len(q)
      <4> DEFINE x == g[i]
                 l == Len(q)
      <4>1. x = q[i] /\ i \in 1..l
        BY <1>2, <3>1
      <4>2. x \in Nat /\ x + l = n + i /\ l \in Nat /\ i \in Nat
        BY <1>2, <2>1, <4>1
      <4> HIDE DEF x, l
      <4>3. x + (l + k) = (n + k) + i
        BY <4>2
      <4>4. QED BY <4>3 DEF x, l
    <3>2. CASE ~(i <= Len(q))
      <4>1. g[i] = n + (i - Len(q))
        BY <3>2
      <4>2. QED BY <1>2, <4>1
    <3>3. QED BY <3>1, <3>2
  <2>3. Len(g) <= n + k
    BY <1>2, <2>1
  <2>4. QED BY <2>2, <2>3 DEF Numbered
<1>5. ASSUME q # <<>> PROVE g # <<>> /\ Head(g) = Head(q)
  <2>1. Len(q) >= 1 /\ Len(g) >= 1
    BY <1>2, <1>5
  <2>2. 1 \in 1..Len(g) /\ g[1] = q[1]
    BY <1>2, <2>1
  <2>3. QED BY <1>2, <1>5, <2>1, <2>2
<1>6. ASSUME k = 0 PROVE g = q
  <2>1. Len(g) = Len(q) /\ \A i \in 1..Len(g) : g[i] = q[i]
    BY <1>2, <1>6
  <2>2. QED BY <2>1, SeqEqual
<1>7. QED BY <1>4, <1>5, <1>6

\* The calls of send(): open sessions get their packets, and a session that
\* was idle begins to write.
LEMMA SendKeeps ==
  ASSUME NEW w, NEW A, Sound(w, A), NEW n \in [Conn -> Nat], \A c \in Conn \ A : n[c] = 0,
         NEW v, v = send(w, n)
  PROVE  /\ Sound(v, A) /\ v.ready = w.ready /\ v.closed = w.closed
         /\ \A o \in v.waiting : o \in w.waiting \/ ~w.closed[o.c]
         /\ \A c \in Conn : Kept(w, v, c)
<1> DEFINE k(c) == IF w.closed[c] THEN 0 ELSE n[c]
           fresh(c) == [i \in 1..k(c) |-> w.sent[c] + i]
           Q == [c \in Conn |-> w.queue[c] \o fresh(c)]
           N == [c \in Conn |-> w.sent[c] + k(c)]
           S == {c \in Conn : k(c) > 0}
           u == [w EXCEPT !.queue = Q, !.sent = N]
<1>1. v = do_write(u, S)
  BY Zenon DEF send
<1>2. w \in Worlds
  BY DEF Sound
<1>3. /\ w.queue \in [Conn -> Seq(Nat)] /\ w.sent \in [Conn -> Nat]
      /\ \A c \in Conn : k(c) \in Nat
  BY <1>2 DEF Worlds
<1>4. \A c \in Conn : Q[c] = w.queue[c] \o fresh(c) /\ N[c] = w.sent[c] + k(c)
  OBVIOUS
<1>5. ASSUME NEW c \in Conn
      PROVE  /\ Q[c] \in Seq(Nat) /\ Len(Q[c]) = Len(w.queue[c]) + k(c) /\ Numbered(Q[c], N[c])
             /\ w.queue[c] # <<>> => Q[c] # <<>> /\ Head(Q[c]) = Head(w.queue[c])
             /\ k(c) = 0 => Q[c] = w.queue[c]
  <2> DEFINE q == w.queue[c]
             m == w.sent[c]
             l == k(c)
             f == fresh(c)
             g == Q[c]
  <2>1. q \in Seq(Nat) /\ m \in Nat /\ l \in Nat /\ Numbered(q, m)
    BY <1>3 DEF Sound
  <2>2. f = [i \in 1..l |-> m + i] /\ g = q \o f /\ N[c] = m + l
    BY <1>4
  <2> HIDE DEF q, m, l, f, g, Q, N
  <2>3. f \in Seq(Nat) /\ Len(f) = l /\ \A i \in 1..l : f[i] = m + i
    BY <2>1, <2>2
  <2>4. g \in Seq(Nat) /\ Len(g) = Len(q) + l /\ Extends(g, q, m, l)
    BY <2>1, <2>2, <2>3 DEF Extends
  <2>5. /\ Numbered(g, m + l)
        /\ q # <<>> => g # <<>> /\ Head(g) = Head(q)
        /\ l = 0 => g = q
    BY Zenon, <2>1, <2>4, Appended
  <2>6. QED BY <2>2, <2>4, <2>5 DEF q, m, l, g
<1>6. \A c \in Conn : N[c] \in Nat
  BY <1>3, <1>4
<1>7. /\ Q \in [Conn -> Seq(Nat)] /\ N \in [Conn -> Nat]
  <2>1. \A c \in Conn : w.queue[c] \o fresh(c) \in Seq(Nat) /\ w.sent[c] + k(c) \in Nat
    BY <1>4, <1>5, <1>6
  <2>2. QED BY Zenon, <2>1
<1>k. \A c \in Conn : /\ w.closed[c] => k(c) = 0
                      /\ c \notin A => k(c) = 0
  BY <1>2 DEF Worlds
<1>s. \A c \in Conn : c \in S \/ k(c) = 0
  BY <1>3
<1> HIDE DEF Q, N, S, k
<1>8. /\ u.closed = w.closed /\ u.notified = w.notified /\ u.writing = w.writing
      /\ u.waiting = w.waiting /\ u.ready = w.ready /\ u.queue = Q /\ u.sent = N /\ u \in Worlds
  BY <1>2, <1>7 DEF Worlds
<1> HIDE DEF u
<1>9. Sound(u, A)
  <2>1. ASSUME NEW c \in Conn \ A PROVE ~u.closed[c] /\ u.sent[c] = 0 /\ u.queue[c] = <<>>
    BY <1>3, <1>4, <1>5, <1>8, <1>k DEF Sound
  <2>2. QED BY <1>5, <1>8, <2>1 DEF Sound
<1>10. S \in SUBSET Conn
  BY DEF S
<1>11. /\ Sound(v, A)
       /\ v.closed = u.closed /\ v.queue = u.queue /\ v.sent = u.sent /\ v.ready = u.ready
       /\ \A o \in v.waiting : o \in u.waiting \/ ~u.closed[o.c]
       /\ \A c \in Conn : /\ OneOf(u.waiting, u.ready, c, Read) => OneOf(v.waiting, v.ready, c, Read)
                          /\ NoneOf(u.waiting, u.ready, c, Read) => NoneOf(v.waiting, v.ready, c, Read)
       /\ \A c \in Conn : ~u.closed[c] /\ Half(u, c) /\ (c \in S \/ (u.queue[c] # <<>> => u.writing[c])) => Writing(v, c)
  BY Zenon, <1>1, <1>9, <1>10, WriteStarts
<1>12. ASSUME NEW c \in Conn PROVE Kept(w, v, c)
  <2>1. ASSUME Writing(w, c) PROVE Writing(v, c)
    <3>1. CASE w.closed[c]
      BY <1>8, <1>11, <3>1 DEF Writing
    <3>2. CASE ~w.closed[c]
      <4>1. Half(w, c) /\ (w.queue[c] # <<>> => w.writing[c])
        BY <2>1, <3>2 DEF Writing
      <4>2. \A o \in w.waiting : (Token(o, c, Write) => w.writing[c])
        BY <4>1 DEF Half, NoneOf
      <4>3. Half(u, c)
        BY <1>5, <1>8, <4>1, <4>2 DEF Half
      <4>4. c \in S \/ (u.queue[c] # <<>> => u.writing[c])
        BY <1>5, <1>8, <1>s, <4>1
      <4>5. QED BY <1>8, <1>11, <3>2, <4>3, <4>4
    <3>3. QED BY <3>1, <3>2
  <2>2. v.sent[c] = w.sent[c] + k(c) /\ Len(v.queue[c]) = Len(w.queue[c]) + k(c)
    BY <1>4, <1>5, <1>8, <1>11
  <2>3. w.sent[c] \in Nat /\ k(c) \in Nat /\ Len(w.queue[c]) \in Nat
    BY <1>3
  <2>4. /\ v.sent[c] >= w.sent[c] /\ Len(v.queue[c]) + w.sent[c] = Len(w.queue[c]) + v.sent[c]
        /\ w.closed[c] => v.sent[c] = w.sent[c]
    BY <1>k, <2>2, <2>3
  <2>5. /\ OneOf(w.waiting, w.ready, c, Read) => OneOf(v.waiting, v.ready, c, Read)
        /\ NoneOf(w.waiting, w.ready, c, Read) => NoneOf(v.waiting, v.ready, c, Read)
    BY <1>8, <1>11
  <2>6. v.ready = w.ready /\ v.closed = w.closed
    BY <1>8, <1>11
  <2>7. QED BY <2>1, <2>4, <2>5, <2>6 DEF Kept
<1>13. QED BY <1>8, <1>11, <1>12

\* Closing the socket of c ends what waits on it, and nothing of another session.
LEMMA CancelKeeps ==
  ASSUME NEW w, NEW A, Sound(w, A), NEW c \in Conn, NEW v, v = Cancelled(w, c)
  PROVE  /\ Sound(v, A) /\ v.closed = w.closed /\ v.sent = w.sent
         /\ v.waiting = {o \in w.waiting : o.c # c}
         /\ \A d \in Conn : d # c => Kept(w, v, d)
<1> DEFINE R == {o \in w.waiting : o.c = c /\ o.op # "write"}
           T == {o \in w.waiting : o.c = c /\ o.op = "write"}
           ops == SetToSeq(R) \o SetToSeq(T)
           tail == [i \in DOMAIN ops |-> Completion(ops[i], "aborted", 0)]
           V == {o \in w.waiting : o.c # c}
           M == {o \in w.waiting : o.c = c}
<1>1. v = [w EXCEPT !.waiting = V, !.ready = @ \o tail]
  BY DEF Cancelled
<1>2. w \in Worlds /\ IsFiniteSet(w.waiting)
  BY DEF Sound
<1>3. w.waiting \subseteq Operation /\ w.ready \in Seq(Finished)
  BY <1>2 DEF Worlds
<1>4. SetToSeq(R) \in Seq(M) /\ SetToSeq(T) \in Seq(M)
  <2>1. IsFiniteSet(R) /\ IsFiniteSet(T)
    BY <1>2, FS_Subset
  <2>2. R \subseteq M /\ T \subseteq M
    OBVIOUS
  <2>3. SetToSeq(R) \in Seq(R) /\ SetToSeq(T) \in Seq(T)
    BY <2>1, SetToSeqFacts
  <2> HIDE DEF R, T, M
  <2>4. QED BY <2>2, <2>3
<1>5. ops \in Seq(M)
  <2> DEFINE x == SetToSeq(R)
             y == SetToSeq(T)
  <2>1. x \in Seq(M) /\ y \in Seq(M)
    BY <1>4
  <2> HIDE DEF x, y, M
  <2>2. x \o y \in Seq(M)
    BY <2>1
  <2>3. QED BY <2>2 DEF x, y
<1>6. Len(ops) \in Nat /\ DOMAIN ops = 1..Len(ops) /\ \A i \in 1..Len(ops) : ops[i] \in M
  <2> HIDE DEF ops, M
  <2>1. QED BY <1>5
<1>7. \A i \in 1..Len(ops) : Completion(ops[i], "aborted", 0) \in Finished /\ Completion(ops[i], "aborted", 0).c = c
  <2>1. ASSUME NEW i \in 1..Len(ops)
        PROVE  Completion(ops[i], "aborted", 0) \in Finished /\ Completion(ops[i], "aborted", 0).c = c
    <3>1. ops[i] \in Operation /\ ops[i].c = c
      BY <1>3, <1>6
    <3> HIDE DEF ops
    <3>2. QED BY <3>1 DEF Operation, Finished, Completion
  <2>2. QED BY <2>1
<1>8. tail \in Seq(Finished) /\ Len(tail) = Len(ops) /\ \A i \in 1..Len(tail) : tail[i].c = c
  <2> HIDE DEF ops
  <2>1. QED BY <1>6, <1>7
<1>9. V \subseteq w.waiting /\ (\A o \in V : o.c # c) /\ \A o : o.c # c => (o \in V <=> o \in w.waiting)
  OBVIOUS
<1> HIDE DEF V, tail
<1>10. w.ready \o tail \in Seq(Finished)
  BY <1>3, <1>8
<1>11. /\ v.closed = w.closed /\ v.notified = w.notified /\ v.queue = w.queue /\ v.writing = w.writing
       /\ v.sent = w.sent /\ v.waiting = V /\ v.ready = w.ready \o tail
  BY <1>1, <1>2 DEF Worlds
<1>12. v \in Worlds
  <2> DEFINE y == w.ready \o tail
  <2>1. V \subseteq Operation /\ y \in Seq(Finished) /\ v = [w EXCEPT !.waiting = V, !.ready = y]
    BY <1>1, <1>3, <1>9, <1>10
  <2> HIDE DEF y
  <2>2. QED BY <1>2, <2>1 DEF Worlds
<1>13. IsFiniteSet(V)
  BY <1>2, <1>9, FS_Subset
<1>14. ASSUME NEW d \in Conn, d # c PROVE Kept(w, v, d)
  <2> DEFINE y == w.ready \o tail
  <2>1. \A i \in 1..Len(tail) : tail[i].c # d
    BY <1>8, <1>14
  <2>2. \A o : o.c = d => (o \in V <=> o \in w.waiting)
    BY <1>9, <1>14
  <2>3. ASSUME NEW K
        PROVE  /\ OneOf(w.waiting, w.ready, d, K) => OneOf(V, y, d, K)
               /\ NoneOf(w.waiting, w.ready, d, K) => NoneOf(V, y, d, K)
               /\ Done(y, d, K) <=> Done(w.ready, d, K)
    BY Zenon, <1>3, <1>8, <2>1, <2>2, TokensOfOthers
  <2>4. v.ready = y
    BY <1>11
  <2> HIDE DEF y
  <2>5. Writing(w, d) => Writing(v, d)
    BY <1>9, <1>11, <2>3, <2>4 DEF Writing, Half
  <2>6. /\ OneOf(w.waiting, w.ready, d, Read) => OneOf(v.waiting, v.ready, d, Read)
        /\ NoneOf(w.waiting, w.ready, d, Read) => NoneOf(v.waiting, v.ready, d, Read)
        /\ Done(v.ready, d, Write) <=> Done(w.ready, d, Write)
    BY Zenon, <1>11, <2>3, <2>4
  <2>7. v.sent[d] \in Nat
    BY <1>12 DEF Worlds
  <2>8. v.sent[d] >= w.sent[d] /\ Len(v.queue[d]) + w.sent[d] = Len(w.queue[d]) + v.sent[d]
    BY <1>11, <2>7
  <2>9. QED BY <1>11, <2>5, <2>6, <2>8 DEF Kept
<1>15. Sound(v, A)
  <2>1. ASSUME NEW i \in 1..Len(v.ready) PROVE v.ready[i].c \in A
    <3> DEFINE y == w.ready \o tail
    <3>1. /\ Len(w.ready) \in Nat /\ Len(tail) \in Nat
          /\ \A j \in 1..Len(y) : \/ j \in 1..Len(w.ready) /\ y[j] = w.ready[j]
                                  \/ j - Len(w.ready) \in 1..Len(tail) /\ y[j] = tail[j - Len(w.ready)]
      <4> DEFINE r == w.ready
      <4>1. r \in Seq(Finished) /\ tail \in Seq(Finished)
        BY <1>3, <1>8
      <4> HIDE DEF r
      <4>2. /\ Len(r) \in Nat /\ Len(tail) \in Nat
            /\ \A j \in 1..Len(r \o tail) : \/ j \in 1..Len(r) /\ (r \o tail)[j] = r[j]
                                            \/ j - Len(r) \in 1..Len(tail) /\ (r \o tail)[j] = tail[j - Len(r)]
        BY <4>1
      <4>3. QED BY <4>2 DEF r
    <3>2. v.ready = y
      BY <1>11
    <3> HIDE DEF y
    <3>3. CASE i \in 1..Len(w.ready) /\ y[i] = w.ready[i]
      BY <3>2, <3>3 DEF Sound
    <3>4. CASE i - Len(w.ready) \in 1..Len(tail) /\ y[i] = tail[i - Len(w.ready)]
      <4>1. y[i].c = c /\ Len(tail) >= 1
        BY <1>8, <3>1, <3>4
      <4>2. 1 \in 1..Len(ops)
        BY <1>6, <1>8, <4>1
      <4>3. ops[1] \in w.waiting /\ ops[1].c = c
        BY <1>6, <4>2
      <4>4. c \in A
        BY <4>3 DEF Sound
      <4>5. QED BY <3>2, <4>1, <4>4
    <3>5. QED BY <3>1, <3>2, <3>3, <3>4
  <2>2. QED BY <1>9, <1>11, <1>12, <1>13, <2>1 DEF Sound
<1>16. QED BY <1>11, <1>14, <1>15 DEF V

\* close_session: the session is closed and told about once, nothing waits on
\* its socket; the others may have got packets.
LEMMA CloseKeeps ==
  ASSUME NEW w, NEW A, Sound(w, A), Open(w), NEW c \in Conn, c \in A, ~w.closed[c],
         NEW n \in [Conn -> Nat], \A d \in Conn \ A : n[d] = 0, NEW v, v = close_session(w, c, n)
  PROVE  /\ Sound(v, A) /\ Open(v)
         /\ v.closed[c] /\ v.sent[c] = w.sent[c]
         /\ \A d \in Conn : d # c => Kept(w, v, d)
<1> DEFINE x == [w EXCEPT !.closed[c] = TRUE, !.notified[c] = IF @ = 0 THEN 1 ELSE @]
           y == send(x, n)
<1>1. v = Cancelled(y, c)
  BY DEF close_session
<1>2. w \in Worlds
  BY DEF Sound
<1>3. /\ w.closed \in [Conn -> BOOLEAN] /\ w.notified \in [Conn -> Nat]
  BY <1>2 DEF Worlds
<1>4. w.notified[c] = 0
  BY DEF Sound
<1>5. /\ x.closed = [w.closed EXCEPT ![c] = TRUE] /\ x.notified = [w.notified EXCEPT ![c] = 1]
      /\ x.queue = w.queue /\ x.writing = w.writing /\ x.sent = w.sent
      /\ x.waiting = w.waiting /\ x.ready = w.ready
  BY <1>2, <1>4 DEF Worlds
<1>6. x \in Worlds
  <2>1. [w.closed EXCEPT ![c] = TRUE] \in [Conn -> BOOLEAN] /\ [w.notified EXCEPT ![c] = 1] \in [Conn -> Nat]
    BY <1>3
  <2>2. QED BY <1>2, <1>3, <1>4 DEF Worlds
<1> HIDE DEF x
<1>7. /\ x.closed[c] /\ x.notified[c] = 1
      /\ \A d \in Conn : d # c => (x.closed[d] <=> w.closed[d]) /\ x.notified[d] = w.notified[d]
  BY <1>3, <1>5
<1>8. Sound(x, A)
  <2>1. ASSUME NEW d \in Conn PROVE x.notified[d] = IF x.closed[d] THEN 1 ELSE 0
    <3>1. CASE d = c
      BY <1>7, <3>1
    <3>2. CASE d # c
      BY <1>7, <3>2 DEF Sound
    <3>3. QED BY <3>1, <3>2
  <2>2. ASSUME NEW d \in Conn \ A PROVE ~x.closed[d] /\ x.sent[d] = 0 /\ x.queue[d] = <<>>
    BY <1>5, <1>7 DEF Sound
  <2>3. QED BY <1>5, <1>6, <2>1, <2>2 DEF Sound
<1>9. ASSUME NEW d \in Conn, d # c PROVE Kept(w, x, d)
  <2>1. w.sent[d] \in Nat
    BY <1>2 DEF Worlds
  <2>2. QED BY <1>5, <1>7, <1>9, <2>1 DEF Kept, Writing, Half
<1>10. /\ Sound(y, A) /\ y.ready = x.ready /\ y.closed = x.closed
       /\ \A o \in y.waiting : o \in x.waiting \/ ~x.closed[o.c]
       /\ \A d \in Conn : Kept(x, y, d)
  BY <1>8, SendKeeps
<1> HIDE DEF y
<1>11. /\ Sound(v, A) /\ v.closed = y.closed /\ v.sent = y.sent
       /\ v.waiting = {o \in y.waiting : o.c # c}
       /\ \A d \in Conn : d # c => Kept(y, v, d)
  BY Zenon, <1>1, <1>10, CancelKeeps
<1>12. w \in Worlds /\ y \in Worlds /\ v \in Worlds
  BY <1>10, <1>11 DEF Sound
<1>13. ASSUME NEW d \in Conn, d # c PROVE Kept(w, v, d)
  <2>1. Kept(x, y, d) /\ Kept(y, v, d)
    BY <1>10, <1>11, <1>13
  <2>2. Kept(w, y, d)
    BY <1>6, <1>9, <1>12, <1>13, <2>1, KeptTwice
  <2>3. QED BY <1>12, <2>1, <2>2, KeptTwice
<1>14. ASSUME NEW o \in v.waiting PROVE ~v.closed[o.c]
  <2>1. o \in y.waiting /\ o.c # c
    BY <1>11
  <2>2. o.c \in Conn
    BY <1>12 DEF Worlds, Operation
  <2>3. o \in w.waiting \/ ~x.closed[o.c]
    BY <1>5, <1>10, <2>1
  <2>4. o \in w.waiting => ~w.closed[o.c]
    BY DEF Open
  <2>5. ~x.closed[o.c]
    BY <1>7, <2>1, <2>2, <2>3, <2>4
  <2>6. QED BY <1>10, <1>11, <2>5
<1>15. v.closed[c]
  BY <1>7, <1>10, <1>11
<1>16. v.sent[c] = w.sent[c]
  BY <1>5, <1>7, <1>10, <1>11 DEF Kept
<1>17. QED BY <1>11, <1>13, <1>14, <1>15, <1>16 DEF Open

\* A read starts.
StartRead(w, kind, c) == [w EXCEPT !.waiting = @ \cup {Op(kind, c)}]

\* An open session without a read starts one.
LEMMA ReadStarts ==
  ASSUME NEW w, NEW A, Sound(w, A), Open(w), NEW c \in Conn, c \in A, ~w.closed[c], NEW kind \in Read,
         NoneOf(w.waiting, w.ready, c, Read),
         NEW v, v = StartRead(w, kind, c)
  PROVE  /\ Sound(v, A) /\ Open(v)
         /\ v.closed = w.closed /\ v.sent = w.sent /\ v.queue = w.queue /\ v.ready = w.ready
         /\ OneOf(v.waiting, v.ready, c, Read)
         /\ Writing(w, c) => Writing(v, c)
         /\ \A d \in Conn : d # c => Kept(w, v, d)
<1> DEFINE o == Op(kind, c)
<1>1. w \in Worlds /\ IsFiniteSet(w.waiting)
  BY DEF Sound
<1>2. o \in Operation /\ o.c = c /\ o.op = kind
  BY DEF Operation, Op, Read
<1>3. v = [w EXCEPT !.waiting = @ \cup {o}]
  BY DEF StartRead
<1> HIDE DEF o
<1>4. /\ v.closed = w.closed /\ v.notified = w.notified /\ v.queue = w.queue /\ v.writing = w.writing
      /\ v.sent = w.sent /\ v.ready = w.ready /\ v.waiting = w.waiting \cup {o}
  BY <1>1, <1>3 DEF Worlds
<1>5. v \in Worlds
  <2>1. w.waiting \cup {o} \subseteq Operation
    BY <1>1, <1>2 DEF Worlds
  <2>2. QED BY <1>1, <1>3, <2>1 DEF Worlds
<1>6. IsFiniteSet(w.waiting \cup {o})
  BY <1>1, FS_AddElement
<1>7. Sound(v, A)
  BY <1>2, <1>4, <1>5, <1>6 DEF Sound
<1>8. Open(v)
  BY <1>2, <1>4 DEF Open
<1> DEFINE B == {o}
<1>9. o \in B /\ Token(o, c, Read) /\ \A x \in B : (Token(x, c, Read) => x = o)
  BY <1>2 DEF Token
<1>b. v.waiting = w.waiting \cup B /\ \A x \in B : x = o
  BY <1>4
<1> HIDE DEF B
<1>10. OneOf(v.waiting, v.ready, c, Read)
  BY <1>4, <1>b, <1>9, TokensStarted
<1>11. \A d \in Conn : ~Token(o, d, Write)
  BY <1>2 DEF Token, Write, Read
<1>12. ASSUME NEW d \in Conn PROVE Writing(w, d) => Writing(v, d)
  <2>0. \A x \in B : ~Token(x, d, Write)
    BY <1>11, <1>b
  <2>1. /\ OneOf(w.waiting, w.ready, d, Write) => OneOf(v.waiting, v.ready, d, Write)
        /\ NoneOf(w.waiting, w.ready, d, Write) => NoneOf(v.waiting, v.ready, d, Write)
    <3>1. /\ OneOf(w.waiting, w.ready, d, Write) => OneOf(w.waiting \cup B, w.ready, d, Write)
          /\ NoneOf(w.waiting, w.ready, d, Write) => NoneOf(w.waiting \cup B, w.ready, d, Write)
      BY <2>0, TokensStarted
    <3>2. QED BY Zenon, <1>4, <1>b, <3>1
  <2>2. QED BY <1>4, <1>11, <2>1 DEF Writing, Half
<1>13. ASSUME NEW d \in Conn, d # c PROVE Kept(w, v, d)
  <2>1. \A x \in B : ~Token(x, d, Read)
    BY <1>2, <1>13, <1>b DEF Token
  <2>2. /\ OneOf(w.waiting, w.ready, d, Read) => OneOf(v.waiting, v.ready, d, Read)
        /\ NoneOf(w.waiting, w.ready, d, Read) => NoneOf(v.waiting, v.ready, d, Read)
    <3>1. /\ OneOf(w.waiting, w.ready, d, Read) => OneOf(w.waiting \cup B, w.ready, d, Read)
          /\ NoneOf(w.waiting, w.ready, d, Read) => NoneOf(w.waiting \cup B, w.ready, d, Read)
      BY <2>1, TokensStarted
    <3>2. QED BY Zenon, <1>4, <1>b, <3>1
  <2>3. v.sent[d] \in Nat
    BY <1>5 DEF Worlds
  <2>4. v.sent[d] >= w.sent[d] /\ Len(v.queue[d]) + w.sent[d] = Len(w.queue[d]) + v.sent[d]
    BY <1>4, <2>3
  <2>5. QED BY <1>4, <1>12, <2>2, <2>4 DEF Kept
<1>14. QED BY <1>4, <1>7, <1>8, <1>10, <1>12, <1>13
-----------------------------------------------------------------------------
(* Handlers. *)

\* What the handler of a completion of session c leaves, in v.
Handled(v, c) ==
    /\ Sound(v, accepted) /\ Open(v)
    /\ \A d \in Conn : d # c => Kept(World, v, d)
    /\ Writing(v, c) /\ Reading(v, c)
    /\ c \in up => Counted(v, got, c)
    /\ \/ /\ v.closed[c] <=> closed[c]
          /\ v.sent[c] >= sent[c] /\ (closed[c] => v.sent[c] = sent[c])
       \/ ~closed[c] /\ v.closed[c] /\ v.sent[c] = sent[c]

\* The fields of World are the variables.
LEMMA WorldFields ==
  /\ World.closed = closed /\ World.notified = notified /\ World.queue = write_queue
  /\ World.writing = write_in_progress /\ World.sent = sent
  /\ World.waiting = waiting /\ World.ready = ready
BY DEF World

\* After a handler the variables are the record it computed.
LEMMA BecomesWorld ==
  ASSUME NEW v \in Worlds, Becomes(v)
  PROVE  World' = v
<1>1. /\ closed' = v.closed /\ notified' = v.notified
      /\ write_queue' = v.queue /\ write_in_progress' = v.writing /\ sent' = v.sent
      /\ waiting' = v.waiting /\ ready' = v.ready
  BY DEF Becomes
<1>2. v = [closed |-> v.closed, notified |-> v.notified, queue |-> v.queue,
           writing |-> v.writing, sent |-> v.sent, waiting |-> v.waiting, ready |-> v.ready]
  BY DEF Worlds
<1>3. QED BY <1>1, <1>2 DEF World

\* A handler that leaves its own session and the others in order keeps the
\* invariant, and each session has sent, closed or done nothing.
LEMMA HandledIsStep ==
  ASSUME SessionInv, NEW c \in Conn, NEW v, Handled(v, c), Becomes(v),
         UNCHANGED <<accepted, up, inbox, got, requests>>
  PROVE  SessionInv' /\ Link!Next
<1>1. v \in Worlds
  BY DEF Handled, Sound
<1>2. World' = v /\ closed' = v.closed /\ sent' = v.sent
  BY <1>1, BecomesWorld DEF Becomes
<1>3. World \in Worlds
  BY DEF SessionInv, Sound
<1>4. ASSUME NEW d \in Conn, d # c
      PROVE  /\ Writing(v, d) /\ (d \in accepted => Reading(v, d)) /\ (d \in up => Counted(v, got, d))
             /\ v.closed[d] <=> closed[d]
             /\ v.sent[d] >= sent[d] /\ (closed[d] => v.sent[d] = sent[d])
  <2>1. Kept(World, v, d)
    BY <1>4 DEF Handled
  <2>2. Writing(v, d) /\ (d \in accepted => Reading(v, d))
    BY <2>1 DEF SessionInv, Kept, Reading
  <2>3. /\ v.closed[d] <=> closed[d]
        /\ v.sent[d] >= sent[d] /\ (closed[d] => v.sent[d] = sent[d])
    BY <2>1, WorldFields DEF Kept
  <2>4. ASSUME d \in up PROVE Counted(v, got, d)
    <3> DEFINE a == Len(World.queue[d])
               b == Len(v.queue[d])
               k == World.sent[d]
               l == v.sent[d]
               g == Len(got[d])
               x == IF Done(World.ready, d, Write) THEN 1 ELSE 0
               y == IF Done(v.ready, d, Write) THEN 1 ELSE 0
    <3>1. a \in Nat /\ b \in Nat /\ k \in Nat /\ l \in Nat
      BY <1>1, <1>3 DEF Worlds
    <3>2. got[d] \in Seq(Nat)
      BY DEF SessionInv, Placed
    <3>3. g \in Nat /\ x \in Nat /\ y \in Nat /\ x = y /\ b + k = a + l
      BY <2>1, <3>2 DEF Kept
    <3>4. ASSUME ~v.closed[d] PROVE g + a = k + x
      BY <2>1, <2>4, <3>4 DEF SessionInv, Counted, Kept
    <3> HIDE DEF a, b, k, l, g, x, y
    <3>5. ASSUME ~v.closed[d] PROVE g + b = l + y
      BY <3>1, <3>3, <3>4, <3>5
    <3>6. QED BY <3>5 DEF Counted, b, l, g, y
  <2>5. QED BY <2>2, <2>3, <2>4
<1>5. /\ \A d \in Conn : Writing(v, d)
      /\ \A d \in accepted : Reading(v, d)
      /\ \A d \in up : Counted(v, got, d)
  <2>1. up \subseteq Conn /\ accepted \subseteq Conn
    BY DEF SessionInv, Placed
  <2>2. QED BY <1>4, <2>1 DEF Handled
<1>6. Sound(v, accepted) /\ Open(v)
  BY DEF Handled
<1>7. SessionInv'
  <2>1. Placed'
    BY DEF SessionInv, Placed
  <2>2. /\ Sound(World', accepted') /\ Open(World')
        /\ \A d \in Conn : Writing(World', d)
        /\ \A d \in accepted' : Reading(World', d)
        /\ \A d \in up' : Counted(World', got', d)
    BY Zenon, <1>2, <1>5, <1>6
  <2>3. QED BY <2>1, <2>2 DEF SessionInv, Sound, Open, Writing, Reading, Counted, Half
<1>8. Link!Next
  <2>1. ASSUME NEW d \in Conn PROVE Link!Send(d) \/ Link!Close(d) \/ UNCHANGED Link!Rest(d)
    <3>1. CASE /\ v.closed[d] <=> closed[d]
               /\ v.sent[d] >= sent[d] /\ (closed[d] => v.sent[d] = sent[d])
      <4>1. closed'[d] = closed[d]
        <5>1. v.closed[d] \in BOOLEAN /\ closed[d] \in BOOLEAN
          BY <1>1, <1>3, WorldFields DEF Worlds
        <5>2. QED BY Zenon, <1>2, <3>1, <5>1
      <4>2. sent[d] \in Nat /\ sent'[d] \in Nat
        BY <1>1, <1>2, <1>3, WorldFields DEF Worlds
      <4>3. CASE v.sent[d] = sent[d]
        BY <1>2, <4>1, <4>3 DEF Link!Rest
      <4>4. CASE v.sent[d] # sent[d]
        <5>1. sent'[d] > sent[d] /\ ~closed[d]
          BY <1>2, <3>1, <4>2, <4>4
        <5>2. QED BY <4>1, <5>1 DEF Link!Send
      <4>5. QED BY <4>3, <4>4
    <3>2. CASE d = c /\ ~closed[c] /\ v.closed[c] /\ v.sent[c] = sent[c]
      BY <1>2, <3>2 DEF Link!Close
    <3>3. QED BY <1>4, <3>1, <3>2 DEF Handled
  <2>2. QED BY <2>1 DEF Link!Next
<1>9. QED BY <1>7, <1>8

\* A handler takes its completion; the other sessions do not notice.
LEMMA TakenKeeps ==
  ASSUME SessionInv, ready # <<>>
  PROVE  /\ Who \in Conn /\ Who \in accepted /\ Head(ready).op \in {"header", "body", "write"}
         /\ Sound(Taken, accepted) /\ Open(Taken)
         /\ Taken.closed = closed /\ Taken.sent = sent /\ Taken.queue = write_queue
         /\ Taken.writing = write_in_progress /\ Taken.waiting = waiting /\ Taken.ready = Tail(ready)
         /\ \A d \in Conn : d # Who => Kept(World, Taken, d)
<1> DEFINE w == World
           v == Taken
           h == Head(ready)
<1>1. w \in Worlds /\ Sound(w, accepted) /\ Open(w)
  BY DEF SessionInv, Sound
<1>2. w.closed = closed /\ w.sent = sent /\ w.queue = write_queue /\ w.writing = write_in_progress
      /\ w.waiting = waiting /\ w.ready = ready /\ w.notified = notified
  BY WorldFields
<1>3. v = [w EXCEPT !.ready = Tail(@)]
  BY DEF Taken
<1> HIDE DEF w, v
<1>4. ready \in Seq(Finished) /\ w.ready = ready
  BY <1>1, <1>2 DEF Worlds
<1>5. /\ h \in Finished /\ h = ready[1] /\ Tail(ready) \in Seq(Finished)
      /\ Len(ready) \in Nat /\ 1 \in 1..Len(ready) /\ Len(Tail(ready)) = Len(ready) - 1
      /\ \A i \in 1..Len(Tail(ready)) : i + 1 \in 1..Len(ready) /\ Tail(ready)[i] = ready[i + 1]
  BY <1>4
<1>6. /\ v.closed = w.closed /\ v.notified = w.notified /\ v.queue = w.queue /\ v.writing = w.writing
      /\ v.sent = w.sent /\ v.waiting = w.waiting /\ v.ready = Tail(ready)
  BY <1>1, <1>2, <1>3 DEF Worlds
<1>7. v \in Worlds
  <2> DEFINE t == Tail(ready)
  <2>1. t \in Seq(Finished) /\ v = [w EXCEPT !.ready = t]
    BY <1>2, <1>3, <1>5
  <2> HIDE DEF t
  <2>2. QED BY <1>1, <2>1 DEF Worlds
<1>8. h.c \in accepted
  BY <1>1, <1>2, <1>5 DEF Sound
<1>9. Sound(v, accepted)
  <2>1. \A i \in 1..Len(v.ready) : v.ready[i].c \in accepted
    BY <1>1, <1>2, <1>5, <1>6 DEF Sound
  <2>2. QED BY <1>1, <1>6, <1>7, <2>1 DEF Sound
<1>10. Open(v)
  BY <1>1, <1>6 DEF Open
<1>11. ASSUME NEW d \in Conn, d # h.c PROVE Kept(w, v, d)
  <2>1. ASSUME NEW K
        PROVE  /\ OneOf(waiting, ready, d, K) => OneOf(waiting, Tail(ready), d, K)
               /\ NoneOf(waiting, ready, d, K) => NoneOf(waiting, Tail(ready), d, K)
               /\ Done(Tail(ready), d, K) <=> Done(ready, d, K)
    <3>1. ~Token(h, d, K)
      BY <1>11 DEF Token
    <3>2. QED BY Zenon, <1>4, <3>1, TokenTaken
  <2>2. /\ OneOf(w.waiting, w.ready, d, Read) => OneOf(v.waiting, v.ready, d, Read)
        /\ NoneOf(w.waiting, w.ready, d, Read) => NoneOf(v.waiting, v.ready, d, Read)
        /\ Done(v.ready, d, Write) <=> Done(w.ready, d, Write)
    BY Zenon, <1>2, <1>6, <2>1
  <2>3. /\ OneOf(w.waiting, w.ready, d, Write) => OneOf(v.waiting, v.ready, d, Write)
        /\ NoneOf(w.waiting, w.ready, d, Write) => NoneOf(v.waiting, v.ready, d, Write)
    BY Zenon, <1>2, <1>6, <2>1
  <2>4. Writing(w, d) => Writing(v, d)
    BY <1>6, <2>3 DEF Writing, Half
  <2>5. v.sent[d] \in Nat
    BY <1>7 DEF Worlds
  <2>6. v.sent[d] >= w.sent[d] /\ Len(v.queue[d]) + w.sent[d] = Len(w.queue[d]) + v.sent[d]
    BY <1>6, <2>5
  <2>7. QED BY <1>6, <2>2, <2>4, <2>6 DEF Kept
<1>12. h.c \in Conn /\ h.op \in {"header", "body", "write"}
  BY <1>5 DEF Finished
<1>13. QED BY <1>2, <1>6, <1>8, <1>9, <1>10, <1>11, <1>12 DEF w, v, Who

\* The handler of a read: the session has no read left.
LEMMA TakenRead ==
  ASSUME SessionInv, ready # <<>>, Head(ready).op \in Read
  PROVE  /\ Writing(Taken, Who)
         /\ Who \in up => Counted(Taken, got, Who)
         /\ ~closed[Who] => NoneOf(waiting, Tail(ready), Who, Read)
<1> DEFINE c == Who
<1>1. ready \in Seq(Finished)
  BY WorldFields DEF SessionInv, Sound, Worlds
<1>2. c \in Conn /\ c \in accepted
  BY TakenKeeps
<1>3. Token(Head(ready), c, Read) /\ ~Token(Head(ready), c, Write)
  BY DEF Token, Read, Write, Who
<1>4. /\ Writing(World, c) /\ Reading(World, c) /\ (c \in up => Counted(World, got, c))
  BY <1>2 DEF SessionInv
<1> HIDE DEF c
<1>5. /\ OneOf(waiting, ready, c, Write) => OneOf(waiting, Tail(ready), c, Write)
      /\ NoneOf(waiting, ready, c, Write) => NoneOf(waiting, Tail(ready), c, Write)
      /\ Done(Tail(ready), c, Write) <=> Done(ready, c, Write)
  BY Zenon, <1>1, <1>3, TokenTaken
<1>6. OneOf(waiting, ready, c, Read) => NoneOf(waiting, Tail(ready), c, Read)
  BY Zenon, <1>1, <1>3, TokenTaken
<1>7. Writing(Taken, c)
  BY <1>4, <1>5, WorldFields, TakenKeeps DEF Writing, Half
<1>8. c \in up => Counted(Taken, got, c)
  BY <1>4, <1>5, WorldFields, TakenKeeps DEF Counted
<1>9. ~closed[c] => NoneOf(waiting, Tail(ready), c, Read)
  BY <1>4, <1>6, WorldFields DEF Reading
<1>10. QED BY <1>7, <1>8, <1>9 DEF c

\* A session that its handler closes.
LEMMA ClosedIsHandled ==
  ASSUME SessionInv, NEW w, NEW c \in Conn, c \in accepted, ~closed[c],
         Sound(w, accepted), Open(w), w.closed = closed, w.sent = sent,
         \A d \in Conn : d # c => Kept(World, w, d),
         NEW n \in Bursts, NEW v, v = close_session(w, c, n)
  PROVE  Handled(v, c)
<1>1. n \in [Conn -> Nat] /\ \A d \in Conn \ accepted : n[d] = 0
  BY BoundAssumption DEF Bursts
<1>2. /\ Sound(v, accepted) /\ Open(v)
      /\ v.closed[c] /\ v.sent[c] = w.sent[c]
      /\ \A d \in Conn : d # c => Kept(w, v, d)
  BY <1>1, CloseKeeps
<1>3. World \in Worlds /\ w \in Worlds /\ v \in Worlds
  BY <1>2 DEF SessionInv, Sound
<1>4. \A d \in Conn : d # c => Kept(World, v, d)
  BY <1>2, <1>3, KeptTwice
<1>5. Writing(v, c) /\ Reading(v, c) /\ Counted(v, got, c)
  BY <1>2 DEF Writing, Reading, Counted
<1>6. QED BY <1>2, <1>4, <1>5 DEF Handled

\* A session that was closed before the handler ran: the completion is dropped.
LEMMA DroppedIsHandled ==
  ASSUME SessionInv, NEW v, NEW c \in Conn, closed[c],
         Sound(v, accepted), Open(v), v.closed = closed, v.sent = sent,
         \A d \in Conn : d # c => Kept(World, v, d)
  PROVE  Handled(v, c)
<1>1. Writing(v, c) /\ Reading(v, c) /\ Counted(v, got, c)
  BY DEF Writing, Reading, Counted
<1>2. sent[c] \in Nat
  BY WorldFields DEF SessionInv, Sound, Worlds
<1>3. v.sent[c] >= sent[c]
  BY <1>2
<1>4. QED BY <1>1, <1>3 DEF Handled

\* A session that reads on after its handler has made calls of send().
LEMMA ReadsOnIsHandled ==
  ASSUME SessionInv, ready # <<>>, Head(ready).op \in Read, ~closed[Who],
         NEW w, Sound(w, accepted), Open(w), w.closed = closed,
         \A d \in Conn : Kept(Taken, w, d), NEW kind \in Read,
         NEW v, v = StartRead(w, kind, Who)
  PROVE  Handled(v, Who)
<1> DEFINE c == Who
           t == Taken
<1>1. /\ c \in Conn /\ c \in accepted /\ Sound(t, accepted)
      /\ t.closed = closed /\ t.sent = sent /\ t.waiting = waiting /\ t.ready = Tail(ready)
      /\ \A d \in Conn : d # c => Kept(World, t, d)
  BY TakenKeeps
<1>2. /\ Writing(t, c) /\ (c \in up => Counted(t, got, c))
      /\ NoneOf(waiting, Tail(ready), c, Read)
  BY TakenRead
<1>3. v = StartRead(w, kind, c) /\ ~w.closed[c] /\ \A d \in Conn : Kept(t, w, d)
  OBVIOUS
<1> HIDE DEF c, t
<1>4. Kept(t, w, c)
  BY <1>1, <1>3
<1>5. NoneOf(w.waiting, w.ready, c, Read) /\ Writing(w, c)
  BY <1>1, <1>2, <1>4 DEF Kept
<1>6. /\ Sound(v, accepted) /\ Open(v)
      /\ v.closed = w.closed /\ v.sent = w.sent /\ v.queue = w.queue /\ v.ready = w.ready
      /\ OneOf(v.waiting, v.ready, c, Read)
      /\ Writing(w, c) => Writing(v, c)
      /\ \A d \in Conn : d # c => Kept(w, v, d)
  BY Zenon, <1>1, <1>3, <1>5, ReadStarts
<1>7. World \in Worlds /\ t \in Worlds /\ w \in Worlds /\ v \in Worlds
  BY <1>1, <1>6 DEF SessionInv, Sound
<1>8. ASSUME NEW d \in Conn, d # c PROVE Kept(World, v, d)
  <2>1. Kept(World, t, d) /\ Kept(t, w, d) /\ Kept(w, v, d)
    BY <1>1, <1>3, <1>6, <1>8
  <2>2. Kept(World, w, d)
    BY <1>7, <2>1, KeptTwice
  <2>3. QED BY <1>7, <2>1, <2>2, KeptTwice
<1>9. Writing(v, c) /\ Reading(v, c)
  BY <1>5, <1>6 DEF Reading
<1>10. ASSUME c \in up PROVE Counted(v, got, c)
  <2> DEFINE a == Len(t.queue[c])
             b == Len(w.queue[c])
             k == t.sent[c]
             l == w.sent[c]
             g == Len(got[c])
             x == IF Done(t.ready, c, Write) THEN 1 ELSE 0
             y == IF Done(v.ready, c, Write) THEN 1 ELSE 0
  <2>1. a \in Nat /\ b \in Nat /\ k \in Nat /\ l \in Nat
    BY <1>1, <1>7 DEF Worlds
  <2>2. got[c] \in Seq(Nat)
    BY <1>1 DEF SessionInv, Placed
  <2>3. ~t.closed[c]
    BY <1>1 DEF c
  <2>4. g \in Nat /\ x \in Nat /\ y \in Nat /\ b + k = a + l
    BY <1>4, <2>2 DEF Kept
  <2>5. x = y
    BY <1>4, <1>6 DEF Kept
  <2>6. g + a = k + x
    BY <1>2, <1>10, <2>3 DEF Counted
  <2> HIDE DEF a, b, k, l, g, x, y
  <2>7. g + b = l + y
    BY <2>1, <2>4, <2>5, <2>6
  <2>8. QED BY <1>6, <2>7 DEF Counted, b, l, g, y
<1>11. /\ v.closed[c] <=> closed[c]
       /\ v.sent[c] >= sent[c] /\ (closed[c] => v.sent[c] = sent[c])
  BY <1>1, <1>3, <1>4, <1>6 DEF Kept
<1>12. QED BY <1>6, <1>8, <1>9, <1>10, <1>11 DEF Handled, c

\* No call, no change.
LEMMA KeptSelf ==
  ASSUME NEW w \in Worlds, NEW d \in Conn
  PROVE  Kept(w, w, d)
<1>1. w.sent[d] \in Nat
  BY DEF Worlds
<1>2. QED BY <1>1 DEF Kept

\* The handler of a header keeps the invariant: it reads the body or closes.
LEMMA HeaderStep ==
  ASSUME SessionInv, RunHeader
  PROVE  SessionInv' /\ Link!Next
<1>1. ready # <<>> /\ Head(ready).op = "header" /\ Head(ready).op \in Read
  BY DEF RunHeader, Handle, Read
<1> DEFINE c == Who
           w == Taken
<1>2. /\ c \in Conn /\ c \in accepted /\ Sound(w, accepted) /\ Open(w)
      /\ w.closed = closed /\ w.sent = sent
      /\ \A d \in Conn : d # c => Kept(World, w, d)
  BY <1>1, TakenKeeps
<1>3. PICK n \in Bursts :
         Becomes(IF closed[c] THEN w
                 ELSE IF Result = "ok" /\ decode_packet_length(Head(ready).length)
                      THEN do_read_body(w, c)
                 ELSE close_session(w, c, n))
  BY DEF RunHeader
<1>4. UNCHANGED <<accepted, up, inbox, got, requests>>
  BY DEF RunHeader
<1>5. CASE closed[c]
  <2>1. Becomes(w)
    BY <1>3, <1>5
  <2> HIDE DEF c, w
  <2>2. Handled(w, c)
    BY <1>2, <1>5, DroppedIsHandled
  <2>3. QED BY <1>2, <1>4, <2>1, <2>2, HandledIsStep
<1>6. CASE ~closed[c] /\ Result = "ok" /\ decode_packet_length(Head(ready).length)
  <2> DEFINE v == StartRead(w, "body", c)
  <2>1. Becomes(v)
    BY <1>2, <1>3, <1>6 DEF do_read_body, StartRead
  <2>2. w \in Worlds
    BY <1>2 DEF Sound
  <2>3. \A d \in Conn : Kept(w, w, d)
    BY <2>2, KeptSelf
  <2>4. "body" \in Read
    BY DEF Read
  <2>5. Handled(v, c)
    BY Zenon, <1>1, <1>2, <1>6, <2>3, <2>4, ReadsOnIsHandled
  <2> HIDE DEF c, w, v
  <2>6. QED BY <1>2, <1>4, <2>1, <2>5, HandledIsStep
<1>7. CASE ~closed[c] /\ ~(Result = "ok" /\ decode_packet_length(Head(ready).length))
  <2> DEFINE v == close_session(w, c, n)
  <2>1. Becomes(v)
    BY <1>3, <1>7
  <2> HIDE DEF c, w
  <2>2. Handled(v, c)
    BY <1>2, <1>7, ClosedIsHandled
  <2> HIDE DEF v
  <2>3. QED BY <1>2, <1>4, <2>1, <2>2, HandledIsStep
<1>8. QED BY <1>5, <1>6, <1>7

\* The handler of a body keeps the invariant: whatever the processor sends,
\* the session reads on.
LEMMA BodyStep ==
  ASSUME SessionInv, RunBody
  PROVE  SessionInv' /\ Link!Next
<1>1. ready # <<>> /\ Head(ready).op = "body" /\ Head(ready).op \in Read
  BY DEF RunBody, Handle, Read
<1> DEFINE c == Who
           w == Taken
<1>2. /\ c \in Conn /\ c \in accepted /\ Sound(w, accepted) /\ Open(w)
      /\ w.closed = closed /\ w.sent = sent
      /\ \A d \in Conn : d # c => Kept(World, w, d)
  BY <1>1, TakenKeeps
<1>3. PICK n \in Bursts :
         Becomes(IF closed[c] THEN w
                 ELSE IF Result = "ok" THEN do_read_header(send(w, n), c)
                 ELSE close_session(w, c, n))
  BY DEF RunBody
<1>4. UNCHANGED <<accepted, up, inbox, got, requests>>
  BY DEF RunBody
<1>5. CASE closed[c]
  <2>1. Becomes(w)
    BY <1>3, <1>5
  <2> HIDE DEF c, w
  <2>2. Handled(w, c)
    BY <1>2, <1>5, DroppedIsHandled
  <2>3. QED BY <1>2, <1>4, <2>1, <2>2, HandledIsStep
<1>6. CASE ~closed[c] /\ Result = "ok"
  <2> DEFINE u == send(w, n)
             v == StartRead(u, "header", c)
  <2>1. n \in [Conn -> Nat] /\ \A d \in Conn \ accepted : n[d] = 0
    BY BoundAssumption DEF Bursts
  <2>2. /\ Sound(u, accepted) /\ u.closed = w.closed
        /\ \A o \in u.waiting : o \in w.waiting \/ ~w.closed[o.c]
        /\ \A d \in Conn : Kept(w, u, d)
    <3> HIDE DEF w, u
    <3>1. u = send(w, n)
      BY DEF u
    <3>2. QED BY <1>2, <2>1, <3>1, SendKeeps
  <2>3. Open(u)
    <3> HIDE DEF w, u, c
    <3>1. QED BY <1>2, <2>2 DEF Open
  <2>4. Becomes(v)
    <3>1. Becomes(do_read_header(u, c))
      BY <1>3, <1>6
    <3> HIDE DEF w, u, c
    <3>2. ~u.closed[c]
      BY <1>2, <1>6, <2>2
    <3>3. QED BY <3>1, <3>2 DEF do_read_header, StartRead
  <2>5. "header" \in Read
    BY DEF Read
  <2>6. Handled(v, c)
    <3> HIDE DEF u
    <3>1. QED BY Zenon, <1>1, <1>2, <1>6, <2>2, <2>3, <2>5, ReadsOnIsHandled
  <2> HIDE DEF c, w, u, v
  <2>7. QED BY <1>2, <1>4, <2>4, <2>6, HandledIsStep
<1>7. CASE ~closed[c] /\ ~(Result = "ok")
  <2> DEFINE v == close_session(w, c, n)
  <2>1. Becomes(v)
    BY <1>3, <1>7
  <2> HIDE DEF c, w
  <2>2. Handled(v, c)
    BY <1>2, <1>7, ClosedIsHandled
  <2> HIDE DEF v
  <2>3. QED BY <1>2, <1>4, <2>1, <2>2, HandledIsStep
<1>8. QED BY <1>5, <1>6, <1>7

\* The packet at the front of the queue leaves it.
LEMMA Popped ==
  ASSUME NEW q \in Seq(Nat), q # <<>>, NEW n \in Nat, Numbered(q, n)
  PROVE  Tail(q) \in Seq(Nat) /\ Len(Tail(q)) = Len(q) - 1 /\ Numbered(Tail(q), n)
<1> DEFINE l == Len(q)
           t == Tail(q)
<1>1. /\ t \in Seq(Nat) /\ Len(t) = l - 1 /\ l \in Nat /\ l >= 1
      /\ \A i \in 1..Len(t) : i + 1 \in 1..l /\ t[i] = q[i + 1]
  OBVIOUS
<1>2. l <= n /\ \A i \in 1..l : q[i] \in Nat /\ q[i] + l = n + i
  BY DEF Numbered
<1> HIDE DEF l, t
<1>3. ASSUME NEW i \in 1..Len(t) PROVE t[i] + Len(t) = n + i
  <2> DEFINE x == t[i]
  <2>1. x \in Nat /\ x + l = n + (i + 1)
    BY <1>1, <1>2
  <2> HIDE DEF x
  <2>2. x + (l - 1) = n + i
    BY <1>1, <2>1
  <2>3. QED BY <1>1, <2>2 DEF x
<1>4. Len(t) <= n
  BY <1>1, <1>2
<1>5. QED BY <1>1, <1>3, <1>4 DEF Numbered, t, l

\* The handler of a write: the session has no write left, and its packet is
\* still the front of the queue.
LEMMA TakenWrite ==
  ASSUME SessionInv, ready # <<>>, Head(ready).op = "write",
         NEW w, w = [Taken EXCEPT !.writing[Who] = FALSE]
  PROVE  /\ Sound(w, accepted) /\ Open(w)
         /\ w.closed = closed /\ w.sent = sent /\ w.queue = write_queue
         /\ \A d \in Conn : d # Who => Kept(World, w, d)
         /\ ~closed[Who] =>
              /\ ~w.writing[Who] /\ write_queue[Who] # <<>>
              /\ NoneOf(w.waiting, w.ready, Who, Write)
              /\ OneOf(w.waiting, w.ready, Who, Read)
              /\ Who \in up => Len(got[Who]) + Len(write_queue[Who]) = sent[Who] + 1
<1> DEFINE c == Who
           t == Taken
<1>1. /\ c \in Conn /\ c \in accepted /\ Sound(t, accepted) /\ Open(t)
      /\ t.closed = closed /\ t.sent = sent /\ t.queue = write_queue
      /\ t.waiting = waiting /\ t.ready = Tail(ready)
      /\ \A d \in Conn : d # c => Kept(World, t, d)
  BY TakenKeeps
<1>2. w = [t EXCEPT !.writing[c] = FALSE]
  OBVIOUS
<1>3. t \in Worlds /\ World \in Worlds
  BY <1>1 DEF SessionInv, Sound
<1>4. Token(Head(ready), c, Write) /\ ~Token(Head(ready), c, Read)
  BY DEF Token, Write, Read, Who
<1>5. Writing(World, c) /\ Reading(World, c) /\ (c \in up => Counted(World, got, c))
  BY <1>1 DEF SessionInv
<1> HIDE DEF c, t
<1>6. t.writing \in [Conn -> BOOLEAN] /\ ready \in Seq(Finished)
  BY <1>3, WorldFields DEF Worlds
<1>7. /\ w.closed = t.closed /\ w.notified = t.notified /\ w.queue = t.queue /\ w.sent = t.sent
      /\ w.waiting = t.waiting /\ w.ready = t.ready /\ w.writing = [t.writing EXCEPT ![c] = FALSE]
  BY <1>2, <1>3 DEF Worlds
<1>8. w \in Worlds
  <2> DEFINE f == [t.writing EXCEPT ![c] = FALSE]
  <2>1. f \in [Conn -> BOOLEAN] /\ w = [t EXCEPT !.writing = f]
    BY <1>2, <1>3, <1>6 DEF Worlds
  <2> HIDE DEF f
  <2>2. QED BY <1>3, <2>1 DEF Worlds
<1>9. ~w.writing[c] /\ \A d \in Conn : d # c => w.writing[d] = t.writing[d]
  <2> DEFINE a == w.writing
             b == t.writing
  <2>1. c \in Conn /\ b \in [Conn -> BOOLEAN] /\ a = [b EXCEPT ![c] = FALSE]
    BY <1>1, <1>6, <1>7
  <2>2. ~a[c] /\ \A d \in Conn : d # c => a[d] = b[d]
    <3> HIDE DEF a, b
    <3>1. QED BY <2>1
  <2>3. QED BY <2>2
<1>10. Sound(w, accepted) /\ Open(w)
  BY <1>1, <1>7, <1>8 DEF Sound, Open
<1>11. ASSUME NEW d \in Conn, d # c PROVE Kept(World, w, d)
  <2>1. Kept(t, w, d)
    <3>1. t.sent[d] \in Nat
      BY <1>3 DEF Worlds
    <3>2. w.writing[d] <=> t.writing[d]
      BY <1>9, <1>11
    <3>3. Writing(t, d) => Writing(w, d)
      BY <1>7, <3>2 DEF Writing, Half
    <3>4. w.sent[d] >= t.sent[d] /\ Len(w.queue[d]) + t.sent[d] = Len(t.queue[d]) + w.sent[d]
      BY <1>7, <3>1
    <3>5. QED BY <1>7, <3>3, <3>4 DEF Kept
  <2>2. Kept(World, t, d)
    BY <1>1, <1>11
  <2>3. QED BY <1>3, <1>8, <2>1, <2>2, KeptTwice
<1>12. ASSUME ~closed[c]
       PROVE  /\ write_queue[c] # <<>>
              /\ NoneOf(w.waiting, w.ready, c, Write)
              /\ OneOf(w.waiting, w.ready, c, Read)
              /\ c \in up => Len(got[c]) + Len(write_queue[c]) = sent[c] + 1
  <2>1. /\ OneOf(waiting, ready, c, Write) => NoneOf(waiting, Tail(ready), c, Write)
        /\ NoneOf(waiting, ready, c, Write) => FALSE
        /\ OneOf(waiting, ready, c, Read) => OneOf(waiting, Tail(ready), c, Read)
    BY Zenon, <1>4, <1>6, TokenTaken
  <2>2. write_queue[c] # <<>> /\ OneOf(waiting, ready, c, Write)
    BY <1>5, <1>12, <2>1, WorldFields DEF Writing, Half
  <2>3. OneOf(waiting, ready, c, Read)
    BY <1>5, <1>12, WorldFields DEF Reading
  <2>4. Done(ready, c, Write)
    <3>1. Len(ready) \in Nat /\ 1 \in 1..Len(ready) /\ Head(ready) = ready[1]
      BY <1>6
    <3>2. QED BY <1>4, <3>1 DEF Done
  <2>5. c \in up => Len(got[c]) + Len(write_queue[c]) = sent[c] + 1
    BY <1>5, <1>12, <2>4, WorldFields DEF Counted
  <2>6. w.waiting = waiting /\ w.ready = Tail(ready)
    BY <1>1, <1>7
  <2>7. QED BY <2>1, <2>2, <2>3, <2>5, <2>6
<1>13. QED BY <1>1, <1>7, <1>9, <1>10, <1>11, <1>12 DEF c

\* A packet has been written: it leaves the queue, and the next is written.
LEMMA WritesOnIsHandled ==
  ASSUME SessionInv, ready # <<>>, Head(ready).op = "write", ~closed[Who],
         NEW w, w = [Taken EXCEPT !.writing[Who] = FALSE],
         NEW u, u = [w EXCEPT !.queue[Who] = Tail(@)],
         NEW v, v = do_write(u, {Who})
  PROVE  Handled(v, Who)
<1> DEFINE c == Who
<1>1. c \in Conn /\ c \in accepted
  BY TakenKeeps
<1>2. /\ Sound(w, accepted) /\ Open(w)
      /\ w.closed = closed /\ w.sent = sent /\ w.queue = write_queue
      /\ \A d \in Conn : d # c => Kept(World, w, d)
      /\ ~w.writing[c] /\ write_queue[c] # <<>>
      /\ NoneOf(w.waiting, w.ready, c, Write)
      /\ OneOf(w.waiting, w.ready, c, Read)
      /\ c \in up => Len(got[c]) + Len(write_queue[c]) = sent[c] + 1
  BY TakenWrite
<1>3. /\ u = [w EXCEPT !.queue[c] = Tail(@)] /\ v = do_write(u, {c}) /\ ~closed[c]
  OBVIOUS
<1> HIDE DEF c
<1>4. w \in Worlds /\ World \in Worlds
  BY <1>2 DEF Sound, SessionInv
<1>5. w.queue \in [Conn -> Seq(Nat)] /\ w.sent \in [Conn -> Nat]
  BY <1>4 DEF Worlds
<1>6. Numbered(w.queue[c], w.sent[c]) /\ w.queue[c] # <<>>
  BY <1>1, <1>2 DEF Sound
<1> DEFINE q == Tail(w.queue[c])
<1>7. q \in Seq(Nat) /\ Len(q) = Len(w.queue[c]) - 1 /\ Numbered(q, w.sent[c])
  BY <1>1, <1>5, <1>6, Popped
<1>8. u = [w EXCEPT !.queue = [w.queue EXCEPT ![c] = q]]
  BY <1>1, <1>3, <1>4 DEF Worlds
<1> HIDE DEF q
<1>9. /\ u.closed = w.closed /\ u.notified = w.notified /\ u.writing = w.writing /\ u.sent = w.sent
      /\ u.waiting = w.waiting /\ u.ready = w.ready /\ u.queue = [w.queue EXCEPT ![c] = q]
  BY <1>4, <1>8 DEF Worlds
<1>10. u \in Worlds
  <2> DEFINE f == [w.queue EXCEPT ![c] = q]
  <2>1. f \in [Conn -> Seq(Nat)] /\ u = [w EXCEPT !.queue = f]
    BY <1>5, <1>7, <1>8
  <2> HIDE DEF f
  <2>2. QED BY <1>4, <2>1 DEF Worlds
<1>11. u.queue[c] = q /\ \A d \in Conn : d # c => u.queue[d] = w.queue[d]
  BY <1>1, <1>5, <1>9
<1>12. Sound(u, accepted)
  <2>1. \A d \in Conn : Numbered(u.queue[d], u.sent[d])
    BY <1>2, <1>7, <1>9, <1>11 DEF Sound
  <2>2. \A d \in Conn \ accepted : ~u.closed[d] /\ u.sent[d] = 0 /\ u.queue[d] = <<>>
    BY <1>1, <1>2, <1>9, <1>11 DEF Sound
  <2>3. QED BY <1>2, <1>9, <1>10, <2>1, <2>2 DEF Sound
<1>13. /\ Sound(v, accepted)
       /\ v.closed = u.closed /\ v.queue = u.queue /\ v.sent = u.sent /\ v.ready = u.ready
       /\ \A o \in v.waiting : o \in u.waiting \/ ~u.closed[o.c]
       /\ \A d \in Conn : /\ OneOf(u.waiting, u.ready, d, Read) => OneOf(v.waiting, v.ready, d, Read)
                          /\ NoneOf(u.waiting, u.ready, d, Read) => NoneOf(v.waiting, v.ready, d, Read)
       /\ \A d \in Conn : ~u.closed[d] /\ Half(u, d) /\ (d \in {c} \/ (u.queue[d] # <<>> => u.writing[d])) => Writing(v, d)
  <2>1. {c} \in SUBSET Conn
    BY <1>1
  <2>2. QED BY Zenon, <1>3, <1>12, <2>1, WriteStarts
<1>14. Open(v)
  BY <1>2, <1>9, <1>13 DEF Open
<1>15. ASSUME NEW d \in Conn, d # c PROVE Kept(World, v, d)
  <2>1. Kept(w, v, d)
    <3>1. ASSUME Writing(w, d) PROVE Writing(v, d)
      <4>1. CASE w.closed[d]
        BY <1>9, <1>13, <4>1 DEF Writing
      <4>2. CASE ~w.closed[d]
        <5>a. Half(w, d) /\ (w.queue[d] # <<>> => w.writing[d])
          BY <3>1, <4>2 DEF Writing
        <5>b. /\ u.queue[d] = w.queue[d] /\ u.writing[d] = w.writing[d] /\ ~u.closed[d]
              /\ u.waiting = w.waiting /\ u.ready = w.ready
          BY <1>9, <1>11, <1>15, <4>2
        <5>1. ~u.closed[d] /\ Half(u, d) /\ (u.queue[d] # <<>> => u.writing[d])
          BY Zenon, <5>a, <5>b DEF Half
        <5>2. QED BY <1>13, <5>1
      <4>3. QED BY <4>1, <4>2
    <3>2. /\ OneOf(w.waiting, w.ready, d, Read) => OneOf(v.waiting, v.ready, d, Read)
          /\ NoneOf(w.waiting, w.ready, d, Read) => NoneOf(v.waiting, v.ready, d, Read)
      BY <1>9, <1>13
    <3>3. v.sent = w.sent /\ v.queue[d] = w.queue[d] /\ v.ready = w.ready /\ v.closed = w.closed
      BY <1>9, <1>11, <1>13, <1>15
    <3>4. w.sent[d] \in Nat
      BY <1>5
    <3>5. v.sent[d] >= w.sent[d] /\ Len(v.queue[d]) + w.sent[d] = Len(w.queue[d]) + v.sent[d]
      BY <3>3, <3>4
    <3>6. QED BY <3>1, <3>2, <3>3, <3>5 DEF Kept
  <2>2. Kept(World, w, d) /\ v \in Worlds
    BY <1>2, <1>13, <1>15 DEF Sound
  <2>3. QED BY <1>4, <2>1, <2>2, KeptTwice
<1>16. Writing(v, c)
  <2>1. Half(u, c)
    BY <1>2, <1>9 DEF Half, NoneOf
  <2>2. QED BY <1>1, <1>2, <1>3, <1>9, <1>13, <2>1
<1>17. Reading(v, c)
  BY <1>1, <1>2, <1>9, <1>13 DEF Reading
<1>18. ASSUME c \in up PROVE Counted(v, got, c)
  <2> DEFINE g == Len(got[c])
             l == Len(write_queue[c])
             k == sent[c]
  <2>1. got[c] \in Seq(Nat) /\ write_queue[c] \in Seq(Nat) /\ k \in Nat
    BY <1>1, <1>2, <1>5 DEF SessionInv, Placed
  <2>2. g \in Nat /\ l \in Nat /\ g + l = k + 1 /\ Len(v.queue[c]) = l - 1 /\ v.sent[c] = k
    <3>1. v.queue[c] = q /\ w.queue[c] = write_queue[c] /\ v.sent[c] = k
      BY <1>2, <1>9, <1>11, <1>13
    <3>2. Len(v.queue[c]) = l - 1
      BY <1>7, <3>1
    <3>3. g + l = k + 1
      BY <1>2, <1>18
    <3>4. g \in Nat /\ l \in Nat
      BY <2>1
    <3>5. QED BY <3>1, <3>2, <3>3, <3>4
  <2>3. ~Done(v.ready, c, Write)
    BY <1>2, <1>9, <1>13 DEF NoneOf, Done
  <2>4. g + (l - 1) = k + 0
    <3> HIDE DEF g, l, k
    <3>1. QED BY <2>1, <2>2
  <2>5. QED BY <2>2, <2>3, <2>4 DEF Counted
<1>19. /\ v.closed[c] <=> closed[c]
       /\ v.sent[c] >= sent[c] /\ (closed[c] => v.sent[c] = sent[c])
  BY <1>1, <1>2, <1>5, <1>9, <1>13
<1>20. QED BY <1>13, <1>14, <1>15, <1>16, <1>17, <1>18, <1>19 DEF Handled, c

\* The handler of a write keeps the invariant: the packet leaves the queue and
\* the next is written.
LEMMA WriteStep ==
  ASSUME SessionInv, RunWrite
  PROVE  SessionInv' /\ Link!Next
<1>1. ready # <<>> /\ Head(ready).op = "write"
  BY DEF RunWrite, Handle
<1> DEFINE c == Who
           w == [Taken EXCEPT !.writing[Who] = FALSE]
<1>2. c \in Conn /\ c \in accepted
  BY <1>1, TakenKeeps
<1>3. /\ Sound(w, accepted) /\ Open(w)
      /\ w.closed = closed /\ w.sent = sent /\ w.queue = write_queue
      /\ \A d \in Conn : d # c => Kept(World, w, d)
      /\ ~closed[c] => write_queue[c] # <<>>
  BY <1>1, TakenWrite
<1>4. PICK n \in Bursts :
         Becomes(IF closed[c] THEN w
                 ELSE IF Result = "ok"
                 THEN do_write([w EXCEPT !.queue[c] = IF @ = <<>> THEN @ ELSE Tail(@)], {c})
                 ELSE close_session(w, c, n))
  BY DEF RunWrite
<1>5. UNCHANGED <<accepted, up, inbox, got, requests>>
  BY DEF RunWrite
<1>6. CASE closed[c]
  <2>1. Becomes(w)
    BY <1>4, <1>6
  <2> HIDE DEF c, w
  <2>2. Handled(w, c)
    BY <1>2, <1>3, <1>6, DroppedIsHandled
  <2>3. QED BY <1>2, <1>5, <2>1, <2>2, HandledIsStep
<1>7. CASE ~closed[c] /\ Result = "ok"
  <2> DEFINE u == [w EXCEPT !.queue[c] = Tail(@)]
             v == do_write(u, {c})
  <2>1. Becomes(do_write([w EXCEPT !.queue[c] = IF @ = <<>> THEN @ ELSE Tail(@)], {c}))
    BY <1>4, <1>7
  <2>2. [w EXCEPT !.queue[c] = IF @ = <<>> THEN @ ELSE Tail(@)] = u
    <3>1. w.queue[c] # <<>>
      BY <1>3, <1>7
    <3> HIDE DEF c, w
    <3>2. QED BY <3>1
  <2>3. Becomes(v)
    BY Zenon, <2>1, <2>2
  <2>4. Handled(v, c)
    BY Zenon, <1>1, <1>7, WritesOnIsHandled
  <2> HIDE DEF c, w, u, v
  <2>5. QED BY <1>2, <1>5, <2>3, <2>4, HandledIsStep
<1>8. CASE ~closed[c] /\ ~(Result = "ok")
  <2> DEFINE v == close_session(w, c, n)
  <2>1. Becomes(v)
    BY <1>4, <1>8
  <2> HIDE DEF c, w
  <2>2. Handled(v, c)
    BY <1>2, <1>3, <1>8, ClosedIsHandled
  <2> HIDE DEF v
  <2>3. QED BY <1>2, <1>5, <2>1, <2>2, HandledIsStep
<1>9. QED BY <1>6, <1>7, <1>8
-----------------------------------------------------------------------------
(* The other steps. *)

Abstract == <<closed, sent, got>>

\* A new session reads and has nothing to write.
LEMMA AcceptStep ==
  ASSUME SessionInv, NEW c \in Conn, Accept(c)
  PROVE  SessionInv' /\ UNCHANGED Abstract
<1> DEFINE A == accepted \cup {c}
           w == World
           v == StartRead(w, "header", c)
<1>1. /\ c \notin accepted /\ accepted' = A /\ up' \subseteq up \cup {c} /\ inbox' = inbox /\ got' = got
      /\ Becomes(do_read_header(w, c))
  BY DEF Accept
<1>2. Sound(w, accepted) /\ Open(w) /\ w \in Worlds /\ Placed
  BY DEF SessionInv, Sound
<1> HIDE DEF w
<1>3. Sound(w, A) /\ ~w.closed[c] /\ c \in A
  BY <1>1, <1>2 DEF Sound
<1>4. \A K : NoneOf(w.waiting, w.ready, c, K) /\ ~Done(w.ready, c, K)
  BY <1>1, <1>2 DEF Sound, NoneOf, Done, Token
<1>5. Becomes(v)
  BY <1>1, <1>3 DEF do_read_header, StartRead
<1>6. "header" \in Read
  BY DEF Read
<1>7. /\ Sound(v, A) /\ Open(v)
      /\ v.closed = w.closed /\ v.sent = w.sent /\ v.queue = w.queue /\ v.ready = w.ready
      /\ OneOf(v.waiting, v.ready, c, Read)
      /\ Writing(w, c) => Writing(v, c)
      /\ \A d \in Conn : d # c => Kept(w, v, d)
  <2>1. NoneOf(w.waiting, w.ready, c, Read)
    BY <1>4
  <2>2. v = StartRead(w, "header", c)
    OBVIOUS
  <2> HIDE DEF A, v
  <2>3. QED BY <1>2, <1>3, <1>6, <2>1, <2>2, ReadStarts
<1>8. v \in Worlds
  BY <1>7 DEF Sound
<1> HIDE DEF v
<1>9. World' = v /\ closed' = v.closed /\ sent' = v.sent
  BY <1>5, <1>8, BecomesWorld DEF Becomes
<1>10. /\ \A d \in Conn : Writing(w, d)
       /\ \A d \in accepted : Reading(w, d)
       /\ \A d \in up : Counted(w, got, d)
  BY DEF SessionInv, w
<1>11. \A d \in Conn : Writing(v, d)
  BY <1>7, <1>10 DEF Kept
<1>12. \A d \in A : Reading(v, d)
  <2>1. ASSUME NEW d \in accepted PROVE Reading(v, d)
    <3>1. d \in Conn /\ d # c
      BY <1>1, <1>2 DEF Placed
    <3>2. QED BY <1>7, <1>10, <3>1 DEF Reading, Kept
  <2>2. Reading(v, c)
    BY <1>7 DEF Reading
  <2>3. QED BY <2>1, <2>2
<1>13. \A d \in up \cup {c} : Counted(v, got, d)
  <2>1. ASSUME NEW d \in up PROVE Counted(v, got, d)
    BY <1>7, <1>10 DEF Counted
  <2>2. Counted(v, got, c)
    <3>1. got[c] = <<>> /\ w.queue[c] = <<>> /\ w.sent[c] = 0 /\ ~Done(w.ready, c, Write)
      BY <1>1, <1>2, <1>4 DEF Placed, Sound
    <3>2. QED BY <1>7, <3>1 DEF Counted
  <2>3. QED BY <2>1, <2>2
<1>14. Placed'
  BY <1>1, <1>2 DEF Placed
<1>15. SessionInv'
  <2>1. /\ Sound(World', accepted') /\ Open(World')
        /\ \A d \in Conn : Writing(World', d)
        /\ \A d \in accepted' : Reading(World', d)
        /\ \A d \in up' : Counted(World', got', d)
    BY Zenon, <1>1, <1>7, <1>9, <1>11, <1>12, <1>13
  <2>2. QED BY <1>14, <2>1 DEF SessionInv, Sound, Open, Writing, Reading, Counted, Half
<1>16. QED BY <1>1, <1>7, <1>9, <1>15, WorldFields DEF Abstract, w

\* Steps that leave the sessions alone.
LEMMA QuietStep ==
  ASSUME SessionInv, World' = World, accepted' = accepted, got' = got, up' \subseteq up,
         inbox' \in [Conn -> Seq(Nat)]
  PROVE  SessionInv'
<1>1. Placed'
  BY DEF SessionInv, Placed
<1>2. /\ Sound(World', accepted') /\ Open(World')
      /\ \A d \in Conn : Writing(World', d)
      /\ \A d \in accepted' : Reading(World', d)
      /\ \A d \in up' : Counted(World', got', d)
  <2> DEFINE w == World
             x == World'
  <2>1. /\ Sound(w, accepted) /\ Open(w)
        /\ \A d \in Conn : Writing(w, d)
        /\ \A d \in accepted : Reading(w, d)
        /\ \A d \in up' : Counted(w, got, d)
    BY DEF SessionInv
  <2>2. x = w
    OBVIOUS
  <2> HIDE DEF w, x
  <2>3. /\ Sound(x, accepted') /\ Open(x)
        /\ \A d \in Conn : Writing(x, d)
        /\ \A d \in accepted' : Reading(x, d)
        /\ \A d \in up' : Counted(x, got', d)
    BY Zenon, <2>1, <2>2
  <2>4. QED BY <2>3 DEF x
<1>3. QED BY <1>1, <1>2 DEF SessionInv, Sound, Open, Writing, Reading, Counted, Half

\* What a client sends waits until it is read.
LEMMA ClientStep ==
  ASSUME SessionInv, NEW c \in Conn, NEW length \in Length, ClientSends(c, length)
  PROVE  SessionInv' /\ UNCHANGED Abstract
<1>1. World' = World /\ accepted' = accepted /\ got' = got /\ up' \subseteq up
      /\ closed' = closed /\ sent' = sent
  BY DEF World, session, ClientSends
<1>2. inbox' \in [Conn -> Seq(Nat)]
  <2>1. inbox \in [Conn -> Seq(Nat)]
    BY DEF SessionInv, Placed
  <2>2. Append(inbox[c], length) \in Seq(Nat)
    BY <2>1, BoundAssumption
  <2>3. inbox' = [inbox EXCEPT ![c] = Append(inbox[c], length)]
    BY DEF ClientSends
  <2>4. QED BY <2>1, <2>2, <2>3
<1>3. QED BY <1>1, <1>2, QuietStep DEF Abstract

\* An operation completes: its token is ready.
LEMMA CompletionKeeps ==
  ASSUME SessionInv, NEW o \in waiting, NEW ec \in {"ok", "error"}, NEW length \in Nat,
         Completes(o, ec, length)
  PROVE  /\ o \in Operation /\ o.c \in accepted /\ o.c \in Conn /\ ~closed[o.c]
         /\ Sound(World', accepted') /\ Open(World')
         /\ \A d \in Conn : Writing(World', d)
         /\ \A d \in accepted' : Reading(World', d)
         /\ World'.closed = closed /\ World'.sent = sent /\ World'.queue = write_queue
         /\ \A d \in Conn : (Done(World'.ready, d, Write) <=> Done(ready, d, Write) \/ Token(o, d, Write))
         /\ accepted' = accepted /\ up' = up /\ closed' = closed /\ sent' = sent
<1> DEFINE w == World
           v == World'
           e == Completion(o, ec, length)
           W == w.waiting \ {o}
           r == Append(w.ready, e)
<1>1. /\ Sound(w, accepted) /\ Open(w) /\ w \in Worlds
      /\ \A d \in Conn : Writing(w, d)
      /\ \A d \in accepted : Reading(w, d)
  BY DEF SessionInv, Sound
<1>2. /\ w.waiting = waiting /\ w.ready = ready /\ w.closed = closed /\ w.sent = sent /\ w.queue = write_queue
      /\ w.notified = notified /\ w.writing = write_in_progress
  BY WorldFields
<1>3. /\ accepted' = accepted /\ up' = up /\ closed' = closed /\ sent' = sent
      /\ notified' = notified /\ write_queue' = write_queue /\ write_in_progress' = write_in_progress
      /\ waiting' = W /\ ready' = r
  BY <1>2 DEF Completes, session
<1>4. /\ v.closed = w.closed /\ v.notified = w.notified /\ v.queue = w.queue /\ v.writing = w.writing
      /\ v.sent = w.sent /\ v.waiting = W /\ v.ready = r
      /\ v = [closed |-> w.closed, notified |-> w.notified, queue |-> w.queue,
              writing |-> w.writing, sent |-> w.sent, waiting |-> W, ready |-> r]
  <2>1. v = [closed |-> w.closed, notified |-> w.notified, queue |-> w.queue,
             writing |-> w.writing, sent |-> w.sent, waiting |-> W, ready |-> r]
    <3>1. v = [closed |-> closed', notified |-> notified', queue |-> write_queue',
               writing |-> write_in_progress', sent |-> sent', waiting |-> waiting', ready |-> ready']
      BY DEF World
    <3> HIDE DEF v, w, W, r
    <3>2. QED BY Zenon, <1>2, <1>3, <3>1
  <2> HIDE DEF v, w, W, r
  <2>2. QED BY <2>1
<1> HIDE DEF w, v
<1>5. o \in Operation /\ o \in w.waiting /\ o.c \in accepted /\ ~w.closed[o.c]
  BY <1>1, <1>2 DEF Worlds, Sound, Open
<1>6. e \in Finished /\ e.c = o.c /\ e.op = o.op
  BY <1>5 DEF Completion, Finished, Operation
<1> HIDE DEF e
<1>7. w.ready \in Seq(Finished) /\ w.waiting \subseteq Operation
  BY <1>1 DEF Worlds
<1>8. r \in Seq(Finished) /\ \A i \in 1..Len(r) : r[i] = e \/ (i \in 1..Len(w.ready) /\ r[i] = w.ready[i])
  BY <1>6, <1>7
<1>9. v \in Worlds
  <2>1. W \subseteq Operation /\ r \in Seq(Finished)
    BY <1>7, <1>8
  <2> HIDE DEF W, r
  <2>2. QED BY <1>1, <1>4, <2>1 DEF Worlds
<1>10. IsFiniteSet(W)
  BY <1>1, FS_Subset DEF Sound
<1>11. ASSUME NEW d, NEW K
       PROVE  /\ OneOf(w.waiting, w.ready, d, K) => OneOf(W, r, d, K)
              /\ NoneOf(w.waiting, w.ready, d, K) => NoneOf(W, r, d, K)
              /\ Done(r, d, K) <=> Done(w.ready, d, K) \/ Token(o, d, K)
  <2>1. Token(e, d, K) <=> Token(o, d, K)
    BY <1>6 DEF Token
  <2>2. QED BY Zenon, <1>5, <1>6, <1>7, <2>1, TokenMoved
<1>12. W \subseteq w.waiting
  OBVIOUS
<1>w. \A i \in 1..Len(r) : r[i].c \in accepted
  <2>1. \A i \in 1..Len(w.ready) : w.ready[i].c \in accepted
    BY <1>1 DEF Sound
  <2>2. e.c \in accepted
    BY <1>5, <1>6
  <2> HIDE DEF r
  <2>3. QED BY <1>8, <2>1, <2>2
<1> HIDE DEF W, r
<1>13. Sound(v, accepted)
  BY <1>1, <1>4, <1>9, <1>10, <1>12, <1>w DEF Sound
<1>14. Open(v)
  BY <1>1, <1>4, <1>12 DEF Open
<1>15. ASSUME NEW d \in Conn PROVE Writing(v, d)
  <2>1. Writing(w, d)
    BY <1>1
  <2>2. QED BY <1>4, <1>11, <1>12, <2>1 DEF Writing, Half
<1>16. ASSUME NEW d \in accepted PROVE Reading(v, d)
  BY <1>1, <1>4, <1>11 DEF Reading
<1>17. \A d \in Conn : (Done(v.ready, d, Write) <=> Done(ready, d, Write) \/ Token(o, d, Write))
  BY Zenon, <1>2, <1>4, <1>11
<1>18. o.c \in Conn /\ ~closed[o.c]
  BY <1>2, <1>5 DEF Operation
<1>19. QED BY <1>2, <1>3, <1>4, <1>5, <1>13, <1>14, <1>15, <1>16, <1>17, <1>18 DEF v

\* A read that completes is still the session's one read.
LEMMA ReadCompletesStep ==
  ASSUME SessionInv, ReadCompletes
  PROVE  SessionInv' /\ UNCHANGED Abstract
<1>1. PICK o \in waiting :
        /\ o.op # "write" /\ got' = got
        /\ \/ /\ inbox[o.c] # <<>> /\ Completes(o, "ok", Head(inbox[o.c]))
              /\ inbox' = IF o.op = "body" THEN [inbox EXCEPT ![o.c] = Tail(@)] ELSE inbox
           \/ Completes(o, "error", 0) /\ inbox' = inbox
  BY DEF ReadCompletes
<1>2. Placed /\ waiting \subseteq Operation /\ inbox \in [Conn -> Seq(Nat)]
  BY WorldFields DEF SessionInv, Sound, Worlds, Placed
<1>3. o.c \in Conn
  BY <1>2 DEF Operation
<1>4. /\ Sound(World', accepted') /\ Open(World')
      /\ \A d \in Conn : Writing(World', d)
      /\ \A d \in accepted' : Reading(World', d)
      /\ World'.closed = closed /\ World'.sent = sent /\ World'.queue = write_queue
      /\ \A d \in Conn : (Done(World'.ready, d, Write) <=> Done(ready, d, Write) \/ Token(o, d, Write))
      /\ accepted' = accepted /\ up' = up /\ closed' = closed /\ sent' = sent
  <2>1. CASE Completes(o, "error", 0)
    BY <2>1, CompletionKeeps
  <2>2. CASE inbox[o.c] # <<>> /\ Completes(o, "ok", Head(inbox[o.c]))
    <3> DEFINE n == Head(inbox[o.c])
    <3>1. n \in Nat
      BY <1>2, <1>3, <2>2
    <3> HIDE DEF n
    <3>2. Completes(o, "ok", n)
      BY <2>2 DEF n
    <3>3. QED BY <3>1, <3>2, CompletionKeeps
  <2>3. QED BY <1>1, <2>1, <2>2
<1>5. inbox' \in [Conn -> Seq(Nat)]
  <2>1. CASE inbox[o.c] # <<>> /\ inbox' = [inbox EXCEPT ![o.c] = Tail(inbox[o.c])]
    <3>1. Tail(inbox[o.c]) \in Seq(Nat)
      BY <1>2, <1>3, <2>1
    <3>2. QED BY <1>2, <2>1, <3>1
  <2>2. QED BY <1>1, <1>2, <2>1
<1>6. Placed'
  BY <1>1, <1>2, <1>4, <1>5 DEF Placed
<1>7. \A d \in up' : Counted(World', got', d)
  <2> DEFINE v == World'
  <2>1. ASSUME NEW d \in up PROVE Counted(v, got, d)
    <3>1. Counted(World, got, d) /\ d \in Conn
      BY <1>2 DEF SessionInv, Placed
    <3>2. ~Token(o, d, Write)
      BY <1>1 DEF Token, Write
    <3>3. Done(v.ready, d, Write) <=> Done(ready, d, Write)
      BY <1>4, <3>1, <3>2
    <3>4. v.closed = closed /\ v.sent = sent /\ v.queue = write_queue
      BY <1>4
    <3> HIDE DEF v
    <3>5. QED BY <3>1, <3>3, <3>4, WorldFields DEF Counted
  <2> HIDE DEF v
  <2>2. \A d \in up' : Counted(v, got', d)
    BY <1>1, <1>4, <2>1
  <2>3. QED BY <2>2 DEF v
<1>8. SessionInv'
  BY <1>4, <1>6, <1>7 DEF SessionInv, Sound, Open, Writing, Reading, Counted, Half
<1>9. QED BY <1>1, <1>4, <1>8 DEF Abstract

\* A write that completes delivers the next packet, or none if the link is
\* down.
LEMMA WriteCompletesStep ==
  ASSUME SessionInv, WriteCompletes
  PROVE  SessionInv' /\ (UNCHANGED Abstract \/ Link!Next)
<1>1. PICK o \in waiting, ec \in {"ok", "error"} :
        /\ o.op = "write" /\ inbox' = inbox /\ Completes(o, ec, 0)
        /\ \/ o.c \in up /\ got' = [got EXCEPT ![o.c] = Append(@, o.packet)]
           \/ o.c \notin up /\ got' = got
  BY DEF WriteCompletes
<1> DEFINE c == o.c
           q == write_queue[c]
           g == got[c]
<1>2. Placed /\ World \in Worlds /\ got \in [Conn -> Seq(Nat)]
  BY DEF SessionInv, Sound, Placed
<1>3. /\ o \in Operation /\ c \in accepted /\ c \in Conn /\ ~closed[c]
      /\ Sound(World', accepted') /\ Open(World')
      /\ \A d \in Conn : Writing(World', d)
      /\ \A d \in accepted' : Reading(World', d)
      /\ World'.closed = closed /\ World'.sent = sent /\ World'.queue = write_queue
      /\ \A d \in Conn : (Done(World'.ready, d, Write) <=> Done(ready, d, Write) \/ Token(o, d, Write))
      /\ accepted' = accepted /\ up' = up /\ closed' = closed /\ sent' = sent
  BY <1>1, CompletionKeeps
<1>4. Token(o, c, Write)
  BY <1>1 DEF Token, Write
<1>5. /\ q # <<>> /\ o.packet = Head(q) /\ ~Done(ready, c, Write)
      /\ q \in Seq(Nat) /\ sent[c] \in Nat /\ Numbered(q, sent[c])
  <2>1. Writing(World, c) /\ ~World.closed[c] /\ World.waiting = waiting /\ World.ready = ready
        /\ World.queue = write_queue /\ World.sent = sent
    BY <1>3, WorldFields DEF SessionInv
  <2>2. Half(World, c) /\ OneOf(waiting, ready, c, Write) /\ q # <<>>
    BY <1>1, <1>4, <2>1 DEF Writing, Half, NoneOf
  <2>3. ~Done(ready, c, Write)
    BY <1>1, <1>4, <2>2 DEF OneOf, Done
  <2>4. o.packet = Head(q)
    BY <1>1, <1>4, <2>1, <2>2 DEF Half
  <2>5. q \in Seq(Nat) /\ sent[c] \in Nat
    BY <1>2, <1>3, <2>1 DEF Worlds
  <2>6. Numbered(q, sent[c])
    BY <1>3, <2>1 DEF SessionInv, Sound
  <2>7. QED BY <2>2, <2>3, <2>4, <2>5, <2>6
<1>6. g \in Seq(Nat) /\ Len(g) \in Nat /\ Len(q) \in Nat /\ Len(q) >= 1
  BY <1>2, <1>3, <1>5
<1>7. o.packet \in Nat /\ o.packet + Len(q) = sent[c] + 1
  <2>1. 1 \in 1..Len(q) /\ Head(q) = q[1] /\ q[1] \in Nat
    BY <1>5, <1>6
  <2>2. QED BY <1>5, <2>1 DEF Numbered
<1>8. \A d \in Conn \ {c} : got'[d] = got[d]
  BY <1>1, <1>2
<1>9. ASSUME c \in up
      PROVE  /\ got'[c] = Append(g, o.packet) /\ o.packet = Len(g) + 1 /\ Len(g) < sent[c]
             /\ Len(got'[c]) = Len(g) + 1 /\ Len(g) + Len(q) = sent[c]
  <2>1. got'[c] = Append(g, o.packet)
    BY <1>1, <1>2, <1>3, <1>9
  <2>2. Len(g) + Len(q) = sent[c]
    <3>1. Counted(World, got, c) /\ ~World.closed[c]
      BY <1>3, <1>9, WorldFields DEF SessionInv
    <3> DEFINE k == sent[c]
    <3>2. Len(g) + Len(q) = k + 0 /\ k \in Nat
      BY <1>5, <3>1, WorldFields DEF Counted
    <3> HIDE DEF k, g, q
    <3>3. Len(g) + Len(q) = k
      BY <3>2
    <3>4. QED BY <3>3 DEF k
  <2> DEFINE a == Len(g)
             b == Len(q)
             k == sent[c]
             p == o.packet
  <2>3. a \in Nat /\ b \in Nat /\ k \in Nat /\ p \in Nat /\ p + b = k + 1 /\ a + b = k /\ b >= 1
    BY <1>5, <1>6, <1>7, <2>2
  <2>4. Len(Append(g, o.packet)) = Len(g) + 1
    BY <1>6, <1>7
  <2> HIDE DEF a, b, k, p
  <2>5. p = a + 1 /\ a < k
    BY <2>3
  <2>6. QED BY <2>1, <2>2, <2>4, <2>5 DEF a, k, p
<1>10. Placed'
  <2>1. got' \in [Conn -> Seq(Nat)]
    <3>1. CASE got' = got
      BY <1>2, <3>1
    <3>2. CASE got' = [got EXCEPT ![c] = Append(g, o.packet)]
      <4>1. Append(g, o.packet) \in Seq(Nat)
        BY <1>6, <1>7
      <4>2. QED BY <1>2, <3>2, <4>1
    <3>3. QED BY <1>1, <3>1, <3>2
  <2>2. \A d \in Conn \ accepted : got'[d] = <<>>
    BY <1>2, <1>3, <1>8 DEF Placed
  <2>3. QED BY <1>1, <1>2, <1>3, <2>1, <2>2 DEF Placed
<1>11. \A d \in up' : Counted(World', got', d)
  <2> DEFINE v == World'
             y == got'
  <2>1. v.closed = closed /\ v.sent = sent /\ v.queue = write_queue
    BY <1>3
  <2>2. ASSUME NEW d \in up, d # c PROVE Counted(v, y, d)
    <3>1. Counted(World, got, d) /\ d \in Conn
      BY <1>2 DEF SessionInv, Placed
    <3>2. ~Token(o, d, Write)
      BY <2>2 DEF Token
    <3>3. Done(v.ready, d, Write) <=> Done(ready, d, Write)
      BY <1>3, <3>1, <3>2
    <3>4. y[d] = got[d]
      BY <1>8, <2>2, <3>1
    <3> HIDE DEF v, y
    <3>5. QED BY <2>1, <3>1, <3>3, <3>4, WorldFields DEF Counted
  <2>3. ASSUME c \in up PROVE Counted(v, y, c)
    <3>1. Done(v.ready, c, Write)
      BY <1>3, <1>4
    <3>2. Len(y[c]) = Len(g) + 1 /\ Len(g) + Len(q) = sent[c]
      BY <1>9, <2>3
    <3>3. (Len(g) + 1) + Len(q) = sent[c] + 1
      <4> HIDE DEF g, q
      <4>1. QED BY <1>5, <1>6, <3>2
    <3> HIDE DEF v, y
    <3>4. QED BY <2>1, <3>1, <3>2, <3>3 DEF Counted
  <2> HIDE DEF v, y
  <2>4. \A d \in up : Counted(v, y, d)
    BY <2>2, <2>3
  <2>5. QED BY <1>3, <2>4 DEF v, y
<1>12. SessionInv'
  BY <1>3, <1>10, <1>11 DEF SessionInv, Sound, Open, Writing, Reading, Counted, Half
<1>13. UNCHANGED Abstract \/ Link!Next
  <2>1. CASE c \in up
    <3>1. Link!Deliver(c)
      BY <1>3, <1>9, <2>1 DEF Link!Deliver
    <3>2. \A d \in Conn \ {c} : UNCHANGED Link!Rest(d)
      BY <1>3, <1>8 DEF Link!Rest
    <3>3. QED BY <3>1, <3>2 DEF Link!Next
  <2>2. CASE c \notin up
    BY <1>1, <1>3, <2>2 DEF Abstract
  <2>3. QED BY <2>1, <2>2
<1>14. QED BY <1>12, <1>13
-----------------------------------------------------------------------------
(* Theorems. *)

\* Every step keeps the invariant and is a step of the packet link, or none.
LEMMA SessionStep ==
  ASSUME SessionInv, [Next]_vars
  PROVE  SessionInv' /\ [Link!Next]_Abstract
<1>1. ASSUME NEW c \in Conn, Accept(c) PROVE SessionInv' /\ [Link!Next]_Abstract
  BY <1>1, AcceptStep
<1>2. ASSUME NEW c \in Conn, NEW length \in Length, ClientSends(c, length)
      PROVE  SessionInv' /\ [Link!Next]_Abstract
  BY <1>2, ClientStep
<1>3. ASSUME Ends \/ \E c \in Conn : LinkBreaks(c) PROVE SessionInv' /\ [Link!Next]_Abstract
  <2>1. World' = World /\ accepted' = accepted /\ got' = got /\ up' \subseteq up
        /\ closed' = closed /\ sent' = sent /\ inbox' = inbox /\ inbox \in [Conn -> Seq(Nat)]
    BY <1>3 DEF World, session, LinkBreaks, Ends, SessionInv, Placed
  <2>2. QED BY <2>1, QuietStep DEF Abstract
<1>4. CASE RunHeader
  BY <1>4, HeaderStep
<1>5. CASE RunBody
  BY <1>5, BodyStep
<1>6. CASE RunWrite
  BY <1>6, WriteStep
<1>7. CASE ReadCompletes
  BY <1>7, ReadCompletesStep
<1>8. CASE WriteCompletes
  BY <1>8, WriteCompletesStep
<1>9. CASE UNCHANGED vars
  <2>1. World' = World /\ accepted' = accepted /\ got' = got /\ up' \subseteq up
        /\ closed' = closed /\ sent' = sent /\ inbox' = inbox /\ inbox \in [Conn -> Seq(Nat)]
    BY <1>9 DEF World, session, vars, SessionInv, Placed
  <2>2. QED BY <2>1, QuietStep DEF Abstract
<1>10. QED BY <1>1, <1>2, <1>3, <1>4, <1>5, <1>6, <1>7, <1>8, <1>9 DEF Next, RunHandler, AcceptThrows, RunBodyThrows

\* At the start there are no sessions.
LEMMA SessionInit ==
  ASSUME Init
  PROVE  SessionInv /\ Link!Init
<1>1. World \in Worlds
  <2>1. /\ closed \in [Conn -> BOOLEAN] /\ notified \in [Conn -> Nat] /\ write_queue \in [Conn -> Seq(Nat)]
        /\ write_in_progress \in [Conn -> BOOLEAN] /\ sent \in [Conn -> Nat]
        /\ waiting \in SUBSET Operation /\ ready \in Seq(Finished)
    BY DEF Init
  <2>2. QED BY <2>1 DEF World, Worlds
<1>2. /\ waiting = {} /\ Len(ready) = 0 /\ accepted = {} /\ up = {}
      /\ \A c \in Conn : /\ ~closed[c] /\ ~write_in_progress[c] /\ notified[c] = 0
                         /\ write_queue[c] = <<>> /\ sent[c] = 0 /\ got[c] = <<>>
      /\ got \in [Conn -> Seq(Nat)] /\ inbox \in [Conn -> Seq(Nat)]
  BY DEF Init
<1>3. Sound(World, accepted)
  <2>1. \A c \in Conn : Numbered(write_queue[c], sent[c])
    BY <1>2 DEF Numbered
  <2>2. IsFiniteSet(waiting)
    BY <1>2, FS_EmptySet
  <2>3. QED BY <1>1, <1>2, <2>1, <2>2, WorldFields DEF Sound
<1>4. Open(World)
  BY <1>2, WorldFields DEF Open
<1>5. \A c \in Conn : Writing(World, c)
  BY <1>2, WorldFields DEF Writing, Half, NoneOf
<1>6. Placed
  BY <1>2 DEF Placed
<1>7. SessionInv
  BY <1>2, <1>3, <1>4, <1>5, <1>6 DEF SessionInv
<1>8. Link!Init
  BY DEF Init, Link!Init
<1>9. QED BY <1>7, <1>8

\* The inductive invariant: every session's tokens, its queue and what its
\* client has fit together, in every state the handlers can reach.
THEOREM SessionHolds == Spec => []SessionInv
<1>1. Init => SessionInv
  BY SessionInit
<1>2. SessionInv /\ [Next]_vars => SessionInv'
  BY SessionStep
<1>3. QED BY <1>1, <1>2, PTL DEF Spec

\* Pending counts tokens.
LEMMA PendingOne ==
  ASSUME NEW c, NEW K, ready \in Seq(Finished)
  PROVE  /\ OneOf(waiting, ready, c, K) => Pending(c, K) = 1
         /\ NoneOf(waiting, ready, c, K) => Pending(c, K) = 0
<1> DEFINE P == {o \in waiting : o.c = c /\ o.op \in K}
           Q == {i \in DOMAIN ready : ready[i].c = c /\ ready[i].op \in K}
<1>1. Pending(c, K) = Cardinality(P) + Cardinality(Q)
  BY DEF Pending
<1>2. /\ \A o \in waiting : (o \in P <=> Token(o, c, K))
      /\ \A i : (i \in Q <=> i \in 1..Len(ready) /\ Token(ready[i], c, K))
      /\ P \subseteq waiting
  BY DEF Token
<1> HIDE DEF P, Q
<1>3. ASSUME OneOf(waiting, ready, c, K) PROVE (\E x : P = {x} /\ Q = {}) \/ (\E x : P = {} /\ Q = {x})
  <2>1. CASE \A i \in 1..Len(ready) : ~Token(ready[i], c, K)
    <3>1. PICK o \in waiting : Token(o, c, K) /\ \A x \in waiting : (Token(x, c, K) => x = o)
      BY <1>3, <2>1 DEF OneOf
    <3>2. P = {o}
      BY <1>2, <3>1
    <3>3. Q = {}
      BY <1>2, <2>1
    <3>4. QED BY <3>2, <3>3
  <2>2. CASE ~(\A i \in 1..Len(ready) : ~Token(ready[i], c, K))
    <3>1. PICK i \in 1..Len(ready) : Token(ready[i], c, K) /\ \A j \in 1..Len(ready) : (Token(ready[j], c, K) => j = i)
      BY <1>3, <2>2 DEF OneOf
    <3>2. \A o \in waiting : ~Token(o, c, K)
      BY <1>3, <2>2 DEF OneOf
    <3>3. Q = {i}
      BY <1>2, <3>1
    <3>4. P = {}
      BY <1>2, <3>2
    <3>5. QED BY <3>3, <3>4
  <2>3. QED BY <2>1, <2>2
<1>4. Cardinality({}) = 0 /\ \A x : Cardinality({x}) = 1
  BY FS_EmptySet, FS_Singleton
<1>5. ASSUME OneOf(waiting, ready, c, K) PROVE Pending(c, K) = 1
  <2>1. CASE \E x : P = {x} /\ Q = {}
    <3>1. Cardinality(P) = 1 /\ Cardinality(Q) = 0
      BY Zenon, <1>4, <2>1
    <3>2. QED BY <1>1, <3>1
  <2>2. CASE \E x : P = {} /\ Q = {x}
    <3>1. Cardinality(P) = 0 /\ Cardinality(Q) = 1
      BY Zenon, <1>4, <2>2
    <3>2. QED BY <1>1, <3>1
  <2>3. QED BY <1>3, <1>5, <2>1, <2>2
<1>6. ASSUME NoneOf(waiting, ready, c, K) PROVE Pending(c, K) = 0
  <2>1. P = {} /\ Q = {}
    BY <1>2, <1>6 DEF NoneOf
  <2>2. Cardinality(P) = 0 /\ Cardinality(Q) = 0
    BY Zenon, <1>4, <2>1
  <2>3. QED BY <1>1, <2>2
<1>7. QED BY <1>5, <1>6

\* An open session always has exactly one read under way, and a closed one
\* nothing on its socket and its end reported once.
THEOREM SessionsListen == Spec => []OpenSessionListens
<1>1. ASSUME SessionInv, running \in BOOLEAN PROVE OpenSessionListens
  <2>1. World \in Worlds /\ Placed /\ Sound(World, accepted) /\ Open(World)
    BY <1>1 DEF SessionInv, Sound
  <2>2. /\ closed \in [Conn -> BOOLEAN] /\ write_in_progress \in [Conn -> BOOLEAN]
        /\ ready \in Seq(Finished) /\ waiting \subseteq Operation
    BY <2>1, WorldFields DEF Worlds
  <2>3. TypeOK
    <3>1. \A c \in Conn : notified[c] = (IF closed[c] THEN 1 ELSE 0)
      BY <2>1, WorldFields DEF Sound
    <3>2. \A o \in waiting : o.op \in {"header", "body", "write"} /\ o.c \in accepted
      BY <2>1, <2>2, WorldFields DEF Sound, Operation
    <3>3. QED BY <1>1, <2>1, <2>2, <3>1, <3>2 DEF TypeOK, Placed
  <2>4. ASSUME NEW c \in accepted, ~closed[c] PROVE Pending(c, {"header", "body"}) = 1
    <3>1. OneOf(waiting, ready, c, Read)
      BY <1>1, <2>4, WorldFields DEF SessionInv, Reading
    <3>2. Pending(c, Read) = 1
      BY <2>2, <3>1, PendingOne
    <3>3. QED BY <3>2 DEF Read
  <2>5. \A o \in waiting : ~closed[o.c]
    BY <2>1, WorldFields DEF Open
  <2>6. QED BY <2>3, <2>4, <2>5 DEF OpenSessionListens
<1>2. Init => running \in BOOLEAN
  BY DEF Init
<1>3. running \in BOOLEAN /\ [Next]_vars => (running \in BOOLEAN)'
  BY DEF Next, vars, RunHandler, RunHeader, RunBody, RunBodyThrows, RunWrite, Accept, AcceptThrows, Ends,
         LinkBreaks, ClientSends, ReadCompletes, WriteCompletes, Completes
<1>4. SessionInv /\ running \in BOOLEAN => OpenSessionListens
  BY <1>1
<1>5. QED BY <1>2, <1>3, <1>4, SessionHolds, PTL DEF Spec

\* A packet in the queue of an open session is always being written: once, from
\* the front.
THEOREM QueuesAreWritten == Spec => []QueueIsWritten
<1>1. ASSUME SessionInv, NEW c \in accepted, ~closed[c]
      PROVE  /\ write_queue[c] # <<>> <=> write_in_progress[c]
             /\ Pending(c, {"write"}) = (IF write_in_progress[c] THEN 1 ELSE 0)
             /\ \A o \in waiting : o.c = c /\ o.op = "write" => o.packet = Head(write_queue[c])
  <2>1. c \in Conn /\ ready \in Seq(Finished)
    BY <1>1, WorldFields DEF SessionInv, Placed, Sound, Worlds
  <2>2. Half(World, c) /\ (write_queue[c] # <<>> => write_in_progress[c])
    BY <1>1, <2>1, WorldFields DEF SessionInv, Writing
  <2>3. /\ write_in_progress[c] => write_queue[c] # <<>> /\ OneOf(waiting, ready, c, Write)
        /\ ~write_in_progress[c] => NoneOf(waiting, ready, c, Write)
        /\ \A o \in waiting : (Token(o, c, Write) => o.packet = Head(write_queue[c]))
    BY <2>2, WorldFields DEF Half
  <2>4. Pending(c, Write) = (IF write_in_progress[c] THEN 1 ELSE 0)
    BY <2>1, <2>3, PendingOne
  <2>5. Pending(c, {"write"}) = (IF write_in_progress[c] THEN 1 ELSE 0)
    BY <2>4 DEF Write
  <2>6. \A o \in waiting : o.c = c /\ o.op = "write" => o.packet = Head(write_queue[c])
    BY <2>3 DEF Token, Write
  <2>7. QED BY <2>2, <2>3, <2>5, <2>6
<1>2. SessionInv => QueueIsWritten
  BY <1>1 DEF QueueIsWritten
<1>3. QED BY <1>2, SessionHolds, PTL

\* The sessions implement the packet link: each client gets the packets of its
\* connection in the order of the calls of send(), each once, and nothing
\* after the connection is closed.
THEOREM SessionsArePacketLinks == Spec => IsPacketLink
<1>1. Init => Link!Init
  BY SessionInit
<1>2. SessionInv /\ [Next]_vars => [Link!Next]_<<closed, sent, got>>
  BY SessionStep DEF Abstract
<1>3. QED BY <1>1, <1>2, SessionHolds, PTL DEF Spec, IsPacketLink, Link!Spec
=============================================================================
