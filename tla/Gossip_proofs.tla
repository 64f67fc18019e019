---------------------------- MODULE Gossip_proofs ----------------------------
(***************************************************************************)
(* Theorems about Gossip, for all networks, heights, items and breaks.     *)
(*                                                                         *)
(* A block that a node announces passes through three queues on its way:   *)
(* its announcement, the request for it, and the block itself.  The node   *)
(* at the other end drops a block whose parent it lacks, for good; so that *)
(* no block is lost, each stage must have the blocks in order, and each    *)
(* block's parent must be ahead of it, in its own queue or in a later one. *)
(***************************************************************************)
EXTENDS Gossip, FiniteSetTheorems, TLAPS

(* Messages in a queue *)

Holds(q, m) == \E k \in DOMAIN q : q[k] = m

Has(q, T, b) == \E k \in DOMAIN q : q[k].type = T /\ q[k].block = b

Before(q, T, b, i) ==
  \E k \in DOMAIN q : k < i /\ q[k].type = T /\ q[k].block = b

\* The three stages: blocks R, requests G and announcements S, to a node of
\* height h.
Ordered(R, G, S, h) ==
  /\ \A k \in DOMAIN R : R[k].type = "InfoBlock" /\ R[k].block > h + 1 =>
       Before(R, "InfoBlock", R[k].block - 1, k)
  /\ \A k \in DOMAIN G : G[k].type = "GetBlock" /\ G[k].block > h + 1 =>
       \/ Before(G, "GetBlock", G[k].block - 1, k)
       \/ Has(R, "InfoBlock", G[k].block - 1)
  /\ \A k \in DOMAIN S : S[k].type = "InvBlock" /\ S[k].block > h + 1 =>
       \/ Before(S, "InvBlock", S[k].block - 1, k)
       \/ Has(G, "GetBlock", S[k].block - 1)
       \/ Has(R, "InfoBlock", S[k].block - 1)

OnItsWay(R, G, S, b) ==
  Has(R, "InfoBlock", b) \/ Has(G, "GetBlock", b) \/ Has(S, "InvBlock", b)

\* Each block from h to H is in some stage, unless it is still to be announced.
Covers(R, G, S, h, H, still) ==
  \A b \in h + 1 .. H : OnItsWay(R, G, S, b) \/ (still /\ b = H)

Pipe(R, G, S, h, H, still) ==
  Ordered(R, G, S, h) /\ Covers(R, G, S, h, H, still)

-----------------------------------------------------------------------------
(* Sequences of messages *)

LEMMA ConcatParts ==
  ASSUME NEW q \in Seq(Message), NEW e \in Seq(Message)
  PROVE  /\ q \o e \in Seq(Message)
         /\ \A k \in DOMAIN q : k \in DOMAIN (q \o e) /\ (q \o e)[k] = q[k]
         /\ \A k \in DOMAIN (q \o e) :
              \/ k \in DOMAIN q
              \/ k - Len(q) \in DOMAIN e /\ (q \o e)[k] = e[k - Len(q)] /\ k > Len(q)
         /\ \A k \in DOMAIN e :
              k + Len(q) \in DOMAIN (q \o e) /\ (q \o e)[k + Len(q)] = e[k]
         /\ DOMAIN q = 1 .. Len(q) /\ Len(q) \in Nat /\ DOMAIN (q \o e) \subseteq Nat
OBVIOUS

LEMMA AppendParts ==
  ASSUME NEW q \in Seq(Message), NEW m \in Message
  PROVE  /\ Append(q, m) \in Seq(Message)
         /\ DOMAIN Append(q, m) = DOMAIN q \cup {Len(q) + 1}
         /\ \A k \in DOMAIN q : Append(q, m)[k] = q[k] /\ k < Len(q) + 1
         /\ Append(q, m)[Len(q) + 1] = m
         /\ DOMAIN q = 1 .. Len(q) /\ Len(q) \in Nat
OBVIOUS

LEMMA TailParts ==
  ASSUME NEW q \in Seq(Message), q # <<>>
  PROVE  /\ Tail(q) \in Seq(Message)
         /\ Head(q) \in Message
         /\ Head(q) = q[1] /\ 1 \in DOMAIN q
         /\ DOMAIN q = 1 .. Len(q) /\ Len(q) \in Nat
         /\ DOMAIN Tail(q) = 1 .. Len(q) - 1
         /\ \A k \in DOMAIN Tail(q) : k + 1 \in DOMAIN q /\ Tail(q)[k] = q[k + 1]
         /\ \A k \in DOMAIN q :
              k = 1 \/ (k - 1 \in DOMAIN Tail(q) /\ Tail(q)[k - 1] = q[k])
OBVIOUS

LEMMA MessageBlock ==
  ASSUME NEW q \in Seq(Message), NEW k \in DOMAIN q
  PROVE  q[k] \in Message /\ q[k].block \in Nat
<1>1. q[k] \in Message
  OBVIOUS
<1> QED BY <1>1 DEF Message

LEMMA HasConcat ==
  ASSUME NEW q \in Seq(Message), NEW e \in Seq(Message), NEW T, NEW b
  PROVE  /\ Has(q \o e, T, b) <=> Has(q, T, b) \/ Has(e, T, b)
         /\ \A k \in DOMAIN q : Before(q \o e, T, b, k) <=> Before(q, T, b, k)
<1> DEFINE r == q \o e
<1>1. /\ \A k \in DOMAIN q : k \in DOMAIN r /\ r[k] = q[k]
      /\ \A k \in DOMAIN r : \/ k \in DOMAIN q
                             \/ k - Len(q) \in DOMAIN e /\ r[k] = e[k - Len(q)] /\ k > Len(q)
      /\ \A k \in DOMAIN e : k + Len(q) \in DOMAIN r /\ r[k + Len(q)] = e[k]
      /\ DOMAIN q = 1 .. Len(q) /\ Len(q) \in Nat /\ DOMAIN r \subseteq Nat
  BY ConcatParts
<1> HIDE DEF r
<1>2. Has(r, T, b) => Has(q, T, b) \/ Has(e, T, b)
  BY <1>1 DEF Has
<1>3. Has(q, T, b) \/ Has(e, T, b) => Has(r, T, b)
  BY <1>1 DEF Has
<1>4. ASSUME NEW k \in DOMAIN q
      PROVE  Before(r, T, b, k) <=> Before(q, T, b, k)
  <2>1. ASSUME NEW j \in DOMAIN r, j < k
        PROVE  j \in DOMAIN q
    <3>1. j \in Nat /\ k \in Nat /\ k <= Len(q)
      BY <1>1
    <3> QED BY <1>1, <2>1, <3>1
  <2> QED BY <1>1, <2>1 DEF Before
<1> QED BY <1>2, <1>3, <1>4 DEF r

LEMMA HasAppend ==
  ASSUME NEW q \in Seq(Message), NEW m \in Message, NEW T, NEW b
  PROVE  /\ Has(Append(q, m), T, b) <=> Has(q, T, b) \/ (m.type = T /\ m.block = b)
         /\ \A k \in DOMAIN q : Before(Append(q, m), T, b, k) <=> Before(q, T, b, k)
         /\ Before(Append(q, m), T, b, Len(q) + 1) <=> Has(q, T, b)
<1> DEFINE r == Append(q, m)
<1>1. /\ DOMAIN r = DOMAIN q \cup {Len(q) + 1}
      /\ \A k \in DOMAIN q : r[k] = q[k] /\ k < Len(q) + 1
      /\ r[Len(q) + 1] = m
      /\ DOMAIN q = 1 .. Len(q) /\ Len(q) \in Nat
  BY AppendParts
<1> HIDE DEF r
<1>2. Has(r, T, b) <=> Has(q, T, b) \/ (m.type = T /\ m.block = b)
  BY <1>1 DEF Has
<1>3. \A k \in DOMAIN q : Before(r, T, b, k) <=> Before(q, T, b, k)
  BY <1>1 DEF Before
<1>4. Before(r, T, b, Len(q) + 1) <=> Has(q, T, b)
  BY <1>1 DEF Before, Has
<1> QED BY <1>2, <1>3, <1>4 DEF r

LEMMA HasTail ==
  ASSUME NEW q \in Seq(Message), q # <<>>, NEW T, NEW b
  PROVE  /\ Has(q, T, b) <=> Has(Tail(q), T, b) \/ (Head(q).type = T /\ Head(q).block = b)
         /\ \A k \in DOMAIN Tail(q) :
              Before(q, T, b, k + 1)
                <=> Before(Tail(q), T, b, k) \/ (Head(q).type = T /\ Head(q).block = b)
         /\ ~Before(q, T, b, 1)
<1> DEFINE r == Tail(q)
<1>1. /\ Head(q) = q[1] /\ 1 \in DOMAIN q
      /\ DOMAIN q = 1 .. Len(q) /\ Len(q) \in Nat
      /\ DOMAIN r = 1 .. Len(q) - 1
      /\ \A k \in DOMAIN r : k + 1 \in DOMAIN q /\ r[k] = q[k + 1]
      /\ \A k \in DOMAIN q : k = 1 \/ (k - 1 \in DOMAIN r /\ r[k - 1] = q[k])
  BY TailParts
<1> HIDE DEF r
<1>2. Has(q, T, b) => Has(r, T, b) \/ (Head(q).type = T /\ Head(q).block = b)
  BY <1>1 DEF Has
<1>3. Has(r, T, b) \/ (Head(q).type = T /\ Head(q).block = b) => Has(q, T, b)
  BY <1>1 DEF Has
<1>4. ASSUME NEW k \in DOMAIN r
      PROVE  Before(q, T, b, k + 1)
               <=> Before(r, T, b, k) \/ (Head(q).type = T /\ Head(q).block = b)
  <2>1. ASSUME Before(q, T, b, k + 1)
        PROVE  Before(r, T, b, k) \/ (Head(q).type = T /\ Head(q).block = b)
    BY <1>1, <2>1 DEF Before
  <2>2. ASSUME Before(r, T, b, k)
        PROVE  Before(q, T, b, k + 1)
    BY <1>1, <2>2 DEF Before
  <2>3. ASSUME Head(q).type = T, Head(q).block = b
        PROVE  Before(q, T, b, k + 1)
    BY <1>1, <2>3 DEF Before
  <2> QED BY <2>1, <2>2, <2>3
<1>5. ~Before(q, T, b, 1)
  BY <1>1 DEF Before
<1> QED BY <1>2, <1>3, <1>4, <1>5 DEF r
-----------------------------------------------------------------------------
(* The stages when a message is added to one or taken from one *)

\* A block joins R behind its parent.
LEMMA GrowBlocks ==
  ASSUME NEW R \in Seq(Message), NEW G \in Seq(Message), NEW S \in Seq(Message),
         NEW h \in Nat, NEW H \in Nat, NEW still, NEW m \in Message,
         Pipe(R, G, S, h, H, still),
         m.type = "InfoBlock" /\ m.block > h + 1 => Has(R, "InfoBlock", m.block - 1)
  PROVE  Pipe(Append(R, m), G, S, h, H, still)
<1> DEFINE Q == Append(R, m)
<1>1. \A T, b : /\ Has(R, T, b) => Has(Q, T, b)
                /\ \A k \in DOMAIN R : Before(Q, T, b, k) <=> Before(R, T, b, k)
                /\ Before(Q, T, b, Len(R) + 1) <=> Has(R, T, b)
  BY HasAppend
<1>2. /\ DOMAIN Q = DOMAIN R \cup {Len(R) + 1}
      /\ \A k \in DOMAIN R : Q[k] = R[k]
      /\ Q[Len(R) + 1] = m
  BY AppendParts
<1> HIDE DEF Q
<1>3. Ordered(Q, G, S, h)
  BY <1>1, <1>2 DEF Pipe, Ordered
<1>4. Covers(Q, G, S, h, H, still)
  BY <1>1 DEF Pipe, Covers, OnItsWay
<1> QED BY <1>3, <1>4 DEF Pipe, Q

\* A request joins G behind that for the parent.
LEMMA GrowRequests ==
  ASSUME NEW R \in Seq(Message), NEW G \in Seq(Message), NEW S \in Seq(Message),
         NEW h \in Nat, NEW H \in Nat, NEW still, NEW m \in Message,
         Pipe(R, G, S, h, H, still),
         m.type = "GetBlock" /\ m.block > h + 1 =>
           Has(G, "GetBlock", m.block - 1) \/ Has(R, "InfoBlock", m.block - 1)
  PROVE  Pipe(R, Append(G, m), S, h, H, still)
<1> DEFINE Q == Append(G, m)
<1>1. \A T, b : /\ Has(G, T, b) => Has(Q, T, b)
                /\ \A k \in DOMAIN G : Before(Q, T, b, k) <=> Before(G, T, b, k)
                /\ Before(Q, T, b, Len(G) + 1) <=> Has(G, T, b)
  BY HasAppend
<1>2. /\ DOMAIN Q = DOMAIN G \cup {Len(G) + 1}
      /\ \A k \in DOMAIN G : Q[k] = G[k]
      /\ Q[Len(G) + 1] = m
  BY AppendParts
<1> HIDE DEF Q
<1>3. Ordered(R, Q, S, h)
  BY <1>1, <1>2 DEF Pipe, Ordered
<1>4. Covers(R, Q, S, h, H, still)
  BY <1>1 DEF Pipe, Covers, OnItsWay
<1> QED BY <1>3, <1>4 DEF Pipe, Q

\* Block H is announced: the last one that was still to be announced, or the
\* next one if there was none.
LEMMA GrowAnnounced ==
  ASSUME NEW R \in Seq(Message), NEW G \in Seq(Message), NEW S \in Seq(Message),
         NEW h \in Nat, NEW H \in Nat, NEW m \in Message,
         m.type = "InvBlock", m.block = H,
         Ordered(R, G, S, h),
         \A b \in h + 1 .. H - 1 : OnItsWay(R, G, S, b)
  PROVE  Pipe(R, G, Append(S, m), h, H, FALSE)
<1> DEFINE Q == Append(S, m)
<1>1. \A T, b : /\ Has(Q, T, b) <=> Has(S, T, b) \/ (m.type = T /\ m.block = b)
                /\ \A k \in DOMAIN S : Before(Q, T, b, k) <=> Before(S, T, b, k)
                /\ Before(Q, T, b, Len(S) + 1) <=> Has(S, T, b)
  BY HasAppend
<1>2. /\ DOMAIN Q = DOMAIN S \cup {Len(S) + 1}
      /\ \A k \in DOMAIN S : Q[k] = S[k]
      /\ Q[Len(S) + 1] = m
  BY AppendParts
<1> HIDE DEF Q
<1>3. Ordered(R, G, Q, h)
  <2> SUFFICES ASSUME NEW k \in DOMAIN Q, Q[k].type = "InvBlock", Q[k].block > h + 1
               PROVE  \/ Before(Q, "InvBlock", Q[k].block - 1, k)
                      \/ Has(G, "GetBlock", Q[k].block - 1)
                      \/ Has(R, "InfoBlock", Q[k].block - 1)
    BY DEF Ordered
  <2>1. CASE k \in DOMAIN S
    <3>1. Q[k] = S[k]
      BY <1>2, <2>1
    <3> QED BY <1>1, <2>1, <3>1 DEF Ordered
  <2>2. CASE k = Len(S) + 1
    <3>1. Q[k].block = H
      BY <1>2, <2>2
    <3>2. OnItsWay(R, G, S, H - 1)
      BY <3>1
    <3> QED BY <1>1, <2>2, <3>1, <3>2 DEF OnItsWay
  <2> QED BY <1>2, <2>1, <2>2
<1>4. Covers(R, G, Q, h, H, FALSE)
  <2> SUFFICES ASSUME NEW b \in h + 1 .. H
               PROVE  OnItsWay(R, G, Q, b)
    BY DEF Covers
  <2>1. CASE b = H
    BY <1>1, <2>1 DEF OnItsWay
  <2>2. CASE b # H
    <3>1. OnItsWay(R, G, S, b)
      BY <2>2
    <3> QED BY <1>1, <3>1 DEF OnItsWay
  <2> QED BY <2>1, <2>2
<1> QED BY <1>3, <1>4 DEF Pipe, Q

\* The first block leaves R, for a node whose height is h or becomes h.
LEMMA ShrinkBlocks ==
  ASSUME NEW R \in Seq(Message), NEW G \in Seq(Message), NEW S \in Seq(Message),
         NEW h \in Nat, NEW h2 \in Nat, NEW H \in Nat, NEW still,
         R # <<>>, h <= h2,
         Pipe(R, G, S, h, H, still),
         Head(R).type = "InfoBlock" => Head(R).block # h + 1 \/ h2 = h + 1
  PROVE  Pipe(Tail(R), G, S, h2, H, still)
<1> DEFINE Q == Tail(R)
           gone(T, b) == Head(R).type = T /\ Head(R).block = b
<1>1. \A T, b : /\ Has(R, T, b) <=> Has(Q, T, b) \/ gone(T, b)
                /\ \A k \in DOMAIN Q : Before(R, T, b, k + 1)
                                         <=> Before(Q, T, b, k) \/ gone(T, b)
                /\ ~Before(R, T, b, 1)
  BY HasTail
<1>2. /\ 1 \in DOMAIN R /\ Head(R) = R[1]
      /\ \A k \in DOMAIN Q : k + 1 \in DOMAIN R /\ Q[k] = R[k + 1]
  BY TailParts
<1>3. /\ \A k \in DOMAIN Q : Q[k].block \in Nat
      /\ \A k \in DOMAIN G : G[k].block \in Nat
      /\ \A k \in DOMAIN S : S[k].block \in Nat
      /\ Head(R).block \in Nat
  BY TailParts, MessageBlock
<1> HIDE DEF Q
<1>4. \A b : gone("InfoBlock", b) => b \in Nat /\ b <= h2
  <2> SUFFICES ASSUME Head(R).type = "InfoBlock"
               PROVE  Head(R).block <= h2
    BY <1>3
  <2>1. ~(Head(R).block > h + 1)
    BY <1>1, <1>2 DEF Pipe, Ordered
  <2> QED BY <1>3, <2>1
<1> HIDE DEF gone
<1>5. Ordered(Q, G, S, h2)
  <2>1. ASSUME NEW k \in DOMAIN Q, Q[k].type = "InfoBlock", Q[k].block > h2 + 1
        PROVE  Before(Q, "InfoBlock", Q[k].block - 1, k)
    <3>1. Before(R, "InfoBlock", Q[k].block - 1, k + 1)
      BY SMTT(30), <1>2, <1>3, <2>1 DEF Pipe, Ordered
    <3>2. ~gone("InfoBlock", Q[k].block - 1)
      BY <1>3, <1>4, <2>1
    <3> QED BY <1>1, <3>1, <3>2
  <2>2. ASSUME NEW k \in DOMAIN G, G[k].type = "GetBlock", G[k].block > h2 + 1
        PROVE  \/ Before(G, "GetBlock", G[k].block - 1, k)
               \/ Has(Q, "InfoBlock", G[k].block - 1)
    <3>1. ~gone("InfoBlock", G[k].block - 1)
      BY <1>3, <1>4, <2>2
    <3> QED BY <1>1, <1>3, <2>2, <3>1 DEF Pipe, Ordered
  <2>3. ASSUME NEW k \in DOMAIN S, S[k].type = "InvBlock", S[k].block > h2 + 1
        PROVE  \/ Before(S, "InvBlock", S[k].block - 1, k)
               \/ Has(G, "GetBlock", S[k].block - 1)
               \/ Has(Q, "InfoBlock", S[k].block - 1)
    <3>1. ~gone("InfoBlock", S[k].block - 1)
      BY <1>3, <1>4, <2>3
    <3> QED BY <1>1, <1>3, <2>3, <3>1 DEF Pipe, Ordered
  <2> QED BY <2>1, <2>2, <2>3 DEF Ordered
<1>6. Covers(Q, G, S, h2, H, still)
  BY <1>1, <1>4 DEF Pipe, Covers, OnItsWay
<1> QED BY <1>5, <1>6 DEF Pipe, Q

\* The first request leaves G: its block is known or in R.
LEMMA ShrinkRequests ==
  ASSUME NEW R \in Seq(Message), NEW G \in Seq(Message), NEW S \in Seq(Message),
         NEW h \in Nat, NEW H \in Nat, NEW still,
         G # <<>>,
         Pipe(R, G, S, h, H, still),
         Head(G).type = "GetBlock" => Has(R, "InfoBlock", Head(G).block)
  PROVE  Pipe(R, Tail(G), S, h, H, still)
<1> DEFINE Q == Tail(G)
           gone(T, b) == Head(G).type = T /\ Head(G).block = b
<1>1. \A T, b : /\ Has(G, T, b) <=> Has(Q, T, b) \/ gone(T, b)
                /\ \A k \in DOMAIN Q : Before(G, T, b, k + 1)
                                         <=> Before(Q, T, b, k) \/ gone(T, b)
  BY HasTail
<1>2. \A k \in DOMAIN Q : k + 1 \in DOMAIN G /\ Q[k] = G[k + 1]
  BY TailParts
<1> HIDE DEF Q
<1>3. \A b : gone("GetBlock", b) => Has(R, "InfoBlock", b)
  OBVIOUS
<1> HIDE DEF gone
<1>4. Ordered(R, Q, S, h)
  BY <1>1, <1>2, <1>3 DEF Pipe, Ordered
<1>5. Covers(R, Q, S, h, H, still)
  BY <1>1, <1>3 DEF Pipe, Covers, OnItsWay
<1> QED BY <1>4, <1>5 DEF Pipe, Q

\* The first announcement leaves S: its block is known or requested.
LEMMA ShrinkAnnounced ==
  ASSUME NEW R \in Seq(Message), NEW G \in Seq(Message), NEW S \in Seq(Message),
         NEW h \in Nat, NEW H \in Nat, NEW still,
         S # <<>>,
         Pipe(R, G, S, h, H, still),
         Head(S).type = "InvBlock" =>
           Head(S).block <= h \/ Has(G, "GetBlock", Head(S).block)
  PROVE  Pipe(R, G, Tail(S), h, H, still)
<1> DEFINE Q == Tail(S)
           gone(T, b) == Head(S).type = T /\ Head(S).block = b
<1>1. \A T, b : /\ Has(S, T, b) <=> Has(Q, T, b) \/ gone(T, b)
                /\ \A k \in DOMAIN Q : Before(S, T, b, k + 1)
                                         <=> Before(Q, T, b, k) \/ gone(T, b)
  BY HasTail
<1>2. \A k \in DOMAIN Q : k + 1 \in DOMAIN S /\ Q[k] = S[k + 1]
  BY TailParts
<1>3. \A k \in DOMAIN Q : Q[k].block \in Nat
  BY TailParts, MessageBlock
<1> HIDE DEF Q
<1>4. \A b : gone("InvBlock", b) => b <= h \/ Has(G, "GetBlock", b)
  OBVIOUS
<1> HIDE DEF gone
<1>5. Ordered(R, G, Q, h)
  <2> SUFFICES ASSUME NEW k \in DOMAIN Q, Q[k].type = "InvBlock", Q[k].block > h + 1
               PROVE  \/ Before(Q, "InvBlock", Q[k].block - 1, k)
                      \/ Has(G, "GetBlock", Q[k].block - 1)
                      \/ Has(R, "InfoBlock", Q[k].block - 1)
    BY DEF Pipe, Ordered
  <2>1. \/ Before(S, "InvBlock", Q[k].block - 1, k + 1)
        \/ Has(G, "GetBlock", Q[k].block - 1)
        \/ Has(R, "InfoBlock", Q[k].block - 1)
    BY <1>2 DEF Pipe, Ordered
  <2>2. ~(Q[k].block - 1 <= h)
    BY <1>3
  <2> QED BY <1>1, <1>4, <2>1, <2>2
<1>6. Covers(R, G, Q, h, H, still)
  BY <1>1, <1>4 DEF Pipe, Covers, OnItsWay
<1> QED BY <1>5, <1>6 DEF Pipe, Q

\* A node's own height rises.
LEMMA RisePipe ==
  ASSUME NEW R \in Seq(Message), NEW G \in Seq(Message), NEW S \in Seq(Message),
         NEW h \in Nat, NEW h2 \in Nat, NEW H \in Nat, NEW still,
         h <= h2,
         Pipe(R, G, S, h, H, still)
  PROVE  Pipe(R, G, S, h2, H, still)
<1>1. /\ \A k \in DOMAIN R : R[k].block \in Nat
      /\ \A k \in DOMAIN G : G[k].block \in Nat
      /\ \A k \in DOMAIN S : S[k].block \in Nat
  BY MessageBlock
<1>2. Ordered(R, G, S, h2)
  BY <1>1 DEF Pipe, Ordered
<1>3. Covers(R, G, S, h2, H, still)
  BY DEF Pipe, Covers
<1> QED BY <1>2, <1>3 DEF Pipe

\* A node that has all blocks there are misses none.
LEMMA StartPipe ==
  ASSUME NEW R \in Seq(Message), NEW G \in Seq(Message), NEW S \in Seq(Message),
         NEW h \in Nat, NEW H \in Nat, NEW still,
         H <= h,
         \A m \in Message :
           /\ Holds(R, m) /\ m.type = "InfoBlock" => m.block <= H
           /\ Holds(G, m) /\ m.type = "GetBlock" => m.block <= H
           /\ Holds(S, m) /\ m.type = "InvBlock" => m.block <= H
  PROVE  Pipe(R, G, S, h, H, still)
<1>1. /\ \A k \in DOMAIN R : R[k] \in Message /\ R[k].block \in Nat /\ Holds(R, R[k])
      /\ \A k \in DOMAIN G : G[k] \in Message /\ G[k].block \in Nat /\ Holds(G, G[k])
      /\ \A k \in DOMAIN S : S[k] \in Message /\ S[k].block \in Nat /\ Holds(S, S[k])
  BY MessageBlock DEF Holds
<1>2. Ordered(R, G, S, h)
  BY <1>1 DEF Ordered
<1>3. Covers(R, G, S, h, H, still)
  BY DEF Covers
<1> QED BY <1>2, <1>3 DEF Pipe

\* A queue changes, but not by a message of type T.
Calm(T, q, q2) ==
  \/ \E e \in Seq(Message) : q2 = q \o e /\ \A k \in DOMAIN e : e[k].type # T
  \/ q # <<>> /\ q2 = Tail(q) /\ Head(q).type # T

LEMMA CalmSame ==
  ASSUME NEW q \in Seq(Message), NEW T
  PROVE  Calm(T, q, q)
<1> DEFINE e == <<>>
<1>1. e \in Seq(Message) /\ q = q \o e /\ \A k \in DOMAIN e : e[k].type # T
  OBVIOUS
<1> HIDE DEF e
<1> QED BY <1>1 DEF Calm

LEMMA CalmAppend ==
  ASSUME NEW q \in Seq(Message), NEW m \in Message, NEW T, m.type # T
  PROVE  Calm(T, q, Append(q, m))
<1> DEFINE e == <<m>>
<1>1. e \in Seq(Message) /\ q \o e = Append(q, m)
  OBVIOUS
<1>2. \A k \in DOMAIN e : e[k].type # T
  OBVIOUS
<1> QED BY <1>1, <1>2 DEF Calm

LEMMA CalmKeeps ==
  ASSUME NEW q \in Seq(Message), NEW q2 \in Seq(Message), NEW T, Calm(T, q, q2)
  PROVE  /\ \A m \in Message : m.type = T => (Holds(q2, m) <=> Holds(q, m))
         /\ \A b : Has(q2, T, b) <=> Has(q, T, b)
<1>1. CASE \E e \in Seq(Message) : q2 = q \o e /\ \A k \in DOMAIN e : e[k].type # T
  <2>1. PICK e \in Seq(Message) : q2 = q \o e /\ \A k \in DOMAIN e : e[k].type # T
    BY <1>1
  <2>2. \A b : Has(q2, T, b) <=> Has(q, T, b)
    <3>1. \A b : Has(q2, T, b) <=> Has(q, T, b) \/ Has(e, T, b)
      BY <2>1, HasConcat
    <3>2. \A b : ~Has(e, T, b)
      BY <2>1 DEF Has
    <3> QED BY <3>1, <3>2
  <2>3. /\ \A k \in DOMAIN q : k \in DOMAIN q2 /\ q2[k] = q[k]
        /\ \A k \in DOMAIN q2 : \/ k \in DOMAIN q
                                \/ q2[k].type # T
    BY <2>1, ConcatParts
  <2> QED BY <2>2, <2>3 DEF Holds
<1>2. CASE q # <<>> /\ q2 = Tail(q) /\ Head(q).type # T
  <2>1. \A b : Has(q2, T, b) <=> Has(q, T, b)
    BY <1>2, HasTail
  <2>2. /\ Head(q) = q[1]
        /\ \A k \in DOMAIN q2 : k + 1 \in DOMAIN q /\ q2[k] = q[k + 1]
        /\ \A k \in DOMAIN q : k = 1 \/ (k - 1 \in DOMAIN q2 /\ q2[k - 1] = q[k])
    BY <1>2, TailParts
  <2>3. \A m : Holds(q2, m) => Holds(q, m)
    BY <2>2 DEF Holds
  <2>4. \A m : Holds(q, m) /\ m.type = T => Holds(q2, m)
    <3> SUFFICES ASSUME NEW m, NEW k \in DOMAIN q, q[k] = m, m.type = T
                 PROVE  Holds(q2, m)
      BY DEF Holds
    <3>1. k # 1
      BY <1>2, <2>2
    <3> QED BY <2>2, <3>1 DEF Holds
  <2> QED BY <2>1, <2>3, <2>4
<1> QED BY <1>1, <1>2 DEF Calm

\* What a calm queue's stage has of blocks stays, and stays in order.
LEMMA CalmOrder ==
  ASSUME NEW q \in Seq(Message), NEW q2 \in Seq(Message), NEW T, Calm(T, q, q2),
         NEW k2 \in DOMAIN q2, q2[k2].type = T
  PROVE  \E k \in DOMAIN q : /\ q[k] = q2[k2]
                             /\ \A b : Before(q, T, b, k) => Before(q2, T, b, k2)
<1>1. CASE \E e \in Seq(Message) : q2 = q \o e /\ \A k \in DOMAIN e : e[k].type # T
  <2>1. PICK e \in Seq(Message) : q2 = q \o e /\ \A k \in DOMAIN e : e[k].type # T
    BY <1>1
  <2>2. k2 \in DOMAIN q /\ q[k2] = q2[k2]
    BY <2>1, ConcatParts
  <2>3. \A b : Before(q, T, b, k2) => Before(q2, T, b, k2)
    BY <2>1, <2>2, HasConcat
  <2> QED BY <2>2, <2>3
<1>2. CASE q # <<>> /\ q2 = Tail(q) /\ Head(q).type # T
  <2>1. k2 + 1 \in DOMAIN q /\ q2[k2] = q[k2 + 1]
    BY <1>2, TailParts
  <2>2. \A b : Before(q, T, b, k2 + 1) => Before(q2, T, b, k2)
    BY <1>2, HasTail
  <2> QED BY <2>1, <2>2
<1> QED BY <1>1, <1>2 DEF Calm

LEMMA CalmPipe ==
  ASSUME NEW R \in Seq(Message), NEW G \in Seq(Message), NEW S \in Seq(Message),
         NEW R2 \in Seq(Message), NEW G2 \in Seq(Message), NEW S2 \in Seq(Message),
         NEW h \in Nat, NEW H \in Nat, NEW still,
         Pipe(R, G, S, h, H, still),
         Calm("InfoBlock", R, R2), Calm("GetBlock", G, G2), Calm("InvBlock", S, S2)
  PROVE  Pipe(R2, G2, S2, h, H, still)
<1>1. \A b : /\ Has(R2, "InfoBlock", b) <=> Has(R, "InfoBlock", b)
             /\ Has(G2, "GetBlock", b) <=> Has(G, "GetBlock", b)
             /\ Has(S2, "InvBlock", b) <=> Has(S, "InvBlock", b)
  BY CalmKeeps
<1>2. ASSUME NEW k2 \in DOMAIN R2, R2[k2].type = "InfoBlock", R2[k2].block > h + 1
      PROVE  Before(R2, "InfoBlock", R2[k2].block - 1, k2)
  <2>1. PICK k \in DOMAIN R :
          /\ R[k] = R2[k2]
          /\ \A b : Before(R, "InfoBlock", b, k) => Before(R2, "InfoBlock", b, k2)
    BY <1>2, CalmOrder
  <2> QED BY <1>2, <2>1 DEF Pipe, Ordered
<1>3. ASSUME NEW k2 \in DOMAIN G2, G2[k2].type = "GetBlock", G2[k2].block > h + 1
      PROVE  \/ Before(G2, "GetBlock", G2[k2].block - 1, k2)
             \/ Has(R2, "InfoBlock", G2[k2].block - 1)
  <2>1. PICK k \in DOMAIN G :
          /\ G[k] = G2[k2]
          /\ \A b : Before(G, "GetBlock", b, k) => Before(G2, "GetBlock", b, k2)
    BY <1>3, CalmOrder
  <2> QED BY <1>1, <1>3, <2>1 DEF Pipe, Ordered
<1>4. ASSUME NEW k2 \in DOMAIN S2, S2[k2].type = "InvBlock", S2[k2].block > h + 1
      PROVE  \/ Before(S2, "InvBlock", S2[k2].block - 1, k2)
             \/ Has(G2, "GetBlock", S2[k2].block - 1)
             \/ Has(R2, "InfoBlock", S2[k2].block - 1)
  <2>1. PICK k \in DOMAIN S :
          /\ S[k] = S2[k2]
          /\ \A b : Before(S, "InvBlock", b, k) => Before(S2, "InvBlock", b, k2)
    BY <1>4, CalmOrder
  <2> QED BY <1>1, <1>4, <2>1 DEF Pipe, Ordered
<1>5. Covers(R2, G2, S2, h, H, still)
  BY <1>1 DEF Pipe, Covers, OnItsWay
<1> QED BY <1>2, <1>3, <1>4, <1>5 DEF Pipe, Ordered

\* The same when the blocks do not move at all
LEMMA CalmRest ==
  ASSUME NEW R \in Seq(Message), NEW G \in Seq(Message), NEW S \in Seq(Message),
         NEW G2 \in Seq(Message), NEW S2 \in Seq(Message),
         NEW h \in Nat, NEW H \in Nat, NEW still,
         Pipe(R, G, S, h, H, still),
         Calm("GetBlock", G, G2), Calm("InvBlock", S, S2)
  PROVE  Pipe(R, G2, S2, h, H, still)
<1>1. Calm("InfoBlock", R, R)
  BY CalmSame
<1>2. ASSUME NEW R2 \in Seq(Message), Calm("InfoBlock", R, R2)
      PROVE  Pipe(R2, G2, S2, h, H, still)
  BY <1>2, CalmPipe
<1> QED BY <1>1, <1>2

-----------------------------------------------------------------------------
(* The inductive invariant *)

Resp(n, m) == <<n, m, "response">>
Snd(n, m) == <<n, m, "send">>

\* Messages of blocks are in the channel that carries them, and are of blocks
\* that their holder has.
GoodMsg(c, m) ==
  LET n == c[1]
      to == c[2]
  IN  /\ m.type = "InvBlock" => c[3] = "send" /\ m.block <= height[n]
      /\ m.type = "GetBlock" => c[3] = "response" /\ m.block <= height[to]
      /\ m.type = "InfoBlock" => c[3] = "response" /\ m.block <= height[n]
      /\ m.type = "SyncBlock" => /\ c[3] = "send" /\ m.block <= height[n] + 1
                                 /\ syncPeer[n] = to
      /\ m.type = "OutOfRange" => /\ c[3] = "response" /\ m.block = 0
                                  /\ syncPeer[to] = n
                                  /\ m.wellSynced => phase[n] = "synced"

Messages ==
  \A c \in Channel, m \in Message : Holds(queue[c], m) => GoodMsg(c, m)

Nodes ==
  /\ \A n \in Node : height[n] <= height[Miner]
  /\ \A n \in Node : \A p \in outbound[n] : p # n /\ phase[p] # "off"
  /\ \A n \in Node : phase[n] \in {"off", "starting"} => syncPeer[n] = None /\ height[n] = 0
  /\ \A n \in Node : phase[n] = "syncing" => syncPeer[n] \in Node
  /\ \A n \in Node : syncPeer[n] # None => syncPeer[n] \in outbound[n]
  /\ \A n \in Node : caughtUp[n] => /\ phase[n] = "synced" /\ syncPeer[n] \in Node
                                    /\ phase[syncPeer[n]] = "synced"
  /\ unannounced => phase[Miner] = "synced"

Links ==
  \A l \in links : /\ l[1] # l[2] /\ <<l[2], l[1]>> \notin links
                   /\ phase[l[1]] # "off" /\ phase[l[2]] # "off"

\* Answers that end a node's sync with its peer's blocks complete
WellEnded(q) ==
  \E m \in Message : Holds(q, m) /\ m.type = "OutOfRange" /\ m.wellSynced

\* p has no next block for n that add_block does not add.
Free(n, p) == height[p] > height[n] => Sound(height[n] + 1)

\* Nodes that have, or are about to have, synced from a synced peer, up to the
\* first block that they refuse
Follows(n) ==
  LET p == syncPeer[n] IN
  /\ p \in Node
  /\ Linked(n, p) /\ Free(n, p)
  /\ \/ phase[n] = "synced" /\ caughtUp[n]
     \/ phase[n] = "syncing" /\ WellEnded(queue[Resp(p, n)])

PipeOf(n, p) ==
  Pipe(queue[Resp(p, n)], queue[Resp(n, p)], queue[Snd(p, n)],
       height[n], height[p], p = Miner /\ unannounced)

SyncPending(n, p) ==
  \/ Has(queue[Snd(n, p)], "SyncBlock", height[n] + 1)
  \/ Has(queue[Resp(p, n)], "InfoBlock", height[n] + 1)
  \/ Has(queue[Resp(p, n)], "OutOfRange", 0)

Pipes == \A n \in Node : Follows(n) => PipeOf(n, syncPeer[n])

\* SyncUnderWay
Syncs ==
  \A n \in Node :
    phase[n] = "syncing" /\ Linked(n, syncPeer[n]) /\ Free(n, syncPeer[n]) =>
      SyncPending(n, syncPeer[n])

IInv ==
  TypeOK /\ Messages /\ Nodes /\ Links /\ Syncs /\ Pipes
-----------------------------------------------------------------------------
(* Channels and the operators that send and take messages *)

Queues == [Channel -> Seq(Message)]

LEMMA ChannelParts ==
  /\ \A n, m \in Node : n # m => Resp(n, m) \in Channel /\ Snd(n, m) \in Channel
  /\ \A n, m, i, j : /\ Resp(n, m) = Resp(i, j) <=> n = i /\ m = j
                     /\ Snd(n, m) = Snd(i, j) <=> n = i /\ m = j
                     /\ Resp(n, m) # Snd(i, j)
  /\ \A n, m : /\ Resp(n, m)[1] = n /\ Resp(n, m)[2] = m /\ Resp(n, m)[3] = "response"
               /\ Snd(n, m)[1] = n /\ Snd(n, m)[2] = m /\ Snd(n, m)[3] = "send"
  /\ \A c \in Channel : /\ c[1] \in Node /\ c[2] \in Node /\ c[1] # c[2]
                        /\ \/ c[3] = "response" /\ c = Resp(c[1], c[2])
                           \/ c[3] = "send" /\ c = Snd(c[1], c[2])
<1>1. \A n, m \in Node : n # m => Resp(n, m) \in Channel /\ Snd(n, m) \in Channel
  BY DEF Channel, Resp, Snd
<1>2. \A n, m, i, j : /\ Resp(n, m) = Resp(i, j) <=> n = i /\ m = j
                      /\ Snd(n, m) = Snd(i, j) <=> n = i /\ m = j
                      /\ Resp(n, m) # Snd(i, j)
  BY DEF Resp, Snd
<1>3. \A n, m : /\ Resp(n, m)[1] = n /\ Resp(n, m)[2] = m /\ Resp(n, m)[3] = "response"
                /\ Snd(n, m)[1] = n /\ Snd(n, m)[2] = m /\ Snd(n, m)[3] = "send"
  BY DEF Resp, Snd
<1>4. \A c \in Channel : /\ c[1] \in Node /\ c[2] \in Node /\ c[1] # c[2]
                         /\ \/ c[3] = "response" /\ c = Resp(c[1], c[2])
                            \/ c[3] = "send" /\ c = Snd(c[1], c[2])
  BY DEF Channel, Resp, Snd
<1> QED BY <1>1, <1>2, <1>3, <1>4

LEMMA MessageForms ==
  /\ \A T \in {"InvBlock", "GetBlock", "SyncBlock", "InfoBlock"}, b \in Nat :
       BlockMsg(T, b) \in Message /\ BlockMsg(T, b).type = T /\ BlockMsg(T, b).block = b
  /\ \A T \in {"InvItem", "GetItem", "InfoItem", "SyncTransactions", "ListTransactions"},
        I \in SUBSET Item :
       ItemMsg(T, I) \in Message /\ ItemMsg(T, I).type = T
  /\ \A n : /\ OutOfRange(n) \in Message /\ OutOfRange(n).type = "OutOfRange"
            /\ OutOfRange(n).block = 0
            /\ OutOfRange(n).wellSynced <=> phase[n] = "synced"
BY DEF BlockMsg, ItemMsg, OutOfRange, Message

LEMMA SendToParts ==
  ASSUME NEW q \in Queues, NEW n \in Node, NEW m \in Node, n # m, NEW msg \in Message
  PROVE  /\ SendTo(q, n, m, msg) \in Queues
         /\ \A d \in Channel : d # Snd(n, m) => SendTo(q, n, m, msg)[d] = q[d]
         /\ Linked(n, m) => SendTo(q, n, m, msg)[Snd(n, m)] = Append(q[Snd(n, m)], msg)
         /\ ~Linked(n, m) => SendTo(q, n, m, msg) = q
<1>1. Snd(n, m) \in Channel
  BY ChannelParts
<1>2. Append(q[Snd(n, m)], msg) \in Seq(Message)
  BY <1>1 DEF Queues
<1> QED BY <1>1, <1>2 DEF SendTo, Queues, Snd

LEMMA RespondParts ==
  ASSUME NEW q \in Queues, NEW n \in Node, NEW m \in Node, n # m, NEW msg \in Message
  PROVE  /\ Respond(q, n, m, msg) \in Queues
         /\ \A d \in Channel : d # Resp(n, m) => Respond(q, n, m, msg)[d] = q[d]
         /\ Respond(q, n, m, msg)[Resp(n, m)] = Append(q[Resp(n, m)], msg)
<1>1. Resp(n, m) \in Channel
  BY ChannelParts
<1>2. Append(q[Resp(n, m)], msg) \in Seq(Message)
  BY <1>1 DEF Queues
<1> QED BY <1>1, <1>2 DEF Respond, Queues, Resp

LEMMA BroadcastParts ==
  ASSUME NEW q \in Queues, NEW n \in Node, NEW e \in Seq(Message)
  PROVE  /\ Broadcast(q, n, e) \in Queues
         /\ \A d \in Channel :
              \/ Broadcast(q, n, e)[d] = q[d] /\ ~(d[1] = n /\ d[3] = "send" /\ Linked(n, d[2]))
              \/ Broadcast(q, n, e)[d] = q[d] \o e /\ d[1] = n /\ d[3] = "send"
         /\ \A m \in Node : m # n /\ Linked(n, m) =>
              Broadcast(q, n, e)[Snd(n, m)] = q[Snd(n, m)] \o e
<1>1. \A d \in Channel : q[d] \in Seq(Message) /\ q[d] \o e \in Seq(Message)
  BY DEF Queues
<1>2. Broadcast(q, n, e) \in Queues
  BY <1>1 DEF Broadcast, Queues
<1>3. \A m \in Node : m # n => /\ Snd(n, m) \in Channel /\ Snd(n, m)[1] = n
                               /\ Snd(n, m)[2] = m /\ Snd(n, m)[3] = "send"
  BY ChannelParts
<1>4. \A d \in Channel :
        \/ Broadcast(q, n, e)[d] = q[d] /\ ~(d[1] = n /\ d[3] = "send" /\ Linked(n, d[2]))
        \/ Broadcast(q, n, e)[d] = q[d] \o e /\ d[1] = n /\ d[3] = "send"
  BY DEF Broadcast
<1>5. \A m \in Node : m # n /\ Linked(n, m) =>
        Broadcast(q, n, e)[Snd(n, m)] = q[Snd(n, m)] \o e
  BY <1>3 DEF Broadcast
<1> QED BY <1>2, <1>4, <1>5

LEMMA TakenParts ==
  ASSUME queue \in Queues, NEW c \in Channel, queue[c] # <<>>
  PROVE  /\ Taken(c) \in Queues
         /\ Taken(c)[c] = Tail(queue[c])
         /\ \A d \in Channel : d # c => Taken(c)[d] = queue[d]
         /\ Head(queue[c]) \in Message
         /\ Holds(queue[c], Head(queue[c]))
<1>1. queue[c] \in Seq(Message)
  BY DEF Queues
<1>2. Tail(queue[c]) \in Seq(Message)
  BY <1>1
<1>3. Head(queue[c]) \in Message /\ Holds(queue[c], Head(queue[c]))
  BY <1>1, TailParts DEF Holds
<1> QED BY <1>1, <1>2, <1>3 DEF Taken, Queues

LEMMA ClosedParts ==
  ASSUME NEW q \in Queues, NEW L
  PROVE  /\ Closed(q, L) \in Queues
         /\ \A d \in Channel :
              \/ Closed(q, L)[d] = <<>>
              \/ Closed(q, L)[d] = q[d]
         /\ \A d \in Channel : <<d[1], d[2]>> \notin L /\ <<d[2], d[1]>> \notin L =>
              Closed(q, L)[d] = q[d]
<1>1. <<>> \in Seq(Message)
  OBVIOUS
<1> QED BY <1>1 DEF Closed, Queues

-----------------------------------------------------------------------------
(* Steps that send and take no message about blocks *)

BlockTypes == {"InvBlock", "GetBlock", "InfoBlock", "SyncBlock", "OutOfRange"}

\* Nothing that GoodMsg relies on is undone.
Rises ==
  \A n \in Node : /\ height[n] <= height'[n]
                  /\ syncPeer[n] # None => syncPeer'[n] = syncPeer[n]
                  /\ phase[n] = "synced" => phase'[n] = "synced"

LEMMA MessagesStay ==
  ASSUME TypeOK, TypeOK', Messages, Rises,
         \A d \in Channel, m \in Message :
           Holds(queue'[d], m) => Holds(queue[d], m) \/ GoodMsg(d, m)'
  PROVE  Messages'
<1> SUFFICES ASSUME NEW d \in Channel, NEW m \in Message, Holds(queue[d], m)
             PROVE  GoodMsg(d, m)'
  BY DEF Messages
<1>1. GoodMsg(d, m)
  BY DEF Messages
<1>2. /\ d[1] \in Node /\ d[2] \in Node
      /\ m.block \in Nat
  BY ChannelParts DEF Message
<1>3. /\ height[d[1]] <= height'[d[1]] /\ height[d[2]] <= height'[d[2]]
      /\ height[d[1]] \in Nat /\ height'[d[1]] \in Nat
      /\ height[d[2]] \in Nat /\ height'[d[2]] \in Nat
  BY <1>2, GossipAssumption DEF Rises, TypeOK
<1>4. /\ syncPeer[d[1]] = d[2] => syncPeer'[d[1]] = d[2]
      /\ syncPeer[d[2]] = d[1] => syncPeer'[d[2]] = d[1]
      /\ phase[d[1]] = "synced" => phase'[d[1]] = "synced"
  BY <1>2, GossipAssumption DEF Rises
<1> QED BY <1>1, <1>2, <1>3, <1>4 DEF GoodMsg

LEMMA QueueTypes ==
  ASSUME TypeOK
  PROVE  /\ queue \in Queues
         /\ \A d \in Channel : queue[d] \in Seq(Message)
         /\ \A n \in Node : height[n] \in Nat
         /\ \A n, m \in Node : n # m =>
              /\ queue[Resp(n, m)] \in Seq(Message)
              /\ queue[Snd(n, m)] \in Seq(Message)
BY ChannelParts, GossipAssumption DEF TypeOK, Queues

LEMMA LinkedDiffer ==
  ASSUME Links, NEW n, NEW m, Linked(n, m)
  PROVE  n # m
BY DEF Links, Linked

LEMMA QuietStep ==
  ASSUME IInv, TypeOK',
         UNCHANGED <<phase, height, outbound, syncPeer, caughtUp, unannounced, links,
                     rejected, thrown>>,
         \A d \in Channel, T \in BlockTypes : Calm(T, queue[d], queue'[d])
  PROVE  IInv'
<1>1. /\ \A d \in Channel : queue[d] \in Seq(Message) /\ queue'[d] \in Seq(Message)
      /\ \A n \in Node : height[n] \in Nat
  BY QueueTypes, GossipAssumption DEF IInv, TypeOK
<1>2. \A d \in Channel, T \in BlockTypes :
        /\ \A m \in Message : m.type = T => (Holds(queue'[d], m) <=> Holds(queue[d], m))
        /\ \A b : Has(queue'[d], T, b) <=> Has(queue[d], T, b)
  BY <1>1, CalmKeeps
<1>3. Messages'
  <2> SUFFICES ASSUME NEW d \in Channel, NEW m \in Message, Holds(queue'[d], m)
               PROVE  GoodMsg(d, m)
    BY DEF Messages, GoodMsg
  <2>1. CASE m.type \in BlockTypes
    BY <1>2, <2>1 DEF IInv, Messages
  <2>2. CASE m.type \notin BlockTypes
    BY <2>2 DEF BlockTypes, GoodMsg
  <2> QED BY <2>1, <2>2
<1>4. Nodes' /\ Links'
  BY DEF IInv, Nodes, Links
<1>5. Syncs'
  <2> SUFFICES ASSUME NEW n \in Node, phase[n] = "syncing", Linked(n, syncPeer[n]),
                      Free(n, syncPeer[n])
               PROVE  SyncPending(n, syncPeer[n])'
    BY DEF Syncs, Linked, Free, Sound
  <2> DEFINE p == syncPeer[n]
  <2>1. p \in Node /\ n # p /\ SyncPending(n, p)
    BY LinkedDiffer DEF IInv, Nodes, Syncs
  <2>2. Snd(n, p) \in Channel /\ Resp(p, n) \in Channel
    BY <2>1, ChannelParts
  <2> QED BY <1>2, <2>1, <2>2 DEF SyncPending, BlockTypes
<1>6. Pipes'
  <2> SUFFICES ASSUME NEW n \in Node, Follows(n)'
               PROVE  PipeOf(n, syncPeer[n])'
    BY DEF Pipes
  <2> DEFINE p == syncPeer[n]
  <2>1. p \in Node /\ Linked(n, p) /\ n # p
    BY LinkedDiffer DEF Follows, Linked, IInv
  <2>2. Snd(p, n) \in Channel /\ Resp(p, n) \in Channel /\ Resp(n, p) \in Channel
    BY <2>1, ChannelParts
  <2>3. Follows(n)
    BY <1>2, <2>1, <2>2 DEF Follows, Free, Sound, WellEnded, BlockTypes
  <2>4. PipeOf(n, p)
    BY <2>3 DEF IInv, Pipes
  <2>5. /\ Calm("InfoBlock", queue[Resp(p, n)], queue'[Resp(p, n)])
        /\ Calm("GetBlock", queue[Resp(n, p)], queue'[Resp(n, p)])
        /\ Calm("InvBlock", queue[Snd(p, n)], queue'[Snd(p, n)])
    BY <2>2 DEF BlockTypes
  <2>6. Pipe(queue'[Resp(p, n)], queue'[Resp(n, p)], queue'[Snd(p, n)],
             height[n], height[p], p = Miner /\ unannounced)
    BY <1>1, <2>1, <2>2, <2>4, <2>5, CalmPipe DEF PipeOf
  <2> QED BY <2>6 DEF PipeOf
<1> QED BY <1>3, <1>4, <1>5, <1>6 DEF IInv

\* Every channel's queue changes, if at all, by quiet messages.
AllCalm(q) == \A d \in Channel, T \in BlockTypes : Calm(T, queue[d], q[d])

LEMMA CalmTake ==
  ASSUME queue \in Queues, NEW c \in Channel, queue[c] # <<>>,
         Head(queue[c]).type \notin BlockTypes
  PROVE  AllCalm(Taken(c))
<1>1. \A d \in Channel : queue[d] \in Seq(Message)
  BY DEF Queues
<1>2. \A d \in Channel, T \in BlockTypes : Calm(T, queue[d], queue[d])
  BY <1>1, CalmSame
<1>3. \A T \in BlockTypes : Calm(T, queue[c], Tail(queue[c]))
  BY DEF Calm
<1> QED BY <1>2, <1>3, TakenParts DEF AllCalm

LEMMA CalmRespond ==
  ASSUME queue \in Queues, NEW c \in Channel, queue[c] # <<>>,
         Head(queue[c]).type \notin BlockTypes,
         NEW msg \in Message, msg.type \notin BlockTypes,
         NEW n, n = c[2], NEW m, m = c[1],
         NEW q, q = Respond(Taken(c), n, m, msg)
  PROVE  AllCalm(q) /\ q \in Queues
<1>1. n \in Node /\ m \in Node /\ n # m /\ Resp(n, m) # c
  BY ChannelParts
<1>2. Resp(n, m) \in Channel
  BY <1>1, ChannelParts
<1>3. Taken(c) \in Queues /\ \A d \in Channel : d # c => Taken(c)[d] = queue[d]
  BY TakenParts
<1>4. /\ q \in Queues
      /\ \A d \in Channel : d # Resp(n, m) => q[d] = Taken(c)[d]
      /\ q[Resp(n, m)] = Append(queue[Resp(n, m)], msg)
  <2> DEFINE t == Taken(c)
  <2>1. t \in Queues /\ \A d \in Channel : d # c => t[d] = queue[d]
    BY <1>3
  <2> HIDE DEF t
  <2>2. q = Respond(t, n, m, msg)
    BY DEF t
  <2>3. /\ q \in Queues
        /\ \A d \in Channel : d # Resp(n, m) => q[d] = t[d]
        /\ q[Resp(n, m)] = Append(t[Resp(n, m)], msg)
    BY <1>1, <2>1, <2>2, RespondParts
  <2> QED BY <1>1, <1>2, <2>1, <2>3 DEF t
<1>5. AllCalm(Taken(c))
  BY CalmTake
<1>6. \A T \in BlockTypes : Calm(T, queue[Resp(n, m)], q[Resp(n, m)])
  BY <1>2, <1>4, CalmAppend DEF Queues
<1> QED BY <1>4, <1>5, <1>6 DEF AllCalm

LEMMA CalmBroadcast ==
  ASSUME queue \in Queues, NEW n \in Node, NEW q \in Queues, AllCalm(q),
         \A d \in Channel : d[1] = n => q[d] = queue[d],
         NEW e \in Seq(Message), \A k \in DOMAIN e : e[k].type \notin BlockTypes
  PROVE  AllCalm(Broadcast(q, n, e)) /\ Broadcast(q, n, e) \in Queues
<1>1. /\ Broadcast(q, n, e) \in Queues
      /\ \A d \in Channel : \/ Broadcast(q, n, e)[d] = q[d]
                            \/ Broadcast(q, n, e)[d] = q[d] \o e /\ d[1] = n
  BY BroadcastParts
<1>2. \A d \in Channel, T \in BlockTypes : Calm(T, queue[d], queue[d] \o e)
  BY DEF Calm
<1> QED BY <1>1, <1>2 DEF AllCalm

ItemTypes == {"InvItem", "GetItem", "InfoItem", "SyncTransactions", "ListTransactions"}

LEMMA CalmItems ==
  ASSUME NEW T \in {"InvItem", "GetItem", "InfoItem", "SyncTransactions",
                    "ListTransactions"},
         NEW I \in SUBSET Item
  PROVE  /\ ItemMsg(T, I) \in Message /\ ItemMsg(T, I).type \notin BlockTypes
         /\ <<ItemMsg(T, I)>> \in Seq(Message)
         /\ \A k \in DOMAIN <<ItemMsg(T, I)>> :
              <<ItemMsg(T, I)>>[k].type \notin BlockTypes
BY MessageForms DEF BlockTypes, ItemTypes

\* What is taken is of type T.
LEMMA ReceivesParts ==
  ASSUME TypeOK, NEW c \in Channel, NEW n \in Node, n = c[2], NEW T, Receives(n, c, T)
  PROVE  /\ queue \in Queues /\ queue[c] # <<>>
         /\ Head(queue[c]) \in Message /\ Head(queue[c]).type = T
         /\ Head(queue[c]).items \subseteq Item
         /\ Taken(c) \in Queues
         /\ \A d \in Channel : d[1] = n => Taken(c)[d] = queue[d]
         /\ T \notin BlockTypes => AllCalm(Taken(c))
<1>1. queue \in Queues /\ queue[c] # <<>> /\ Head(queue[c]).type = T
  BY QueueTypes DEF Receives
<1>2. c[1] # n
  BY ChannelParts
<1>3. /\ Head(queue[c]) \in Message
      /\ Taken(c) \in Queues
      /\ \A d \in Channel : d[1] = n => Taken(c)[d] = queue[d]
  BY <1>1, <1>2, TakenParts
<1> QED BY <1>1, <1>3, CalmTake DEF Message

LEMMA ReceivesItem ==
  ASSUME TypeOK, NEW c \in Channel, NEW n \in Node, n = c[2],
         NEW T \in ItemTypes, Receives(n, c, T)
  PROVE  /\ queue \in Queues /\ queue[c] # <<>>
         /\ Head(queue[c]).type \notin BlockTypes
         /\ Head(queue[c]).items \subseteq Item
         /\ Taken(c) \in Queues
         /\ \A d \in Channel : d[1] = n => Taken(c)[d] = queue[d]
         /\ AllCalm(Taken(c))
<1>1. T \notin BlockTypes
  BY DEF ItemTypes, BlockTypes
<1> QED BY <1>1, ReceivesParts

\* Items are offered, asked for, handed over and listed.
LEMMA ItemStep ==
  ASSUME IInv, NEW c \in Channel, NEW n \in Node, n = c[2],
         \/ HandleInvItem(n, c) \/ HandleGetItem(n, c) \/ HandleInfoItem(n, c)
         \/ HandleSyncTransactions(n, c) \/ HandleListTransactions(n, c)
  PROVE  IInv'
<1> USE DEF IInv
<1>0. {} \in SUBSET Item /\ held[n] \subseteq Item
  BY DEF TypeOK
<1>1. SUFFICES /\ held' \in [Node -> SUBSET Item]
               /\ queue' \in Queues
               /\ AllCalm(queue')
               /\ UNCHANGED <<phase, height, outbound, syncPeer, caughtUp, fresh,
                              unannounced, links, aside>>
  <2>1. TypeOK'
    BY <1>1 DEF TypeOK, Queues, aside
  <2> QED BY <1>1, <2>1, QuietStep DEF AllCalm, aside
<1>2. CASE HandleInvItem(n, c)
  <2>0. /\ queue \in Queues /\ queue[c] # <<>> /\ Head(queue[c]).type \notin BlockTypes
        /\ Head(queue[c]).items \subseteq Item
        /\ Taken(c) \in Queues /\ AllCalm(Taken(c))
    BY <1>2, ReceivesItem DEF HandleInvItem, ItemTypes
  <2>1. queue' = Taken(c) \/ \E S \in SUBSET Item :
                               queue' = Respond(Taken(c), n, c[1], ItemMsg("GetItem", S))
    BY <1>2, <2>0 DEF HandleInvItem
  <2>2. queue' \in Queues /\ AllCalm(queue')
    BY <2>0, <2>1, CalmRespond, CalmItems DEF ItemTypes
  <2> QED BY <1>2, <2>2 DEF HandleInvItem, TypeOK
<1>3. CASE HandleGetItem(n, c)
  <2>0. /\ queue \in Queues /\ queue[c] # <<>> /\ Head(queue[c]).type \notin BlockTypes
        /\ Taken(c) \in Queues /\ AllCalm(Taken(c))
    BY <1>3, ReceivesItem DEF HandleGetItem, ItemTypes
  <2>1. queue' = Taken(c) \/ \E S \in SUBSET Item :
                               queue' = Respond(Taken(c), n, c[1], ItemMsg("InfoItem", S))
    BY <1>0, <1>3 DEF HandleGetItem
  <2>2. queue' \in Queues /\ AllCalm(queue')
    BY <2>0, <2>1, CalmRespond, CalmItems DEF ItemTypes
  <2> QED BY <1>3, <2>2 DEF HandleGetItem, TypeOK
<1>4. CASE HandleInfoItem(n, c)
  <2>2. /\ queue \in Queues /\ Head(queue[c]).items \subseteq Item
        /\ Taken(c) \in Queues /\ AllCalm(Taken(c))
        /\ \A d \in Channel : d[1] = n => Taken(c)[d] = queue[d]
    BY <1>4, ReceivesItem DEF HandleInfoItem, ItemTypes
  <2>1. \E S \in SUBSET Item :
          /\ held' = [held EXCEPT ![n] = @ \cup S]
          /\ \/ queue' = Taken(c)
             \/ queue' = Broadcast(Taken(c), n, <<ItemMsg("InvItem", S)>>)
    BY ZenonT(40), <1>4, <2>2 DEF HandleInfoItem
  <2>3. queue' \in Queues /\ AllCalm(queue')
    <3>1. PICK S \in SUBSET Item :
            \/ queue' = Taken(c)
            \/ queue' = Broadcast(Taken(c), n, <<ItemMsg("InvItem", S)>>)
      BY <2>1
    <3> DEFINE e == <<ItemMsg("InvItem", S)>>
               t == Taken(c)
    <3>2. e \in Seq(Message) /\ \A k \in DOMAIN e : e[k].type \notin BlockTypes
      BY CalmItems DEF ItemTypes
    <3>3. /\ t \in Queues /\ AllCalm(t) /\ \A d \in Channel : d[1] = n => t[d] = queue[d]
          /\ queue' = t \/ queue' = Broadcast(t, n, e)
      BY <2>2, <3>1
    <3> HIDE DEF e, t
    <3> QED BY <2>2, <3>2, <3>3, CalmBroadcast
  <2> QED BY <1>4, <2>1, <2>3 DEF HandleInfoItem, TypeOK
<1>5. CASE HandleSyncTransactions(n, c)
  <2>1. /\ queue \in Queues /\ queue[c] # <<>> /\ Head(queue[c]).type \notin BlockTypes
    BY <1>5, ReceivesItem DEF HandleSyncTransactions, ItemTypes
  <2>2. held[n] \cap Transaction \in SUBSET Item
    BY <1>0
  <2>3. queue' \in Queues /\ AllCalm(queue')
    BY <1>5, <2>1, <2>2, CalmRespond, CalmItems DEF HandleSyncTransactions, ItemTypes
  <2> QED BY <1>5, <2>3 DEF HandleSyncTransactions, TypeOK
<1>6. CASE HandleListTransactions(n, c)
  <2>1. /\ queue \in Queues /\ Head(queue[c]).items \subseteq Item
        /\ Taken(c) \in Queues /\ AllCalm(Taken(c))
        /\ \A d \in Channel : d[1] = n => Taken(c)[d] = queue[d]
    BY <1>6, ReceivesItem DEF HandleListTransactions, ItemTypes
  <2> DEFINE S == Head(queue[c]).items
  <2>2. S \subseteq Item /\ Cardinality(S) \in Nat
    BY <2>1, GossipAssumption, FS_Subset, FS_CardinalityType
  <2>3. PICK order \in [1 .. Cardinality(S) -> S] :
          queue' = Broadcast(Taken(c), n,
                     [k \in DOMAIN order |-> ItemMsg("GetItem", {order[k]})])
    BY <1>6 DEF HandleListTransactions
  <2> DEFINE e == [k \in DOMAIN order |-> ItemMsg("GetItem", {order[k]})]
  <2>4. DOMAIN e = 1 .. Cardinality(S)
    OBVIOUS
  <2>5. \A k \in DOMAIN e : e[k] \in Message /\ e[k].type \notin BlockTypes
    <3> SUFFICES ASSUME NEW k \in DOMAIN e
                 PROVE  e[k] \in Message /\ e[k].type \notin BlockTypes
      OBVIOUS
    <3>1. {order[k]} \in SUBSET Item
      BY <2>2
    <3> QED BY <3>1, CalmItems DEF ItemTypes
  <2> DEFINE t == Taken(c)
  <2>6. queue' = Broadcast(t, n, e) /\ e = [k \in 1 .. Cardinality(S) |-> e[k]]
    BY <2>3
  <2>7. /\ t \in Queues /\ AllCalm(t)
        /\ \A d \in Channel : d[1] = n => t[d] = queue[d]
    BY <2>1
  <2> HIDE DEF e, S, t
  <2>8. e \in [1 .. Cardinality(S) -> Message]
    BY <2>4, <2>5, <2>6
  <2>9. e \in Seq(Message)
    BY <2>2, <2>8
  <2>10. queue' \in Queues /\ AllCalm(queue')
    BY <2>1, <2>5, <2>6, <2>7, <2>9, CalmBroadcast
  <2> QED BY <1>6, <2>10 DEF HandleListTransactions, TypeOK
<1> QED BY <1>2, <1>3, <1>4, <1>5, <1>6

LEMMA NewItemStep ==
  ASSUME IInv, NEW n \in Node, NEW i \in Item, NewItem(n, i)
  PROVE  IInv'
<1>1. queue \in Queues
  BY QueueTypes DEF IInv
<1>2. AllCalm(queue)
  BY <1>1, CalmSame DEF AllCalm, Queues
<1>3. {i} \in SUBSET Item
  OBVIOUS
<1>4. queue' \in Queues /\ AllCalm(queue')
  BY <1>1, <1>2, <1>3, CalmItems, CalmBroadcast DEF NewItem
<1>5. TypeOK'
  BY <1>4 DEF NewItem, TypeOK, IInv, Queues, aside
<1> QED BY <1>4, <1>5, QuietStep DEF NewItem, AllCalm, aside

-----------------------------------------------------------------------------
(* Steps that take a message of type T out of channel c and send those of N,  *)
(* a set of pairs of a channel and a message                                  *)

Moved(c, T, N) ==
  /\ queue' \in Queues
  /\ \A d \in Channel : \A U :
       (d = c => U # T) /\ (\A m : <<d, m>> \in N => m.type # U)
         => Calm(U, queue[d], queue'[d])
  /\ \A d \in Channel : \A U, b :
       (d = c => U # T) /\ Has(queue[d], U, b) => Has(queue'[d], U, b)
  /\ \A d \in Channel, m \in Message :
       Holds(queue'[d], m) => Holds(queue[d], m) \/ <<d, m>> \in N

LEMMA HoldsAppend ==
  ASSUME NEW q \in Seq(Message), NEW m \in Message, NEW x, Holds(Append(q, m), x)
  PROVE  Holds(q, x) \/ x = m
BY AppendParts DEF Holds

LEMMA HasStays ==
  ASSUME NEW q \in Seq(Message), NEW m \in Message, NEW T, NEW b, Has(q, T, b)
  PROVE  Has(Append(q, m), T, b)
BY HasAppend

LEMMA HoldsTail ==
  ASSUME NEW q \in Seq(Message), q # <<>>, NEW x, Holds(Tail(q), x)
  PROVE  Holds(q, x)
BY TailParts DEF Holds

LEMMA MovedTaken ==
  ASSUME queue \in Queues, NEW c \in Channel, queue[c] # <<>>,
         NEW T, Head(queue[c]).type = T, queue' = Taken(c)
  PROVE  Moved(c, T, {}) /\ queue'[c] = Tail(queue[c])
<1>1. /\ queue' \in Queues /\ queue'[c] = Tail(queue[c])
      /\ \A d \in Channel : d # c => queue'[d] = queue[d]
      /\ \A d \in Channel : queue[d] \in Seq(Message)
  BY TakenParts DEF Queues
<1>2. \A d \in Channel : \A U : (d = c => U # T) => Calm(U, queue[d], queue'[d])
  <2> SUFFICES ASSUME NEW d \in Channel, NEW U, d = c => U # T
               PROVE  Calm(U, queue[d], queue'[d])
    OBVIOUS
  <2>1. CASE d = c
    BY <1>1, <2>1 DEF Calm
  <2>2. CASE d # c
    BY <1>1, <2>2, CalmSame
  <2> QED BY <2>1, <2>2
<1>3. \A d \in Channel, m \in Message : Holds(queue'[d], m) => Holds(queue[d], m)
  BY <1>1, HoldsTail
<1>4. \A d \in Channel : \A U, b :
        (d = c => U # T) /\ Has(queue[d], U, b) => Has(queue'[d], U, b)
  BY <1>1, HasTail
<1> QED BY <1>1, <1>2, <1>3, <1>4 DEF Moved

LEMMA MovedAppended ==
  ASSUME queue \in Queues, NEW c \in Channel, queue[c] # <<>>,
         NEW T, Head(queue[c]).type = T,
         NEW r \in Channel, r # c, NEW msg \in Message,
         queue' \in Queues,
         queue'[r] = Append(queue[r], msg),
         \A d \in Channel : d # r => queue'[d] = Taken(c)[d]
  PROVE  Moved(c, T, {<<r, msg>>}) /\ queue'[c] = Tail(queue[c])
<1>1. /\ queue'[c] = Tail(queue[c])
      /\ \A d \in Channel : d # c /\ d # r => queue'[d] = queue[d]
      /\ \A d \in Channel : queue[d] \in Seq(Message)
  BY TakenParts DEF Queues
<1>2. ASSUME NEW d \in Channel, NEW U,
             (d = c => U # T) /\ (\A m : <<d, m>> \in {<<r, msg>>} => m.type # U)
      PROVE  Calm(U, queue[d], queue'[d])
  <2>1. CASE d = c
    BY <1>1, <1>2, <2>1 DEF Calm
  <2>2. CASE d = r
    <3>1. msg.type # U
      BY <1>2, <2>2
    <3> QED BY <1>1, <2>2, <3>1, CalmAppend
  <2>3. CASE d # c /\ d # r
    BY <1>1, <2>3, CalmSame
  <2> QED BY <2>1, <2>2, <2>3
<1>3. ASSUME NEW d \in Channel, NEW m \in Message, Holds(queue'[d], m)
      PROVE  Holds(queue[d], m) \/ <<d, m>> \in {<<r, msg>>}
  <2>1. CASE d = c
    BY <1>1, <1>3, <2>1, HoldsTail
  <2>2. CASE d = r
    BY ZenonT(40), <1>1, <1>3, <2>2, HoldsAppend
  <2>3. CASE d # c /\ d # r
    BY <1>1, <1>3, <2>3
  <2> QED BY <2>1, <2>2, <2>3
<1>4. ASSUME NEW d \in Channel, NEW U, NEW b, d = c => U # T, Has(queue[d], U, b)
      PROVE  Has(queue'[d], U, b)
  <2>1. CASE d = c
    BY <1>1, <1>4, <2>1, HasTail
  <2>2. CASE d = r
    BY <1>1, <1>4, <2>2, HasStays
  <2>3. CASE d # c /\ d # r
    BY <1>1, <1>4, <2>3
  <2> QED BY <2>1, <2>2, <2>3
<1> QED BY <1>1, <1>2, <1>3, <1>4 DEF Moved

LEMMA MovedResponded ==
  ASSUME queue \in Queues, NEW c \in Channel, queue[c] # <<>>,
         NEW T, Head(queue[c]).type = T,
         NEW n, n = c[2], NEW msg \in Message,
         queue' = Respond(Taken(c), n, c[1], msg)
  PROVE  /\ Moved(c, T, {<<Resp(n, c[1]), msg>>})
         /\ queue'[c] = Tail(queue[c])
         /\ queue'[Resp(n, c[1])] = Append(queue[Resp(n, c[1])], msg)
<1> DEFINE m == c[1]
<1>1. n \in Node /\ m \in Node /\ n # m /\ Resp(n, m) # c
  BY ChannelParts
<1>2. Resp(n, m) \in Channel
  BY <1>1, ChannelParts
<1> DEFINE t == Taken(c)
<1>3. t \in Queues /\ \A d \in Channel : d # c => t[d] = queue[d]
  BY TakenParts
<1>4. queue' = Respond(t, n, m, msg)
  OBVIOUS
<1> HIDE DEF t
<1>5. /\ queue' \in Queues
      /\ \A d \in Channel : d # Resp(n, m) => queue'[d] = t[d]
      /\ queue'[Resp(n, m)] = Append(t[Resp(n, m)], msg)
  BY <1>1, <1>3, <1>4, RespondParts
<1>6. t[Resp(n, m)] = queue[Resp(n, m)]
  BY <1>1, <1>2, <1>3
<1> QED BY <1>1, <1>2, <1>5, <1>6, MovedAppended DEF t

LEMMA MovedSent ==
  ASSUME queue \in Queues, NEW c \in Channel, queue[c] # <<>>,
         NEW T, Head(queue[c]).type = T,
         NEW n, n = c[2], NEW p \in Node, p # n, NEW msg \in Message,
         queue' = SendTo(Taken(c), n, p, msg)
  PROVE  /\ Moved(c, T, {<<Snd(n, p), msg>>})
         /\ queue'[c] = Tail(queue[c])
         /\ Linked(n, p) => queue'[Snd(n, p)] = Append(queue[Snd(n, p)], msg)
<1>1. n \in Node /\ c[1] # n /\ Snd(n, p) # c
  BY ChannelParts
<1>2. Snd(n, p) \in Channel
  BY <1>1, ChannelParts
<1> DEFINE t == Taken(c)
<1>3. t \in Queues /\ \A d \in Channel : d # c => t[d] = queue[d]
  BY TakenParts
<1>4. queue' = SendTo(t, n, p, msg)
  OBVIOUS
<1> HIDE DEF t
<1>5. /\ queue' \in Queues
      /\ \A d \in Channel : d # Snd(n, p) => queue'[d] = t[d]
      /\ Linked(n, p) => queue'[Snd(n, p)] = Append(t[Snd(n, p)], msg)
      /\ ~Linked(n, p) => queue' = t
  BY <1>1, <1>3, <1>4, SendToParts
<1>6. t[Snd(n, p)] = queue[Snd(n, p)]
  BY <1>1, <1>2, <1>3
<1>7. CASE Linked(n, p)
  BY <1>1, <1>2, <1>5, <1>6, <1>7, MovedAppended DEF t
<1>8. CASE ~Linked(n, p)
  <2>1. Moved(c, T, {}) /\ queue'[c] = Tail(queue[c])
    BY <1>5, <1>8, MovedTaken DEF t
  <2>2. ASSUME NEW d \in Channel, NEW U,
               (d = c => U # T) /\ (\A m : <<d, m>> \in {<<Snd(n, p), msg>>} => m.type # U)
        PROVE  Calm(U, queue[d], queue'[d])
    BY <2>1, <2>2 DEF Moved
  <2> QED BY <1>8, <2>1, <2>2 DEF Moved
<1> QED BY <1>7, <1>8

LEMMA MovedBroadcast ==
  ASSUME queue \in Queues, NEW c \in Channel, queue[c] # <<>>,
         NEW T, Head(queue[c]).type = T,
         NEW n, n = c[2], NEW msg \in Message,
         queue' = Broadcast(Taken(c), n, <<msg>>),
         NEW N, \A y \in Node : <<Snd(n, y), msg>> \in N
  PROVE  /\ Moved(c, T, N)
         /\ queue'[c] = Tail(queue[c])
         /\ \A y \in Node : y # n /\ Linked(n, y) =>
              queue'[Snd(n, y)] = Append(queue[Snd(n, y)], msg)
<1>1. n \in Node /\ c[1] # n
  BY ChannelParts
<1> DEFINE t == Taken(c)
           e == <<msg>>
<1>2. /\ t \in Queues /\ \A d \in Channel : d # c => t[d] = queue[d]
      /\ t[c] = Tail(queue[c])
      /\ \A d \in Channel : queue[d] \in Seq(Message)
  BY TakenParts DEF Queues
<1>3. e \in Seq(Message) /\ \A q \in Seq(Message) : q \o e = Append(q, msg)
  OBVIOUS
<1>4. queue' = Broadcast(t, n, e)
  OBVIOUS
<1> HIDE DEF t, e
<1>5. /\ queue' \in Queues
      /\ \A d \in Channel : \/ queue'[d] = t[d]
                            \/ queue'[d] = t[d] \o e /\ d[1] = n /\ d[3] = "send"
      /\ \A y \in Node : y # n /\ Linked(n, y) => queue'[Snd(n, y)] = t[Snd(n, y)] \o e
  <2>1. t \in Queues /\ e \in Seq(Message) /\ n \in Node
    BY <1>1, <1>2, <1>3
  <2>2. /\ Broadcast(t, n, e) \in Queues
        /\ \A d \in Channel :
             \/ Broadcast(t, n, e)[d] = t[d] /\ ~(d[1] = n /\ d[3] = "send" /\ Linked(n, d[2]))
             \/ Broadcast(t, n, e)[d] = t[d] \o e /\ d[1] = n /\ d[3] = "send"
        /\ \A m \in Node : m # n /\ Linked(n, m) =>
             Broadcast(t, n, e)[Snd(n, m)] = t[Snd(n, m)] \o e
    BY SMTT(30), <2>1, BroadcastParts
  <2> QED BY <1>4, <2>2
<1>6. queue'[c] = Tail(queue[c])
  BY <1>1, <1>2, <1>5
<1>7. \A d \in Channel : d # c =>
        \/ queue'[d] = queue[d]
        \/ queue'[d] = Append(queue[d], msg) /\ <<d, msg>> \in N
  <2> SUFFICES ASSUME NEW d \in Channel, d # c, queue'[d] # queue[d]
               PROVE  queue'[d] = Append(queue[d], msg) /\ <<d, msg>> \in N
    OBVIOUS
  <2>1. queue'[d] = queue[d] \o e /\ d[1] = n /\ d[3] = "send"
    BY <1>2, <1>5
  <2>2. d = Snd(n, d[2]) /\ d[2] \in Node
    BY <2>1, ChannelParts
  <2> QED BY <1>2, <1>3, <2>1, <2>2
<1>8. \A y \in Node : y # n /\ Linked(n, y) =>
        queue'[Snd(n, y)] = Append(queue[Snd(n, y)], msg)
  <2> SUFFICES ASSUME NEW y \in Node, y # n, Linked(n, y)
               PROVE  queue'[Snd(n, y)] = Append(queue[Snd(n, y)], msg)
    OBVIOUS
  <2>1. Snd(n, y) \in Channel /\ Snd(n, y) # c
    BY <1>1, ChannelParts
  <2> QED BY SMTT(30), <1>2, <1>3, <1>5, <2>1
<1>9. ASSUME NEW d \in Channel, NEW U,
             (d = c => U # T) /\ (\A m : <<d, m>> \in N => m.type # U)
      PROVE  Calm(U, queue[d], queue'[d])
  <2>1. CASE d = c
    BY <1>2, <1>6, <1>9, <2>1 DEF Calm
  <2>2. CASE d # c /\ queue'[d] = queue[d]
    BY <1>2, <2>2, CalmSame
  <2>3. CASE d # c /\ queue'[d] = Append(queue[d], msg) /\ <<d, msg>> \in N
    <3>1. msg.type # U
      BY <1>9, <2>3
    <3> QED BY <1>2, <2>3, <3>1, CalmAppend
  <2> QED BY <1>7, <2>1, <2>2, <2>3
<1>10. ASSUME NEW d \in Channel, NEW m \in Message, Holds(queue'[d], m)
       PROVE  Holds(queue[d], m) \/ <<d, m>> \in N
  <2>1. CASE d = c
    BY <1>2, <1>6, <1>10, <2>1, HoldsTail
  <2>2. CASE d # c
    BY ZenonT(40), <1>2, <1>7, <1>10, <2>2, HoldsAppend
  <2> QED BY <2>1, <2>2
<1>11. ASSUME NEW d \in Channel, NEW U, NEW b, d = c => U # T, Has(queue[d], U, b)
       PROVE  Has(queue'[d], U, b)
  <2>1. CASE d = c
    BY <1>2, <1>6, <1>11, <2>1, HasTail
  <2>2. CASE d # c
    BY <1>2, <1>7, <1>11, <2>2, HasStays
  <2> QED BY <2>1, <2>2
<1> QED BY <1>5, <1>6, <1>8, <1>9, <1>10, <1>11 DEF Moved

\* Steps that change nothing else
LEMMA QueueOnly ==
  ASSUME IInv, NEW c, NEW T, NEW N, Moved(c, T, N),
         UNCHANGED <<phase, height, held, outbound, syncPeer, caughtUp, fresh,
                     unannounced, links, aside>>,
         \A d \in Channel, m \in Message : <<d, m>> \in N => GoodMsg(d, m)
  PROVE  TypeOK' /\ Messages' /\ Nodes' /\ Links'
<1>1. TypeOK'
  BY DEF IInv, TypeOK, Moved, Queues, aside
<1>2. Nodes' /\ Links'
  BY DEF IInv, Nodes, Links
<1>3. Messages'
  BY ZenonT(40) DEF IInv, Messages, Moved, GoodMsg
<1> QED BY <1>1, <1>2, <1>3

\* A node whose sync the step takes no message of
LEMMA SyncAside ==
  ASSUME NEW c, NEW T, NEW N, Moved(c, T, N),
         NEW x \in Node, NEW p \in Node, x # p,
         SyncPending(x, p), height'[x] = height[x],
         c = Snd(x, p) => T # "SyncBlock",
         c = Resp(p, x) => T \notin {"InfoBlock", "OutOfRange"}
  PROVE  SyncPending(x, p)'
<1>1. Snd(x, p) \in Channel /\ Resp(p, x) \in Channel
  BY ChannelParts
<1> QED BY <1>1 DEF Moved, SyncPending

\* A node about whose blocks the step sends and takes nothing
LEMMA PipeAside ==
  ASSUME TypeOK, TypeOK', NEW c, NEW T, NEW N, Moved(c, T, N),
         NEW x \in Node, NEW p \in Node, x # p,
         PipeOf(x, p), height'[x] = height[x], height'[p] = height[p],
         p = Miner => unannounced' = unannounced,
         c = Resp(p, x) => T # "InfoBlock",
         c = Resp(x, p) => T # "GetBlock",
         c = Snd(p, x) => T # "InvBlock",
         \A m : <<Resp(p, x), m>> \in N => m.type # "InfoBlock",
         \A m : <<Resp(x, p), m>> \in N => m.type # "GetBlock",
         \A m : <<Snd(p, x), m>> \in N => m.type # "InvBlock"
  PROVE  PipeOf(x, p)'
<1>1. Snd(p, x) \in Channel /\ Resp(p, x) \in Channel /\ Resp(x, p) \in Channel
  BY ChannelParts
<1>2. /\ queue[Snd(p, x)] \in Seq(Message) /\ queue'[Snd(p, x)] \in Seq(Message)
      /\ queue[Resp(p, x)] \in Seq(Message) /\ queue'[Resp(p, x)] \in Seq(Message)
      /\ queue[Resp(x, p)] \in Seq(Message) /\ queue'[Resp(x, p)] \in Seq(Message)
      /\ height[x] \in Nat /\ height[p] \in Nat
  BY <1>1, QueueTypes DEF Moved, Queues
<1>3. /\ Calm("InfoBlock", queue[Resp(p, x)], queue'[Resp(p, x)])
      /\ Calm("GetBlock", queue[Resp(x, p)], queue'[Resp(x, p)])
      /\ Calm("InvBlock", queue[Snd(p, x)], queue'[Snd(p, x)])
  BY <1>1 DEF Moved
<1> DEFINE still == p = Miner /\ unannounced
<1>4. Pipe(queue[Resp(p, x)], queue[Resp(x, p)], queue[Snd(p, x)],
           height[x], height[p], still)
  BY DEF PipeOf
<1>5. still \in BOOLEAN /\ (p = Miner /\ unannounced') = still
  OBVIOUS
<1> HIDE DEF still
<1>6. Pipe(queue'[Resp(p, x)], queue'[Resp(x, p)], queue'[Snd(p, x)],
           height[x], height[p], still)
  BY <1>2, <1>3, <1>4, <1>5, CalmPipe
<1> QED BY <1>5, <1>6 DEF PipeOf

\* No answer that ends the sync arrives or is sent.
LEMMA EndAside ==
  ASSUME TypeOK, TypeOK', NEW c, NEW T, NEW N, Moved(c, T, N),
         NEW x \in Node, NEW p \in Node, x # p,
         \A m : <<Resp(p, x), m>> \in N => m.type # "OutOfRange" \/ ~m.wellSynced
  PROVE  WellEnded(queue'[Resp(p, x)]) => WellEnded(queue[Resp(p, x)])
<1>1. Resp(p, x) \in Channel
  BY ChannelParts
<1> QED BY <1>1 DEF Moved, WellEnded

-----------------------------------------------------------------------------
(* The handlers of messages about blocks that leave the chain alone *)

LEMMA TakesGood ==
  ASSUME IInv, NEW c \in Channel, NEW n, n = c[2],
         NEW T, Receives(n, c, T)
  PROVE  /\ queue \in Queues /\ queue[c] # <<>> /\ queue[c] \in Seq(Message)
         /\ Head(queue[c]) \in Message /\ Head(queue[c]).type = T
         /\ Head(queue[c]).block \in Nat
         /\ GoodMsg(c, Head(queue[c]))
         /\ n \in Node /\ c[1] \in Node /\ n # c[1]
         /\ c[3] = "response" => c = Resp(c[1], n)
         /\ c[3] = "send" => c = Snd(c[1], n)
<1>1. queue \in Queues /\ queue[c] # <<>> /\ queue[c] \in Seq(Message)
      /\ Head(queue[c]).type = T
  BY QueueTypes DEF IInv, Receives
<1>2. Head(queue[c]) \in Message /\ Holds(queue[c], Head(queue[c]))
  BY <1>1, TakenParts
<1>3. GoodMsg(c, Head(queue[c])) /\ Head(queue[c]).block \in Nat
  BY <1>2 DEF IInv, Messages, Message
<1> QED BY <1>1, <1>2, <1>3, ChannelParts

\* Whose sync is under way, and with whom
LEMMA SyncingParts ==
  ASSUME IInv, NEW x \in Node, phase[x] = "syncing", Linked(x, syncPeer[x]),
         Free(x, syncPeer[x])
  PROVE  syncPeer[x] \in Node /\ x # syncPeer[x] /\ SyncPending(x, syncPeer[x])
BY LinkedDiffer DEF IInv, Nodes, Syncs

LEMMA DropOutOfRangeStep ==
  ASSUME IInv, NEW c \in Channel, NEW n, n = c[2], DropOutOfRange(n, c)
  PROVE  IInv'
<1> DEFINE m == c[1]
<1>1. /\ queue \in Queues /\ queue[c] # <<>> /\ Head(queue[c]).type = "OutOfRange"
      /\ n \in Node /\ c = Resp(m, n)
  <2>1. Receives(n, c, "OutOfRange")
    BY DEF DropOutOfRange
  <2>2. /\ queue \in Queues /\ queue[c] # <<>> /\ Head(queue[c]).type = "OutOfRange"
        /\ n \in Node /\ GoodMsg(c, Head(queue[c])) /\ (c[3] = "response" => c = Resp(m, n))
    BY ZenonT(40), <2>1, TakesGood
  <2> QED BY <2>2 DEF GoodMsg
<1>2. Moved(c, "OutOfRange", {})
  BY <1>1, MovedTaken DEF DropOutOfRange
<1>3. UNCHANGED <<phase, height, held, outbound, syncPeer, caughtUp, fresh,
                  unannounced, links, aside>>
  BY DEF DropOutOfRange
<1>4. TypeOK' /\ Messages' /\ Nodes' /\ Links'
  BY <1>2, <1>3, QueueOnly
<1>5. Syncs'
  <2> SUFFICES ASSUME NEW x \in Node, phase[x] = "syncing", Linked(x, syncPeer[x]),
                      Free(x, syncPeer[x])
               PROVE  SyncPending(x, syncPeer[x])'
    BY <1>3 DEF Syncs, Linked, Free, Sound, aside
  <2>1. syncPeer[x] \in Node /\ x # syncPeer[x] /\ SyncPending(x, syncPeer[x])
    BY SyncingParts
  <2>2. x # n
    BY DEF DropOutOfRange
  <2>3. c # Resp(syncPeer[x], x) /\ c # Snd(x, syncPeer[x])
    BY <1>1, <2>2, ChannelParts
  <2> QED BY <1>2, <1>3, <1>4, <2>1, <2>3, SyncAside DEF IInv
<1>6. Pipes'
  <2> SUFFICES ASSUME NEW x \in Node, Follows(x)'
               PROVE  PipeOf(x, syncPeer[x])'
    BY <1>3 DEF Pipes
  <2> DEFINE p == syncPeer[x]
  <2>1. p \in Node /\ Linked(x, p) /\ x # p
    BY <1>3, LinkedDiffer DEF Follows, Linked, IInv
  <2>2. WellEnded(queue'[Resp(p, x)]) => WellEnded(queue[Resp(p, x)])
    BY <1>2, <1>4, <2>1, EndAside DEF IInv
  <2>3. PipeOf(x, p)
    BY <1>3, <2>1, <2>2 DEF Follows, Free, Sound, aside, IInv, Pipes
  <2> QED BY <1>2, <1>3, <1>4, <2>1, <2>3, PipeAside DEF IInv
<1> QED BY <1>4, <1>5, <1>6 DEF IInv

LEMMA DropBlockStep ==
  ASSUME IInv, NEW c \in Channel, NEW n, n = c[2], DropBlock(n, c)
  PROVE  IInv'
<1> DEFINE m == c[1]
<1>1. /\ queue \in Queues /\ queue[c] # <<>> /\ Head(queue[c]).type = "InfoBlock"
      /\ n \in Node /\ m \in Node /\ c = Resp(m, n) /\ Head(queue[c]).block # height[n] + 1
      /\ queue[c] \in Seq(Message)
  <2>1. Receives(n, c, "InfoBlock")
    BY DEF DropBlock
  <2>2. /\ queue \in Queues /\ queue[c] # <<>> /\ Head(queue[c]).type = "InfoBlock"
        /\ n \in Node /\ m \in Node /\ GoodMsg(c, Head(queue[c])) /\ queue[c] \in Seq(Message)
        /\ (c[3] = "response" => c = Resp(m, n))
    BY ZenonT(40), <2>1, TakesGood
  <2> QED BY <2>2 DEF GoodMsg, DropBlock, Attaches
<1>2. Moved(c, "InfoBlock", {}) /\ queue'[c] = Tail(queue[c])
  BY <1>1, MovedTaken DEF DropBlock
<1>3. UNCHANGED <<phase, height, held, outbound, syncPeer, caughtUp, fresh,
                  unannounced, links, aside>>
  BY DEF DropBlock
<1>4. TypeOK' /\ Messages' /\ Nodes' /\ Links'
  BY <1>2, <1>3, QueueOnly
<1>5. Syncs'
  <2> SUFFICES ASSUME NEW x \in Node, phase[x] = "syncing", Linked(x, syncPeer[x]),
                      Free(x, syncPeer[x])
               PROVE  SyncPending(x, syncPeer[x])'
    BY <1>3 DEF Syncs, Linked, Free, Sound, aside
  <2> DEFINE p == syncPeer[x]
  <2>1. p \in Node /\ x # p /\ SyncPending(x, p)
    BY SyncingParts
  <2>2. c # Snd(x, p)
    BY <1>1, ChannelParts
  <2>3. CASE c # Resp(p, x)
    BY <1>2, <1>3, <1>4, <2>1, <2>2, <2>3, SyncAside DEF IInv
  <2>4. CASE c = Resp(p, x)
    <3>1. x = n
      BY <1>1, <2>4, ChannelParts
    <3>2. /\ \A b : Has(queue[c], "InfoBlock", b)
                      => Has(Tail(queue[c]), "InfoBlock", b) \/ b = Head(queue[c]).block
          /\ Has(queue[c], "OutOfRange", 0) => Has(Tail(queue[c]), "OutOfRange", 0)
      BY <1>1, HasTail
    <3>3. Snd(x, p) \in Channel
      BY <2>1, ChannelParts
    <3>4. Calm("SyncBlock", queue[Snd(x, p)], queue'[Snd(x, p)])
      BY <1>2, <2>2, <3>3 DEF Moved
    <3>5. Has(queue'[Snd(x, p)], "SyncBlock", height[x] + 1)
            <=> Has(queue[Snd(x, p)], "SyncBlock", height[x] + 1)
      BY <1>1, <1>2, <3>3, <3>4, CalmKeeps DEF Moved, Queues
    <3> QED BY <1>1, <1>2, <1>3, <2>1, <2>4, <3>1, <3>2, <3>5 DEF SyncPending
  <2> QED BY <2>3, <2>4
<1>6. Pipes'
  <2> SUFFICES ASSUME NEW x \in Node, Follows(x)'
               PROVE  PipeOf(x, syncPeer[x])'
    BY <1>3 DEF Pipes
  <2> DEFINE p == syncPeer[x]
  <2>1. p \in Node /\ Linked(x, p) /\ x # p
    BY <1>3, LinkedDiffer DEF Follows, Linked, IInv
  <2>2. WellEnded(queue'[Resp(p, x)]) => WellEnded(queue[Resp(p, x)])
    BY <1>2, <1>4, <2>1, EndAside DEF IInv
  <2>3. PipeOf(x, p)
    BY <1>3, <2>1, <2>2 DEF Follows, Free, Sound, aside, IInv, Pipes
  <2>4. c # Snd(p, x)
    BY <1>1, ChannelParts
  <2>5. CASE c # Resp(p, x)
    BY <1>2, <1>3, <1>4, <2>1, <2>3, <2>4, <2>5, PipeAside DEF IInv
  <2>6. CASE c = Resp(p, x)
    <3>1. x = n
      BY <1>1, <2>6, ChannelParts
    <3>2. /\ Snd(p, x) \in Channel /\ Resp(x, p) \in Channel
          /\ c # Snd(p, x) /\ c # Resp(x, p)
      BY <2>1, <2>6, ChannelParts
    <3>3. queue'[Snd(p, x)] = queue[Snd(p, x)] /\ queue'[Resp(x, p)] = queue[Resp(x, p)]
      BY <1>1, <3>2, TakenParts DEF DropBlock
    <3> DEFINE still == p = Miner /\ unannounced
               R == queue[Resp(p, x)]
               G == queue[Resp(x, p)]
               S == queue[Snd(p, x)]
    <3>4. /\ Pipe(R, G, S, height[x], height[p], still)
          /\ R \in Seq(Message) /\ G \in Seq(Message) /\ S \in Seq(Message)
          /\ R # <<>> /\ Head(R).block # height[x] + 1
          /\ height[x] \in Nat /\ height[p] \in Nat /\ still \in BOOLEAN
      BY <1>1, <2>1, <2>3, <2>6, <3>1, <3>2, QueueTypes DEF PipeOf, Queues, IInv
    <3>5. /\ queue'[Resp(p, x)] = Tail(R) /\ queue'[Resp(x, p)] = G
          /\ queue'[Snd(p, x)] = S
      BY <1>2, <2>6, <3>3
    <3> HIDE DEF R, G, S, still
    <3>6. Pipe(Tail(R), G, S, height[x], height[p], still)
      BY <3>4, ShrinkBlocks
    <3> QED BY <1>3, <3>5, <3>6 DEF PipeOf, still
  <2> QED BY <2>5, <2>6
<1> QED BY <1>4, <1>5, <1>6 DEF IInv

\* add_block does not add the block: only what its sender has can be refused.
LEMMA RefusedStep ==
  ASSUME IInv, NEW c \in Channel, NEW n, n = c[2],
         Receives(n, c, "InfoBlock"), Attaches(n, c), ~Sound(height[n] + 1),
         queue' = Taken(c), deaf' \subseteq Node \X Node,
         UNCHANGED <<phase, height, held, outbound, syncPeer, caughtUp, fresh,
                     unannounced, links, rejected, thrown, stopped>>
  PROVE  IInv'
<1> DEFINE m == c[1]
<1>1. /\ queue \in Queues /\ queue[c] # <<>> /\ Head(queue[c]).type = "InfoBlock"
      /\ n \in Node /\ m \in Node /\ c = Resp(m, n) /\ height[n] + 1 <= height[m]
  <2>1. /\ queue \in Queues /\ queue[c] # <<>> /\ Head(queue[c]).type = "InfoBlock"
        /\ n \in Node /\ m \in Node /\ GoodMsg(c, Head(queue[c]))
        /\ (c[3] = "response" => c = Resp(m, n))
    BY ZenonT(40), TakesGood
  <2> QED BY <2>1 DEF GoodMsg, Attaches
<1>2. Moved(c, "InfoBlock", {})
  BY <1>1, MovedTaken
<1>3. TypeOK'
  BY <1>2 DEF IInv, TypeOK, Moved, Queues
<1>4. Nodes' /\ Links'
  BY DEF IInv, Nodes, Links
<1>5. Messages'
  BY <1>2, ZenonT(40) DEF IInv, Messages, Moved, GoodMsg
<1>6. \A x, p \in Node : Free(x, p) => c # Resp(p, x)
  <2> SUFFICES ASSUME NEW x \in Node, NEW p \in Node, c = Resp(p, x)
               PROVE  ~Free(x, p)
    OBVIOUS
  <2>1. x = n /\ p = m
    BY <1>1, ChannelParts
  <2>2. height[m] \in Nat /\ height[n] \in Nat
    BY <1>1, QueueTypes DEF IInv
  <2> QED BY <1>1, <2>1, <2>2 DEF Free
<1>7. \A x, p : c # Snd(x, p)
  BY <1>1, ChannelParts
<1>8. Syncs'
  <2> SUFFICES ASSUME NEW x \in Node, phase[x] = "syncing", Linked(x, syncPeer[x]),
                      Free(x, syncPeer[x])
               PROVE  SyncPending(x, syncPeer[x])'
    BY DEF Syncs, Linked, Free, Sound
  <2>1. syncPeer[x] \in Node /\ x # syncPeer[x] /\ SyncPending(x, syncPeer[x])
    BY SyncingParts
  <2>2. c # Resp(syncPeer[x], x) /\ c # Snd(x, syncPeer[x])
    BY <1>6, <1>7, <2>1
  <2> QED BY <1>2, <2>1, <2>2, SyncAside
<1>9. Pipes'
  <2> SUFFICES ASSUME NEW x \in Node, Follows(x)'
               PROVE  PipeOf(x, syncPeer[x])'
    BY DEF Pipes
  <2> DEFINE p == syncPeer[x]
  <2>1. p \in Node /\ Linked(x, p) /\ x # p /\ Free(x, p)
    BY LinkedDiffer DEF Follows, Linked, Free, Sound, IInv
  <2>2. WellEnded(queue'[Resp(p, x)]) => WellEnded(queue[Resp(p, x)])
    BY <1>2, <1>3, <2>1, EndAside DEF IInv
  <2>3. PipeOf(x, p)
    BY <2>1, <2>2 DEF Follows, IInv, Pipes
  <2>4. c # Resp(p, x) /\ c # Snd(p, x)
    BY <1>6, <1>7, <2>1
  <2> QED BY <1>2, <1>3, <2>1, <2>3, <2>4, PipeAside DEF IInv
<1> QED BY <1>3, <1>4, <1>5, <1>8, <1>9 DEF IInv

LEMMA RejectBlockStep ==
  ASSUME IInv, NEW c \in Channel, NEW n, n = c[2], RejectBlock(n, c)
  PROVE  IInv'
<1>1. /\ Receives(n, c, "InfoBlock") /\ Attaches(n, c) /\ ~Sound(height[n] + 1)
      /\ queue' = Taken(c) /\ deaf' \subseteq Node \X Node
      /\ UNCHANGED <<phase, height, held, outbound, syncPeer, caughtUp, fresh,
                     unannounced, links, rejected, thrown, stopped>>
  BY DEF RejectBlock, Sound, aside, IInv, TypeOK
<1> QED BY <1>1, RefusedStep

LEMMA HandleInvBlockStep ==
  ASSUME IInv, NEW c \in Channel, NEW n, n = c[2], HandleInvBlock(n, c)
  PROVE  IInv'
<1> DEFINE m == c[1]
           b == Head(queue[c]).block
           msg == BlockMsg("GetBlock", b)
<1>1. /\ queue \in Queues /\ queue[c] # <<>> /\ Head(queue[c]).type = "InvBlock"
      /\ n \in Node /\ m \in Node /\ n # m /\ c = Snd(m, n)
      /\ b \in Nat /\ b <= height[m] /\ queue[c] \in Seq(Message)
  <2>1. Receives(n, c, "InvBlock")
    BY DEF HandleInvBlock
  <2>2. /\ queue \in Queues /\ queue[c] # <<>> /\ Head(queue[c]).type = "InvBlock"
        /\ n \in Node /\ m \in Node /\ n # m /\ b \in Nat /\ queue[c] \in Seq(Message)
        /\ GoodMsg(c, Head(queue[c])) /\ (c[3] = "send" => c = Snd(m, n))
    BY ZenonT(40), <2>1, TakesGood
  <2> QED BY <2>2 DEF GoodMsg
<1>2. UNCHANGED <<phase, height, held, outbound, syncPeer, caughtUp, fresh,
                  unannounced, links, aside>>
  BY DEF HandleInvBlock
<1>3. msg \in Message /\ msg.type = "GetBlock" /\ msg.block = b
  BY <1>1, MessageForms
<1>4. b > height[n] => queue' = Respond(Taken(c), n, m, msg)
  BY DEF HandleInvBlock
<1>5. ~(b > height[n]) => queue' = Taken(c)
  BY DEF HandleInvBlock
<1> HIDE DEF msg, b
<1>6. /\ queue'[c] = Tail(queue[c])
      /\ \/ b > height[n] /\ Moved(c, "InvBlock", {<<Resp(n, m), msg>>})
            /\ queue'[Resp(n, m)] = Append(queue[Resp(n, m)], msg)
         \/ ~(b > height[n]) /\ Moved(c, "InvBlock", {})
            /\ queue' = Taken(c)
  BY <1>1, <1>3, <1>4, <1>5, MovedResponded, MovedTaken
<1> DEFINE N == IF b > height[n] THEN {<<Resp(n, m), msg>>} ELSE {}
<1>7. Moved(c, "InvBlock", N) /\ \A d, x : <<d, x>> \in N => d = Resp(n, m) /\ x = msg
  BY <1>6
<1> HIDE DEF N
<1>8. TypeOK' /\ Messages' /\ Nodes' /\ Links'
  <2>1. GoodMsg(Resp(n, m), msg)
    BY <1>1, <1>3, ChannelParts DEF GoodMsg
  <2> QED BY <1>2, <1>7, <2>1, QueueOnly
<1>9. Syncs'
  <2> SUFFICES ASSUME NEW x \in Node, phase[x] = "syncing", Linked(x, syncPeer[x]),
                      Free(x, syncPeer[x])
               PROVE  SyncPending(x, syncPeer[x])'
    BY <1>2 DEF Syncs, Linked, Free, Sound, aside
  <2>1. syncPeer[x] \in Node /\ x # syncPeer[x] /\ SyncPending(x, syncPeer[x])
    BY SyncingParts
  <2> QED BY <1>2, <1>7, <2>1, SyncAside
<1>10. Pipes'
  <2> SUFFICES ASSUME NEW x \in Node, Follows(x)'
               PROVE  PipeOf(x, syncPeer[x])'
    BY <1>2 DEF Pipes
  <2> DEFINE p == syncPeer[x]
  <2>1. p \in Node /\ Linked(x, p) /\ x # p
    BY <1>2, LinkedDiffer DEF Follows, Linked, IInv
  <2>2. WellEnded(queue'[Resp(p, x)]) => WellEnded(queue[Resp(p, x)])
    BY <1>3, <1>7, <1>8, <2>1, EndAside DEF IInv
  <2>3. PipeOf(x, p)
    BY <1>2, <2>1, <2>2 DEF Follows, Free, Sound, aside, IInv, Pipes
  <2>4. CASE c # Snd(p, x)
    <3>1. Resp(n, m) # Resp(x, p)
      BY <1>1, <2>4, ChannelParts
    <3> QED BY <1>2, <1>3, <1>7, <1>8, <2>1, <2>3, <2>4, <3>1, PipeAside DEF IInv
  <2>5. CASE c = Snd(p, x)
    <3>1. x = n /\ p = m
      BY <1>1, <2>5, ChannelParts
    <3>2. /\ Resp(p, x) \in Channel /\ Resp(x, p) \in Channel
          /\ c # Resp(p, x) /\ Resp(p, x) # Resp(x, p) /\ c # Resp(x, p)
      BY <2>1, <2>5, ChannelParts
    <3>3. queue'[Resp(p, x)] = queue[Resp(p, x)]
      <4>1. CASE b > height[n]
        <5> DEFINE t == Taken(c)
        <5>1. t \in Queues /\ t[Resp(p, x)] = queue[Resp(p, x)] /\ queue' = Respond(t, n, m, msg)
          BY <1>1, <1>4, <3>2, <4>1, TakenParts
        <5> HIDE DEF t
        <5>2. Resp(p, x) # Resp(n, m)
          BY <3>1, <3>2
        <5> QED BY <1>1, <1>3, <3>2, <5>1, <5>2, RespondParts
      <4>2. CASE ~(b > height[n])
        BY <1>1, <1>5, <3>2, <4>2, TakenParts
      <4> QED BY <4>1, <4>2
    <3> DEFINE still == p = Miner /\ unannounced
               R == queue[Resp(p, x)]
               G == queue[Resp(x, p)]
               S == queue[Snd(p, x)]
               h == height[x]
    <3>4. /\ Pipe(R, G, S, h, height[p], still)
          /\ R \in Seq(Message) /\ G \in Seq(Message) /\ S \in Seq(Message)
          /\ S # <<>> /\ Head(S).type = "InvBlock" /\ Head(S).block = b
          /\ h \in Nat /\ height[p] \in Nat /\ still \in BOOLEAN
      BY SMTT(30), <1>1, <2>1, <2>3, <2>5, <3>2, QueueTypes DEF PipeOf, Queues, IInv, b
    <3>5. /\ queue'[Resp(p, x)] = R /\ queue'[Snd(p, x)] = Tail(S)
          /\ \/ queue'[Resp(x, p)] = Append(G, msg) /\ b > h
             \/ queue'[Resp(x, p)] = G /\ ~(b > h)
      BY <1>1, <1>6, <2>5, <3>1, <3>2, <3>3, TakenParts
    <3> HIDE DEF R, G, S, h, still
    <3>6. CASE queue'[Resp(x, p)] = Append(G, msg) /\ b > h
      <4>1. b > h + 1 => Has(G, "GetBlock", b - 1) \/ Has(R, "InfoBlock", b - 1)
        <5>1. 1 \in DOMAIN S /\ S[1] = Head(S) /\ ~Before(S, "InvBlock", b - 1, 1)
          BY <3>4, TailParts, HasTail
        <5> QED BY <3>4, <5>1 DEF Pipe, Ordered
      <4>2. Pipe(R, Append(G, msg), S, h, height[p], still)
        BY <1>3, <3>4, <4>1, GrowRequests
      <4>3. Append(G, msg) \in Seq(Message) /\ Has(Append(G, msg), "GetBlock", b)
        BY <1>3, <3>4, AppendParts, HasAppend
      <4>4. Pipe(R, Append(G, msg), Tail(S), h, height[p], still)
        BY <3>4, <4>2, <4>3, ShrinkAnnounced
      <4> QED BY <1>2, <3>5, <3>6, <4>4 DEF PipeOf, h, still
    <3>7. CASE queue'[Resp(x, p)] = G /\ ~(b > h)
      <4>1. Pipe(R, G, Tail(S), h, height[p], still)
        BY SMTT(30), <1>1, <3>4, <3>7, ShrinkAnnounced
      <4> QED BY <1>2, <3>5, <3>7, <4>1 DEF PipeOf, h, still
    <3> QED BY <3>5, <3>6, <3>7
  <2> QED BY <2>4, <2>5
<1> QED BY <1>8, <1>9, <1>10 DEF IInv

LEMMA HandleGetBlockStep ==
  ASSUME IInv, NEW c \in Channel, NEW n, n = c[2], HandleGetBlock(n, c)
  PROVE  IInv'
<1> DEFINE m == c[1]
           b == Head(queue[c]).block
           msg == BlockMsg("InfoBlock", b)
           N == {<<Resp(n, m), msg>>}
<1>1. /\ queue \in Queues /\ queue[c] # <<>> /\ Head(queue[c]).type = "GetBlock"
      /\ n \in Node /\ m \in Node /\ n # m /\ c = Resp(m, n)
      /\ b \in Nat /\ b <= height[n] /\ queue[c] \in Seq(Message)
  <2>1. Receives(n, c, "GetBlock")
    BY DEF HandleGetBlock
  <2>2. /\ queue \in Queues /\ queue[c] # <<>> /\ Head(queue[c]).type = "GetBlock"
        /\ n \in Node /\ m \in Node /\ n # m /\ b \in Nat /\ queue[c] \in Seq(Message)
        /\ GoodMsg(c, Head(queue[c])) /\ (c[3] = "response" => c = Resp(m, n))
    BY ZenonT(40), <2>1, TakesGood
  <2> QED BY <2>2 DEF GoodMsg
<1>2. UNCHANGED <<phase, height, held, outbound, syncPeer, caughtUp, fresh,
                  unannounced, links, aside>>
  BY DEF HandleGetBlock
<1>3. msg \in Message /\ msg.type = "InfoBlock" /\ msg.block = b
  BY <1>1, MessageForms
<1>4. queue' = Respond(Taken(c), n, m, msg)
  BY <1>1 DEF HandleGetBlock
<1> HIDE DEF msg, b
<1>5. /\ queue'[c] = Tail(queue[c])
      /\ Moved(c, "GetBlock", N)
      /\ queue'[Resp(n, m)] = Append(queue[Resp(n, m)], msg)
  BY <1>1, <1>3, <1>4, MovedResponded
<1>6. \A d, x : <<d, x>> \in N => d = Resp(n, m) /\ x = msg
  OBVIOUS
<1> HIDE DEF N
<1>7. TypeOK' /\ Messages' /\ Nodes' /\ Links'
  <2>1. GoodMsg(Resp(n, m), msg)
    BY <1>1, <1>3, ChannelParts DEF GoodMsg
  <2> QED BY <1>2, <1>5, <1>6, <2>1, QueueOnly
<1>8. Syncs'
  <2> SUFFICES ASSUME NEW x \in Node, phase[x] = "syncing", Linked(x, syncPeer[x]),
                      Free(x, syncPeer[x])
               PROVE  SyncPending(x, syncPeer[x])'
    BY <1>2 DEF Syncs, Linked, Free, Sound, aside
  <2>1. syncPeer[x] \in Node /\ x # syncPeer[x] /\ SyncPending(x, syncPeer[x])
    BY SyncingParts
  <2> QED BY <1>2, <1>5, <2>1, SyncAside
<1>9. Pipes'
  <2> SUFFICES ASSUME NEW x \in Node, Follows(x)'
               PROVE  PipeOf(x, syncPeer[x])'
    BY <1>2 DEF Pipes
  <2> DEFINE p == syncPeer[x]
  <2>1. p \in Node /\ Linked(x, p) /\ x # p
    BY <1>2, LinkedDiffer DEF Follows, Linked, IInv
  <2>2. WellEnded(queue'[Resp(p, x)]) => WellEnded(queue[Resp(p, x)])
    BY <1>3, <1>5, <1>6, <1>7, <2>1, EndAside DEF IInv
  <2>3. PipeOf(x, p)
    BY <1>2, <2>1, <2>2 DEF Follows, Free, Sound, aside, IInv, Pipes
  <2>4. CASE c # Resp(x, p)
    <3>1. Resp(n, m) # Resp(p, x)
      BY <1>1, <2>4, ChannelParts
    <3> QED BY <1>2, <1>3, <1>5, <1>6, <1>7, <2>1, <2>3, <2>4, <3>1, PipeAside DEF IInv
  <2>5. CASE c = Resp(x, p)
    <3>1. x = m /\ p = n
      BY <1>1, <2>5, ChannelParts
    <3>2. /\ Resp(p, x) \in Channel /\ Snd(p, x) \in Channel
          /\ c # Snd(p, x) /\ Resp(p, x) # Snd(p, x) /\ c # Resp(p, x)
      BY <2>1, <2>5, ChannelParts
    <3>3. queue'[Snd(p, x)] = queue[Snd(p, x)]
      <4> DEFINE t == Taken(c)
      <4>1. t \in Queues /\ t[Snd(p, x)] = queue[Snd(p, x)] /\ queue' = Respond(t, n, m, msg)
        BY <1>1, <1>4, <3>2, TakenParts
      <4> HIDE DEF t
      <4>2. Snd(p, x) # Resp(n, m)
        BY <3>1, <3>2
      <4> QED BY <1>1, <1>3, <3>2, <4>1, <4>2, RespondParts
    <3> DEFINE still == p = Miner /\ unannounced
               R == queue[Resp(p, x)]
               G == queue[Resp(x, p)]
               S == queue[Snd(p, x)]
               h == height[x]
    <3>4. /\ Pipe(R, G, S, h, height[p], still)
          /\ R \in Seq(Message) /\ G \in Seq(Message) /\ S \in Seq(Message)
          /\ G # <<>> /\ Head(G).type = "GetBlock" /\ Head(G).block = b
          /\ h \in Nat /\ height[p] \in Nat /\ still \in BOOLEAN
      BY SMTT(30), <1>1, <2>1, <2>3, <2>5, <3>2, QueueTypes DEF PipeOf, Queues, IInv, b
    <3>5. /\ queue'[Resp(p, x)] = Append(R, msg) /\ queue'[Snd(p, x)] = S
          /\ queue'[Resp(x, p)] = Tail(G)
      BY <1>5, <2>5, <3>1, <3>3
    <3> HIDE DEF R, G, S, h, still
    <3>6. b > h + 1 => Has(R, "InfoBlock", b - 1)
      <4>1. 1 \in DOMAIN G /\ G[1] = Head(G) /\ ~Before(G, "GetBlock", b - 1, 1)
        BY <3>4, TailParts, HasTail
      <4> QED BY <3>4, <4>1 DEF Pipe, Ordered
    <3>7. Pipe(Append(R, msg), G, S, h, height[p], still)
      BY <1>3, <3>4, <3>6, GrowBlocks
    <3>8. Append(R, msg) \in Seq(Message) /\ Has(Append(R, msg), "InfoBlock", b)
      BY <1>3, <3>4, AppendParts, HasAppend
    <3>9. Pipe(Append(R, msg), Tail(G), S, h, height[p], still)
      BY <3>4, <3>7, <3>8, ShrinkRequests
    <3> QED BY <1>2, <3>5, <3>9 DEF PipeOf, h, still
  <2> QED BY <2>4, <2>5
<1> QED BY <1>7, <1>8, <1>9 DEF IInv

LEMMA HandleSyncBlockStep ==
  ASSUME IInv, NEW c \in Channel, NEW n, n = c[2], HandleSyncBlock(n, c)
  PROVE  IInv'
<1> DEFINE m == c[1]
           b == Head(queue[c]).block
           msg == IF b > height[n] THEN OutOfRange(n) ELSE BlockMsg("InfoBlock", b)
           N == {<<Resp(n, m), msg>>}
<1>1. /\ queue \in Queues /\ queue[c] # <<>> /\ Head(queue[c]).type = "SyncBlock"
      /\ n \in Node /\ m \in Node /\ n # m /\ c = Snd(m, n)
      /\ b \in Nat /\ b <= height[m] + 1 /\ syncPeer[m] = n /\ queue[c] \in Seq(Message)
  <2>1. Receives(n, c, "SyncBlock")
    BY DEF HandleSyncBlock
  <2>2. /\ queue \in Queues /\ queue[c] # <<>> /\ Head(queue[c]).type = "SyncBlock"
        /\ n \in Node /\ m \in Node /\ n # m /\ b \in Nat /\ queue[c] \in Seq(Message)
        /\ GoodMsg(c, Head(queue[c])) /\ (c[3] = "send" => c = Snd(m, n))
    BY ZenonT(40), <2>1, TakesGood
  <2> QED BY <2>2 DEF GoodMsg
<1>2. UNCHANGED <<phase, height, held, outbound, syncPeer, caughtUp, fresh,
                  unannounced, links, aside>>
  BY DEF HandleSyncBlock
<1>3. /\ msg \in Message
      /\ \/ b > height[n] /\ msg.type = "OutOfRange" /\ msg.block = 0
            /\ (msg.wellSynced => phase[n] = "synced")
         \/ b <= height[n] /\ msg.type = "InfoBlock" /\ msg.block = b
  BY <1>1, MessageForms, QueueTypes DEF IInv
<1>4. queue' = Respond(Taken(c), n, m, msg)
  BY DEF HandleSyncBlock
<1> HIDE DEF msg, b
<1>5. /\ queue'[c] = Tail(queue[c])
      /\ Moved(c, "SyncBlock", N)
      /\ queue'[Resp(n, m)] = Append(queue[Resp(n, m)], msg)
  BY <1>1, <1>3, <1>4, MovedResponded
<1>6. \A d, x : <<d, x>> \in N => d = Resp(n, m) /\ x = msg
  OBVIOUS
<1> HIDE DEF N
<1>7. TypeOK' /\ Messages' /\ Nodes' /\ Links'
  <2>1. GoodMsg(Resp(n, m), msg)
    BY <1>1, <1>3, ChannelParts DEF GoodMsg
  <2> QED BY <1>2, <1>5, <1>6, <2>1, QueueOnly
<1>8. Syncs'
  <2> SUFFICES ASSUME NEW x \in Node, phase[x] = "syncing", Linked(x, syncPeer[x]),
                      Free(x, syncPeer[x])
               PROVE  SyncPending(x, syncPeer[x])'
    BY <1>2 DEF Syncs, Linked, Free, Sound, aside
  <2> DEFINE p == syncPeer[x]
             h == height[x] + 1
  <2>1. p \in Node /\ x # p /\ SyncPending(x, p)
    BY SyncingParts
  <2>2. CASE c # Snd(x, p)
    BY <1>2, <1>5, <2>1, <2>2, SyncAside
  <2>3. CASE c = Snd(x, p)
    <3>1. /\ x = m /\ p = n
          /\ Resp(p, x) \in Channel /\ c # Resp(p, x)
      BY <1>1, <2>1, <2>3, ChannelParts
    <3>2. /\ Has(queue[Resp(p, x)], "InfoBlock", h) => Has(queue'[Resp(p, x)], "InfoBlock", h)
          /\ Has(queue[Resp(p, x)], "OutOfRange", 0) => Has(queue'[Resp(p, x)], "OutOfRange", 0)
      BY <1>5, <3>1 DEF Moved
    <3>3. Has(queue[c], "SyncBlock", h) => Has(queue'[c], "SyncBlock", h) \/ b = h
      BY <1>1, <1>5, HasTail DEF b
    <3>4. b = h => \/ Has(queue'[Resp(p, x)], "InfoBlock", h)
                   \/ Has(queue'[Resp(p, x)], "OutOfRange", 0)
      <4>1. queue[Resp(n, m)] \in Seq(Message)
        BY <1>1, <3>1 DEF Queues
      <4>2. \A T, i : msg.type = T /\ msg.block = i => Has(queue'[Resp(n, m)], T, i)
        BY <1>3, <1>5, <4>1, HasAppend
      <4> QED BY <1>3, <3>1, <4>2
    <3> QED BY <1>2, <2>1, <2>3, <3>2, <3>3, <3>4 DEF SyncPending
  <2> QED BY <2>2, <2>3
<1>9. Pipes'
  <2> SUFFICES ASSUME NEW x \in Node, Follows(x)'
               PROVE  PipeOf(x, syncPeer[x])'
    BY <1>2 DEF Pipes
  <2> DEFINE p == syncPeer[x]
  <2>1. p \in Node /\ Linked(x, p) /\ x # p
    BY <1>2, LinkedDiffer DEF Follows, Linked, IInv
  <2>2. CASE Resp(n, m) # Resp(p, x) \/ msg.type = "InfoBlock"
    <3>1. WellEnded(queue'[Resp(p, x)]) => WellEnded(queue[Resp(p, x)])
      BY <1>3, <1>5, <1>6, <1>7, <2>1, <2>2, EndAside DEF IInv
    <3>2. PipeOf(x, p)
      BY <1>2, <2>1, <3>1 DEF Follows, Free, Sound, aside, IInv, Pipes
    <3>3. CASE Resp(n, m) # Resp(p, x)
      <4>1. Resp(n, m) # Resp(x, p) \/ msg.type # "GetBlock"
        BY <1>3
      <4>2. Resp(n, m) # Snd(p, x)
        BY ChannelParts
      <4> QED BY <1>2, <1>5, <1>6, <1>7, <2>1, <3>2, <3>3, <4>1, <4>2, PipeAside DEF IInv
    <3>4. CASE Resp(n, m) = Resp(p, x)
      <4>1. x = m /\ p = n
        BY <3>4, ChannelParts
      <4>2. /\ Resp(p, x) \in Channel /\ Resp(x, p) \in Channel /\ Snd(p, x) \in Channel
            /\ Resp(x, p) # Resp(n, m) /\ Snd(p, x) # Resp(n, m)
            /\ c # Resp(x, p) /\ c # Snd(p, x)
        BY <1>1, <2>1, <4>1, ChannelParts
      <4> DEFINE still == p = Miner /\ unannounced
                 R == queue[Resp(p, x)]
                 G == queue[Resp(x, p)]
                 S == queue[Snd(p, x)]
                 h == height[x]
      <4>3. /\ Pipe(R, G, S, h, height[p], still)
            /\ R \in Seq(Message) /\ G \in Seq(Message) /\ S \in Seq(Message)
            /\ h \in Nat /\ height[p] \in Nat /\ still \in BOOLEAN
        BY <1>1, <2>1, <3>2, <4>2, QueueTypes DEF PipeOf, Queues, IInv
      <4>4. /\ queue'[Resp(p, x)] = Append(R, msg)
            /\ queue'[Resp(x, p)] \in Seq(Message) /\ queue'[Snd(p, x)] \in Seq(Message)
            /\ Calm("GetBlock", G, queue'[Resp(x, p)])
            /\ Calm("InvBlock", S, queue'[Snd(p, x)])
        BY <1>5, <1>6, <4>1, <4>2 DEF Moved, Queues
      <4>5. msg.type = "InfoBlock" => msg.block <= h + 1
        BY <1>1, <1>3, <4>1
      <4> HIDE DEF R, G, S, h, still
      <4>6. Pipe(Append(R, msg), G, S, h, height[p], still)
        <5>1. ~(msg.type = "InfoBlock" /\ msg.block > h + 1)
          BY <1>3, <4>3, <4>5 DEF Message
        <5> QED BY <1>3, <4>3, <5>1, GrowBlocks
      <4>7. Append(R, msg) \in Seq(Message)
        BY <1>3, <4>3, AppendParts
      <4>8. Pipe(Append(R, msg), queue'[Resp(x, p)], queue'[Snd(p, x)], h, height[p], still)
        <5> DEFINE A == Append(R, msg)
                   G2 == queue'[Resp(x, p)]
                   S2 == queue'[Snd(p, x)]
        <5>1. /\ A \in Seq(Message) /\ G2 \in Seq(Message) /\ S2 \in Seq(Message)
              /\ Calm("GetBlock", G, G2) /\ Calm("InvBlock", S, S2)
              /\ Pipe(A, G, S, h, height[p], still)
          BY <4>4, <4>6, <4>7
        <5> DEFINE H == height[p]
        <5>2. /\ G \in Seq(Message) /\ S \in Seq(Message)
              /\ h \in Nat /\ H \in Nat /\ still \in BOOLEAN /\ Pipe(A, G, S, h, H, still)
          BY <4>3, <5>1
        <5> HIDE DEF A, G2, S2, H
        <5>3. Pipe(A, G2, S2, h, H, still)
          BY <5>1, <5>2, CalmRest
        <5> QED BY <5>3 DEF A, G2, S2, H
      <4> QED BY <1>2, <4>4, <4>8 DEF PipeOf, h, still
    <3> QED BY <3>3, <3>4
  <2>3. CASE Resp(n, m) = Resp(p, x) /\ msg.type = "OutOfRange"
    <3>1. x = m /\ p = n
      BY <2>3, ChannelParts
    <3>2. /\ Resp(p, x) \in Channel /\ Resp(x, p) \in Channel /\ Snd(p, x) \in Channel
      BY <2>1, ChannelParts
    <3>3. /\ height[x] \in Nat /\ height[p] \in Nat
          /\ queue'[Resp(p, x)] \in Seq(Message) /\ queue'[Resp(x, p)] \in Seq(Message)
          /\ queue'[Snd(p, x)] \in Seq(Message)
      BY <1>5, <2>1, <3>2, QueueTypes DEF IInv, Moved, Queues
    <3>4. height[p] <= height[x]
      BY <1>1, <1>3, <2>3, <3>1, <3>3
    <3>5. \A y \in Message :
            /\ Holds(queue'[Resp(p, x)], y) /\ y.type = "InfoBlock" => y.block <= height[p]
            /\ Holds(queue'[Resp(x, p)], y) /\ y.type = "GetBlock" => y.block <= height[p]
            /\ Holds(queue'[Snd(p, x)], y) /\ y.type = "InvBlock" => y.block <= height[p]
      <4>1. \A d \in Channel, y \in Message :
              Holds(queue'[d], y) =>
                /\ y.type = "InvBlock" => y.block <= height[d[1]]
                /\ y.type = "GetBlock" => y.block <= height[d[2]]
                /\ y.type = "InfoBlock" => y.block <= height[d[1]]
        BY <1>2, <1>7 DEF Messages, GoodMsg
      <4>2. /\ Resp(p, x)[1] = p /\ Resp(x, p)[2] = p /\ Snd(p, x)[1] = p
        BY ChannelParts
      <4> QED BY <3>2, <4>1, <4>2
    <3> DEFINE still == p = Miner /\ unannounced
    <3>6. still \in BOOLEAN
      OBVIOUS
    <3> HIDE DEF still
    <3>7. Pipe(queue'[Resp(p, x)], queue'[Resp(x, p)], queue'[Snd(p, x)],
               height[x], height[p], still)
      BY <3>3, <3>4, <3>5, <3>6, StartPipe
    <3> QED BY <1>2, <3>7 DEF PipeOf, still
  <2> QED BY <1>3, <2>2, <2>3
<1> QED BY <1>7, <1>8, <1>9 DEF IInv

-----------------------------------------------------------------------------
(* A block joins a node's chain *)

\* Its peer's sync has ended too.
LEMMA FollowsSynced ==
  ASSUME TypeOK, Messages, Nodes, Links, NEW x \in Node, Follows(x)
  PROVE  syncPeer[x] \in Node /\ x # syncPeer[x] /\ phase[syncPeer[x]] = "synced"
<1> DEFINE p == syncPeer[x]
<1>1. p \in Node /\ Linked(x, p) /\ x # p
  BY LinkedDiffer DEF Follows
<1>2. CASE phase[x] = "synced" /\ caughtUp[x]
  BY <1>1, <1>2 DEF Nodes
<1>3. CASE phase[x] = "syncing" /\ WellEnded(queue[Resp(p, x)])
  <2>1. PICK m \in Message : Holds(queue[Resp(p, x)], m) /\ m.type = "OutOfRange" /\ m.wellSynced
    BY <1>3 DEF WellEnded
  <2>2. Resp(p, x) \in Channel /\ Resp(p, x)[1] = p
    BY <1>1, ChannelParts
  <2>3. GoodMsg(Resp(p, x), m)
    BY <2>1, <2>2 DEF Messages
  <2> QED BY <1>1, <2>1, <2>2, <2>3 DEF GoodMsg
<1> QED BY <1>1, <1>2, <1>3 DEF Follows

\* The next block of n's chain leaves channel c.
Joins(n, c, N) ==
  /\ c = Resp(c[1], n)
  /\ n \in Node /\ c[1] \in Node /\ n # c[1]
  /\ queue[c] # <<>> /\ queue[c] \in Seq(Message)
  /\ Head(queue[c]).type = "InfoBlock"
  /\ Head(queue[c]).block = height[n] + 1
  /\ phase[n] \in {"syncing", "synced"}
  /\ height[n] + 1 <= height[c[1]]
  /\ queue'[c] = Tail(queue[c])
  /\ Moved(c, "InfoBlock", N)
  /\ \A d, m : <<d, m>> \in N => /\ \E y \in Node : d = Snd(n, y)
                                 /\ m.type \in {"InvBlock", "SyncBlock"}
  /\ Sound(height[n] + 1)
  /\ height' = [height EXCEPT ![n] = @ + 1]
  /\ UNCHANGED <<phase, held, outbound, syncPeer, caughtUp, fresh, unannounced, links, aside>>

\* Heights rise, past no block that is refused.
LEMMA FreeBefore ==
  ASSUME NEW x \in Node, NEW p \in Node, Free(x, p)', UNCHANGED <<rejected, thrown>>,
         height[x] \in Nat, height[p] \in Nat, height'[p] \in Nat, height[p] <= height'[p],
         height'[x] = height[x] \/ Sound(height[x] + 1) \/ height[p] <= height[x]
  PROVE  Free(x, p)
<1>1. CASE height'[x] = height[x]
  <2> SUFFICES ASSUME height[p] > height[x]
               PROVE  Sound(height[x] + 1)
    BY DEF Free
  <2>1. height'[p] > height'[x]
    BY <1>1
  <2>2. Sound(height[x] + 1)'
    BY <2>1 DEF Free
  <2> QED BY <1>1, <2>2 DEF Sound
<1>2. CASE Sound(height[x] + 1) \/ height[p] <= height[x]
  BY <1>2 DEF Free
<1> QED BY <1>1, <1>2

LEMMA JoinedTypes ==
  ASSUME IInv, NEW c \in Channel, NEW n, NEW N, Joins(n, c, N)
  PROVE  TypeOK' /\ Nodes' /\ Links' /\ Rises /\ n # Miner
<1>1. n \in Node /\ c[1] \in Node /\ Miner \in Node
  BY GossipAssumption DEF Joins
<1>2. \A y \in Node : height[y] \in Nat /\ height[y] <= height[Miner] /\ height[y] <= MaxHeight
  BY GossipAssumption DEF IInv, TypeOK, Nodes
<1>3. height[n] + 1 <= height[Miner] /\ height[n] # height[Miner]
  BY <1>1, <1>2 DEF Joins
<1>4. /\ height'[n] = height[n] + 1 /\ height'[n] \in 0 .. MaxHeight
      /\ \A y \in Node : y # n => height'[y] = height[y]
      /\ n # Miner
  BY <1>1, <1>2, <1>3, GossipAssumption DEF Joins, IInv, TypeOK
<1>5. TypeOK'
  <2>1. height' \in [Node -> 0 .. MaxHeight]
    BY <1>1, <1>4 DEF Joins, IInv, TypeOK
  <2> QED BY <2>1 DEF Joins, IInv, TypeOK, Moved, Queues, aside
<1>6. Rises
  BY <1>2, <1>4 DEF Rises, Joins
<1>7. Nodes'
  <2>1. \A y \in Node : height'[y] <= height'[Miner]
    BY <1>1, <1>2, <1>3, <1>4
  <2>2. phase[n] \notin {"off", "starting"} => Nodes'
    BY <1>4, <2>1 DEF Joins, IInv, Nodes
  <2> QED BY <2>2 DEF Joins
<1>8. Links'
  BY DEF Joins, IInv, Links
<1> QED BY <1>4, <1>5, <1>6, <1>7, <1>8

LEMMA JoinedFree ==
  ASSUME IInv, NEW c \in Channel, NEW n, NEW N, Joins(n, c, N),
         NEW x \in Node, syncPeer[x] \in Node, Free(x, syncPeer[x])'
  PROVE  Free(x, syncPeer[x])
<1>1. PICK p \in Node : p = syncPeer[x] /\ p = syncPeer'[x]
  BY DEF Joins
<1>2. UNCHANGED <<rejected, thrown>> /\ Sound(height[n] + 1) /\ n \in Node
  BY DEF Joins, aside
<1>3. \A y \in Node : height[y] \in Nat /\ height'[y] \in Nat /\ height[y] <= height'[y]
  BY JoinedTypes, GossipAssumption DEF TypeOK, Rises, IInv
<1>4. \A y \in Node : y # n => height'[y] = height[y]
  BY DEF Joins, IInv, TypeOK
<1>5. height'[x] = height[x] \/ Sound(height[x] + 1)
  BY <1>2, <1>4
<1>6. Free(x, p)'
  BY <1>1 DEF Free
<1>7. Free(x, p)
  BY <1>1, <1>2, <1>3, <1>5, <1>6, FreeBefore
<1> QED BY <1>1, <1>7

LEMMA JoinedSyncs ==
  ASSUME IInv, NEW c \in Channel, NEW n, NEW N, Joins(n, c, N),
         NEW x \in Node, x # n, phase[x] = "syncing", Linked(x, syncPeer[x]),
         Free(x, syncPeer[x])'
  PROVE  SyncPending(x, syncPeer[x])'
<1> DEFINE p == syncPeer[x]
<1>1. Free(x, p)
  BY JoinedFree DEF IInv, Nodes
<1>2. p \in Node /\ x # p /\ SyncPending(x, p)
  BY <1>1, SyncingParts
<1>3. c # Resp(p, x) /\ c # Snd(x, p)
  BY ChannelParts DEF Joins
<1>4. height'[x] = height[x] /\ Moved(c, "InfoBlock", N) /\ syncPeer' = syncPeer
  BY DEF Joins, IInv, TypeOK
<1> QED BY <1>2, <1>3, <1>4, SyncAside

LEMMA JoinedPipes ==
  ASSUME IInv, NEW c \in Channel, NEW n, NEW N, Joins(n, c, N),
         NEW x \in Node, Follows(x)', syncPeer[x] # n
  PROVE  PipeOf(x, syncPeer[x])'
<1> DEFINE p == syncPeer[x]
<1>1. p \in Node /\ Linked(x, p) /\ x # p
  BY LinkedDiffer DEF Follows, Linked, IInv, Joins
<1>2. TypeOK'
  BY JoinedTypes
<1>3. Moved(c, "InfoBlock", N)
  BY DEF Joins
<1>4. \A m : <<Resp(p, x), m>> \notin N /\ <<Resp(x, p), m>> \notin N /\ <<Snd(p, x), m>> \notin N
  BY ChannelParts DEF Joins
<1>5. PipeOf(x, p)
  <2>1. WellEnded(queue'[Resp(p, x)]) => WellEnded(queue[Resp(p, x)])
    BY <1>1, <1>2, <1>3, <1>4, EndAside DEF IInv
  <2>2. Free(x, p)
    BY <1>1, JoinedFree DEF Follows, Joins
  <2> QED BY <1>1, <2>1, <2>2 DEF Follows, IInv, Pipes, Joins
<1>6. height'[p] = height[p] /\ unannounced' = unannounced /\ syncPeer' = syncPeer
  BY <1>1 DEF Joins, IInv, TypeOK
<1>7. c # Snd(p, x)
  BY ChannelParts DEF Joins
<1>8. CASE x # n
  <2>1. height'[x] = height[x] /\ c # Resp(p, x)
    BY <1>8, ChannelParts DEF Joins, IInv, TypeOK
  <2> QED BY <1>1, <1>2, <1>3, <1>4, <1>5, <1>6, <1>7, <2>1, PipeAside DEF IInv
<1>9. CASE x = n
  <2>1. height'[x] = height[x] + 1
    BY <1>9 DEF Joins, IInv, TypeOK
  <2>2. /\ Resp(p, x) \in Channel /\ Resp(x, p) \in Channel /\ Snd(p, x) \in Channel
        /\ c # Resp(x, p)
    BY <1>1, <1>9, ChannelParts DEF Joins
  <2> DEFINE still == p = Miner /\ unannounced
             R == queue[Resp(p, x)]
             G == queue[Resp(x, p)]
             S == queue[Snd(p, x)]
             R2 == queue'[Resp(p, x)]
             G2 == queue'[Resp(x, p)]
             S2 == queue'[Snd(p, x)]
             h == height[x]
             H == height[p]
  <2>3. /\ Pipe(R, G, S, h, H, still)
        /\ R \in Seq(Message) /\ G \in Seq(Message) /\ S \in Seq(Message)
        /\ R2 \in Seq(Message) /\ G2 \in Seq(Message) /\ S2 \in Seq(Message)
        /\ h \in Nat /\ H \in Nat
    BY <1>1, <1>3, <1>5, <2>2, QueueTypes DEF PipeOf, Queues, IInv, Moved
  <2>4. /\ Calm("GetBlock", G, G2) /\ Calm("InvBlock", S, S2)
        /\ c # Resp(p, x) => Calm("InfoBlock", R, R2)
    BY <1>3, <1>4, <2>2 DEF Moved
  <2>5. c = Resp(p, x) => R2 = Tail(R) /\ R # <<>> /\ Head(R).type = "InfoBlock"
                          /\ Head(R).block = h + 1
    BY <1>9 DEF Joins
  <2> HIDE DEF R, G, S, R2, G2, S2, h, H, still
  <2>6. Pipe(R2, G2, S2, h + 1, H, still)
    <3> DEFINE h2 == h + 1
    <3>1. h2 \in Nat /\ h <= h2 /\ h2 = h + 1
      BY <2>3
    <3> HIDE DEF h2
    <3>2. CASE c = Resp(p, x)
      <4>1. Pipe(R2, G, S, h2, H, still)
        <5>1. R # <<>> /\ R2 = Tail(R)
          BY <2>5, <3>2
        <5>2. Pipe(Tail(R), G, S, h2, H, still)
          BY <2>3, <3>1, <5>1, ShrinkBlocks
        <5> QED BY <5>1, <5>2
      <4> QED BY <2>3, <2>4, <3>1, <4>1, CalmRest
    <3>3. CASE c # Resp(p, x)
      <4>1. Pipe(R2, G2, S2, h, H, still)
        BY <2>3, <2>4, <3>3, CalmPipe
      <4> QED BY <2>3, <3>1, <4>1, RisePipe
    <3> QED BY <3>2, <3>3
  <2> QED BY <1>6, <2>1, <2>6 DEF PipeOf, R2, G2, S2, h, H, still
<1> QED BY <1>8, <1>9

LEMMA AddBlockSyncStep ==
  ASSUME IInv, NEW c \in Channel, NEW n, n = c[2], AddBlockSync(n, c)
  PROVE  IInv'
<1>1. /\ queue \in Queues /\ queue[c] # <<>> /\ Head(queue[c]).type = "InfoBlock"
      /\ n \in Node /\ c[1] \in Node /\ n # c[1] /\ c = Resp(c[1], n)
      /\ Head(queue[c]).block <= height[c[1]] /\ queue[c] \in Seq(Message)
  <2>1. Receives(n, c, "InfoBlock")
    BY DEF AddBlockSync
  <2>2. /\ queue \in Queues /\ queue[c] # <<>> /\ Head(queue[c]).type = "InfoBlock"
        /\ n \in Node /\ c[1] \in Node /\ n # c[1] /\ queue[c] \in Seq(Message)
        /\ GoodMsg(c, Head(queue[c])) /\ (c[3] = "response" => c = Resp(c[1], n))
    BY ZenonT(40), <2>1, TakesGood
  <2> QED BY <2>2 DEF GoodMsg
<1>2. PICK s \in Node : s = syncPeer[n] /\ s # n /\ height[n] \in Nat
  <2>1. syncPeer[n] \in Node /\ syncPeer[n] # None
    BY <1>1, GossipAssumption DEF AddBlockSync, IInv, Nodes
  <2>2. syncPeer[n] \in outbound[n] /\ syncPeer[n] # n
    BY <1>1, <2>1 DEF IInv, Nodes
  <2> QED BY <1>1, <2>1, <2>2, QueueTypes DEF IInv
<1>3. PICK msg \in Message : /\ msg = BlockMsg("SyncBlock", height[n] + 2)
                             /\ msg.type = "SyncBlock" /\ msg.block = height[n] + 2
  BY <1>2, MessageForms
<1> DEFINE N == {<<Snd(n, s), msg>>}
<1>4. queue' = SendTo(Taken(c), n, s, msg)
  BY <1>2, <1>3 DEF AddBlockSync
<1>5. /\ Moved(c, "InfoBlock", N) /\ queue'[c] = Tail(queue[c])
      /\ Linked(n, s) => queue'[Snd(n, s)] = Append(queue[Snd(n, s)], msg)
  <2>1. /\ Head(queue[c]).type = "InfoBlock" /\ n = c[2] /\ s # n
        /\ queue \in Queues /\ queue[c] # <<>>
        /\ c \in Channel /\ s \in Node /\ msg \in Message
    BY <1>1, <1>2
  <2>2. /\ Moved(c, "InfoBlock", {<<Snd(n, s), msg>>}) /\ queue'[c] = Tail(queue[c])
        /\ Linked(n, s) => queue'[Snd(n, s)] = Append(queue[Snd(n, s)], msg)
    BY ONLY ZenonT(40), <1>4, <2>1, MovedSent
  <2> QED BY <2>2
<1>6. \A d, m : <<d, m>> \in N => d = Snd(n, s) /\ m = msg
  OBVIOUS
<1> HIDE DEF N
<1>7. Joins(n, c, N)
  BY <1>1, <1>2, <1>3, <1>5, <1>6 DEF Joins, AddBlockSync, Attaches
<1>8. TypeOK' /\ Nodes' /\ Links' /\ Rises /\ n # Miner
  BY <1>7, JoinedTypes
<1>9. height'[n] = height[n] + 1 /\ UNCHANGED <<phase, syncPeer, links>>
  BY <1>1 DEF AddBlockSync, IInv, TypeOK
<1>10. Messages'
  <2>1. GoodMsg(Snd(n, s), msg)'
    BY <1>2, <1>3, <1>9, ChannelParts DEF GoodMsg
  <2>2. \A d \in Channel, m \in Message :
          Holds(queue'[d], m) => Holds(queue[d], m) \/ GoodMsg(d, m)'
    BY <1>5, <1>6, <2>1 DEF Moved
  <2> QED BY <1>8, <2>2, MessagesStay DEF IInv
<1>11. Syncs'
  <2> SUFFICES ASSUME NEW x \in Node, phase[x] = "syncing", Linked(x, syncPeer[x]),
                      Free(x, syncPeer[x])'
               PROVE  SyncPending(x, syncPeer[x])'
    BY <1>9 DEF Syncs, Linked
  <2>1. CASE x = n
    <3>1. Snd(n, s) \in Channel
      BY <1>1, <1>2, ChannelParts
    <3>2. queue[Snd(n, s)] \in Seq(Message)
      BY <1>1, <3>1 DEF Queues
    <3>3. Has(queue'[Snd(n, s)], "SyncBlock", height'[n] + 1)
      <4>1. queue'[Snd(n, s)] = Append(queue[Snd(n, s)], msg)
        BY <1>2, <1>5, <2>1
      <4>2. msg.block = height'[n] + 1
        BY <1>2, <1>3, <1>9
      <4> QED BY <1>3, <3>2, <4>1, <4>2, HasAppend
    <3> QED BY <1>2, <1>9, <2>1, <3>3 DEF SyncPending
  <2>2. CASE x # n
    BY <1>7, <2>2, JoinedSyncs
  <2> QED BY <2>1, <2>2
<1>12. Pipes'
  <2> SUFFICES ASSUME NEW x \in Node, Follows(x)'
               PROVE  PipeOf(x, syncPeer[x])'
    BY <1>9 DEF Pipes
  <2> DEFINE p == syncPeer[x]
  <2>1. p \in Node /\ Linked(x, p) /\ x # p
    BY <1>9, LinkedDiffer DEF Follows, Linked, IInv
  <2>2. WellEnded(queue'[Resp(p, x)]) => WellEnded(queue[Resp(p, x)])
    BY <1>3, <1>5, <1>6, <1>8, <2>1, EndAside DEF IInv
  <2>3. Follows(x)
    <3>1. Free(x, p)
      BY <1>7, <1>9, <2>1, JoinedFree DEF Follows
    <3> QED BY <1>9, <2>1, <2>2, <3>1 DEF Follows, AddBlockSync
  <2>4. phase[p] = "synced"
    BY <2>3, FollowsSynced DEF IInv
  <2>5. syncPeer[x] # n
    BY <2>4 DEF AddBlockSync
  <2> QED BY <1>7, <2>5, JoinedPipes
<1> QED BY <1>8, <1>10, <1>11, <1>12 DEF IInv

LEMMA AddBlockStep ==
  ASSUME IInv, NEW c \in Channel, NEW n, n = c[2], AddBlock(n, c)
  PROVE  IInv'
<1>1. /\ queue \in Queues /\ queue[c] # <<>> /\ Head(queue[c]).type = "InfoBlock"
      /\ n \in Node /\ c[1] \in Node /\ n # c[1] /\ c = Resp(c[1], n)
      /\ Head(queue[c]).block <= height[c[1]] /\ queue[c] \in Seq(Message)
  <2>1. Receives(n, c, "InfoBlock")
    BY DEF AddBlock
  <2>2. /\ queue \in Queues /\ queue[c] # <<>> /\ Head(queue[c]).type = "InfoBlock"
        /\ n \in Node /\ c[1] \in Node /\ n # c[1] /\ queue[c] \in Seq(Message)
        /\ GoodMsg(c, Head(queue[c])) /\ (c[3] = "response" => c = Resp(c[1], n))
    BY ZenonT(40), <2>1, TakesGood
  <2> QED BY <2>2 DEF GoodMsg
<1>2. height[n] \in Nat
  BY <1>1, QueueTypes DEF IInv
<1>3. PICK msg \in Message : /\ msg = BlockMsg("InvBlock", height[n] + 1)
                             /\ msg.type = "InvBlock" /\ msg.block = height[n] + 1
  BY <1>2, MessageForms
<1> DEFINE N == {<<Snd(n, y), msg>> : y \in Node}
<1>4. queue' = Broadcast(Taken(c), n, <<msg>>)
  BY <1>3 DEF AddBlock
<1>5. /\ Moved(c, "InfoBlock", N) /\ queue'[c] = Tail(queue[c])
      /\ \A y \in Node : y # n /\ Linked(n, y) =>
           queue'[Snd(n, y)] = Append(queue[Snd(n, y)], msg)
  <2>1. /\ Head(queue[c]).type = "InfoBlock" /\ n = c[2]
        /\ queue \in Queues /\ queue[c] # <<>>
        /\ c \in Channel /\ msg \in Message
    BY <1>1
  <2>2. \A y \in Node : <<Snd(n, y), msg>> \in N
    OBVIOUS
  <2> HIDE DEF N
  <2> QED BY ONLY ZenonT(40), <1>4, <2>1, <2>2, MovedBroadcast
<1>6. \A d, m : <<d, m>> \in N => m = msg /\ \E y \in Node : d = Snd(n, y)
  OBVIOUS
<1> HIDE DEF N
<1>7. Joins(n, c, N)
  BY <1>1, <1>3, <1>5, <1>6 DEF Joins, AddBlock, Attaches
<1>8. TypeOK' /\ Nodes' /\ Links' /\ Rises /\ n # Miner
  BY <1>7, JoinedTypes
<1>9. /\ height'[n] = height[n] + 1 /\ \A y \in Node : y # n => height'[y] = height[y]
      /\ UNCHANGED <<phase, syncPeer, caughtUp, links, unannounced>>
  BY <1>1 DEF AddBlock, IInv, TypeOK
<1>10. Messages'
  <2>1. \A y \in Node : GoodMsg(Snd(n, y), msg)'
    BY <1>2, <1>3, <1>9, ChannelParts DEF GoodMsg
  <2>2. \A d \in Channel, m \in Message :
          Holds(queue'[d], m) => Holds(queue[d], m) \/ GoodMsg(d, m)'
    <3> SUFFICES ASSUME NEW d \in Channel, NEW m \in Message, <<d, m>> \in N
                 PROVE  GoodMsg(d, m)'
      BY <1>5 DEF Moved
    <3>1. PICK y \in Node : d = Snd(n, y) /\ m = msg
      BY <1>6
    <3> QED BY <2>1, <3>1
  <2> QED BY <1>8, <2>2, MessagesStay DEF IInv
<1>11. Syncs'
  <2> SUFFICES ASSUME NEW x \in Node, phase[x] = "syncing", Linked(x, syncPeer[x]),
                      Free(x, syncPeer[x])'
               PROVE  SyncPending(x, syncPeer[x])'
    BY <1>9 DEF Syncs, Linked
  <2>1. x # n
    BY DEF AddBlock
  <2> QED BY <1>7, <2>1, JoinedSyncs
<1>12. Pipes'
  <2> SUFFICES ASSUME NEW x \in Node, Follows(x)'
               PROVE  PipeOf(x, syncPeer[x])'
    BY <1>9 DEF Pipes
  <2> DEFINE p == syncPeer[x]
  <2>1. CASE p # n
    BY <1>7, <2>1, JoinedPipes
  <2>2. CASE p = n
    <3>1. p \in Node /\ Linked(x, p) /\ x # p
      BY <1>9, LinkedDiffer DEF Follows, Linked, IInv
    <3>2. /\ Resp(p, x) \in Channel /\ Resp(x, p) \in Channel /\ Snd(p, x) \in Channel
          /\ c # Resp(p, x)
          /\ \A y : Snd(n, y) # Resp(p, x) /\ Snd(n, y) # Resp(x, p)
      BY <1>1, <2>2, <3>1, ChannelParts
    <3>3. \A m : <<Resp(p, x), m>> \notin N /\ <<Resp(x, p), m>> \notin N
      BY <1>6, <3>2
    <3>4. PipeOf(x, p)
      <4>1. WellEnded(queue'[Resp(p, x)]) => WellEnded(queue[Resp(p, x)])
        BY <1>5, <1>8, <3>1, <3>3, EndAside DEF IInv
      <4>2. Free(x, p)
        BY <1>7, <1>9, <3>1, JoinedFree DEF Follows
      <4> QED BY <1>9, <3>1, <4>1, <4>2 DEF Follows, IInv, Pipes
    <3>5. Linked(n, x)
      BY <2>2, <3>1 DEF Linked
    <3> DEFINE R == queue[Resp(p, x)]
               G == queue[Resp(x, p)]
               S == queue[Snd(p, x)]
               R2 == queue'[Resp(p, x)]
               G2 == queue'[Resp(x, p)]
               h == height[x]
               H == height[p]
    <3>6. /\ Pipe(R, G, S, h, H, FALSE)
          /\ R \in Seq(Message) /\ G \in Seq(Message) /\ S \in Seq(Message)
          /\ R2 \in Seq(Message) /\ G2 \in Seq(Message)
          /\ h \in Nat /\ H \in Nat
      <4>1. (p = Miner /\ unannounced) = FALSE
        BY <1>8, <2>2
      <4> QED BY <1>5, <3>1, <3>2, <3>4, <4>1, QueueTypes DEF PipeOf, Queues, IInv, Moved
    <3>7. /\ Calm("GetBlock", G, G2) /\ Calm("InfoBlock", R, R2)
          /\ queue'[Snd(p, x)] = Append(S, msg)
      BY <1>5, <2>2, <3>1, <3>2, <3>3, <3>5 DEF Moved
    <3>8. msg.block = H + 1 /\ height'[p] = H + 1 /\ height'[x] = h
      BY <1>3, <1>9, <2>2, <3>1
    <3> HIDE DEF R, G, S, R2, G2, h, H
    <3>9. Calm("InvBlock", S, S)
      BY <3>6, CalmSame
    <3>10. Pipe(R2, G2, S, h, H, FALSE)
      BY <3>6, <3>7, <3>9, CalmPipe
    <3> DEFINE H2 == H + 1
    <3>11. H2 \in Nat /\ msg.block = H2 /\ \A b \in h + 1 .. H2 - 1 : OnItsWay(R2, G2, S, b)
      BY <3>6, <3>8, <3>10 DEF Pipe, Covers
    <3> HIDE DEF H2
    <3>12. Pipe(R2, G2, Append(S, msg), h, H2, FALSE)
      BY <1>3, <3>6, <3>10, <3>11, GrowAnnounced DEF Pipe
    <3>13. (p = Miner /\ unannounced') = FALSE
      BY <1>8, <2>2
    <3> QED BY <1>9, <3>7, <3>8, <3>12, <3>13 DEF PipeOf, R2, G2, H2
  <2> QED BY <2>1, <2>2
<1> QED BY <1>8, <1>10, <1>11, <1>12 DEF IInv

LEMMA EndSyncStep ==
  ASSUME IInv, NEW c \in Channel, NEW n, n = c[2], EndSync(n, c)
  PROVE  IInv'
<1> DEFINE s == syncPeer[n]
           msg == ItemMsg("SyncTransactions", {})
           N == {<<Snd(n, s), msg>>}
           last == Head(queue[c])
<1>1. /\ queue \in Queues /\ queue[c] # <<>> /\ last.type = "OutOfRange"
      /\ last \in Message /\ Holds(queue[c], last)
      /\ n \in Node /\ n # c[1] /\ s = c[1] /\ s \in Node /\ c = Resp(s, n)
      /\ (last.wellSynced => phase[s] = "synced") /\ last.wellSynced \in BOOLEAN
  <2>1. Receives(n, c, "OutOfRange")
    BY DEF EndSync
  <2>2. /\ queue \in Queues /\ queue[c] # <<>> /\ last.type = "OutOfRange"
        /\ n \in Node /\ c[1] \in Node /\ n # c[1] /\ last \in Message
        /\ GoodMsg(c, last) /\ (c[3] = "response" => c = Resp(c[1], n))
    BY ZenonT(40), <2>1, TakesGood
  <2>3. Holds(queue[c], last)
    BY <2>2, TakenParts
  <2> QED BY <2>2, <2>3 DEF GoodMsg, Message
<1>2. msg \in Message /\ msg.type = "SyncTransactions"
  BY MessageForms
<1>3. queue' = SendTo(Taken(c), n, s, msg)
  BY DEF EndSync
<1> HIDE DEF msg
<1>4. Moved(c, "OutOfRange", N)
  BY <1>1, <1>2, <1>3, MovedSent
<1>5. \A d, m : <<d, m>> \in N => m = msg
  OBVIOUS
<1> HIDE DEF N
<1>6. /\ phase'[n] = "synced" /\ (\A y \in Node : y # n => phase'[y] = phase[y])
      /\ caughtUp'[n] = last.wellSynced /\ (\A y \in Node : y # n => caughtUp'[y] = caughtUp[y])
      /\ UNCHANGED <<height, held, outbound, syncPeer, fresh, unannounced, links,
                     rejected, thrown>>
      /\ phase[n] = "syncing"
  BY <1>1 DEF EndSync, IInv, TypeOK, aside
<1>7. TypeOK'
  BY <1>1, <1>4 DEF EndSync, IInv, TypeOK, Moved, Queues, aside
<1>8. Rises
  <2>1. \A y \in Node : height[y] \in Nat
    BY QueueTypes DEF IInv
  <2> QED BY <1>6, <2>1 DEF Rises
<1>9. Messages'
  <2>1. \A d \in Channel, m \in Message :
          Holds(queue'[d], m) => Holds(queue[d], m) \/ GoodMsg(d, m)'
    BY <1>2, <1>4, <1>5 DEF Moved, GoodMsg
  <2> QED BY <1>7, <1>8, <2>1, MessagesStay DEF IInv
<1>10. Nodes'
  <2>1. \A y \in Node : phase'[y] = "off" <=> phase[y] = "off"
    BY <1>6
  <2>2. \A y \in Node : caughtUp'[y] => /\ phase'[y] = "synced" /\ syncPeer[y] \in Node
                                        /\ phase'[syncPeer[y]] = "synced"
    BY <1>1, <1>6 DEF IInv, Nodes
  <2>3. \A y \in Node : phase'[y] \in {"off", "starting", "syncing"} => phase'[y] = phase[y]
    BY <1>6
  <2>4. unannounced => phase'[Miner] = "synced"
    BY <1>6, GossipAssumption DEF IInv, Nodes
  <2>5. \A y \in Node : outbound[y] \subseteq Node
    BY DEF IInv, TypeOK
  <2> QED BY <1>6, <2>1, <2>2, <2>3, <2>4, <2>5 DEF IInv, Nodes
<1>11. Links'
  BY <1>6 DEF IInv, Links, TypeOK
<1>12. Syncs'
  <2> SUFFICES ASSUME NEW x \in Node, phase'[x] = "syncing", Linked(x, syncPeer[x]),
                      Free(x, syncPeer[x])
               PROVE  SyncPending(x, syncPeer[x])'
    BY <1>6 DEF Syncs, Linked, Free, Sound
  <2>1. x # n /\ phase[x] = "syncing"
    BY <1>6
  <2>2. syncPeer[x] \in Node /\ x # syncPeer[x] /\ SyncPending(x, syncPeer[x])
    BY <2>1, SyncingParts
  <2>3. c # Resp(syncPeer[x], x)
    BY <1>1, <2>1, ChannelParts
  <2>4. c # Snd(x, syncPeer[x])
    BY <1>1, ChannelParts
  <2> QED BY <1>4, <1>6, <2>2, <2>3, <2>4, SyncAside
<1>13. Pipes'
  <2> SUFFICES ASSUME NEW x \in Node, Follows(x)'
               PROVE  PipeOf(x, syncPeer[x])'
    BY <1>6 DEF Pipes
  <2> DEFINE p == syncPeer[x]
  <2>1. p \in Node /\ Linked(x, p) /\ x # p
    BY <1>6, LinkedDiffer DEF Follows, Linked, IInv
  <2>2. Follows(x)
    <3>1. CASE x = n
      <4>1. last.wellSynced
        BY <1>6, <3>1 DEF Follows
      <4>2. WellEnded(queue[Resp(p, x)])
        BY <1>1, <3>1, <4>1 DEF WellEnded
      <4> QED BY <1>6, <2>1, <3>1, <4>2 DEF Follows, Free, Sound
    <3>2. CASE x # n
      <4>1. WellEnded(queue'[Resp(p, x)]) => WellEnded(queue[Resp(p, x)])
        BY <1>2, <1>4, <1>5, <1>7, <2>1, EndAside DEF IInv
      <4> QED BY <1>6, <2>1, <3>2, <4>1 DEF Follows, Free, Sound
    <3> QED BY <3>1, <3>2
  <2>3. PipeOf(x, p)
    BY <2>2 DEF IInv, Pipes
  <2> QED BY <1>2, <1>4, <1>5, <1>6, <1>7, <2>1, <2>3, PipeAside DEF IInv
<1> QED BY <1>7, <1>9, <1>10, <1>11, <1>12, <1>13 DEF IInv

-----------------------------------------------------------------------------
(* Nodes start and mine, connections close *)

\* Steps after which each queue of an open connection is as it was
LEMMA StillStep ==
  ASSUME IInv, TypeOK', Nodes', Links', Rises,
         UNCHANGED <<height, syncPeer, caughtUp, unannounced, rejected, thrown>>,
         \A d \in Channel, m \in Message : Holds(queue'[d], m) => Holds(queue[d], m),
         \A x, p \in Node : x # p /\ Linked(x, p)' /\ syncPeer[x] = p =>
           /\ Linked(x, p)
           /\ queue'[Resp(p, x)] = queue[Resp(p, x)]
           /\ queue'[Resp(x, p)] = queue[Resp(x, p)]
           /\ queue'[Snd(p, x)] = queue[Snd(p, x)]
           /\ queue'[Snd(x, p)] = queue[Snd(x, p)],
         \A x \in Node : phase'[x] = "syncing" => phase[x] = "syncing",
         \A x \in Node : caughtUp[x] => phase[x] = "synced"
  PROVE  IInv'
<1>1. Messages'
  BY MessagesStay DEF IInv
<1>2. Syncs'
  <2> SUFFICES ASSUME NEW x \in Node, phase'[x] = "syncing", Linked(x, syncPeer[x])',
                      Free(x, syncPeer[x])
               PROVE  SyncPending(x, syncPeer[x])'
    BY DEF Syncs, Free, Sound
  <2> DEFINE p == syncPeer[x]
  <2>1. p \in Node /\ x # p
    BY LinkedDiffer DEF Nodes, Links, Linked
  <2>2. Linked(x, p) /\ phase[x] = "syncing"
    BY <2>1
  <2>3. SyncPending(x, p)
    BY <2>2 DEF IInv, Syncs
  <2> QED BY <2>1, <2>3 DEF SyncPending
<1>3. Pipes'
  <2> SUFFICES ASSUME NEW x \in Node, Follows(x)'
               PROVE  PipeOf(x, syncPeer[x])'
    BY DEF Pipes
  <2> DEFINE p == syncPeer[x]
  <2>1. p \in Node /\ x # p /\ Linked(x, p)'
    BY DEF Follows, Links, Linked
  <2>2. Follows(x)
    BY <2>1 DEF Follows, Free, Sound
  <2>3. PipeOf(x, p)
    BY <2>2 DEF IInv, Pipes
  <2> QED BY <2>1, <2>3 DEF PipeOf
<1> QED BY <1>1, <1>2, <1>3 DEF IInv

LEMMA StartAloneStep ==
  ASSUME IInv, NEW n \in Node, StartAlone(n)
  PROVE  IInv'
<1>1. /\ phase[n] = "starting" /\ phase'[n] = "synced"
      /\ \A y \in Node : y # n => phase'[y] = phase[y]
      /\ UNCHANGED <<height, held, outbound, syncPeer, caughtUp, fresh, unannounced,
                     links, queue, rejected, thrown>>
  BY DEF StartAlone, IInv, TypeOK, aside
<1>2. TypeOK'
  BY DEF StartAlone, IInv, TypeOK, aside
<1>3. Nodes'
  <2>1. \A y \in Node : phase'[y] \in {"off", "starting", "syncing"} => phase'[y] = phase[y]
    BY <1>1
  <2>2. \A y \in Node : phase'[y] = "off" <=> phase[y] = "off"
    BY <1>1
  <2>3. \A y \in Node : phase[y] = "synced" => phase'[y] = "synced"
    BY <1>1
  <2>4. \A y \in Node : outbound[y] \subseteq Node
    BY DEF IInv, TypeOK
  <2> QED BY <1>1, <2>1, <2>2, <2>3, <2>4, GossipAssumption DEF IInv, Nodes
<1>4. Links'
  BY <1>1 DEF IInv, Links, TypeOK
<1>5. Rises
  BY <1>1, QueueTypes DEF Rises, IInv
<1>6. \A x \in Node : caughtUp[x] => phase[x] = "synced"
  BY DEF IInv, Nodes
<1> QED BY <1>1, <1>2, <1>3, <1>4, <1>5, <1>6, StillStep DEF Linked

LEMMA BootStep ==
  ASSUME IInv, NEW n \in Node, NEW peers \in SUBSET Node, Boot(n, peers)
  PROVE  IInv'
<1>1. /\ phase[n] = "off" /\ phase'[n] = "starting"
      /\ \A y \in Node : y # n => phase'[y] = phase[y]
      /\ UNCHANGED <<height, held, syncPeer, caughtUp, fresh, unannounced, queue,
                     rejected, thrown>>
      /\ outbound'[n] = peers /\ \A y \in Node : y # n => outbound'[y] = outbound[y]
      /\ \A p \in peers : p \in Node /\ p # n /\ phase[p] # "off"
      /\ links' = links \cup {<<n, p>> : p \in peers}
  BY DEF Boot, IInv, TypeOK, Running, aside
<1>2. TypeOK'
  BY DEF Boot, IInv, TypeOK, aside
<1>3. /\ syncPeer[n] = None /\ height[n] = 0 /\ ~caughtUp[n] /\ None \notin Node
  BY <1>1, GossipAssumption DEF IInv, Nodes
<1>4. Nodes'
  <2>1. \A y \in Node : /\ phase'[y] = "off" => phase[y] = "off"
                        /\ phase'[y] = "syncing" => phase[y] = "syncing"
                        /\ phase[y] = "synced" => phase'[y] = "synced"
                        /\ phase'[y] = "starting" => y = n \/ phase[y] = "starting"
    BY <1>1
  <2>2. \A y \in Node : outbound[y] \subseteq Node
    BY DEF IInv, TypeOK
  <2>3. \A y \in Node : \A p \in outbound'[y] : p # y /\ phase'[p] # "off"
    BY <1>1, <2>1, <2>2 DEF IInv, Nodes
  <2>4. \A y \in Node : syncPeer[y] # None => syncPeer[y] \in outbound'[y]
    BY <1>1, <1>3 DEF IInv, Nodes
  <2> QED BY <1>1, <1>3, <2>1, <2>3, <2>4, GossipAssumption DEF IInv, Nodes
<1>5. \A l \in links : l[1] # n /\ l[2] # n /\ l[1] \in Node /\ l[2] \in Node
  BY <1>1 DEF IInv, Links, TypeOK
<1>6. Links'
  <2> SUFFICES ASSUME NEW l \in links'
               PROVE  /\ l[1] # l[2] /\ <<l[2], l[1]>> \notin links'
                      /\ phase'[l[1]] # "off" /\ phase'[l[2]] # "off"
    BY DEF Links
  <2>1. CASE l \in links
    <3>1. /\ l[1] # l[2] /\ <<l[2], l[1]>> \notin links
          /\ phase[l[1]] # "off" /\ phase[l[2]] # "off"
      BY <2>1 DEF IInv, Links
    <3>2. <<l[2], l[1]>> \notin links'
      BY <1>1, <1>5, <2>1, <3>1
    <3> QED BY <1>1, <1>5, <2>1, <3>1, <3>2
  <2>2. CASE l \in {<<n, p>> : p \in peers}
    <3>1. PICK p \in peers : l = <<n, p>>
      BY <2>2
    <3>2. <<p, n>> \notin links'
      <4>1. <<p, n>> \notin links
        BY <1>5
      <4> QED BY <1>1, <4>1
    <3> QED BY <1>1, <3>1, <3>2
  <2> QED BY <1>1, <2>1, <2>2
<1>7. Rises
  BY <1>1, QueueTypes DEF Rises, IInv
<1>8. \A x, p \in Node : Linked(x, p)' /\ syncPeer[x] = p => Linked(x, p)
  <2> SUFFICES ASSUME NEW x \in Node, NEW p \in Node, Linked(x, p)', syncPeer[x] = p
               PROVE  Linked(x, p)
    OBVIOUS
  <2>1. x # n
    BY <1>3
  <2>2. p # n
    BY <1>1, <1>3 DEF IInv, Nodes
  <2> QED BY <1>1, <2>1, <2>2 DEF Linked
<1>9. \A x \in Node : caughtUp[x] => phase[x] = "synced"
  BY DEF IInv, Nodes
<1>10. \A x \in Node : phase'[x] = "syncing" => phase[x] = "syncing"
  BY <1>1
<1> QED BY <1>1, <1>2, <1>4, <1>6, <1>7, <1>8, <1>9, <1>10, StillStep

\* The queues of the connections that stand
LEMMA BreakKeeps ==
  ASSUME IInv, NEW l \in links, Break(l),
         NEW x \in Node, NEW p \in Node, x # p, Linked(x, p)'
  PROVE  /\ Linked(x, p)
         /\ queue'[Resp(p, x)] = queue[Resp(p, x)]
         /\ queue'[Resp(x, p)] = queue[Resp(x, p)]
         /\ queue'[Snd(p, x)] = queue[Snd(p, x)]
         /\ queue'[Snd(x, p)] = queue[Snd(x, p)]
<1>1. links' = links \ {l} /\ queue' = Closed(queue, {l}) /\ queue \in Queues
  BY QueueTypes DEF Break, IInv
<1>2. \A d \in Channel : <<d[1], d[2]>> # l /\ <<d[2], d[1]>> # l => queue'[d] = queue[d]
  BY <1>1, ClosedParts
<1>3. Linked(x, p)
  BY <1>1 DEF Linked
<1>4. <<x, p>> # l /\ <<p, x>> # l
  <2>1. \A k \in links : <<k[2], k[1]>> \notin links
    BY DEF IInv, Links
  <2>2. CASE <<x, p>> \in links'
    <3>1. <<x, p>> \in links /\ <<x, p>> # l
      BY <1>1, <2>2
    <3>2. <<p, x>> \notin links
      BY <2>1, <3>1
    <3> QED BY <3>1, <3>2
  <2>3. CASE <<p, x>> \in links'
    <3>1. <<p, x>> \in links /\ <<p, x>> # l
      BY <1>1, <2>3
    <3>2. <<x, p>> \notin links
      BY <2>1, <3>1
    <3> QED BY <3>1, <3>2
  <2> QED BY <2>2, <2>3 DEF Linked
<1> QED BY <1>2, <1>3, <1>4, ChannelParts

LEMMA BreakStep ==
  ASSUME IInv, NEW l \in links, Break(l)
  PROVE  IInv'
<1>1. /\ links' = links \ {l} /\ queue' = Closed(queue, {l}) /\ queue \in Queues
      /\ UNCHANGED <<phase, height, held, outbound, syncPeer, caughtUp, fresh, unannounced,
                     aside>>
  BY QueueTypes DEF Break, IInv
<1>2. /\ queue' \in Queues
      /\ \A d \in Channel : queue'[d] = <<>> \/ queue'[d] = queue[d]
      /\ \A d \in Channel : <<d[1], d[2]>> # l /\ <<d[2], d[1]>> # l => queue'[d] = queue[d]
  BY <1>1, ClosedParts
<1>3. TypeOK'
  BY <1>1, <1>2 DEF IInv, TypeOK, Queues, aside
<1>4. Nodes' /\ Links'
  BY <1>1 DEF IInv, Nodes, Links
<1>5. Rises
  BY <1>1, QueueTypes DEF Rises, IInv
<1>6. \A d \in Channel, m \in Message : Holds(queue'[d], m) => Holds(queue[d], m)
  <2>1. \A m : ~Holds(<<>>, m)
    BY DEF Holds
  <2> QED BY <1>2, <2>1
<1>7. ASSUME NEW x \in Node, NEW p \in Node, x # p, Linked(x, p)'
      PROVE  /\ Linked(x, p)
             /\ queue'[Resp(p, x)] = queue[Resp(p, x)]
             /\ queue'[Resp(x, p)] = queue[Resp(x, p)]
             /\ queue'[Snd(p, x)] = queue[Snd(p, x)]
             /\ queue'[Snd(x, p)] = queue[Snd(x, p)]
  BY <1>7, BreakKeeps
<1>8. \A x \in Node : caughtUp[x] => phase[x] = "synced"
  BY DEF IInv, Nodes
<1> QED BY <1>1, <1>3, <1>4, <1>5, <1>6, <1>7, <1>8, StillStep DEF aside

\* What becomes of the connection whose listener ends
LEMMA ThrowParts ==
  ASSUME IInv, NEW c \in Channel, NEW n, n = c[2], ThrowAtBlock(n, c)
  PROVE  /\ queue \in Queues /\ queue[c] # <<>> /\ Taken(c) \in Queues
         /\ <<c[1], n>> \notin links => links' = links /\ queue' = Taken(c)
         /\ <<c[1], n>> \in links =>
              links' = links \ {<<c[1], n>>} /\ queue' = Closed(Taken(c), {<<c[1], n>>})
         /\ deaf' \subseteq Node \X Node
         /\ UNCHANGED <<phase, height, held, outbound, syncPeer, caughtUp, fresh,
                        unannounced, rejected, thrown, stopped>>
<1>1. queue \in Queues /\ queue[c] # <<>>
  BY QueueTypes DEF ThrowAtBlock, Receives, IInv
<1>2. Taken(c) \in Queues
  BY <1>1, TakenParts
<1> DEFINE t == Taken(c)
           l == <<c[1], n>>
<1>3. /\ links' = links \ {l} /\ queue' = Closed(t, links \cap {l})
      /\ deaf' = deaf \cup ({<<n, c[1]>>} \cap links)
      /\ UNCHANGED <<phase, height, held, outbound, syncPeer, caughtUp, fresh,
                     unannounced, rejected, thrown, stopped>>
  BY DEF ThrowAtBlock
<1>4. deaf' \subseteq Node \X Node
  BY <1>3 DEF IInv, TypeOK
<1>5. t \in Queues
  BY <1>2
<1> HIDE DEF t, l
<1>6. Closed(t, {}) = t
  BY <1>5 DEF Closed, Queues
<1>7. CASE l \notin links
  <2>1. links \ {l} = links /\ links \cap {l} = {}
    BY <1>7
  <2> QED BY <1>1, <1>2, <1>3, <1>4, <1>6, <1>7, <2>1 DEF t, l
<1>8. CASE l \in links
  <2>1. links \cap {l} = {l}
    BY <1>8
  <2> QED BY <1>1, <1>2, <1>3, <1>4, <1>8, <2>1 DEF t, l
<1> QED BY <1>7, <1>8

LEMMA ThrowKeeps ==
  ASSUME IInv, NEW c \in Channel, NEW n, n = c[2], ThrowAtBlock(n, c), <<c[1], n>> \in links,
         NEW x \in Node, NEW p \in Node, x # p, Linked(x, p)'
  PROVE  /\ Linked(x, p)
         /\ queue'[Resp(p, x)] = queue[Resp(p, x)]
         /\ queue'[Resp(x, p)] = queue[Resp(x, p)]
         /\ queue'[Snd(p, x)] = queue[Snd(p, x)]
         /\ queue'[Snd(x, p)] = queue[Snd(x, p)]
<1> DEFINE t == Taken(c)
           l == <<c[1], n>>
<1>1. /\ queue \in Queues /\ queue[c] # <<>> /\ t \in Queues
      /\ links' = links \ {l} /\ queue' = Closed(t, {l})
  BY ThrowParts
<1>2. \A d \in Channel : d # c => t[d] = queue[d]
  BY <1>1, TakenParts
<1>3. l \in links /\ l = <<c[1], c[2]>> /\ <<l[2], l[1]>> \notin links
  BY DEF IInv, Links
<1> HIDE DEF t, l
<1>4. \A d \in Channel : <<d[1], d[2]>> # l /\ <<d[2], d[1]>> # l => queue'[d] = t[d]
  BY <1>1, ClosedParts
<1>5. Linked(x, p)
  BY <1>1 DEF Linked
<1>6. <<x, p>> # l /\ <<p, x>> # l
  <2>1. CASE <<x, p>> \in links'
    <3>1. <<x, p>> # l /\ <<x, p>> \in links
      BY <1>1, <2>1
    <3>2. <<p, x>> # l
      BY <1>3, <3>1
    <3> QED BY <3>1, <3>2
  <2>2. CASE <<p, x>> \in links'
    <3>1. <<p, x>> # l /\ <<p, x>> \in links
      BY <1>1, <2>2
    <3>2. <<x, p>> # l
      BY <1>3, <3>1
    <3> QED BY <3>1, <3>2
  <2> QED BY <2>1, <2>2 DEF Linked
<1>7. \A d \in Channel : (d[1] = x /\ d[2] = p) \/ (d[1] = p /\ d[2] = x)
                           => queue'[d] = queue[d]
  BY <1>2, <1>3, <1>4, <1>6
<1> QED BY <1>5, <1>7, ChannelParts

LEMMA ThrowAtBlockStep ==
  ASSUME IInv, NEW c \in Channel, NEW n, n = c[2], ThrowAtBlock(n, c)
  PROVE  IInv'
<1> DEFINE t == Taken(c)
           l == <<c[1], n>>
<1>1. CASE l \notin links
  <2>1. /\ Receives(n, c, "InfoBlock") /\ Attaches(n, c) /\ ~Sound(height[n] + 1)
    BY DEF ThrowAtBlock, Sound
  <2>2. /\ queue' = Taken(c) /\ deaf' \subseteq Node \X Node
        /\ UNCHANGED <<phase, height, held, outbound, syncPeer, caughtUp, fresh,
                       unannounced, links, rejected, thrown, stopped>>
    BY <1>1, ThrowParts
  <2> QED BY <2>1, <2>2, RefusedStep
<1>2. CASE l \in links
  <2>1. /\ queue \in Queues /\ queue[c] # <<>> /\ queue[c] \in Seq(Message) /\ t \in Queues
        /\ links' = links \ {l} /\ queue' = Closed(t, {l})
        /\ deaf' \subseteq Node \X Node
        /\ UNCHANGED <<phase, height, held, outbound, syncPeer, caughtUp, fresh,
                       unannounced, rejected, thrown, stopped>>
    BY <1>2, ThrowParts DEF Queues
  <2>2. t[c] = Tail(queue[c]) /\ \A d \in Channel : d # c => t[d] = queue[d]
    BY <2>1, TakenParts
  <2> HIDE DEF t
  <2>3. /\ queue' \in Queues
        /\ \A d \in Channel : queue'[d] = <<>> \/ queue'[d] = t[d]
    BY <2>1, ClosedParts
  <2>4. TypeOK'
    BY <2>1, <2>3 DEF IInv, TypeOK, Queues
  <2>5. Nodes' /\ Links'
    BY <2>1 DEF IInv, Nodes, Links
  <2>6. Rises
    BY <2>1, QueueTypes DEF Rises, IInv
  <2>7. \A d \in Channel, m \in Message : Holds(queue'[d], m) => Holds(queue[d], m)
    <3>1. \A m : ~Holds(<<>>, m)
      BY DEF Holds
    <3>2. \A m : Holds(t[c], m) => Holds(queue[c], m)
      BY <2>1, <2>2, HoldsTail
    <3> QED BY <2>2, <2>3, <3>1, <3>2
  <2>8. ASSUME NEW x \in Node, NEW p \in Node, x # p, Linked(x, p)'
        PROVE  /\ Linked(x, p)
               /\ queue'[Resp(p, x)] = queue[Resp(p, x)]
               /\ queue'[Resp(x, p)] = queue[Resp(x, p)]
               /\ queue'[Snd(p, x)] = queue[Snd(p, x)]
               /\ queue'[Snd(x, p)] = queue[Snd(x, p)]
    BY <1>2, <2>8, ThrowKeeps
  <2>9. \A x \in Node : caughtUp[x] => phase[x] = "synced"
    BY DEF IInv, Nodes
  <2> QED BY <2>1, <2>4, <2>5, <2>6, <2>7, <2>8, <2>9, StillStep
<1> QED BY <1>1, <1>2

LEMMA StopIOStep ==
  ASSUME IInv, NEW n \in Node, StopIO(n)
  PROVE  IInv'
<1>1. AllCalm(queue)
  BY CalmSame, QueueTypes DEF AllCalm, IInv
<1>2. TypeOK'
  BY DEF StopIO, IInv, TypeOK
<1> QED BY <1>1, <1>2, QuietStep DEF StopIO, AllCalm

\* The crash of a node leaves the connections of the others alone.
LEMMA TooEarlyKeeps ==
  ASSUME IInv, NEW c \in Channel, NEW n, n = c[2], AddBlockTooEarly(n, c),
         NEW x \in Node, NEW p \in Node, x # p, Linked(x, p)'
  PROVE  /\ Linked(x, p)
         /\ queue'[Resp(p, x)] = queue[Resp(p, x)]
         /\ queue'[Resp(x, p)] = queue[Resp(x, p)]
         /\ queue'[Snd(p, x)] = queue[Snd(p, x)]
         /\ queue'[Snd(x, p)] = queue[Snd(x, p)]
<1> DEFINE t == Taken(c)
           L == LinksOf(n)
<1>1. queue \in Queues /\ queue[c] # <<>>
  BY QueueTypes DEF AddBlockTooEarly, Receives, IInv
<1>2. links' = links \ L /\ queue' = Closed(t, L)
  BY DEF AddBlockTooEarly
<1>3. t \in Queues /\ \A d \in Channel : d # c => t[d] = queue[d]
  BY <1>1, TakenParts
<1>4. L \subseteq links /\ \A k \in links : k \in L <=> k[1] = n \/ k[2] = n
  BY DEF LinksOf
<1>5. \A k \in L : k[1] = n \/ k[2] = n
  BY <1>4
<1> HIDE DEF t, L
<1>6. \A d \in Channel : <<d[1], d[2]>> \notin L /\ <<d[2], d[1]>> \notin L
                           => queue'[d] = t[d]
  BY <1>2, <1>3, ClosedParts
<1>7. Linked(x, p) /\ x # n /\ p # n
  <2>1. CASE <<x, p>> \in links'
    BY <1>2, <1>4, <2>1 DEF Linked
  <2>2. CASE <<p, x>> \in links'
    BY <1>2, <1>4, <2>2 DEF Linked
  <2> QED BY <2>1, <2>2 DEF Linked
<1>8. <<x, p>> \notin L /\ <<p, x>> \notin L
  BY <1>5, <1>7
<1>9. \A d \in Channel : d[2] # n /\ {d[1], d[2]} = {x, p} => queue'[d] = queue[d]
  <2> SUFFICES ASSUME NEW d \in Channel, {d[1], d[2]} = {x, p}, d[2] # n
               PROVE  queue'[d] = queue[d]
    OBVIOUS
  <2>1. <<d[1], d[2]>> \notin L /\ <<d[2], d[1]>> \notin L
    BY <1>8
  <2>2. d # c
    OBVIOUS
  <2> QED BY <1>3, <1>6, <2>1, <2>2
<1> QED BY <1>7, <1>9, ChannelParts

LEMMA AddBlockTooEarlyStep ==
  ASSUME IInv, NEW c \in Channel, NEW n, n = c[2], AddBlockTooEarly(n, c)
  PROVE  IInv'
<1> DEFINE t == Taken(c)
           L == LinksOf(n)
<1>1. /\ n \in Node /\ queue \in Queues /\ queue[c] # <<>>
  BY QueueTypes, ChannelParts DEF AddBlockTooEarly, Receives, IInv
<1>2. /\ phase[n] = "starting" /\ phase'[n] = "crashed"
      /\ \A y \in Node : y # n => phase'[y] = phase[y]
      /\ UNCHANGED <<height, held, outbound, syncPeer, caughtUp, fresh, unannounced, aside>>
      /\ links' = links \ L /\ queue' = Closed(t, L)
  BY <1>1 DEF AddBlockTooEarly, IInv, TypeOK
<1>3. /\ t \in Queues /\ t[c] = Tail(queue[c])
      /\ \A d \in Channel : d # c => t[d] = queue[d]
      /\ queue[c] \in Seq(Message)
  BY <1>1, TakenParts DEF Queues
<1>4. L \subseteq links /\ \A k \in links : k \in L <=> k[1] = n \/ k[2] = n
  BY DEF LinksOf
<1>5. \A k \in L : k[1] = n \/ k[2] = n
  BY <1>4
<1> HIDE DEF t, L
<1>6. /\ queue' \in Queues
      /\ \A d \in Channel : queue'[d] = <<>> \/ queue'[d] = t[d]
      /\ \A d \in Channel : <<d[1], d[2]>> \notin L /\ <<d[2], d[1]>> \notin L
                              => queue'[d] = t[d]
  BY <1>2, <1>3, ClosedParts
<1>7. TypeOK'
  <2>1. phase' \in [Node -> {"off", "starting", "syncing", "synced", "crashed"}]
    BY <1>1 DEF AddBlockTooEarly, IInv, TypeOK
  <2> QED BY <1>2, <1>4, <1>6, <2>1 DEF IInv, TypeOK, Queues, aside
<1>8. Nodes'
  <2>1. \A y \in Node : /\ phase'[y] \in {"off", "starting", "syncing"} => phase'[y] = phase[y]
                        /\ phase'[y] = "off" <=> phase[y] = "off"
                        /\ phase[y] = "synced" => phase'[y] = "synced"
    BY <1>2
  <2>2. \A y \in Node : outbound[y] \subseteq Node
    BY DEF IInv, TypeOK
  <2> QED BY <1>2, <2>1, <2>2, GossipAssumption DEF IInv, Nodes
<1>9. Links'
  <2>1. \A y \in Node : phase'[y] = "off" <=> phase[y] = "off"
    BY <1>2
  <2>2. \A k \in links : k[1] \in Node /\ k[2] \in Node
    BY DEF IInv, TypeOK
  <2> QED BY <1>2, <2>1, <2>2 DEF IInv, Links
<1>10. Rises
  BY <1>2, QueueTypes DEF Rises, IInv
<1>11. \A d \in Channel, m \in Message : Holds(queue'[d], m) => Holds(queue[d], m)
  <2>1. \A m : ~Holds(<<>>, m)
    BY DEF Holds
  <2>2. \A m : Holds(t[c], m) => Holds(queue[c], m)
    BY <1>1, <1>3, HoldsTail
  <2> QED BY <1>3, <1>6, <2>1, <2>2
<1>12. ASSUME NEW x \in Node, NEW p \in Node, x # p, Linked(x, p)'
       PROVE  /\ Linked(x, p)
              /\ queue'[Resp(p, x)] = queue[Resp(p, x)]
              /\ queue'[Resp(x, p)] = queue[Resp(x, p)]
              /\ queue'[Snd(p, x)] = queue[Snd(p, x)]
              /\ queue'[Snd(x, p)] = queue[Snd(x, p)]
  BY <1>12, TooEarlyKeeps
<1>13. \A x \in Node : caughtUp[x] => phase[x] = "synced"
  BY DEF IInv, Nodes
<1>14. \A x \in Node : phase'[x] = "syncing" => phase[x] = "syncing"
  BY <1>2
<1> QED BY <1>2, <1>7, <1>8, <1>9, <1>10, <1>11, <1>12, <1>13, <1>14, StillStep DEF aside

LEMMA StartSyncStep ==
  ASSUME IInv, NEW n \in Node, StartSync(n)
  PROVE  IInv'
<1>1. PICK s \in outbound[n] :
        /\ syncPeer' = [syncPeer EXCEPT ![n] = s]
        /\ queue' = SendTo(queue, n, s, BlockMsg("SyncBlock", 1))
  BY DEF StartSync
<1>2. s \in Node /\ s # n /\ queue \in Queues
  BY QueueTypes DEF IInv, TypeOK, Nodes
<1>3. /\ phase[n] = "starting" /\ phase'[n] = "syncing" /\ syncPeer'[n] = s
      /\ \A y \in Node : y # n => phase'[y] = phase[y] /\ syncPeer'[y] = syncPeer[y]
      /\ UNCHANGED <<height, held, outbound, caughtUp, fresh, unannounced, links,
                     rejected, thrown>>
  BY <1>1, <1>2 DEF StartSync, IInv, TypeOK, aside
<1>4. syncPeer[n] = None /\ height[n] = 0 /\ ~caughtUp[n] /\ None \notin Node
  BY <1>3, GossipAssumption DEF IInv, Nodes
<1>5. PICK msg \in Message : /\ msg = BlockMsg("SyncBlock", 1)
                             /\ msg.type = "SyncBlock" /\ msg.block = 1
  BY MessageForms
<1>6. /\ queue' \in Queues
      /\ \A d \in Channel : d # Snd(n, s) => queue'[d] = queue[d]
      /\ Linked(n, s) => queue'[Snd(n, s)] = Append(queue[Snd(n, s)], msg)
      /\ ~Linked(n, s) => queue' = queue
  BY <1>1, <1>2, <1>5, SendToParts
<1>7. \A d \in Channel : queue[d] \in Seq(Message)
  BY <1>2 DEF Queues
<1>8. TypeOK'
  BY <1>2, <1>6 DEF StartSync, IInv, TypeOK, Queues, aside
<1>9. Rises
  BY <1>3, <1>4, QueueTypes DEF Rises, IInv
<1>10. Messages'
  <2>1. GoodMsg(Snd(n, s), msg)'
    BY <1>3, <1>4, <1>5, ChannelParts DEF GoodMsg
  <2>2. \A d \in Channel, m \in Message :
          Holds(queue'[d], m) => Holds(queue[d], m) \/ (d = Snd(n, s) /\ m = msg)
    <3> SUFFICES ASSUME NEW d \in Channel, NEW m \in Message, Holds(queue'[d], m)
                 PROVE  Holds(queue[d], m) \/ (d = Snd(n, s) /\ m = msg)
      OBVIOUS
    <3>1. CASE queue'[d] = queue[d]
      BY <3>1
    <3>2. CASE d = Snd(n, s) /\ queue'[d] = Append(queue[d], msg)
      <4>1. queue[d] \in Seq(Message) /\ Holds(Append(queue[d], msg), m)
        BY <1>7, <3>2
      <4>2. Holds(queue[d], m) \/ m = msg
        BY <4>1, HoldsAppend
      <4> QED BY <3>2, <4>2
    <3> QED BY <1>6, <3>1, <3>2
  <2>3. \A d \in Channel, m \in Message :
          Holds(queue'[d], m) => Holds(queue[d], m) \/ GoodMsg(d, m)'
    BY <2>1, <2>2
  <2> QED BY <1>8, <1>9, <2>3, MessagesStay DEF IInv
<1>11. Nodes'
  <2>1. \A y \in Node : /\ phase'[y] = "off" <=> phase[y] = "off"
                        /\ phase[y] = "synced" <=> phase'[y] = "synced"
    BY <1>3
  <2>2. \A y \in Node : outbound[y] \subseteq Node
    BY DEF IInv, TypeOK
  <2> QED BY <1>1, <1>2, <1>3, <1>4, <2>1, <2>2, GossipAssumption DEF IInv, Nodes
<1>12. Links'
  <2>1. \A y \in Node : phase'[y] = "off" <=> phase[y] = "off"
    BY <1>3
  <2> QED BY <1>3, <2>1 DEF IInv, Links, TypeOK
<1>13. \A d \in Channel : \A U, b : Has(queue[d], U, b) => Has(queue'[d], U, b)
  <2> SUFFICES ASSUME NEW d \in Channel, NEW U, NEW b, Has(queue[d], U, b)
               PROVE  Has(queue'[d], U, b)
    OBVIOUS
  <2>1. CASE queue'[d] = queue[d]
    BY <2>1
  <2>2. CASE queue'[d] = Append(queue[d], msg)
    BY <1>5, <1>7, <2>2, HasStays
  <2> QED BY <1>2, <1>6, <2>1, <2>2, ChannelParts
<1>14. Syncs'
  <2> SUFFICES ASSUME NEW x \in Node, phase'[x] = "syncing", Linked(x, syncPeer'[x]),
                      Free(x, syncPeer'[x])
               PROVE  SyncPending(x, syncPeer[x])'
    BY <1>3 DEF Syncs, Linked, Free, Sound
  <2>1. CASE x = n
    <3>1. queue[Snd(n, s)] \in Seq(Message)
      BY <1>2, <1>7, ChannelParts
    <3>2. queue'[Snd(n, s)] = Append(queue[Snd(n, s)], msg)
      BY <1>3, <1>6, <2>1
    <3>3. Has(queue'[Snd(n, s)], "SyncBlock", 1)
      BY <1>5, <3>1, <3>2, HasAppend
    <3>4. height'[n] + 1 = 1 /\ syncPeer'[n] = s
      BY <1>3, <1>4
    <3> QED BY <2>1, <3>3, <3>4 DEF SyncPending
  <2>2. CASE x # n
    <3> DEFINE p == syncPeer[x]
    <3>1. p \in Node /\ x # p /\ SyncPending(x, p)
      BY <1>3, <2>2, SyncingParts
    <3>2. Snd(x, p) \in Channel /\ Resp(p, x) \in Channel
      BY <3>1, ChannelParts
    <3> QED BY <1>3, <1>13, <2>2, <3>1, <3>2 DEF SyncPending
  <2> QED BY <2>1, <2>2
<1>15. Pipes'
  <2> SUFFICES ASSUME NEW x \in Node, Follows(x)'
               PROVE  PipeOf(x, syncPeer[x])'
    BY DEF Pipes
  <2>1. x # n
    <3> SUFFICES ASSUME x = n
                 PROVE  FALSE
      OBVIOUS
    <3>1. WellEnded(queue'[Resp(s, n)])
      BY <1>3 DEF Follows
    <3>2. Resp(s, n) \in Channel /\ Resp(s, n) # Snd(n, s) /\ Resp(s, n)[1] = s /\ Resp(s, n)[2] = n
      BY <1>2, ChannelParts
    <3>3. PICK m \in Message : Holds(queue[Resp(s, n)], m) /\ m.type = "OutOfRange"
      BY <1>6, <3>1, <3>2 DEF WellEnded
    <3>4. syncPeer[n] = s
      BY <3>2, <3>3 DEF IInv, Messages, GoodMsg
    <3> QED BY <1>2, <1>4, <3>4
  <2> DEFINE p == syncPeer[x]
  <2>2. syncPeer'[x] = p /\ phase'[x] = phase[x]
    BY <1>3, <2>1
  <2>3. p \in Node /\ Linked(x, p) /\ x # p
    BY <1>3, <2>2, LinkedDiffer DEF Follows, Linked, IInv
  <2>4. /\ Resp(p, x) \in Channel /\ Resp(x, p) \in Channel /\ Snd(p, x) \in Channel
        /\ Resp(p, x) # Snd(n, s) /\ Resp(x, p) # Snd(n, s)
    BY <2>3, ChannelParts
  <2>5. Follows(x)
    BY <1>3, <1>6, <2>2, <2>3, <2>4 DEF Follows, Free, Sound
  <2> DEFINE still == p = Miner /\ unannounced
             R == queue[Resp(p, x)]
             G == queue[Resp(x, p)]
             S == queue[Snd(p, x)]
             S2 == queue'[Snd(p, x)]
             h == height[x]
             H == height[p]
  <2>6. /\ Pipe(R, G, S, h, H, still)
        /\ R \in Seq(Message) /\ G \in Seq(Message) /\ S \in Seq(Message)
        /\ S2 \in Seq(Message) /\ h \in Nat /\ H \in Nat
    BY <1>6, <1>7, <2>3, <2>4, <2>5, QueueTypes DEF PipeOf, Queues, IInv, Pipes
  <2>7. queue'[Resp(p, x)] = R /\ queue'[Resp(x, p)] = G
    BY <1>6, <2>4
  <2>8. S2 = S \/ S2 = Append(S, msg)
    BY <1>6, <2>4
  <2> HIDE DEF R, G, S, S2, h, H, still
  <2>9. Calm("InvBlock", S, S2) /\ Calm("GetBlock", G, G)
    BY <1>5, <2>6, <2>8, CalmSame, CalmAppend
  <2>10. Pipe(R, G, S2, h, H, still)
    BY <2>6, <2>9, CalmRest
  <2> QED BY <1>3, <2>2, <2>7, <2>10 DEF PipeOf, S2, h, H, still
<1> QED BY <1>8, <1>10, <1>11, <1>12, <1>14, <1>15 DEF IInv

LEMMA MineStep ==
  ASSUME IInv, Mine
  PROVE  IInv'
<1>1. /\ Miner \in Node /\ height'[Miner] = height[Miner] + 1 /\ height[Miner] < MaxHeight
      /\ \A y \in Node : y # Miner => height'[y] = height[y]
      /\ \A y \in Node : height[y] \in Nat
      /\ phase[Miner] = "synced" /\ ~unannounced /\ unannounced'
      /\ UNCHANGED <<phase, held, outbound, syncPeer, caughtUp, fresh, links, queue,
                     rejected, thrown>>
  BY QueueTypes, GossipAssumption DEF Mine, IInv, TypeOK, aside
<1>2. TypeOK'
  <2>1. height[Miner] + 1 \in 0 .. MaxHeight
    BY <1>1, GossipAssumption
  <2> QED BY <1>1, <2>1 DEF Mine, IInv, TypeOK, aside
<1>3. Rises
  BY <1>1 DEF Rises
<1>4. Nodes'
  <2>1. \A y \in Node : height'[y] <= height'[Miner]
    BY <1>1 DEF IInv, Nodes
  <2>2. \A y \in Node : phase[y] \in {"off", "starting"} => height'[y] = height[y]
    BY <1>1
  <2> QED BY <1>1, <2>1, <2>2 DEF IInv, Nodes
<1>5. Links'
  BY <1>1 DEF IInv, Links
<1>6. Messages'
  BY <1>1, <1>2, <1>3, MessagesStay DEF IInv
<1>7. ASSUME NEW x \in Node, syncPeer[x] \in Node, Free(x, syncPeer[x])'
      PROVE  Free(x, syncPeer[x])
  <2>1. PICK p \in Node : p = syncPeer[x] /\ p = syncPeer'[x]
    BY <1>1, <1>7
  <2>2. Free(x, p)'
    BY <1>7, <2>1 DEF Free
  <2>3. \A y \in Node : height'[y] \in Nat /\ height[y] <= height'[y]
    BY <1>1
  <2>4. height[p] <= height[Miner]
    BY DEF IInv, Nodes
  <2>5. height'[x] = height[x] \/ height[p] <= height[x]
    BY <1>1, <2>4
  <2>6. Free(x, p)
    BY <1>1, <1>7, <2>2, <2>3, <2>5, FreeBefore
  <2> QED BY <2>1, <2>6
<1>8. Syncs'
  <2> SUFFICES ASSUME NEW x \in Node, phase[x] = "syncing", Linked(x, syncPeer[x]),
                      Free(x, syncPeer[x])'
               PROVE  SyncPending(x, syncPeer[x])'
    BY <1>1 DEF Syncs, Linked
  <2>1. x # Miner /\ syncPeer[x] \in Node
    BY <1>1 DEF IInv, Nodes
  <2>2. Free(x, syncPeer[x])
    BY <2>1, <1>7
  <2> QED BY <1>1, <2>1, <2>2, SyncingParts DEF SyncPending
<1>9. Pipes'
  <2> SUFFICES ASSUME NEW x \in Node, Follows(x)'
               PROVE  PipeOf(x, syncPeer[x])'
    BY <1>1 DEF Pipes
  <2> DEFINE p == syncPeer[x]
  <2>1. p \in Node /\ Linked(x, p) /\ x # p /\ Follows(x)
    <3>1. syncPeer[x] \in Node /\ Free(x, syncPeer[x])
      BY <1>1, <1>7 DEF Follows
    <3> QED BY <1>1, <3>1, LinkedDiffer DEF Follows, Linked, IInv
  <2> DEFINE R == queue[Resp(p, x)]
             G == queue[Resp(x, p)]
             S == queue[Snd(p, x)]
             h == height[x]
             H == height[p]
  <2>2. /\ Pipe(R, G, S, h, H, FALSE)
        /\ R \in Seq(Message) /\ G \in Seq(Message) /\ S \in Seq(Message)
        /\ h \in Nat /\ H \in Nat
    <3>1. (p = Miner /\ unannounced) = FALSE
      BY <1>1
    <3> QED BY <2>1, <3>1, QueueTypes DEF PipeOf, IInv, Pipes
  <2>3. CASE p = Miner
    <3>1. height'[p] = H + 1 /\ height'[x] = h /\ (p = Miner /\ unannounced') = TRUE
      BY <1>1, <2>1, <2>3
    <3> HIDE DEF R, G, S, h, H
    <3>2. Pipe(R, G, S, h, H + 1, TRUE)
      BY <2>2 DEF Pipe, Covers
    <3> QED BY <1>1, <3>1, <3>2 DEF PipeOf, R, G, S
  <2>4. CASE p # Miner
    <3> DEFINE h2 == height'[x]
    <3>1. height'[p] = H /\ h2 \in Nat /\ h <= h2 /\ (p = Miner /\ unannounced') = FALSE
      BY <1>1, <2>1, <2>4
    <3> HIDE DEF R, G, S, h, H, h2
    <3>2. Pipe(R, G, S, h2, H, FALSE)
      BY <2>2, <3>1, RisePipe
    <3> QED BY <1>1, <3>1, <3>2 DEF PipeOf, R, G, S, h2
  <2> QED BY <2>3, <2>4
<1> QED BY <1>2, <1>4, <1>5, <1>6, <1>8, <1>9 DEF IInv

LEMMA AnnounceStep ==
  ASSUME IInv, Announce
  PROVE  IInv'
<1>1. /\ Miner \in Node /\ unannounced /\ ~unannounced'
      /\ \A y \in Node : height[y] \in Nat
      /\ UNCHANGED <<phase, height, held, outbound, syncPeer, caughtUp, fresh, links, aside>>
  BY QueueTypes, GossipAssumption DEF Announce, IInv
<1>2. PICK msg \in Message : /\ msg = BlockMsg("InvBlock", height[Miner])
                             /\ msg.type = "InvBlock" /\ msg.block = height[Miner]
  BY <1>1, MessageForms
<1> DEFINE e == <<msg>>
<1>3. /\ e \in Seq(Message) /\ \A q \in Seq(Message) : q \o e = Append(q, msg)
      /\ queue' = Broadcast(queue, Miner, e)
      /\ queue \in Queues /\ \A d \in Channel : queue[d] \in Seq(Message)
  BY <1>2, QueueTypes DEF Announce, IInv
<1> HIDE DEF e
<1>4. /\ queue' \in Queues
      /\ \A d \in Channel :
           \/ queue'[d] = queue[d]
           \/ queue'[d] = Append(queue[d], msg) /\ d[1] = Miner /\ d[3] = "send"
      /\ \A y \in Node : y # Miner /\ Linked(Miner, y) =>
           queue'[Snd(Miner, y)] = queue[Snd(Miner, y)] \o e
  <2>1. /\ Broadcast(queue, Miner, e) \in Queues
        /\ \A d \in Channel :
             \/ Broadcast(queue, Miner, e)[d] = queue[d] /\ ~(d[1] = Miner /\ d[3] = "send" /\ Linked(Miner, d[2]))
             \/ Broadcast(queue, Miner, e)[d] = queue[d] \o e /\ d[1] = Miner /\ d[3] = "send"
        /\ \A m \in Node : m # Miner /\ Linked(Miner, m) =>
             Broadcast(queue, Miner, e)[Snd(Miner, m)] = queue[Snd(Miner, m)] \o e
    BY <1>1, <1>3, BroadcastParts
  <2>2. \A d \in Channel : queue[d] \o e = Append(queue[d], msg)
    BY <1>3
  <2> QED BY <1>3, <2>1, <2>2
<1>5. TypeOK'
  <2>1. unannounced' = FALSE
    BY DEF Announce
  <2> QED BY <1>1, <1>4, <2>1 DEF IInv, TypeOK, Queues, aside
<1>6. Nodes' /\ Links'
  BY <1>1 DEF IInv, Nodes, Links
<1>7. Messages'
  <2> SUFFICES ASSUME NEW d \in Channel, NEW m \in Message, Holds(queue'[d], m)
               PROVE  GoodMsg(d, m)
    BY <1>1 DEF Messages, GoodMsg
  <2>1. CASE Holds(queue[d], m)
    BY <2>1 DEF IInv, Messages
  <2>2. CASE ~Holds(queue[d], m)
    <3>1. queue'[d] = Append(queue[d], msg) /\ d[1] = Miner /\ d[3] = "send"
      BY <1>4, <2>2
    <3>2. queue[d] \in Seq(Message) /\ Holds(Append(queue[d], msg), m)
      BY <1>3, <3>1
    <3>3. m = msg
      BY <2>2, <3>2, HoldsAppend
    <3> QED BY <1>1, <1>2, <3>1, <3>3 DEF GoodMsg
  <2> QED BY <2>1, <2>2
<1>8. Syncs'
  <2> SUFFICES ASSUME NEW x \in Node, phase[x] = "syncing", Linked(x, syncPeer[x]),
                      Free(x, syncPeer[x])
               PROVE  SyncPending(x, syncPeer[x])'
    BY <1>1 DEF Syncs, Linked, Free, Sound, aside
  <2> DEFINE p == syncPeer[x]
  <2>1. p \in Node /\ x # p /\ SyncPending(x, p)
    BY SyncingParts
  <2>2. Snd(x, p) \in Channel /\ Resp(p, x) \in Channel
    BY <2>1, ChannelParts
  <2>3. \A d \in Channel : \A U, b : Has(queue[d], U, b) => Has(queue'[d], U, b)
    <3> SUFFICES ASSUME NEW d \in Channel, NEW U, NEW b, Has(queue[d], U, b)
                 PROVE  Has(queue'[d], U, b)
      OBVIOUS
    <3>1. CASE queue'[d] = queue[d]
      BY <3>1
    <3>2. CASE queue'[d] = Append(queue[d], msg)
      BY <1>2, <1>3, <3>2, HasStays
    <3> QED BY <1>4, <3>1, <3>2
  <2> QED BY <1>1, <2>1, <2>2, <2>3 DEF SyncPending
<1>9. Pipes'
  <2> SUFFICES ASSUME NEW x \in Node, Follows(x)'
               PROVE  PipeOf(x, syncPeer[x])'
    BY <1>1 DEF Pipes
  <2> DEFINE p == syncPeer[x]
  <2>1. p \in Node /\ Linked(x, p) /\ x # p
    BY <1>1, LinkedDiffer DEF Follows, Linked, IInv
  <2>2. /\ Resp(p, x) \in Channel /\ Resp(x, p) \in Channel /\ Snd(p, x) \in Channel
        /\ Resp(p, x)[3] = "response" /\ Resp(x, p)[3] = "response" /\ Snd(p, x)[1] = p
    BY <2>1, ChannelParts
  <2>3. queue'[Resp(p, x)] = queue[Resp(p, x)] /\ queue'[Resp(x, p)] = queue[Resp(x, p)]
    BY <1>4, <2>2
  <2>4. PipeOf(x, p)
    BY <1>1, <2>1, <2>3 DEF Follows, Free, Sound, aside, IInv, Pipes
  <2>5. CASE p # Miner
    <3>1. queue'[Snd(p, x)] = queue[Snd(p, x)]
      BY <1>4, <2>2, <2>5
    <3>2. (p = Miner /\ unannounced') = (p = Miner /\ unannounced)
      BY <2>5
    <3> QED BY <1>1, <2>3, <2>4, <3>1, <3>2 DEF PipeOf
  <2>6. CASE p = Miner
    <3> DEFINE R == queue[Resp(p, x)]
               G == queue[Resp(x, p)]
               S == queue[Snd(p, x)]
               h == height[x]
               H == height[p]
    <3>1. /\ Pipe(R, G, S, h, H, TRUE)
          /\ R \in Seq(Message) /\ G \in Seq(Message) /\ S \in Seq(Message)
          /\ h \in Nat /\ H \in Nat /\ msg.block = H
      <4>1. (p = Miner /\ unannounced) = TRUE
        BY <1>1, <2>6
      <4> QED BY <1>1, <1>2, <1>3, <2>1, <2>2, <2>4, <2>6, <4>1 DEF PipeOf
    <3>2. queue'[Snd(p, x)] = Append(S, msg)
      <4>1. Linked(Miner, x)
        BY <2>1, <2>6 DEF Linked
      <4> QED BY <1>3, <1>4, <2>1, <2>2, <2>6, <4>1
    <3>3. (p = Miner /\ unannounced') = FALSE
      BY <1>1
    <3> HIDE DEF R, G, S, h, H
    <3>4. Ordered(R, G, S, h) /\ \A b \in h + 1 .. H - 1 : OnItsWay(R, G, S, b)
      BY <3>1 DEF Pipe, Covers
    <3>5. Pipe(R, G, Append(S, msg), h, H, FALSE)
      BY <1>2, <3>1, <3>4, GrowAnnounced
    <3> QED BY <1>1, <2>3, <3>2, <3>3, <3>5 DEF PipeOf, R, G, h, H
  <2> QED BY <2>5, <2>6
<1> QED BY <1>5, <1>6, <1>7, <1>8, <1>9 DEF IInv

-----------------------------------------------------------------------------
(* What becomes of items *)

\* A message of type T with item i is in channel d.
Carries(d, T, i) ==
  \E m \in Message : Holds(queue[d], m) /\ m.type = T /\ i \in m.items

OnWay(x, y, T, i) == Carries(Resp(x, y), T, i) \/ Carries(Snd(x, y), T, i)

\* y's announcement of i to x, x's request for it, or i itself is under way.
Offered(x, y, i) ==
  OnWay(y, x, "InvItem", i) \/ OnWay(x, y, "GetItem", i) \/ OnWay(y, x, "InfoItem", i)

\* x's request for the list of y's pool is under way, or the list.
Asking(x, y) ==
  \E m \in Message : Holds(queue[Snd(x, y)], m) /\ m.type = "SyncTransactions"

Listed(x, y, i) == Asking(x, y) \/ OnWay(y, x, "ListTransactions", i)

\* A node offers what it gets to those it has connected to: they had connected
\* before there was anything to offer.  Only the list has to make up for
\* what a node's sync peer got before.
ItemsInv ==
  /\ \A x \in Node : phase[x] = "off" => held[x] = {}
  /\ \A x, y \in Node, i \in Item :
       Linked(x, y) /\ Needs[i] = 0 /\ i \in held[y] \ held[x] =>
         /\ x \in outbound[y] => Offered(x, y, i)
         /\ phase[x] = "synced" /\ syncPeer[x] = y /\ i \in Transaction =>
              Offered(x, y, i) \/ Listed(x, y, i)

\* Of a message of channel d that the step takes: what it carries is handled.
Settles(d, m) ==
  /\ m.type = "InvItem" =>
       \A i \in m.items \ held'[d[2]] : OnWay(d[2], d[1], "GetItem", i)'
  /\ m.type = "GetItem" =>
       \A i \in m.items \cap held[d[2]] : OnWay(d[2], d[1], "InfoItem", i)'
  /\ m.type = "InfoItem" =>
       \A i \in m.items : Needs[i] = 0 => i \in held'[d[2]]
  /\ m.type = "ListTransactions" /\ Linked(d[2], d[1]) =>
       \A i \in m.items : OnWay(d[2], d[1], "GetItem", i)'
  /\ m.type = "SyncTransactions" =>
       \A i \in held[d[2]] \cap Transaction : OnWay(d[2], d[1], "ListTransactions", i)'

\* All channels of a connection that stands keep their messages but those of gone.
Keeps(x, y, gone) ==
  \A d \in {Resp(x, y), Snd(x, y)}, m \in Message :
    Holds(queue[d], m) => Holds(queue'[d], m) \/ <<d, m>> \in gone

LEMMA ChannelEnds ==
  \A x, y : \A d \in {Resp(x, y), Snd(x, y)} : d[1] = x /\ d[2] = y
BY DEF Resp, Snd

\* A step that handles what it takes, and announces what a node gets.
LEMMA ItemsStep ==
  ASSUME ItemsInv, NEW gone,
         \A x \in Node : held[x] \subseteq held'[x]
                         /\ (phase'[x] = "off" => phase[x] = "off" /\ held'[x] = held[x]),
         \A x, y \in Node : Linked(x, y)' =>
           /\ Linked(x, y) => Keeps(x, y, gone) /\ Keeps(y, x, gone)
           /\ \A i \in held'[y] \ (held[y] \cup held'[x]) : OnWay(y, x, "InvItem", i)'
           /\ x \in outbound'[y] =>
                \/ Linked(x, y) /\ x \in outbound[y]
                \/ held'[y] = {}
           /\ phase'[x] = "synced" /\ syncPeer'[x] = y =>
                \/ Linked(x, y) /\ phase[x] = "synced" /\ syncPeer[x] = y
                \/ Asking(x, y)',
         \A d \in Channel, m \in Message : <<d, m>> \in gone => Settles(d, m),
         \A d, m : <<d, m>> \in gone => d \in Channel
  PROVE  ItemsInv'
<1>1. \A x \in Node : phase'[x] = "off" => held'[x] = {}
      BY DEF ItemsInv
<1>2. ASSUME NEW x \in Node, NEW y \in Node, NEW i \in Item,
             Linked(x, y)', Needs[i] = 0, i \in held'[y], i \notin held'[x]
      PROVE  /\ x \in outbound'[y] => Offered(x, y, i)'
             /\ phase'[x] = "synced" /\ syncPeer'[x] = y /\ i \in Transaction =>
                  Offered(x, y, i)' \/ Listed(x, y, i)'
  <2>1. CASE i \notin held[y]
        BY <1>2, <2>1 DEF Offered
  <2>2. CASE i \in held[y]
    <3>1. i \notin held[x]
          BY <1>2
    <3>2. ASSUME Linked(x, y), Offered(x, y, i) PROVE Offered(x, y, i)'
      <4>0. Keeps(x, y, gone) /\ Keeps(y, x, gone)
            BY <1>2, <3>2
      <4>1. CASE OnWay(y, x, "InvItem", i)
        <5>1. ASSUME NEW d \in {Resp(y, x), Snd(y, x)}, NEW m \in Message,
                     <<d, m>> \in gone, m.type = "InvItem", i \in m.items
              PROVE  OnWay(x, y, "GetItem", i)'
              BY <1>2, <5>1, ChannelEnds DEF Settles
        <5>2. PICK d \in {Resp(y, x), Snd(y, x)}, m \in Message :
                Holds(queue[d], m) /\ m.type = "InvItem" /\ i \in m.items
              BY <4>1 DEF OnWay, Carries
        <5>3. Holds(queue'[d], m) \/ <<d, m>> \in gone
              BY <4>0, <5>2 DEF Keeps
        <5>4. CASE Holds(queue'[d], m)
          <6>1. OnWay(y, x, "InvItem", i)'
                BY <5>2, <5>4 DEF OnWay, Carries
          <6> QED BY <6>1 DEF Offered
        <5>5. CASE <<d, m>> \in gone
              BY <5>1, <5>2, <5>5 DEF Offered
        <5> QED BY <5>3, <5>4, <5>5
      <4>2. CASE OnWay(x, y, "GetItem", i)
        <5>1. ASSUME NEW d \in {Resp(x, y), Snd(x, y)}, NEW m \in Message,
                     <<d, m>> \in gone, m.type = "GetItem", i \in m.items
              PROVE  OnWay(y, x, "InfoItem", i)'
              BY <1>2, <2>2, <5>1, ChannelEnds DEF Settles
        <5>2. PICK d \in {Resp(x, y), Snd(x, y)}, m \in Message :
                Holds(queue[d], m) /\ m.type = "GetItem" /\ i \in m.items
              BY <4>2 DEF OnWay, Carries
        <5>3. Holds(queue'[d], m) \/ <<d, m>> \in gone
              BY <4>0, <5>2 DEF Keeps
        <5>4. CASE Holds(queue'[d], m)
          <6>1. OnWay(x, y, "GetItem", i)'
                BY <5>2, <5>4 DEF OnWay, Carries
          <6> QED BY <6>1 DEF Offered
        <5>5. CASE <<d, m>> \in gone
              BY <5>1, <5>2, <5>5 DEF Offered
        <5> QED BY <5>3, <5>4, <5>5
      <4>3. CASE OnWay(y, x, "InfoItem", i)
        <5>1. ASSUME NEW d \in {Resp(y, x), Snd(y, x)}, NEW m \in Message,
                     <<d, m>> \in gone, m.type = "InfoItem", i \in m.items
              PROVE  FALSE
              BY <1>2, <5>1, ChannelEnds DEF Settles
        <5>2. PICK d \in {Resp(y, x), Snd(y, x)}, m \in Message :
                Holds(queue[d], m) /\ m.type = "InfoItem" /\ i \in m.items
              BY <4>3 DEF OnWay, Carries
        <5>3. Holds(queue'[d], m) \/ <<d, m>> \in gone
              BY <4>0, <5>2 DEF Keeps
        <5>4. CASE Holds(queue'[d], m)
          <6>1. OnWay(y, x, "InfoItem", i)'
                BY <5>2, <5>4 DEF OnWay, Carries
          <6> QED BY <6>1 DEF Offered
        <5>5. CASE <<d, m>> \in gone
              BY <5>1, <5>2, <5>5
        <5> QED BY <5>3, <5>4, <5>5
      <4> QED BY <3>2, <4>1, <4>2, <4>3 DEF Offered
    <3>3. ASSUME Linked(x, y), Listed(x, y, i), i \in Transaction
          PROVE  Offered(x, y, i)' \/ Listed(x, y, i)'
      <4>0. Keeps(x, y, gone) /\ Keeps(y, x, gone)
            BY <1>2, <3>3
      <4>1. CASE Asking(x, y)
        <5>1. PICK m \in Message : Holds(queue[Snd(x, y)], m) /\ m.type = "SyncTransactions"
              BY <4>1 DEF Asking
        <5>2. CASE Holds(queue'[Snd(x, y)], m)
              BY <5>1, <5>2 DEF Asking, Listed
        <5>3. CASE <<Snd(x, y), m>> \in gone
              BY <2>2, <3>3, <5>1, <5>3, ChannelEnds DEF Settles, Listed
        <5> QED BY <4>0, <5>1, <5>2, <5>3 DEF Keeps
      <4>2. CASE OnWay(y, x, "ListTransactions", i)
        <5>1. ASSUME NEW d \in {Resp(y, x), Snd(y, x)}, NEW m \in Message,
                     <<d, m>> \in gone, m.type = "ListTransactions", i \in m.items
              PROVE  OnWay(x, y, "GetItem", i)'
              BY <3>3, <5>1, ChannelEnds DEF Settles
        <5>2. PICK d \in {Resp(y, x), Snd(y, x)}, m \in Message :
                Holds(queue[d], m) /\ m.type = "ListTransactions" /\ i \in m.items
              BY <4>2 DEF OnWay, Carries
        <5>3. Holds(queue'[d], m) \/ <<d, m>> \in gone
              BY <4>0, <5>2 DEF Keeps
        <5>4. CASE Holds(queue'[d], m)
          <6>1. OnWay(y, x, "ListTransactions", i)'
                BY <5>2, <5>4 DEF OnWay, Carries
          <6> QED BY <6>1 DEF Offered, Listed
        <5>5. CASE <<d, m>> \in gone
              BY <5>1, <5>2, <5>5 DEF Offered
        <5> QED BY <5>3, <5>4, <5>5
      <4> QED BY <3>3, <4>1, <4>2 DEF Listed
    <3>4. x \in outbound'[y] => Linked(x, y) /\ x \in outbound[y]
          BY <1>2
    <3>5. Linked(x, y) /\ x \in outbound[y] => Offered(x, y, i)
          BY <1>2, <2>2, <3>1 DEF ItemsInv
    <3>6. Linked(x, y) /\ phase[x] = "synced" /\ syncPeer[x] = y /\ i \in Transaction =>
            Offered(x, y, i) \/ Listed(x, y, i)
          BY <1>2, <2>2, <3>1 DEF ItemsInv
    <3>7. phase'[x] = "synced" /\ syncPeer'[x] = y =>
            \/ Linked(x, y) /\ phase[x] = "synced" /\ syncPeer[x] = y
            \/ Asking(x, y)'
          BY <1>2
    <3> QED BY <3>2, <3>3, <3>4, <3>5, <3>6, <3>7 DEF Listed
  <2> QED BY <2>1, <2>2
<1> QED BY <1>1, <1>2 DEF ItemsInv

\* No message of a queue is lost from q to r.
HoldsMore(q, r) ==
  \A d \in Channel, m \in Message : Holds(q[d], m) => Holds(r[d], m)

LEMMA ConcatHolds ==
  ASSUME NEW q \in Seq(Message), NEW e \in Seq(Message)
  PROVE  /\ \A x \in Message : Holds(q, x) => Holds(q \o e, x)
         /\ \A k \in DOMAIN e : Holds(q \o e, e[k])
<1> DEFINE r == q \o e
<1>1. /\ \A k \in DOMAIN q : k \in DOMAIN r /\ r[k] = q[k]
      /\ \A k \in DOMAIN e : k + Len(q) \in DOMAIN r /\ r[k + Len(q)] = e[k]
      BY ConcatParts
<1> HIDE DEF r
<1> QED BY <1>1 DEF Holds, r

LEMMA AppendHolds ==
  ASSUME NEW q \in Seq(Message), NEW m \in Message
  PROVE  /\ \A x \in Message : Holds(q, x) => Holds(Append(q, m), x)
         /\ Holds(Append(q, m), m)
BY AppendParts DEF Holds

LEMMA TailHolds ==
  ASSUME NEW q \in Seq(Message), q # <<>>, NEW x, Holds(q, x)
  PROVE  Holds(Tail(q), x) \/ x = Head(q)
<1>1. PICK k \in DOMAIN q : q[k] = x
      BY DEF Holds
<1>2. CASE k = 1
      BY <1>1, <1>2, TailParts
<1>3. CASE k # 1
  <2>1. k - 1 \in DOMAIN Tail(q) /\ Tail(q)[k - 1] = q[k]
        BY <1>3, TailParts
  <2> QED BY <1>1, <2>1 DEF Holds
<1> QED BY <1>2, <1>3

LEMMA TakenHolds ==
  ASSUME queue \in Queues, NEW c \in Channel, queue[c] # <<>>
  PROVE  \A d \in Channel, m \in Message :
           Holds(queue[d], m) => Holds(Taken(c)[d], m) \/ (d = c /\ m = Head(queue[c]))
<1>1. queue[c] \in Seq(Message)
      BY DEF Queues
<1>2. /\ Taken(c)[c] = Tail(queue[c])
      /\ \A d \in Channel : d # c => Taken(c)[d] = queue[d]
      BY TakenParts
<1>3. \A m \in Message : Holds(queue[c], m) => Holds(Tail(queue[c]), m) \/ m = Head(queue[c])
      BY <1>1, TailHolds
<1> QED BY <1>2, <1>3

LEMMA RespondHolds ==
  ASSUME NEW q \in Queues, NEW n \in Node, NEW m \in Node, n # m, NEW msg \in Message
  PROVE  /\ HoldsMore(q, Respond(q, n, m, msg))
         /\ Holds(Respond(q, n, m, msg)[Resp(n, m)], msg)
<1> DEFINE r == Respond(q, n, m, msg)
<1>1. /\ \A d \in Channel : d # Resp(n, m) => r[d] = q[d]
      /\ r[Resp(n, m)] = Append(q[Resp(n, m)], msg)
      BY RespondParts
<1>2. Resp(n, m) \in Channel /\ q[Resp(n, m)] \in Seq(Message)
      BY ChannelParts DEF Queues
<1> HIDE DEF r
<1>3. \A x \in Message : Holds(q[Resp(n, m)], x) => Holds(Append(q[Resp(n, m)], msg), x)
      BY <1>2, AppendHolds
<1>4. Holds(Append(q[Resp(n, m)], msg), msg)
      BY <1>2, AppendHolds
<1> QED BY <1>1, <1>2, <1>3, <1>4 DEF HoldsMore, r

LEMMA SendHolds ==
  ASSUME NEW q \in Queues, NEW n \in Node, NEW m \in Node, n # m, NEW msg \in Message
  PROVE  /\ HoldsMore(q, SendTo(q, n, m, msg))
         /\ Linked(n, m) => Holds(SendTo(q, n, m, msg)[Snd(n, m)], msg)
<1> DEFINE r == SendTo(q, n, m, msg)
<1>1. /\ \A d \in Channel : d # Snd(n, m) => r[d] = q[d]
      /\ Linked(n, m) => r[Snd(n, m)] = Append(q[Snd(n, m)], msg)
      /\ ~Linked(n, m) => r = q
      BY SendToParts
<1>2. Snd(n, m) \in Channel /\ q[Snd(n, m)] \in Seq(Message)
      BY ChannelParts DEF Queues
<1> HIDE DEF r
<1>3. \A x \in Message : Holds(q[Snd(n, m)], x) => Holds(Append(q[Snd(n, m)], msg), x)
      BY <1>2, AppendHolds
<1>4. Holds(Append(q[Snd(n, m)], msg), msg)
      BY <1>2, AppendHolds
<1> QED BY <1>1, <1>2, <1>3, <1>4 DEF HoldsMore, r

LEMMA BroadcastHolds ==
  ASSUME NEW q \in Queues, NEW n \in Node, NEW e \in Seq(Message)
  PROVE  /\ HoldsMore(q, Broadcast(q, n, e))
         /\ \A m \in Node, k \in DOMAIN e :
              m # n /\ Linked(n, m) => Holds(Broadcast(q, n, e)[Snd(n, m)], e[k])
<1> DEFINE r == Broadcast(q, n, e)
<1>1. /\ \A d \in Channel : r[d] = q[d] \/ r[d] = q[d] \o e
      /\ \A m \in Node : m # n /\ Linked(n, m) => r[Snd(n, m)] = q[Snd(n, m)] \o e
      BY BroadcastParts
<1>2. \A d \in Channel : q[d] \in Seq(Message)
      BY DEF Queues
<1> HIDE DEF r
<1>3. HoldsMore(q, r)
      BY <1>1, <1>2, ConcatHolds DEF HoldsMore
<1>4. ASSUME NEW m \in Node, NEW k \in DOMAIN e, m # n, Linked(n, m)
      PROVE  Holds(r[Snd(n, m)], e[k])
  <2>1. Snd(n, m) \in Channel
        BY <1>4, ChannelParts
  <2>2. Holds(q[Snd(n, m)] \o e, e[k])
        BY <1>2, <2>1, ConcatHolds
  <2> QED BY <1>1, <1>4, <2>2
<1> QED BY <1>3, <1>4 DEF r

LEMMA LinkedTurns ==
  \A x, y : Linked(x, y) <=> Linked(y, x)
BY DEF Linked

\* A handler of node n that takes a message out of channel c.
LEMMA HandlerItems ==
  ASSUME IInv, ItemsInv, NEW c \in Channel, NEW n, n = c[2], queue[c] # <<>>,
         HoldsMore(Taken(c), queue'),
         UNCHANGED <<outbound, syncPeer, links>>,
         \A y \in Node : held[y] \subseteq held'[y],
         \A y \in Node : y # n => held'[y] = held[y] /\ phase'[y] = phase[y],
         phase'[n] # "off",
         \A x \in Node : Linked(x, n) =>
           \A i \in held'[n] \ held[n] : OnWay(n, x, "InvItem", i)',
         phase'[n] = "synced" =>
           \/ phase[n] = "synced"
           \/ Linked(n, syncPeer[n]) => Asking(n, syncPeer[n])',
         Settles(c, Head(queue[c]))
  PROVE  ItemsInv'
<1>1. queue \in Queues /\ n \in Node
      BY QueueTypes, ChannelParts DEF IInv
<1>2. \A d \in Channel, m \in Message :
        Holds(queue[d], m) => Holds(queue'[d], m) \/ (d = c /\ m = Head(queue[c]))
      BY <1>1, TakenHolds DEF HoldsMore
<1> DEFINE gone == {<<c, Head(queue[c])>>}
<1>3. /\ \A d, m : <<d, m>> \in gone => d = c /\ m = Head(queue[c])
      /\ <<c, Head(queue[c])>> \in gone
      OBVIOUS
<1> HIDE DEF gone
<1>4. \A x, y \in Node : Linked(x, y) => Keeps(x, y, gone) /\ Keeps(y, x, gone)
  <2> SUFFICES ASSUME NEW x \in Node, NEW y \in Node, x # y
               PROVE  Keeps(x, y, gone)
      BY LinkedDiffer DEF IInv
  <2>1. Resp(x, y) \in Channel /\ Snd(x, y) \in Channel
        BY ChannelParts
  <2> QED BY <1>2, <1>3, <2>1 DEF Keeps
<1>5. \A x, y : Linked(x, y)' <=> Linked(x, y)
      BY DEF Linked
<1>6. \A x \in Node : held[x] \subseteq held'[x]
                      /\ (phase'[x] = "off" => phase[x] = "off" /\ held'[x] = held[x])
      BY <1>1
<1>7. ASSUME NEW x \in Node, NEW y \in Node, Linked(x, y)'
      PROVE  /\ Linked(x, y) => Keeps(x, y, gone) /\ Keeps(y, x, gone)
             /\ \A i \in held'[y] \ (held[y] \cup held'[x]) : OnWay(y, x, "InvItem", i)'
             /\ x \in outbound'[y] =>
                  \/ Linked(x, y) /\ x \in outbound[y]
                  \/ held'[y] = {}
             /\ phase'[x] = "synced" /\ syncPeer'[x] = y =>
                  \/ Linked(x, y) /\ phase[x] = "synced" /\ syncPeer[x] = y
                  \/ Asking(x, y)'
  <2>1. Linked(x, y)
        BY <1>5, <1>7
  <2>2. \A i \in held'[y] \ (held[y] \cup held'[x]) : OnWay(y, x, "InvItem", i)'
    <3>1. CASE y = n
          BY <2>1, <3>1
    <3>2. CASE y # n
          BY <3>2
    <3> QED BY <3>1, <3>2
  <2>3. phase'[x] = "synced" /\ syncPeer'[x] = y =>
          \/ Linked(x, y) /\ phase[x] = "synced" /\ syncPeer[x] = y
          \/ Asking(x, y)'
    <3>1. CASE x = n
          BY <2>1, <3>1
    <3>2. CASE x # n
          BY <2>1, <3>2
    <3> QED BY <3>1, <3>2
  <2> QED BY <1>4, <2>1, <2>2, <2>3
<1>8. \A d \in Channel, m \in Message : <<d, m>> \in gone => Settles(d, m)
      BY <1>3
<1>9. \A d, m : <<d, m>> \in gone => d \in Channel
      BY <1>3
<1> QED BY <1>6, <1>7, <1>8, <1>9, ItemsStep

\* A handler of a message about blocks.
LEMMA BlockHandlerItems ==
  ASSUME IInv, ItemsInv, NEW c \in Channel, NEW n, n = c[2],
         NEW T \in BlockTypes, Receives(n, c, T),
         HoldsMore(Taken(c), queue'),
         UNCHANGED <<phase, held, outbound, syncPeer, links>>
  PROVE  ItemsInv'
<1>1. queue[c] # <<>> /\ Head(queue[c]).type = T /\ phase[n] # "off"
      BY DEF Receives, Running
<1>2. Settles(c, Head(queue[c]))
      BY <1>1 DEF Settles, BlockTypes
<1> QED BY <1>1, <1>2, HandlerItems

\* What n does with the messages of channel c: it takes one, then sends others.
LEMMA SendsHold ==
  ASSUME IInv, NEW c \in Channel, NEW n, n = c[2], queue[c] # <<>>
  PROVE  /\ Taken(c) \in Queues /\ HoldsMore(Taken(c), Taken(c))
         /\ \A msg \in Message :
              /\ HoldsMore(Taken(c), Respond(Taken(c), n, c[1], msg))
              /\ Holds(Respond(Taken(c), n, c[1], msg)[Resp(n, c[1])], msg)
         /\ \A p \in Node, msg \in Message : p # n =>
              /\ HoldsMore(Taken(c), SendTo(Taken(c), n, p, msg))
              /\ Linked(n, p) => Holds(SendTo(Taken(c), n, p, msg)[Snd(n, p)], msg)
         /\ \A e \in Seq(Message) :
              /\ HoldsMore(Taken(c), Broadcast(Taken(c), n, e))
              /\ \A m \in Node, k \in DOMAIN e :
                   m # n /\ Linked(n, m) =>
                     Holds(Broadcast(Taken(c), n, e)[Snd(n, m)], e[k])
<1>1. queue \in Queues
      BY QueueTypes DEF IInv
<1>2. n \in Node /\ c[1] \in Node /\ n # c[1]
      BY ChannelParts
<1> DEFINE t == Taken(c)
<1>3. t \in Queues
      BY <1>1, TakenParts
<1> HIDE DEF t
<1>4. HoldsMore(t, t)
      BY DEF HoldsMore
<1>5. \A msg \in Message :
        /\ HoldsMore(t, Respond(t, n, c[1], msg))
        /\ Holds(Respond(t, n, c[1], msg)[Resp(n, c[1])], msg)
      BY <1>2, <1>3, RespondHolds
<1>6. \A p \in Node, msg \in Message : p # n =>
        /\ HoldsMore(t, SendTo(t, n, p, msg))
        /\ Linked(n, p) => Holds(SendTo(t, n, p, msg)[Snd(n, p)], msg)
      BY <1>2, <1>3, SendHolds
<1>7. \A e \in Seq(Message) :
        /\ HoldsMore(t, Broadcast(t, n, e))
        /\ \A m \in Node, k \in DOMAIN e :
             m # n /\ Linked(n, m) => Holds(Broadcast(t, n, e)[Snd(n, m)], e[k])
      BY <1>2, <1>3, BroadcastHolds
<1> QED BY <1>3, <1>4, <1>5, <1>6, <1>7 DEF t

\* A syncing node's sync peer is another node.
LEMMA SyncPeerParts ==
  ASSUME IInv, NEW n \in Node, phase[n] = "syncing"
  PROVE  syncPeer[n] \in Node /\ syncPeer[n] # n
<1>1. syncPeer[n] \in Node /\ syncPeer[n] # None
      BY GossipAssumption DEF IInv, Nodes
<1> QED BY <1>1 DEF IInv, Nodes

LEMMA BlockItems ==
  ASSUME IInv, ItemsInv, NEW c \in Channel, NEW n, n = c[2],
         \/ HandleInvBlock(n, c) \/ HandleGetBlock(n, c) \/ HandleSyncBlock(n, c)
         \/ DropBlock(n, c) \/ AddBlock(n, c) \/ AddBlockSync(n, c)
         \/ DropOutOfRange(n, c) \/ RejectBlock(n, c)
         \/ ThrowAtBlock(n, c) /\ <<c[1], n>> \notin links
  PROVE  ItemsInv'
<1>1. UNCHANGED <<phase, held, outbound, syncPeer, links>>
      BY ThrowParts DEF HandleInvBlock, HandleGetBlock, HandleSyncBlock, DropBlock, AddBlock,
             AddBlockSync, DropOutOfRange, RejectBlock
<1>2. PICK T \in BlockTypes : Receives(n, c, T)
      BY DEF HandleInvBlock, HandleGetBlock, HandleSyncBlock, DropBlock, AddBlock,
             AddBlockSync, DropOutOfRange, RejectBlock, ThrowAtBlock, BlockTypes
<1>3. queue[c] # <<>> /\ Head(queue[c]).block \in Nat /\ n \in Node /\ height[n] \in Nat
      BY <1>2, TakesGood, QueueTypes DEF IInv
<1> DEFINE t == Taken(c)
           b == Head(queue[c]).block
<1>4. \A U \in {"InvBlock", "GetBlock", "SyncBlock", "InfoBlock"}, k \in Nat :
        BlockMsg(U, k) \in Message
      BY MessageForms
<1>5. OutOfRange(n) \in Message
      BY MessageForms
<1>6. /\ HoldsMore(t, t)
      /\ \A msg \in Message : HoldsMore(t, Respond(t, n, c[1], msg))
      /\ \A p \in Node, msg \in Message : p # n => HoldsMore(t, SendTo(t, n, p, msg))
      /\ \A e \in Seq(Message) : HoldsMore(t, Broadcast(t, n, e))
      BY <1>3, SendsHold
<1> HIDE DEF t
<1>7. HoldsMore(t, queue')
  <2>1. CASE HandleInvBlock(n, c)
        BY <1>3, <1>4, <1>6, <2>1 DEF HandleInvBlock, t
  <2>2. CASE HandleGetBlock(n, c)
        BY <1>3, <1>4, <1>6, <2>2 DEF HandleGetBlock, t
  <2>3. CASE HandleSyncBlock(n, c)
        BY <1>3, <1>4, <1>5, <1>6, <2>3 DEF HandleSyncBlock, t
  <2>4. CASE \/ DropBlock(n, c) \/ DropOutOfRange(n, c) \/ RejectBlock(n, c)
             \/ ThrowAtBlock(n, c) /\ <<c[1], n>> \notin links
    <3>1. queue' = t
          BY <2>4, ThrowParts DEF DropBlock, DropOutOfRange, RejectBlock, t
    <3> QED BY <1>6, <3>1
  <2>5. CASE AddBlock(n, c)
    <3>1. <<BlockMsg("InvBlock", height[n] + 1)>> \in Seq(Message)
          BY <1>3, <1>4
    <3> QED BY <1>6, <2>5, <3>1 DEF AddBlock, t
  <2>6. CASE AddBlockSync(n, c)
    <3>1. syncPeer[n] \in Node /\ syncPeer[n] # n
          BY <1>3, <2>6, SyncPeerParts DEF AddBlockSync
    <3> QED BY <1>3, <1>4, <1>6, <2>6, <3>1 DEF AddBlockSync, t
  <2> QED BY <2>1, <2>2, <2>3, <2>4, <2>5, <2>6
<1> QED BY <1>1, <1>2, <1>7, BlockHandlerItems DEF t

\* set_synced, and the request for the peer's transactions
LEMMA EndSyncItems ==
  ASSUME IInv, ItemsInv, NEW c \in Channel, NEW n, n = c[2], EndSync(n, c)
  PROVE  ItemsInv'
<1>1. /\ queue[c] # <<>> /\ Head(queue[c]).type = "OutOfRange" /\ n \in Node
      /\ phase[n] = "syncing" /\ phase'[n] = "synced"
      /\ \A y \in Node : y # n => phase'[y] = phase[y]
      /\ UNCHANGED <<height, held, outbound, syncPeer, links>>
      BY ChannelParts DEF EndSync, Receives, IInv, TypeOK
<1>2. syncPeer[n] \in Node /\ syncPeer[n] # n
      BY <1>1, SyncPeerParts
<1> DEFINE msg == ItemMsg("SyncTransactions", {})
           t == Taken(c)
<1>3. msg \in Message /\ msg.type = "SyncTransactions"
  <2>1. {} \in SUBSET Item
        OBVIOUS
  <2> QED BY <2>1, MessageForms
<1>4. queue' = SendTo(t, n, syncPeer[n], msg)
      BY DEF EndSync
<1> HIDE DEF msg
<1>5. /\ HoldsMore(t, queue')
      /\ Linked(n, syncPeer[n]) => Holds(queue'[Snd(n, syncPeer[n])], msg)
      BY <1>1, <1>2, <1>3, <1>4, SendsHold
<1>6. Linked(n, syncPeer[n]) => Asking(n, syncPeer[n])'
      BY <1>1, <1>3, <1>5 DEF Asking
<1>7. Settles(c, Head(queue[c]))
      BY <1>1 DEF Settles
<1> HIDE DEF t
<1> QED BY <1>1, <1>5, <1>6, <1>7, HandlerItems DEF t

LEMMA ItemMsgParts ==
  \A T \in ItemTypes, S \in SUBSET Item :
    /\ ItemMsg(T, S) \in Message /\ ItemMsg(T, S).type = T /\ ItemMsg(T, S).items = S
    /\ <<ItemMsg(T, S)>> \in Seq(Message)
    /\ 1 \in DOMAIN <<ItemMsg(T, S)>> /\ <<ItemMsg(T, S)>>[1] = ItemMsg(T, S)
BY MessageForms DEF ItemTypes, ItemMsg

\* Any message of an item type carries its items.
LEMMA MsgOnWay ==
  ASSUME NEW n, NEW m, NEW T \in ItemTypes, NEW S \in SUBSET Item, NEW i \in S,
         \/ Holds(queue'[Resp(n, m)], ItemMsg(T, S))
         \/ Holds(queue'[Snd(n, m)], ItemMsg(T, S))
  PROVE  OnWay(n, m, T, i)'
BY ItemMsgParts DEF OnWay, Carries

LEMMA ReceivesItems ==
  ASSUME IInv, NEW c \in Channel, NEW n, n = c[2], NEW T \in ItemTypes, Receives(n, c, T)
  PROVE  /\ queue[c] # <<>> /\ Head(queue[c]).type = T
         /\ Head(queue[c]).items \subseteq Item
         /\ n \in Node /\ c[1] \in Node /\ n # c[1] /\ phase[n] # "off"
         /\ held[n] \subseteq Item
<1>1. n \in Node /\ c[1] \in Node /\ n # c[1]
      BY ChannelParts
<1>2. queue[c] # <<>> /\ Head(queue[c]).type = T /\ Head(queue[c]).items \subseteq Item
      BY <1>1, ReceivesItem DEF IInv, Receives
<1>3. phase[n] # "off" /\ held[n] \subseteq Item
      BY <1>1 DEF Receives, Running, IInv, TypeOK
<1> QED BY <1>1, <1>2, <1>3

\* handle_inv_transaction: what the node lacks is asked for.
LEMMA InvItemItems ==
  ASSUME IInv, ItemsInv, NEW c \in Channel, NEW n, n = c[2], HandleInvItem(n, c)
  PROVE  ItemsInv'
<1>1. /\ queue[c] # <<>> /\ Head(queue[c]).type = "InvItem"
      /\ Head(queue[c]).items \subseteq Item /\ phase[n] # "off"
      BY ReceivesItems DEF HandleInvItem, ItemTypes
<1> DEFINE S == Head(queue[c]).items \ held[n]
           msg == ItemMsg("GetItem", S)
           t == Taken(c)
<1>2. /\ queue' = IF S # {} THEN Respond(t, n, c[1], msg) ELSE t
      /\ UNCHANGED <<phase, held, outbound, syncPeer, links>>
      BY DEF HandleInvItem
<1>3. S \in SUBSET Item /\ msg \in Message
      BY <1>1, ItemMsgParts DEF ItemTypes
<1>4. /\ HoldsMore(t, t)
      /\ HoldsMore(t, Respond(t, n, c[1], msg))
      /\ Holds(Respond(t, n, c[1], msg)[Resp(n, c[1])], msg)
      BY <1>1, <1>3, SendsHold
<1>5. HoldsMore(t, queue')
      BY <1>2, <1>4
<1>6. \A i \in S : OnWay(n, c[1], "GetItem", i)'
  <2> SUFFICES ASSUME NEW i \in S
               PROVE  OnWay(n, c[1], "GetItem", i)'
      OBVIOUS
  <2>1. Holds(queue'[Resp(n, c[1])], msg)
        BY <1>2, <1>4
  <2> QED BY <1>3, <2>1, MsgOnWay DEF ItemTypes
<1>7. Settles(c, Head(queue[c]))
      BY <1>1, <1>2, <1>6 DEF Settles
<1> HIDE DEF t
<1> QED BY <1>1, <1>2, <1>5, <1>7, HandlerItems DEF t

\* handle_get_transaction: what the node holds is sent.
LEMMA GetItemItems ==
  ASSUME IInv, ItemsInv, NEW c \in Channel, NEW n, n = c[2], HandleGetItem(n, c)
  PROVE  ItemsInv'
<1>1. /\ queue[c] # <<>> /\ Head(queue[c]).type = "GetItem"
      /\ Head(queue[c]).items \subseteq Item /\ phase[n] # "off"
      BY ReceivesItems DEF HandleGetItem, ItemTypes
<1> DEFINE S == Head(queue[c]).items \cap held[n]
           msg == ItemMsg("InfoItem", S)
           t == Taken(c)
<1>2. /\ queue' = IF S # {} THEN Respond(t, n, c[1], msg) ELSE t
      /\ UNCHANGED <<phase, held, outbound, syncPeer, links>>
      BY DEF HandleGetItem
<1>3. S \in SUBSET Item /\ msg \in Message
      BY <1>1, ItemMsgParts DEF ItemTypes
<1>4. /\ HoldsMore(t, t)
      /\ HoldsMore(t, Respond(t, n, c[1], msg))
      /\ Holds(Respond(t, n, c[1], msg)[Resp(n, c[1])], msg)
      BY <1>1, <1>3, SendsHold
<1>5. HoldsMore(t, queue')
      BY <1>2, <1>4
<1>6. \A i \in S : OnWay(n, c[1], "InfoItem", i)'
  <2> SUFFICES ASSUME NEW i \in S
               PROVE  OnWay(n, c[1], "InfoItem", i)'
      OBVIOUS
  <2>1. Holds(queue'[Resp(n, c[1])], msg)
        BY <1>2, <1>4
  <2> QED BY <1>3, <2>1, MsgOnWay DEF ItemTypes
<1>7. Settles(c, Head(queue[c]))
      BY <1>1, <1>2, <1>6 DEF Settles
<1> HIDE DEF t
<1> QED BY <1>1, <1>2, <1>5, <1>7, HandlerItems DEF t

\* handle_sync_transactions: the pool is listed.
LEMMA SyncTransactionsItems ==
  ASSUME IInv, ItemsInv, NEW c \in Channel, NEW n, n = c[2], HandleSyncTransactions(n, c)
  PROVE  ItemsInv'
<1>1. /\ queue[c] # <<>> /\ Head(queue[c]).type = "SyncTransactions"
      /\ held[n] \subseteq Item /\ phase[n] # "off"
      BY ReceivesItems DEF HandleSyncTransactions, ItemTypes
<1> DEFINE S == held[n] \cap Transaction
           msg == ItemMsg("ListTransactions", S)
           t == Taken(c)
<1>2. /\ queue' = Respond(t, n, c[1], msg)
      /\ UNCHANGED <<phase, held, outbound, syncPeer, links>>
      BY DEF HandleSyncTransactions
<1>3. S \in SUBSET Item /\ msg \in Message
      BY <1>1, ItemMsgParts DEF ItemTypes
<1>4. /\ HoldsMore(t, queue')
      /\ Holds(queue'[Resp(n, c[1])], msg)
      BY <1>1, <1>2, <1>3, SendsHold
<1>5. \A i \in S : OnWay(n, c[1], "ListTransactions", i)'
      BY <1>3, <1>4, MsgOnWay DEF ItemTypes
<1>6. Settles(c, Head(queue[c]))
      BY <1>1, <1>5 DEF Settles
<1> HIDE DEF t
<1> QED BY <1>1, <1>2, <1>4, <1>6, HandlerItems DEF t

\* handle_info_transaction: what is added is announced.
LEMMA InfoItemItems ==
  ASSUME IInv, ItemsInv, NEW c \in Channel, NEW n, n = c[2], HandleInfoItem(n, c)
  PROVE  ItemsInv'
<1>1. /\ queue[c] # <<>> /\ Head(queue[c]).type = "InfoItem" /\ n \in Node
      /\ Head(queue[c]).items \subseteq Item /\ phase[n] # "off" /\ height[n] \in Nat
      BY ReceivesItems, QueueTypes DEF HandleInfoItem, ItemTypes, IInv
<1> DEFINE S == {i \in Head(queue[c]).items \ held[n] : Needs[i] <= height[n]}
           msg == ItemMsg("InvItem", S)
           t == Taken(c)
<1>2. /\ queue' = IF S # {} THEN Broadcast(t, n, <<msg>>) ELSE t
      /\ held' = [held EXCEPT ![n] = @ \cup S]
      /\ UNCHANGED <<phase, height, outbound, syncPeer, links>>
      BY DEF HandleInfoItem
<1>3. /\ S \in SUBSET Item /\ <<msg>> \in Seq(Message)
      /\ 1 \in DOMAIN <<msg>> /\ <<msg>>[1] = msg
      BY <1>1, ItemMsgParts DEF ItemTypes
<1>4. /\ held'[n] = held[n] \cup S
      /\ \A y \in Node : y # n => held'[y] = held[y]
      BY <1>1, <1>2 DEF IInv, TypeOK
<1>5. /\ HoldsMore(t, t)
      /\ HoldsMore(t, Broadcast(t, n, <<msg>>))
      /\ \A x \in Node : x # n /\ Linked(n, x) =>
           Holds(Broadcast(t, n, <<msg>>)[Snd(n, x)], msg)
      BY <1>1, <1>3, SendsHold
<1>6. HoldsMore(t, queue')
      BY <1>2, <1>5
<1>7. ASSUME NEW x \in Node, Linked(x, n), NEW i \in held'[n] \ held[n]
      PROVE  OnWay(n, x, "InvItem", i)'
  <2>1. i \in S /\ x # n /\ Linked(n, x)
        BY <1>4, <1>7, LinkedDiffer, LinkedTurns DEF IInv
  <2>2. queue' = Broadcast(t, n, <<msg>>)
        BY <1>2, <2>1
  <2>3. Holds(queue'[Snd(n, x)], msg)
        BY <1>5, <2>1, <2>2
  <2> QED BY <1>3, <2>1, <2>3, MsgOnWay DEF ItemTypes
<1>8. ASSUME NEW i \in Head(queue[c]).items, Needs[i] = 0
      PROVE  i \in held'[n]
      BY <1>1, <1>4, <1>8
<1>9. Settles(c, Head(queue[c]))
      BY <1>1, <1>8 DEF Settles
<1> HIDE DEF t, S
<1>10. \A y \in Node : held[y] \subseteq held'[y]
      BY <1>4
<1> QED BY <1>1, <1>2, <1>4, <1>6, <1>7, <1>9, <1>10, HandlerItems DEF t

\* handle_list_transactions: each transaction of the list is asked for.
LEMMA ListItems ==
  ASSUME IInv, ItemsInv, NEW c \in Channel, NEW n, n = c[2], HandleListTransactions(n, c)
  PROVE  ItemsInv'
<1>1. /\ queue[c] # <<>> /\ Head(queue[c]).type = "ListTransactions" /\ n \in Node
      /\ c[1] \in Node /\ n # c[1]
      /\ Head(queue[c]).items \subseteq Item /\ phase[n] # "off"
      BY ReceivesItems DEF HandleListTransactions, ItemTypes
<1> DEFINE S == Head(queue[c]).items
           t == Taken(c)
<1>2. S \subseteq Item /\ Cardinality(S) \in Nat
      BY <1>1, GossipAssumption, FS_Subset, FS_CardinalityType
<1>3. PICK order \in [1 .. Cardinality(S) -> S] :
        /\ {order[k] : k \in DOMAIN order} = S
        /\ queue' = Broadcast(t, n, [k \in DOMAIN order |-> ItemMsg("GetItem", {order[k]})])
      BY DEF HandleListTransactions
<1> DEFINE e == [k \in 1 .. Cardinality(S) |-> ItemMsg("GetItem", {order[k]})]
<1>4. queue' = Broadcast(t, n, e) /\ DOMAIN e = 1 .. Cardinality(S)
      BY <1>3
<1>5. \A k \in DOMAIN e : e[k] \in Message /\ e[k] = ItemMsg("GetItem", {order[k]})
      BY <1>2, ItemMsgParts DEF ItemTypes
<1>6. \A i \in S : \E k \in DOMAIN e : order[k] = i
      BY <1>3, <1>4
<1> HIDE DEF t, S
<1>7. e \in Seq(Message)
  <2>1. e = [k \in 1 .. Cardinality(S) |-> e[k]]
        BY <1>4
  <2> HIDE DEF e
  <2>2. e \in [1 .. Cardinality(S) -> Message]
        BY <1>4, <1>5, <2>1
  <2> QED BY <1>2, <2>2 DEF S
<1> HIDE DEF e
<1>8. /\ HoldsMore(t, queue')
      /\ \A k \in DOMAIN e : Linked(n, c[1]) => Holds(queue'[Snd(n, c[1])], e[k])
      BY <1>1, <1>4, <1>7, SendsHold DEF t
<1>9. ASSUME Linked(n, c[1]), NEW i \in S
      PROVE  OnWay(n, c[1], "GetItem", i)'
  <2>1. PICK k \in DOMAIN e : order[k] = i
        BY <1>6
  <2>2. Holds(queue'[Snd(n, c[1])], ItemMsg("GetItem", {i}))
        BY <1>5, <1>8, <1>9, <2>1
  <2>3. {i} \in SUBSET Item /\ i \in {i}
        BY <1>2
  <2> QED BY <2>2, <2>3, MsgOnWay DEF ItemTypes
<1>10. Settles(c, Head(queue[c]))
      BY <1>1, <1>9 DEF Settles, S
<1>11. UNCHANGED <<phase, held, outbound, syncPeer, links>>
      BY DEF HandleListTransactions
<1> QED BY <1>1, <1>8, <1>10, <1>11, HandlerItems DEF t

\* Steps that take no message: connections that stand keep theirs.
LEMMA RestItems ==
  ASSUME ItemsInv,
         \A x \in Node : held[x] \subseteq held'[x]
                         /\ (phase'[x] = "off" => phase[x] = "off" /\ held'[x] = held[x]),
         \A x, y \in Node : Linked(x, y) /\ Linked(x, y)' =>
           \A d \in {Resp(x, y), Snd(x, y), Resp(y, x), Snd(y, x)}, m \in Message :
             Holds(queue[d], m) => Holds(queue'[d], m),
         \A x, y \in Node : Linked(x, y)' =>
           /\ \A i \in held'[y] \ (held[y] \cup held'[x]) : OnWay(y, x, "InvItem", i)'
           /\ x \in outbound'[y] =>
                \/ Linked(x, y) /\ x \in outbound[y]
                \/ held'[y] = {}
           /\ phase'[x] = "synced" /\ syncPeer'[x] = y =>
                \/ Linked(x, y) /\ phase[x] = "synced" /\ syncPeer[x] = y
                \/ Asking(x, y)'
  PROVE  ItemsInv'
<1>1. \A x, y \in Node : Linked(x, y) /\ Linked(x, y)' => Keeps(x, y, {}) /\ Keeps(y, x, {})
      BY DEF Keeps
<1>2. \A d \in Channel, m \in Message : <<d, m>> \in {} => Settles(d, m)
      OBVIOUS
<1>3. \A d, m : <<d, m>> \in {} => d \in Channel
      OBVIOUS
<1> QED BY <1>1, <1>2, <1>3, ItemsStep

\* Steps that only add messages
LEMMA MoreItems ==
  ASSUME IInv, ItemsInv, HoldsMore(queue, queue'),
         UNCHANGED <<held, outbound, links>>,
         \A x \in Node : phase'[x] = "off" => phase[x] = "off",
         \A x \in Node : phase'[x] = "synced" /\ syncPeer'[x] \in Node =>
           phase[x] = "synced" /\ syncPeer[x] = syncPeer'[x]
  PROVE  ItemsInv'
<1>1. \A x, y : Linked(x, y)' <=> Linked(x, y)
      BY DEF Linked
<1>2. ASSUME NEW x \in Node, NEW y \in Node, Linked(x, y),
             NEW d \in {Resp(x, y), Snd(x, y), Resp(y, x), Snd(y, x)}, NEW m \in Message,
             Holds(queue[d], m)
      PROVE  Holds(queue'[d], m)
  <2>1. d \in Channel
        BY <1>2, LinkedDiffer, ChannelParts DEF IInv
  <2> QED BY <1>2, <2>1 DEF HoldsMore
<1> QED BY <1>1, <1>2, RestItems

\* The main thread: it starts, syncs, mines and announces.
LEMMA MainItems ==
  ASSUME IInv, ItemsInv,
         \/ \E n \in Node : StartAlone(n) \/ StartSync(n)
         \/ Mine \/ Announce
         \/ UNCHANGED vars \/ \E n \in Node : StopIO(n)
  PROVE  ItemsInv'
<1>1. queue \in Queues /\ None \notin Node /\ Miner \in Node
      BY QueueTypes, GossipAssumption DEF IInv
<1>2. HoldsMore(queue, queue)
      BY DEF HoldsMore
<1>3. ASSUME NEW n \in Node, StartAlone(n)
      PROVE  ItemsInv'
  <2>1. /\ syncPeer[n] = None /\ phase'[n] = "synced"
        /\ \A y \in Node : y # n => phase'[y] = phase[y]
        /\ UNCHANGED <<held, outbound, links, syncPeer, queue>>
        BY <1>3 DEF StartAlone, IInv, Nodes, TypeOK
  <2> QED BY <1>1, <1>2, <2>1, MoreItems
<1>4. ASSUME NEW n \in Node, StartSync(n)
      PROVE  ItemsInv'
  <2>1. PICK p \in outbound[n] :
          /\ syncPeer' = [syncPeer EXCEPT ![n] = p]
          /\ queue' = SendTo(queue, n, p, BlockMsg("SyncBlock", 1))
        BY <1>4 DEF StartSync
  <2>2. p \in Node /\ n # p /\ BlockMsg("SyncBlock", 1) \in Message
        BY MessageForms DEF IInv, Nodes, TypeOK
  <2>3. HoldsMore(queue, queue')
        BY <1>1, <2>1, <2>2, SendHolds
  <2>4. /\ phase'[n] = "syncing"
        /\ \A y \in Node : y # n => phase'[y] = phase[y] /\ syncPeer'[y] = syncPeer[y]
        /\ UNCHANGED <<held, outbound, links>>
        BY <1>4, <2>1 DEF StartSync, IInv, TypeOK
  <2> QED BY <2>3, <2>4, MoreItems
<1>5. CASE Mine
  <2>1. UNCHANGED <<phase, held, outbound, links, syncPeer, queue>>
        BY <1>5 DEF Mine
  <2> QED BY <1>2, <2>1, MoreItems
<1>6. CASE Announce
  <2>1. UNCHANGED <<phase, held, outbound, links, syncPeer>>
        BY <1>6 DEF Announce
  <2>2. <<BlockMsg("InvBlock", height[Miner])>> \in Seq(Message)
        BY <1>1, MessageForms, QueueTypes DEF IInv
  <2>3. HoldsMore(queue, queue')
        BY <1>1, <1>6, <2>2, BroadcastHolds DEF Announce
  <2> QED BY <2>1, <2>3, MoreItems
<1>7. CASE UNCHANGED vars \/ \E n \in Node : StopIO(n)
  <2>1. UNCHANGED <<phase, held, outbound, links, syncPeer, queue>>
        BY <1>7 DEF vars, StopIO
  <2> QED BY <1>2, <2>1, MoreItems
<1> QED BY <1>3, <1>4, <1>5, <1>6, <1>7

\* What clients hand in is announced.
LEMMA NewItemItems ==
  ASSUME IInv, ItemsInv, NEW n \in Node, NEW i \in Item, NewItem(n, i)
  PROVE  ItemsInv'
<1>1. queue \in Queues
      BY QueueTypes DEF IInv
<1> DEFINE msg == ItemMsg("InvItem", {i})
<1>2. /\ {i} \in SUBSET Item /\ <<msg>> \in Seq(Message)
      /\ 1 \in DOMAIN <<msg>> /\ <<msg>>[1] = msg
  <2>1. {i} \in SUBSET Item
        OBVIOUS
  <2> QED BY <2>1, ItemMsgParts DEF ItemTypes
<1>3. queue' = Broadcast(queue, n, <<msg>>)
      BY DEF NewItem
<1> HIDE DEF msg
<1>4. /\ HoldsMore(queue, queue')
      /\ \A x \in Node : x # n /\ Linked(n, x) => Holds(queue'[Snd(n, x)], msg)
      BY <1>1, <1>2, <1>3, BroadcastHolds
<1>5. /\ held'[n] = held[n] \cup {i} /\ phase[n] # "off"
      /\ \A y \in Node : y # n => held'[y] = held[y]
      /\ UNCHANGED <<phase, outbound, links, syncPeer>>
      BY DEF NewItem, IInv, TypeOK, Running
<1>6. \A x, y : Linked(x, y)' <=> Linked(x, y)
      BY <1>5 DEF Linked
<1>7. ASSUME NEW x \in Node, NEW y \in Node, Linked(x, y),
             NEW d \in {Resp(x, y), Snd(x, y), Resp(y, x), Snd(y, x)}, NEW m \in Message,
             Holds(queue[d], m)
      PROVE  Holds(queue'[d], m)
  <2>1. d \in Channel
        BY <1>7, LinkedDiffer, ChannelParts DEF IInv
  <2> QED BY <1>4, <1>7, <2>1 DEF HoldsMore
<1>8. ASSUME NEW x \in Node, NEW y \in Node, Linked(x, y),
             NEW j \in held'[y] \ (held[y] \cup held'[x])
      PROVE  OnWay(y, x, "InvItem", j)'
  <2>1. y = n /\ j = i /\ x # n /\ Linked(n, x)
        BY <1>5, <1>8, LinkedDiffer, LinkedTurns DEF IInv
  <2>2. Holds(queue'[Snd(n, x)], ItemMsg("InvItem", {i}))
        BY <1>4, <2>1 DEF msg
  <2> QED BY <1>2, <2>1, <2>2, MsgOnWay DEF ItemTypes
<1> QED BY <1>5, <1>6, <1>7, <1>8, RestItems

\* The constructor connects; the node holds nothing yet.
LEMMA BootItems ==
  ASSUME IInv, ItemsInv, NEW n \in Node, NEW peers \in SUBSET Node, Boot(n, peers)
  PROVE  ItemsInv'
<1>1. /\ phase[n] = "off" /\ phase'[n] = "starting"
      /\ \A y \in Node : y # n => phase'[y] = phase[y] /\ outbound'[y] = outbound[y]
      /\ UNCHANGED <<held, syncPeer, queue>>
      /\ links' = links \cup {<<n, p>> : p \in peers}
      BY DEF Boot, IInv, TypeOK
<1>2. held[n] = {} /\ syncPeer[n] = None /\ None \notin Node
      BY <1>1, GossipAssumption DEF ItemsInv, IInv, Nodes
<1>3. \A y \in Node : \A p \in outbound[y] : p # n
      BY <1>1 DEF IInv, Nodes
<1>4. \A x, y : x # n /\ y # n /\ Linked(x, y)' => Linked(x, y)
      BY <1>1 DEF Linked
<1>5. \A x \in Node : held[x] \subseteq held'[x]
                      /\ (phase'[x] = "off" => phase[x] = "off" /\ held'[x] = held[x])
      BY <1>1
<1>6. ASSUME NEW x \in Node, NEW y \in Node, Linked(x, y)'
      PROVE  /\ x \in outbound'[y] => \/ Linked(x, y) /\ x \in outbound[y]
                                      \/ held'[y] = {}
             /\ phase'[x] = "synced" /\ syncPeer'[x] = y =>
                  Linked(x, y) /\ phase[x] = "synced" /\ syncPeer[x] = y
  <2>1. CASE y = n
    <3>1. \A z \in Node : syncPeer[z] # n
          BY <1>2, <1>3 DEF IInv, Nodes
    <3> QED BY <1>1, <1>2, <2>1, <3>1
  <2>2. CASE y # n /\ x = n
        BY <1>1, <1>2, <1>3, <2>2
  <2>3. CASE y # n /\ x # n
        BY <1>1, <1>4, <1>6, <2>3
  <2> QED BY <2>1, <2>2, <2>3
<1> QED BY <1>1, <1>5, <1>6, RestItems

\* Connections close.
LEMMA CloseItems ==
  ASSUME IInv, ItemsInv,
         \/ \E l \in links : Break(l)
         \/ \E c \in Channel : AddBlockTooEarly(c[2], c)
         \/ \E c \in Channel : ThrowAtBlock(c[2], c) /\ <<c[1], c[2]>> \in links
  PROVE  ItemsInv'
<1>1. /\ UNCHANGED <<held, outbound, syncPeer>>
      /\ \A x \in Node : /\ phase'[x] = "off" => phase[x] = "off"
                         /\ phase'[x] = "synced" => phase[x] = "synced"
  <2>1. CASE \E l \in links : Break(l)
        BY <2>1 DEF Break
  <2>2. ASSUME NEW c \in Channel, AddBlockTooEarly(c[2], c)
        PROVE  /\ UNCHANGED <<held, outbound, syncPeer>>
               /\ \A x \in Node : x # c[2] => phase'[x] = phase[x]
               /\ phase'[c[2]] = "crashed"
        BY <2>2, ChannelParts DEF AddBlockTooEarly, IInv, TypeOK
  <2>3. CASE \E c \in Channel : ThrowAtBlock(c[2], c) /\ <<c[1], c[2]>> \in links
        BY <2>3 DEF ThrowAtBlock
  <2> QED BY <2>1, <2>2, <2>3
<1>2. \A x, y \in Node : Linked(x, y)' => x # y
      BY LinkedDiffer DEF Break, AddBlockTooEarly, ThrowAtBlock, IInv, Links, Linked
<1>3. ASSUME NEW x \in Node, NEW y \in Node, Linked(x, y)'
      PROVE  /\ Linked(x, y)
             /\ \A d \in {Resp(x, y), Snd(x, y), Resp(y, x), Snd(y, x)} :
                  queue'[d] = queue[d]
  <2>1. CASE \E l \in links : Break(l)
        BY <1>2, <1>3, <2>1, BreakKeeps
  <2>2. CASE \E c \in Channel : AddBlockTooEarly(c[2], c)
        BY <1>2, <1>3, <2>2, TooEarlyKeeps
  <2>3. CASE \E c \in Channel : ThrowAtBlock(c[2], c) /\ <<c[1], c[2]>> \in links
        BY <1>2, <1>3, <2>3, ThrowKeeps
  <2> QED BY <2>1, <2>2, <2>3
<1> QED BY <1>1, <1>3, RestItems

LEMMA NextItems == IInv /\ ItemsInv /\ [Next]_vars => ItemsInv'
<1> SUFFICES ASSUME IInv, ItemsInv, [Next]_vars
             PROVE  ItemsInv'
  OBVIOUS
<1>1. ASSUME NEW n \in Node, NEW peers \in SUBSET Node, Boot(n, peers)
      PROVE  ItemsInv'
  BY <1>1, BootItems
<1>2. CASE \/ \E n \in Node : MainThread(n) \/ StopIO(n)
           \/ Mine \/ Announce \/ UNCHANGED vars
  BY <1>2, MainItems DEF MainThread
<1>3. ASSUME NEW c \in Channel, Listen(c)
      PROVE  ItemsInv'
  <2> DEFINE n == c[2]
  <2>1. CASE \/ HandleInvBlock(n, c) \/ HandleGetBlock(n, c) \/ HandleSyncBlock(n, c)
             \/ DropBlock(n, c) \/ AddBlock(n, c) \/ AddBlockSync(n, c)
             \/ DropOutOfRange(n, c) \/ RejectBlock(n, c)
    BY <2>1, BlockItems
  <2>2. CASE EndSync(n, c)
    BY <2>2, EndSyncItems
  <2>3. CASE AddBlockTooEarly(n, c)
    BY <2>3, CloseItems
  <2>4. CASE ThrowAtBlock(n, c)
    BY <2>4, BlockItems, CloseItems
  <2>5. CASE HandleInvItem(n, c) \/ HandleGetItem(n, c) \/ HandleInfoItem(n, c)
    BY <2>5, InvItemItems, GetItemItems, InfoItemItems
  <2>6. CASE HandleSyncTransactions(n, c) \/ HandleListTransactions(n, c)
    BY <2>6, SyncTransactionsItems, ListItems
  <2> QED BY <1>3, <2>1, <2>2, <2>3, <2>4, <2>5, <2>6 DEF Listen
<1>4. ASSUME NEW n \in Node, NEW i \in Item, NewItem(n, i)
      PROVE  ItemsInv'
  BY <1>4, NewItemItems
<1>5. ASSUME NEW l \in links, Break(l)
      PROVE  ItemsInv'
  BY <1>5, CloseItems
<1> QED BY <1>1, <1>2, <1>3, <1>4, <1>5 DEF Next

-----------------------------------------------------------------------------
(* Theorems *)

LEMMA InitIInv == Init => IInv
<1> SUFFICES ASSUME Init
             PROVE  IInv
  OBVIOUS
<1>1. <<>> \in Seq(Message) /\ \A m : ~Holds(<<>>, m)
  BY DEF Holds
<1>2. TypeOK
  <2>1. phase \in [Node -> {"off", "starting", "syncing", "synced", "crashed"}]
    BY DEF Init
  <2>2. height \in [Node -> 0 .. MaxHeight]
    <3>1. 0 \in 0 .. MaxHeight
      BY GossipAssumption
    <3> QED BY <3>1 DEF Init
  <2>3. held \in [Node -> SUBSET Item] /\ outbound \in [Node -> SUBSET Node]
    BY DEF Init
  <2>4. syncPeer \in [Node -> Node \cup {None}] /\ caughtUp \in [Node -> BOOLEAN]
    BY DEF Init
  <2>5. fresh \subseteq Item /\ unannounced \in BOOLEAN /\ links \subseteq Node \X Node
    BY DEF Init
  <2>6. queue \in [Channel -> Seq(Message)]
    BY <1>1 DEF Init
  <2>7. rejected \subseteq 1 .. MaxHeight /\ thrown \subseteq 1 .. MaxHeight
    BY DEF Init
  <2>8. deaf \subseteq Node \X Node /\ stopped \subseteq Node
    BY DEF Init
  <2> QED BY <2>1, <2>2, <2>3, <2>4, <2>5, <2>6, <2>7, <2>8 DEF TypeOK
<1>3. Messages
  BY <1>1 DEF Init, Messages
<1>4. Nodes /\ Links /\ Syncs
  BY GossipAssumption DEF Init, Nodes, Links, Syncs
<1>5. Pipes
  BY GossipAssumption DEF Init, Pipes, Follows, Linked
<1> QED BY <1>2, <1>3, <1>4, <1>5 DEF IInv

\* Each step of each thread, handler and connection keeps it.
LEMMA NextIInv == IInv /\ [Next]_vars => IInv'
<1> SUFFICES ASSUME IInv, [Next]_vars
             PROVE  IInv'
  OBVIOUS
<1>1. ASSUME NEW n \in Node, NEW peers \in SUBSET Node, Boot(n, peers)
      PROVE  IInv'
  BY <1>1, BootStep
<1>2. ASSUME NEW n \in Node, MainThread(n)
      PROVE  IInv'
  BY <1>2, StartAloneStep, StartSyncStep DEF MainThread
<1>3. CASE Mine \/ Announce
  BY <1>3, MineStep, AnnounceStep
<1>4. ASSUME NEW c \in Channel, Listen(c)
      PROVE  IInv'
  <2> DEFINE n == c[2]
  <2>1. n \in Node
    BY ChannelParts
  <2>2. CASE HandleInvBlock(n, c) \/ HandleGetBlock(n, c) \/ HandleSyncBlock(n, c)
    BY <2>2, HandleInvBlockStep, HandleGetBlockStep, HandleSyncBlockStep
  <2>3. CASE DropBlock(n, c) \/ AddBlock(n, c) \/ AddBlockSync(n, c) \/ AddBlockTooEarly(n, c)
    BY <2>3, DropBlockStep, AddBlockStep, AddBlockSyncStep, AddBlockTooEarlyStep
  <2>4. CASE EndSync(n, c) \/ DropOutOfRange(n, c)
    BY <2>4, EndSyncStep, DropOutOfRangeStep
  <2>5. CASE \/ HandleInvItem(n, c) \/ HandleGetItem(n, c) \/ HandleInfoItem(n, c)
             \/ HandleSyncTransactions(n, c) \/ HandleListTransactions(n, c)
    BY <2>1, <2>5, ItemStep
  <2>6. CASE RejectBlock(n, c) \/ ThrowAtBlock(n, c)
    BY <2>6, RejectBlockStep, ThrowAtBlockStep
  <2> QED BY <1>4, <2>2, <2>3, <2>4, <2>5, <2>6 DEF Listen
<1>5. ASSUME NEW n \in Node, NEW i \in Item, NewItem(n, i)
      PROVE  IInv'
  BY <1>5, NewItemStep
<1>6. ASSUME NEW l \in links, Break(l)
      PROVE  IInv'
  BY <1>6, BreakStep
<1>7. ASSUME NEW n \in Node, StopIO(n)
      PROVE  IInv'
  BY <1>7, StopIOStep
<1>8. CASE UNCHANGED vars
  <2>1. TypeOK'
    BY <1>8 DEF vars, IInv, TypeOK
  <2>2. Messages'
    BY <1>8 DEF vars, IInv, Messages, GoodMsg
  <2>3. Nodes' /\ Links'
    BY <1>8 DEF vars, IInv, Nodes, Links
  <2>4. Syncs'
    BY <1>8 DEF vars, IInv, Syncs, SyncPending, Linked, Free, Sound
  <2>5. Pipes'
    <3> SUFFICES ASSUME NEW x \in Node, Follows(x)'
                 PROVE  PipeOf(x, syncPeer[x])'
      BY <1>8 DEF vars, Pipes
    <3>1. Follows(x)
      BY <1>8 DEF vars, Follows, Linked, Free, Sound
    <3>2. PipeOf(x, syncPeer[x])
      BY <3>1 DEF IInv, Pipes
    <3> QED BY <1>8, <3>2 DEF vars, PipeOf
  <2> QED BY <2>1, <2>2, <2>3, <2>4, <2>5 DEF IInv
<1> QED BY <1>1, <1>2, <1>3, <1>4, <1>5, <1>6, <1>7, <1>8 DEF Next

\* handle_inv_block, handle_get_block and handle_info_block: the blocks of every
\* pair of a node and its sync peer are on their way in order, until the node's
\* next block is one that add_block does not add; and messages, nodes and links
\* are as the handlers expect them.
THEOREM InductiveInvariant == Spec => []IInv
<1>1. Init => IInv
  BY InitIInv
<1>2. IInv /\ [Next]_vars => IInv'
  BY NextIInv
<1> QED BY <1>1, <1>2, PTL DEF Spec

\* Types of the variables; in particular no node's current_height passes the
\* miner's.
THEOREM TypeCorrect == Spec => []TypeOK
<1>1. IInv => TypeOK
  BY DEF IInv
<1> QED BY <1>1, InductiveInvariant, PTL

\* start_sync and handle_info_block_sync: while a node of any network syncs and
\* the connection holds, the request for its next block or an answer to it is
\* under way, unless the sync peer's next block is one that add_block does not
\* add: then nothing more is asked for.
THEOREM SyncGoesOn == Spec => []SyncUnderWay
<1>1. IInv => SyncUnderWay
  <2> SUFFICES ASSUME IInv, NEW n \in Node, phase[n] = "syncing", Linked(n, syncPeer[n]),
                      height[syncPeer[n]] >= height[n] + 1 => Sound(height[n] + 1)
               PROVE  SyncPending(n, syncPeer[n])
    BY DEF SyncUnderWay, SyncPending, UnderWay, Has, Resp, Snd
  <2>1. syncPeer[n] \in Node /\ height[n] \in Nat /\ \A p \in Node : height[p] \in Nat
    BY QueueTypes DEF IInv, Nodes
  <2>2. Free(n, syncPeer[n])
    BY <2>1 DEF Free
  <2> QED BY <2>2 DEF IInv, Syncs
<1> QED BY <1>1, InductiveInvariant, PTL

\* handle_inv_block, handle_get_block and handle_info_block: no block that a
\* node lacks of its sync peer is lost between two handlers, up to the first that
\* add_block does not add, whatever the other nodes send it meanwhile.
THEOREM NoBlockIsMissed == Spec => []MissingIsUnderWay
<1>1. IInv => MissingIsUnderWay
  <2> SUFFICES ASSUME IInv, NEW n \in Node, phase[n] = "synced", caughtUp[n],
                      Linked(n, syncPeer[n]),
                      NEW b \in height[n] + 1 .. height[syncPeer[n]],
                      \A k \in height[n] + 1 .. b : Sound(k)
               PROVE  LET p == syncPeer[n] IN
                        \/ UnderWay(p, n, "send", "InvBlock", b)
                        \/ UnderWay(n, p, "response", "GetBlock", b)
                        \/ UnderWay(p, n, "response", "InfoBlock", b)
                        \/ p = Miner /\ unannounced /\ b = height[p]
    BY DEF MissingIsUnderWay
  <2> DEFINE p == syncPeer[n]
  <2>1. p \in Node
    BY DEF IInv, Nodes
  <2>2. Free(n, p)
    <3>1. height[n] \in Nat /\ height[p] \in Nat
      BY <2>1, QueueTypes DEF IInv
    <3>2. height[n] + 1 \in height[n] + 1 .. b
      BY <3>1
    <3> QED BY <3>2 DEF Free
  <2>3. PipeOf(n, p)
    BY <2>1, <2>2 DEF IInv, Pipes, Follows
  <2>4. \/ OnItsWay(queue[Resp(p, n)], queue[Resp(n, p)], queue[Snd(p, n)], b)
        \/ p = Miner /\ unannounced /\ b = height[p]
    BY <2>3 DEF PipeOf, Pipe, Covers
  <2> QED BY <2>4 DEF OnItsWay, UnderWay, Has, Resp, Snd
<1> QED BY <1>1, InductiveInvariant, PTL

\* handle_inv_transaction, handle_get_transaction, handle_info_transaction and
\* the handlers for computations, with the request for the sync peer's pool at
\* the end of a sync: no item that a node should get is lost between two
\* handlers, however many nodes hand it on at once.
THEOREM NoItemIsMissed == Spec => []ItemsUnderWay
<1>1. Init => ItemsInv
  BY DEF Init, ItemsInv, Linked
<1>2. IInv /\ ItemsInv /\ [Next]_vars => ItemsInv'
  BY NextItems
<1>3. IInv /\ ItemsInv => ItemsUnderWay
  <2> SUFFICES ASSUME IInv, ItemsInv, NEW n \in Node, NEW m \in Node, NEW i \in Item,
                      Linked(n, m), Needs[i] = 0, i \in held[m] \ held[n],
                      \/ n \in outbound[m]
                      \/ phase[n] = "synced" /\ syncPeer[n] = m /\ i \in Transaction
               PROVE  \/ ItemUnderWay(m, n, "InvItem", i)
                      \/ ItemUnderWay(n, m, "GetItem", i)
                      \/ ItemUnderWay(m, n, "InfoItem", i)
                      \/ ItemUnderWay(m, n, "ListTransactions", i)
                      \/ \E k \in DOMAIN queue[<<n, m, "send">>] :
                           queue[<<n, m, "send">>][k].type = "SyncTransactions"
    BY DEF ItemsUnderWay
  <2>1. \A x, y, T : OnWay(x, y, T, i) => ItemUnderWay(x, y, T, i)
    BY DEF OnWay, Carries, Holds, ItemUnderWay, Resp, Snd
  <2>2. Asking(n, m) => \E k \in DOMAIN queue[<<n, m, "send">>] :
                          queue[<<n, m, "send">>][k].type = "SyncTransactions"
    BY DEF Asking, Holds, Snd
  <2>3. Offered(n, m, i) \/ Listed(n, m, i)
    BY DEF ItemsInv
  <2> QED BY <2>1, <2>2, <2>3 DEF Offered, Listed
<1> QED BY <1>1, <1>2, <1>3, InductiveInvariant, PTL DEF Spec

=============================================================================
