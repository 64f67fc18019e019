---------------------------- MODULE PeerIO_proofs ----------------------------
(***************************************************************************)
(* Theorems about PeerIO, for all peers, frames, handlers and broken       *)
(* connections.  The mutex of a peer is held exactly while a write of its  *)
(* holder is under way because each send has one continuation at a time:   *)
(* one place in the queue, or one among the waiting writes, never both.    *)
(* On a wire, frames of one kind stand apart because a listener is in one  *)
(* place at a time too, and nothing is on a wire before its write starts.  *)
(***************************************************************************)
EXTENDS PeerIO, FiniteSetTheorems, TLAPS

\* Handlers with the writer that fits their kind.
GoodHandler ==
  {h \in Handler : /\ h.kind = "start" => h.who \in Message
                   /\ h.kind = "read" => h.who \in Frame
                   /\ h.kind \in {"wrote", "failed"} => h.who \in Writer
                   /\ h.kind = "closed" => h.who = None}

TypeInv == TypeOK /\ queue \in Seq(GoodHandler)

-----------------------------------------------------------------------------
(* Continuations of a send m to p, in a queue q and among waiting writes o *)

Continues(h, m, p) == h.kind \in {"wrote", "failed"} /\ h.who = m /\ h.peer = p

Comes(q, m, p) == \E i \in DOMAIN q : Continues(q[i], m, p)
Waits(o, m)    == \E i \in DOMAIN o : o[i] = m

Present(q, o, m, p) == Comes(q, m, p) \/ Waits(o, m)

Single(q, o, m, p) ==
  /\ \A i, j \in DOMAIN q :
       Continues(q[i], m, p) /\ Continues(q[j], m, p) => i = j
  /\ \A i, j \in DOMAIN o : o[i] = m /\ o[j] = m => i = j
  /\ ~(Comes(q, m, p) /\ Waits(o, m))

\* The mutex of p as to m.
Held(m, p) ==
  /\ Single(queue, ops[p], m, p)
  /\ holder[p] = m <=> Present(queue, ops[p], m, p)

HeldInv == ~undefined => \A p \in Peer, m \in Message : Held(m, p)

IInv == TypeInv /\ HeldInv

LEMMA SomethingUnderWay ==
  ASSUME NEW m, NEW p
  PROVE  UnderWay(m, p) <=> Present(queue, ops[p], m, p)
BY DEF UnderWay, Present, Comes, Waits, Continues

LEMMA EventGood ==
  ASSUME NEW p \in Peer
  PROVE  /\ \A w \in Writer : /\ Event("wrote", w, p) \in GoodHandler
                              /\ Event("failed", w, p) \in GoodHandler
         /\ \A m \in Message : Event("start", m, p) \in GoodHandler
         /\ \A f \in Frame : Event("read", f, p) \in GoodHandler
         /\ Event("closed", None, p) \in GoodHandler
BY DEF Event, GoodHandler, Handler, Writer

\* The head of the queue leaves it.
LEMMA TailKeeps ==
  ASSUME NEW q \in Seq(GoodHandler), q # <<>>, NEW o, NEW m, NEW p,
         Single(q, o, m, p)
  PROVE  /\ Single(Tail(q), o, m, p)
         /\ Present(Tail(q), o, m, p)
              <=> Present(q, o, m, p) /\ ~Continues(Head(q), m, p)
<1>1. /\ DOMAIN Tail(q) = 1 .. Len(q) - 1
      /\ DOMAIN q = 1 .. Len(q) /\ Len(q) \in Nat \ {0}
      /\ \A i \in DOMAIN Tail(q) : i + 1 \in DOMAIN q /\ Tail(q)[i] = q[i + 1]
      /\ Head(q) = q[1]
  OBVIOUS
<1>2. \A i \in DOMAIN q : i = 1 \/ i - 1 \in DOMAIN Tail(q)
  BY <1>1
<1>3. Comes(q, m, p) <=> Continues(Head(q), m, p) \/ Comes(Tail(q), m, p)
  <2>1. ASSUME Comes(q, m, p)
        PROVE  Continues(Head(q), m, p) \/ Comes(Tail(q), m, p)
    <3>1. PICK i \in DOMAIN q : Continues(q[i], m, p)
      BY <2>1 DEF Comes
    <3>2. CASE i = 1
      BY <3>1, <3>2, <1>1
    <3>3. CASE i - 1 \in DOMAIN Tail(q)
      <4>1. Tail(q)[i - 1] = q[i]
        BY <3>3, <1>1
      <4> QED BY <4>1, <3>1, <3>3 DEF Comes
    <3> QED BY <3>2, <3>3, <1>2
  <2>2. ASSUME Continues(Head(q), m, p) \/ Comes(Tail(q), m, p)
        PROVE  Comes(q, m, p)
    BY <2>2, <1>1 DEF Comes
  <2> QED BY <2>1, <2>2
<1>4. ASSUME Continues(Head(q), m, p)
      PROVE  ~Comes(Tail(q), m, p)
  BY <1>1, <1>4 DEF Comes, Single
<1>5. Single(Tail(q), o, m, p)
  BY <1>1, <1>3 DEF Single
<1>6. Continues(Head(q), m, p) => ~Waits(o, m)
  BY <1>3 DEF Single
<1> QED BY <1>3, <1>4, <1>5, <1>6 DEF Present

\* A handler joins the queue.
LEMMA AppendKeeps ==
  ASSUME NEW q \in Seq(GoodHandler), NEW h \in GoodHandler, NEW o, NEW m, NEW p,
         Single(q, o, m, p), Continues(h, m, p) => ~Present(q, o, m, p)
  PROVE  /\ Single(Append(q, h), o, m, p)
         /\ Present(Append(q, h), o, m, p)
              <=> Present(q, o, m, p) \/ Continues(h, m, p)
<1> DEFINE r == Append(q, h)
<1>1. /\ DOMAIN r = DOMAIN q \cup {Len(q) + 1} /\ r[Len(q) + 1] = h
      /\ \A i \in DOMAIN q : r[i] = q[i]
  OBVIOUS
<1> HIDE DEF r
<1>2. Comes(r, m, p) <=> Comes(q, m, p) \/ Continues(h, m, p)
  BY <1>1 DEF Comes
<1>3. Single(r, o, m, p)
  BY <1>1, <1>2 DEF Single, Present, Comes
<1> QED BY <1>2, <1>3 DEF Present, r

\* A write joins those that wait.
LEMMA WaitKeeps ==
  ASSUME NEW q, NEW o \in Seq(Writer), NEW w \in Writer, NEW m, NEW p,
         Single(q, o, m, p), m = w => ~Present(q, o, m, p)
  PROVE  /\ Single(q, Append(o, w), m, p)
         /\ Present(q, Append(o, w), m, p) <=> Present(q, o, m, p) \/ m = w
<1> DEFINE r == Append(o, w)
<1>1. /\ DOMAIN r = DOMAIN o \cup {Len(o) + 1} /\ r[Len(o) + 1] = w
      /\ \A i \in DOMAIN o : r[i] = o[i]
  OBVIOUS
<1> HIDE DEF r
<1>2. Waits(r, m) <=> Waits(o, m) \/ m = w
  BY <1>1 DEF Waits
<1>3. Single(q, r, m, p)
  BY <1>1, <1>2 DEF Single, Present, Waits
<1> QED BY <1>2, <1>3 DEF Present, r

-----------------------------------------------------------------------------
(* Writes *)

LEMMA WrittenType ==
  ASSUME TypeInv, NEW w, NEW p \in Peer
  PROVE  Written(w, p) \in Nat
<1> DEFINE S == {i \in DOMAIN wire[p] : wire[p][i] = w}
<1>1. wire[p] \in Seq(Writer)
  BY DEF TypeInv, TypeOK
<1>2. IsFiniteSet(1 .. Len(wire[p])) /\ S \subseteq 1 .. Len(wire[p])
  BY <1>1, FS_Interval
<1>3. IsFiniteSet(S)
  BY <1>2, FS_Subset
<1> QED BY <1>3, FS_CardinalityType DEF Written

LEMMA PutType ==
  ASSUME TypeInv, NEW w \in Writer, NEW p \in Peer,
         NEW k \in 1 .. Chunks - Written(w, p)
  PROVE  Put(w, p, k) \in [Peer -> Seq(Writer)]
<1>1. k \in Nat
  BY WrittenType, PeerIOAssumption
<1>2. [i \in 1 .. k |-> w] \in Seq(Writer)
  BY <1>1
<1>3. wire \in [Peer -> Seq(Writer)]
  BY DEF TypeInv, TypeOK
<1>4. wire[p] \o [i \in 1 .. k |-> w] \in Seq(Writer)
  BY <1>2, <1>3
<1> QED BY <1>3, <1>4 DEF Put

LEMMA WriteSomeType ==
  ASSUME TypeInv, NEW w \in Writer, NEW p \in Peer, NEW q \in Seq(GoodHandler),
         WriteSome(w, p, q)
  PROVE  /\ queue' \in Seq(GoodHandler)
         /\ ops' \in [Peer -> Seq(Writer)]
         /\ wire' \in [Peer -> Seq(Writer)]
<1>1. ops \in [Peer -> Seq(Writer)] /\ wire \in [Peer -> Seq(Writer)]
  BY DEF TypeInv, TypeOK
<1>2. Event("wrote", w, p) \in GoodHandler /\ Event("failed", w, p) \in GoodHandler
  BY EventGood
<1>3. CASE /\ \E k \in 1 .. Chunks - Written(w, p) : wire' = Put(w, p, k)
           /\ queue' = Append(q, Event("wrote", w, p))
           /\ UNCHANGED ops
  BY <1>1, <1>2, <1>3, PutType
<1>4. CASE /\ ops' = [ops EXCEPT ![p] = Append(@, w)]
           /\ queue' = q
           /\ UNCHANGED wire
  BY <1>1, <1>4
<1>5. CASE /\ queue' = Append(q, Event("failed", w, p))
           /\ UNCHANGED <<ops, wire>>
  BY <1>1, <1>2, <1>5
<1> QED BY <1>3, <1>4, <1>5 DEF WriteSome

LEMMA WriteSomeKeeps ==
  ASSUME TypeInv, NEW w \in Writer, NEW p \in Peer, NEW q \in Seq(GoodHandler),
         WriteSome(w, p, q), NEW m \in Message, NEW r \in Peer,
         Single(q, ops[r], m, r),
         m = w /\ r = p => ~Present(q, ops[r], m, r)
  PROVE  /\ Single(queue', ops'[r], m, r)
         /\ Present(queue', ops'[r], m, r)
              <=> Present(q, ops[r], m, r) \/ (m = w /\ r = p)
<1>1. ops \in [Peer -> Seq(Writer)]
  BY DEF TypeInv, TypeOK
<1>2. ASSUME NEW kind \in {"wrote", "failed"}
      PROVE  /\ Event(kind, w, p) \in GoodHandler
             /\ Continues(Event(kind, w, p), m, r) <=> m = w /\ r = p
  <2>1. Event(kind, w, p) \in GoodHandler
    BY <1>2, EventGood
  <2>2. Continues(Event(kind, w, p), m, r) <=> m = w /\ r = p
    BY <1>2 DEF Event, Continues
  <2> QED BY <2>1, <2>2
<1>3. CASE \E kind \in {"wrote", "failed"} : /\ queue' = Append(q, Event(kind, w, p))
                                             /\ UNCHANGED ops
  BY <1>2, <1>3, AppendKeeps
<1>4. CASE ops' = [ops EXCEPT ![p] = Append(@, w)] /\ queue' = q
  <2>1. CASE r = p
    <3>1. ops'[r] = Append(ops[r], w)
      BY <1>1, <1>4, <2>1
    <3> QED BY <1>1, <1>4, <2>1, <3>1, WaitKeeps
  <2>2. CASE r # p
    BY <1>1, <1>4, <2>2
  <2> QED BY <2>1, <2>2
<1> QED BY <1>3, <1>4 DEF WriteSome

-----------------------------------------------------------------------------
(* The actions *)

\* A handler is taken from the queue by the io thread.
LEMMA Taken ==
  ASSUME TypeInv, NEW kind, Takes(kind)
  PROVE  /\ ~undefined
         /\ queue # <<>>
         /\ Head(queue) \in GoodHandler
         /\ Head(queue).kind = kind
         /\ Tail(queue) \in Seq(GoodHandler)
BY DEF Takes, Free, TypeInv

\* Of a state where only the queue shrinks by a handler that ends no write of
\* a message, and where only the queue grows by one that is none either.
LEMMA HeldOnTail ==
  ASSUME TypeInv, HeldInv, queue # <<>>, queue' = Tail(queue),
         UNCHANGED <<ops, holder>>, undefined' = undefined,
         \A m \in Message, p \in Peer : ~Continues(Head(queue), m, p)
  PROVE  HeldInv'
<1> SUFFICES ASSUME ~undefined, NEW p \in Peer, NEW m \in Message
             PROVE  Held(m, p)'
  BY DEF HeldInv
<1>1. Held(m, p)
  BY DEF HeldInv
<1> QED BY <1>1, TailKeeps DEF Held, TypeInv

LEMMA HeldOnAppend ==
  ASSUME TypeInv, HeldInv, NEW h \in GoodHandler, queue' = Append(queue, h),
         UNCHANGED <<ops, holder>>, undefined' = undefined,
         \A m \in Message, p \in Peer : ~Continues(h, m, p)
  PROVE  HeldInv'
<1> SUFFICES ASSUME ~undefined, NEW p \in Peer, NEW m \in Message
             PROVE  Held(m, p)'
  BY DEF HeldInv
<1>1. Held(m, p)
  BY DEF HeldInv
<1> QED BY <1>1, AppendKeeps DEF Held, TypeInv

LEMMA HeldUnchanged ==
  ASSUME HeldInv, UNCHANGED <<queue, ops, holder, undefined>>
  PROVE  HeldInv'
BY DEF HeldInv, Held

\* async_send up to its first suspension, with q the rest of the queue.
LEMMA BeginKeeps ==
  ASSUME TypeInv, NEW n \in Message, NEW p \in Peer, NEW q \in Seq(GoodHandler),
         Begin(n, p, q), UNCHANGED undefined,
         \A r \in Peer, m \in Message :
           /\ Single(q, ops[r], m, r)
           /\ holder[r] = m <=> Present(q, ops[r], m, r)
  PROVE  /\ queue' \in Seq(GoodHandler)
         /\ ops' \in [Peer -> Seq(Writer)]
         /\ wire' \in [Peer -> Seq(Writer)]
         /\ holder' \in [Peer -> Message \cup {None}]
         /\ blocked' \in Send \cup {None}
         /\ HeldInv'
<1>1. /\ ops \in [Peer -> Seq(Writer)] /\ wire \in [Peer -> Seq(Writer)]
      /\ holder \in [Peer -> Message \cup {None}]
      /\ blocked \in Send \cup {None}
      /\ n \in Writer /\ n # None /\ None \notin Message
  BY PeerIOAssumption DEF TypeInv, TypeOK, Writer
<1>2. CASE /\ holder[p] = None
           /\ holder' = [holder EXCEPT ![p] = n]
           /\ WriteSome(n, p, q)
           /\ UNCHANGED blocked
  <2>1. ASSUME NEW r \in Peer, NEW m \in Message
        PROVE  Held(m, r)'
    <3>1. m = n /\ r = p => ~Present(q, ops[r], m, r)
      BY <1>1, <1>2
    <3>2. /\ Single(queue', ops'[r], m, r)
          /\ Present(queue', ops'[r], m, r)
               <=> Present(q, ops[r], m, r) \/ (m = n /\ r = p)
      BY <1>1, <1>2, <3>1, WriteSomeKeeps
    <3>3. holder'[r] = m <=> holder[r] = m \/ (m = n /\ r = p)
      BY <1>1, <1>2
    <3> QED BY <3>2, <3>3 DEF Held
  <2> QED BY <1>1, <1>2, <2>1, WriteSomeType DEF HeldInv
<1>3. CASE /\ blocked' = <<n, p>>
           /\ queue' = q
           /\ UNCHANGED <<holder, ops, wire>>
  BY <1>1, <1>3 DEF HeldInv, Held, Send
<1> QED BY <1>2, <1>3 DEF Begin

\* The end of async_send: the head of the queue is its last continuation.
LEMMA EndKeeps ==
  ASSUME TypeInv, HeldInv, ~undefined, queue # <<>>,
         Head(queue).kind \in {"wrote", "failed"}, Head(queue).who \in Message,
         Release(Head(queue).peer), queue' = Tail(queue),
         UNCHANGED <<ops, undefined>>
  PROVE  holder' \in [Peer -> Message \cup {None}] /\ HeldInv'
<1> DEFINE h == Head(queue)
<1>1. /\ h \in GoodHandler /\ h.peer \in Peer
      /\ holder \in [Peer -> Message \cup {None}]
      /\ holder' = [holder EXCEPT ![h.peer] = None]
      /\ None \notin Message
  BY PeerIOAssumption DEF TypeInv, TypeOK, GoodHandler, Handler, Release
<1>2. ASSUME NEW r \in Peer, NEW m \in Message
      PROVE  Held(m, r)'
  <2>1. Held(m, r) /\ Held(h.who, h.peer)
    BY <1>1 DEF HeldInv
  <2>2. /\ Single(Tail(queue), ops[r], m, r)
        /\ Present(Tail(queue), ops[r], m, r)
             <=> Present(queue, ops[r], m, r) /\ ~Continues(h, m, r)
    BY <2>1, TailKeeps DEF Held, TypeInv
  <2>3. Continues(h, m, r) <=> m = h.who /\ r = h.peer
    BY DEF Continues
  <2>4. holder[h.peer] = h.who
    <3>1. Continues(h, h.who, h.peer)
      BY DEF Continues
    <3>2. 1 \in DOMAIN queue /\ queue[1] = h
      BY DEF TypeInv
    <3> QED BY <2>1, <3>1, <3>2 DEF Held, Present, Comes
  <2>5. holder'[r] = m <=> holder[r] = m /\ r # h.peer
    BY <1>1
  <2>6. r = h.peer => (holder[r] = m <=> m = h.who)
    BY <2>4
  <2> QED BY <2>1, <2>2, <2>3, <2>5, <2>6 DEF Held
<1> QED BY <1>1, <1>2 DEF HeldInv
LEMMA InitInv == Init => IInv
<1> SUFFICES ASSUME Init PROVE IInv
  OBVIOUS
<1>1. TypeInv
  <2>1. queue \in Seq(GoodHandler) /\ queue \in Seq(Handler)
    BY DEF Init
  <2>2. /\ ops \in [Peer -> Seq(Writer)] /\ wire \in [Peer -> Seq(Writer)]
        /\ holder \in [Peer -> Message \cup {None}]
    BY DEF Init
  <2> QED BY <2>1, <2>2 DEF Init, TypeInv, TypeOK
<1>2. ASSUME NEW p \in Peer, NEW m \in Message
      PROVE  Held(m, p)
  BY PeerIOAssumption DEF Init, Held, Single, Present, Comes, Waits
<1> QED BY <1>1, <1>2 DEF IInv, HeldInv

\* What the io thread takes from its queue.
LEMMA IoTakesInv ==
  ASSUME IInv, \/ IoReads \/ IoStarts \/ IoWritesOn \/ IoEndsSend \/ IoEndsAnswer
               \/ IoSendFails \/ IoEndsListener \/ IoUsesDestroyed
  PROVE  IInv'
<1> DEFINE h == Head(queue)
<1> USE DEF IInv
<1>0. /\ TypeInv /\ HeldInv
      /\ Message \cap Frame = {} /\ None \notin Message \cup Frame
      /\ Says \in [Frame -> Seq(Send)]
  BY PeerIOAssumption
<1>1. CASE IoReads
  <2>1. h \in GoodHandler /\ h.kind = "read" /\ Tail(queue) \in Seq(GoodHandler)
    BY <1>0, <1>1, Taken DEF IoReads
  <2>2. h.who \in Frame
    BY <2>1 DEF GoodHandler
  <2>3. run' \in Turn
    BY <1>0, <1>1, <2>2 DEF IoReads, Turn
  <2>4. HeldInv'
    BY <1>0, <1>1, <2>1, HeldOnTail, Taken DEF IoReads, Continues
  <2> QED BY <1>0, <1>1, <2>1, <2>3, <2>4 DEF IoReads, TypeInv, TypeOK, GoodHandler
<1>2. CASE IoStarts
  <2>1. /\ h \in GoodHandler /\ h.kind = "start" /\ Tail(queue) \in Seq(GoodHandler)
        /\ ~undefined /\ queue # <<>>
    BY <1>0, <1>2, Taken DEF IoStarts
  <2>2. h.who \in Message /\ h.peer \in Peer
    BY <2>1 DEF GoodHandler, Handler
  <2>3. ASSUME NEW r \in Peer, NEW m \in Message
        PROVE  /\ Single(Tail(queue), ops[r], m, r)
               /\ holder[r] = m <=> Present(Tail(queue), ops[r], m, r)
    <3>1. Held(m, r) /\ ~Continues(h, m, r)
      BY <1>0, <2>1 DEF HeldInv, Continues
    <3> QED BY <2>1, <3>1, TailKeeps DEF Held, TypeInv
  <2>4. Begin(h.who, h.peer, Tail(queue)) /\ UNCHANGED <<run, undefined, open, listener, seen, calls>>
    BY <1>2 DEF IoStarts
  <2>5. /\ queue' \in Seq(GoodHandler)
        /\ ops' \in [Peer -> Seq(Writer)]
        /\ wire' \in [Peer -> Seq(Writer)]
        /\ holder' \in [Peer -> Message \cup {None}]
        /\ blocked' \in Send \cup {None}
        /\ HeldInv'
    BY <1>0, <2>1, <2>2, <2>3, <2>4, BeginKeeps
  <2> QED BY <1>0, <2>4, <2>5 DEF TypeInv, TypeOK, GoodHandler
<1>3. CASE IoWritesOn
  <2>1. /\ h \in GoodHandler /\ h.kind = "wrote" /\ Tail(queue) \in Seq(GoodHandler)
        /\ ~undefined /\ queue # <<>>
    BY <1>0, <1>3, Taken DEF IoWritesOn
  <2>2. h.who \in Writer /\ h.peer \in Peer
    BY <2>1 DEF GoodHandler, Handler
  <2>3. /\ WriteSome(h.who, h.peer, Tail(queue))
        /\ UNCHANGED <<run, blocked, undefined, holder, open, listener, seen, calls>>
    BY <1>3 DEF IoWritesOn
  <2>4. ASSUME NEW r \in Peer, NEW m \in Message
        PROVE  Held(m, r)'
    <3>1. Held(m, r)
      BY <1>0, <2>1 DEF HeldInv
    <3>2. /\ Single(Tail(queue), ops[r], m, r)
          /\ Present(Tail(queue), ops[r], m, r)
               <=> Present(queue, ops[r], m, r) /\ ~Continues(h, m, r)
      BY <2>1, <3>1, TailKeeps DEF Held, TypeInv
    <3>3. Continues(h, m, r) <=> m = h.who /\ r = h.peer
      BY <2>1 DEF Continues
    <3>4. Continues(h, m, r) => Present(queue, ops[r], m, r)
      <4>1. 1 \in DOMAIN queue /\ queue[1] = h
        BY <2>1, <1>0 DEF TypeInv
      <4> QED BY <4>1 DEF Present, Comes
    <3>5. m = h.who /\ r = h.peer => ~Present(Tail(queue), ops[r], m, r)
      BY <3>2, <3>3
    <3>6. /\ Single(queue', ops'[r], m, r)
          /\ Present(queue', ops'[r], m, r)
               <=> Present(Tail(queue), ops[r], m, r) \/ (m = h.who /\ r = h.peer)
      <4> DEFINE q == Tail(queue)
                 w == h.who
                 p == h.peer
      <4>1. /\ q \in Seq(GoodHandler) /\ w \in Writer /\ p \in Peer
            /\ WriteSome(w, p, q) /\ Single(q, ops[r], m, r)
            /\ m = w /\ r = p => ~Present(q, ops[r], m, r)
        BY <2>1, <2>2, <2>3, <3>2, <3>5
      <4> HIDE DEF q, w, p, h
      <4>2. /\ Single(queue', ops'[r], m, r)
            /\ Present(queue', ops'[r], m, r)
                 <=> Present(q, ops[r], m, r) \/ (m = w /\ r = p)
        BY <1>0, <4>1, WriteSomeKeeps
      <4> QED BY <4>2 DEF q, w, p
    <3> QED BY <2>3, <3>1, <3>2, <3>3, <3>4, <3>6 DEF Held
  <2>5. /\ queue' \in Seq(GoodHandler)
        /\ ops' \in [Peer -> Seq(Writer)]
        /\ wire' \in [Peer -> Seq(Writer)]
    BY <1>0, <2>1, <2>2, <2>3, WriteSomeType
  <2> QED BY <1>0, <2>3, <2>4, <2>5 DEF TypeInv, TypeOK, GoodHandler, HeldInv
<1>4. CASE IoEndsSend \/ IoSendFails
  <2>1. /\ ~undefined /\ queue # <<>> /\ Tail(queue) \in Seq(GoodHandler)
        /\ h.kind \in {"wrote", "failed"}
    BY <1>0, <1>4, Taken DEF IoEndsSend, IoSendFails
  <2>2. /\ h.who \in Message /\ Release(h.peer) /\ queue' = Tail(queue)
        /\ UNCHANGED <<run, blocked, undefined, ops, wire, open, listener, seen, calls>>
    BY <1>4 DEF IoEndsSend, IoSendFails
  <2>3. holder' \in [Peer -> Message \cup {None}] /\ HeldInv'
    BY <1>0, <2>1, <2>2, EndKeeps
  <2> QED BY <1>0, <2>1, <2>2, <2>3 DEF TypeInv, TypeOK, GoodHandler
<1>5. CASE IoEndsAnswer \/ IoEndsListener
  <2>1. /\ ~undefined /\ queue # <<>> /\ Tail(queue) \in Seq(GoodHandler)
        /\ h \in GoodHandler
    BY <1>0, <1>5, Taken DEF IoEndsAnswer, IoEndsListener
  <2>2. /\ h.who \notin Message /\ queue' = Tail(queue)
        /\ listener' \in [Peer -> {"reading", "busy", "ended"}]
        /\ UNCHANGED <<run, blocked, undefined, holder, ops, wire, open, seen, calls>>
    BY <1>0, <1>5 DEF IoEndsAnswer, IoEndsListener, TypeInv, TypeOK
  <2>3. HeldInv'
    BY <1>0, <2>1, <2>2, HeldOnTail DEF Continues
  <2> QED BY <1>0, <2>1, <2>2, <2>3 DEF TypeInv, TypeOK, GoodHandler
<1>6. CASE IoUsesDestroyed
  <2>1. Tail(queue) \in Seq(GoodHandler)
    BY <1>0, <1>6, Taken DEF IoUsesDestroyed
  <2> QED BY <1>0, <1>6, <2>1 DEF IoUsesDestroyed, TypeInv, TypeOK, GoodHandler, HeldInv
<1> QED BY <1>1, <1>2, <1>3, <1>4, <1>5, <1>6
\* The rest of listen()'s turn.
LEMMA HandlerInv ==
  ASSUME IInv, HandlerSends \/ HandlerAnswers \/ HandlerReturns
  PROVE  IInv'
<1> USE DEF IInv
<1>0. /\ TypeInv /\ HeldInv /\ ~undefined /\ run \in Turn
      /\ queue \in Seq(GoodHandler)
      /\ Message \cap Frame = {} /\ From \in [Frame -> Peer]
  BY PeerIOAssumption
     DEF HandlerSends, HandlerAnswers, HandlerReturns, Free, TypeInv, TypeOK
<1>1. CASE HandlerSends
  <2> DEFINE s == Head(run.todo)
  <2>1. /\ s \in Send /\ s[1] \in Message /\ s[2] \in Peer
        /\ run' \in Turn
    <3>1. run.todo \in Seq(Send) /\ run.todo # <<>>
      BY <1>0, <1>1 DEF HandlerSends, Turn
    <3>2. Tail(run.todo) \in Seq(Send) /\ s \in Send
      BY <3>1
    <3>3. s[1] \in Message /\ s[2] \in Peer
      BY <3>2 DEF Send
    <3>4. run' \in Turn
      BY <1>0, <1>1, <3>2 DEF HandlerSends, Turn
    <3> QED BY <3>2, <3>3, <3>4
  <2>2. UNCHANGED <<undefined, open, listener, seen, calls>>
    BY <1>1 DEF HandlerSends
  <2>3. CASE Begin(s[1], s[2], queue)
    <3>1. \A r \in Peer, m \in Message :
            /\ Single(queue, ops[r], m, r)
            /\ holder[r] = m <=> Present(queue, ops[r], m, r)
      BY <1>0 DEF HeldInv, Held
    <3>2. /\ queue' \in Seq(GoodHandler)
          /\ ops' \in [Peer -> Seq(Writer)]
          /\ wire' \in [Peer -> Seq(Writer)]
          /\ holder' \in [Peer -> Message \cup {None}]
          /\ blocked' \in Send \cup {None}
          /\ HeldInv'
      BY <1>0, <2>1, <2>2, <2>3, <3>1, BeginKeeps
    <3> QED BY <1>0, <2>1, <2>2, <3>2 DEF TypeInv, TypeOK, GoodHandler
  <2>4. CASE UNCHANGED <<queue, blocked, holder, ops, wire>>
    BY <1>0, <2>1, <2>2, <2>4, HeldUnchanged DEF TypeInv, TypeOK
  <2> QED BY <1>1, <2>3, <2>4 DEF HandlerSends
<1>2. CASE HandlerAnswers
  <2>1. /\ run.frame \in Frame /\ From[run.frame] \in Peer
        /\ run.frame \in Writer /\ run.frame \notin Message
    BY <1>0 DEF Turn, Writer
  <2>2. /\ WriteSome(run.frame, From[run.frame], queue)
        /\ run' = None
        /\ UNCHANGED <<blocked, undefined, holder, open, listener, seen, calls>>
    BY <1>2 DEF HandlerAnswers
  <2>3. ASSUME NEW r \in Peer, NEW m \in Message
        PROVE  Held(m, r)'
    <3>1. Held(m, r) /\ m # run.frame
      BY <1>0, <2>1 DEF HeldInv
    <3>2. /\ Single(queue', ops'[r], m, r)
          /\ Present(queue', ops'[r], m, r) <=> Present(queue, ops[r], m, r)
      BY <1>0, <2>1, <2>2, <3>1, WriteSomeKeeps DEF Held
    <3> QED BY <2>2, <3>1, <3>2 DEF Held
  <2>4. /\ queue' \in Seq(GoodHandler)
        /\ ops' \in [Peer -> Seq(Writer)]
        /\ wire' \in [Peer -> Seq(Writer)]
    BY <1>0, <2>1, <2>2, WriteSomeType
  <2> QED BY <1>0, <2>2, <2>3, <2>4 DEF TypeInv, TypeOK, GoodHandler, HeldInv
<1>3. CASE HandlerReturns
  <2>1. TypeInv'
    BY <1>0, <1>3 DEF HandlerReturns, TypeInv, TypeOK
  <2> QED BY <1>0, <1>3, <2>1, HeldUnchanged DEF HandlerReturns
<1> QED BY <1>1, <1>2, <1>3

\* The reactor resumes the write that waits first.
LEMMA SocketTakesInv ==
  ASSUME IInv, NEW p \in Peer, SocketTakes(p)
  PROVE  IInv'
<1> DEFINE w == Head(ops[p])
           e == Event("wrote", w, p)
<1>0. /\ TypeInv /\ HeldInv /\ ~undefined /\ queue \in Seq(GoodHandler)
      /\ ops \in [Peer -> Seq(Writer)] /\ ops[p] # <<>>
  BY DEF IInv, TypeInv, TypeOK, SocketTakes, Free
<1>1. /\ w \in Writer /\ Tail(ops[p]) \in Seq(Writer) /\ e \in GoodHandler
  BY <1>0, EventGood
<1>2. /\ queue' = Append(queue, e)
      /\ ops' = [ops EXCEPT ![p] = Tail(@)]
      /\ UNCHANGED <<run, blocked, undefined, holder, open, listener, seen, calls>>
  BY DEF SocketTakes
<1>3. wire' \in [Peer -> Seq(Writer)]
  BY <1>0, <1>1, PutType DEF SocketTakes
<1>4. ASSUME NEW r \in Peer, NEW m \in Message
      PROVE  Held(m, r)'
  <2>1. Held(m, r)
    BY <1>0 DEF HeldInv
  <2>2. Continues(e, m, r) <=> m = w /\ r = p
    BY DEF Continues, Event
  <2>3. CASE r # p
    <3>1. ops'[r] = ops[r]
      BY <1>0, <1>2, <2>3
    <3> QED BY <1>0, <1>1, <1>2, <2>1, <2>2, <2>3, <3>1, AppendKeeps DEF Held
  <2>4. CASE r = p
    <3> DEFINE o == ops[p]
    <3>1. /\ DOMAIN o = 1 .. Len(o) /\ Len(o) \in Nat \ {0} /\ w = o[1]
          /\ DOMAIN Tail(o) = 1 .. Len(o) - 1
          /\ \A i \in DOMAIN Tail(o) : i + 1 \in DOMAIN o /\ Tail(o)[i] = o[i + 1]
      BY <1>0
    <3>2. ops'[r] = Tail(o)
      BY <1>0, <1>2, <2>4
    <3>3. \A i \in DOMAIN o : i = 1 \/ (i - 1 \in DOMAIN Tail(o) /\ Tail(o)[i - 1] = o[i])
      BY <3>1
    <3> HIDE DEF o
    <3>4. Waits(o, m) <=> m = w \/ Waits(Tail(o), m)
      <4>1. ASSUME Waits(o, m) PROVE m = w \/ Waits(Tail(o), m)
        BY <3>1, <3>3, <4>1 DEF Waits
      <4>2. ASSUME m = w \/ Waits(Tail(o), m) PROVE Waits(o, m)
        BY <3>1, <4>2 DEF Waits
      <4> QED BY <4>1, <4>2
    <3>5. Single(queue, o, m, r)
      BY <2>1, <2>4 DEF Held, o
    <3>6. m = w => ~Waits(Tail(o), m)
      BY <3>1, <3>5 DEF Waits, Single
    <3>7. Single(queue, Tail(o), m, r)
      BY <3>1, <3>4, <3>5 DEF Single
    <3>8. m = w => ~Present(queue, Tail(o), m, r)
      BY <3>4, <3>5, <3>6 DEF Present, Single
    <3>9. /\ Single(queue', Tail(o), m, r)
          /\ Present(queue', Tail(o), m, r) <=> Present(queue, Tail(o), m, r) \/ m = w
      BY <1>0, <1>1, <1>2, <2>2, <2>4, <3>7, <3>8, AppendKeeps
    <3>10. Present(queue, o, m, r) <=> Present(queue, Tail(o), m, r) \/ m = w
      BY <3>4 DEF Present
    <3> QED BY <1>2, <2>1, <2>4, <3>2, <3>9, <3>10 DEF Held, o
  <2> QED BY <2>3, <2>4
<1>5. ops' \in [Peer -> Seq(Writer)] /\ queue' \in Seq(GoodHandler)
  BY <1>0, <1>1, <1>2
<1>6. HeldInv'
  BY <1>2, <1>4 DEF HeldInv
<1>7. TypeInv'
  BY <1>0, <1>2, <1>3, <1>5 DEF TypeInv, TypeOK, GoodHandler
<1> QED BY <1>6, <1>7 DEF IInv
\* Handlers join the queue, none of them a continuation of m to p ...
LEMMA ConcatKeeps ==
  ASSUME NEW q \in Seq(GoodHandler), NEW e \in Seq(GoodHandler), NEW o, NEW m,
         NEW p, Single(q, o, m, p), ~Comes(e, m, p)
  PROVE  /\ Single(q \o e, o, m, p)
         /\ Present(q \o e, o, m, p) <=> Present(q, o, m, p)
<1> DEFINE r == q \o e
<1>1. /\ \A i \in DOMAIN q : i \in DOMAIN r /\ r[i] = q[i]
      /\ \A i \in DOMAIN r : \/ i \in DOMAIN q
                             \/ i - Len(q) \in DOMAIN e /\ r[i] = e[i - Len(q)]
  OBVIOUS
<1> HIDE DEF r
<1>2. \A i \in DOMAIN r : Continues(r[i], m, p) => i \in DOMAIN q /\ r[i] = q[i]
  BY <1>1 DEF Comes
<1>3. Comes(r, m, p) <=> Comes(q, m, p)
  BY <1>1, <1>2 DEF Comes
<1>4. Single(r, o, m, p)
  BY <1>2, <1>3 DEF Single
<1> QED BY <1>3, <1>4 DEF Present, r

\* ... or the failures of all the writes to p that wait.
LEMMA FailuresKeep ==
  ASSUME NEW q \in Seq(GoodHandler), NEW o \in Seq(Writer), NEW m, NEW p \in Peer,
         Single(q, o, m, p)
  PROVE  LET e == [i \in DOMAIN o |-> Event("failed", o[i], p)]
         IN  /\ Single(q \o e, <<>>, m, p)
             /\ Present(q \o e, <<>>, m, p) <=> Present(q, o, m, p)
<1> DEFINE e == [i \in DOMAIN o |-> Event("failed", o[i], p)]
           r == q \o e
<1>1. e \in Seq(GoodHandler) /\ DOMAIN e = DOMAIN o
  BY EventGood
<1>2. \A i \in DOMAIN o : Continues(e[i], m, p) <=> o[i] = m
  BY DEF Continues, Event
<1> HIDE DEF e
<1>3. /\ \A i \in DOMAIN q : i \in DOMAIN r /\ r[i] = q[i]
      /\ \A i \in DOMAIN r : \/ i \in DOMAIN q
                             \/ /\ i \in Int /\ i > Len(q)
                                /\ i - Len(q) \in DOMAIN e
                                /\ r[i] = e[i - Len(q)]
      /\ \A i \in DOMAIN e : i + Len(q) \in DOMAIN r /\ r[i + Len(q)] = e[i]
      /\ Len(q) \in Nat /\ DOMAIN q = 1 .. Len(q)
  BY <1>1
<1> HIDE DEF r
<1>4. Comes(r, m, p) <=> Comes(q, m, p) \/ Waits(o, m)
  <2>1. ASSUME Comes(r, m, p) PROVE Comes(q, m, p) \/ Waits(o, m)
    BY <1>1, <1>2, <1>3, <2>1 DEF Comes, Waits
  <2>2. ASSUME Comes(q, m, p) \/ Waits(o, m) PROVE Comes(r, m, p)
    BY <1>1, <1>2, <1>3, <2>2 DEF Comes, Waits
  <2> QED BY <2>1, <2>2
<1>5. ASSUME NEW i \in DOMAIN r, NEW j \in DOMAIN r,
             Continues(r[i], m, p), Continues(r[j], m, p)
      PROVE  i = j
  <2>1. CASE i \in DOMAIN q /\ j \in DOMAIN q
    BY <1>3, <1>5, <2>1 DEF Single
  <2>2. CASE i \notin DOMAIN q /\ j \notin DOMAIN q
    <3>1. /\ i - Len(q) \in DOMAIN o /\ o[i - Len(q)] = m
          /\ j - Len(q) \in DOMAIN o /\ o[j - Len(q)] = m
          /\ i \in Int /\ j \in Int
      BY <1>1, <1>2, <1>3, <1>5, <2>2
    <3>2. i - Len(q) = j - Len(q)
      BY <3>1 DEF Single
    <3> QED BY <1>3, <3>1, <3>2
  <2>3. CASE (i \in DOMAIN q) # (j \in DOMAIN q)
    BY <1>1, <1>2, <1>3, <1>5, <2>3 DEF Single, Comes, Waits
  <2> QED BY <2>1, <2>2, <2>3
<1>6. Single(r, <<>>, m, p)
  BY <1>5 DEF Single, Waits
<1>7. ~Waits(<<>>, m)
  BY DEF Waits
<1> QED BY <1>4, <1>6, <1>7 DEF Present, r, e

\* The main thread and the other ends.
LEMMA MainBroadcastsInv ==
  ASSUME IInv, NEW n \in Message, MainBroadcasts(n)
  PROVE  IInv'
<1>0. TypeInv /\ HeldInv /\ ~undefined /\ queue \in Seq(GoodHandler)
  BY DEF IInv, TypeInv, MainBroadcasts
<1>1. PICK o \in TableOrder :
        queue' = queue \o [i \in DOMAIN o |-> Event("start", n, o[i])]
  BY DEF MainBroadcasts
<1> DEFINE e == [i \in DOMAIN o |-> Event("start", n, o[i])]
<1>2. e \in Seq(GoodHandler)
  <2>1. o \in [1 .. Cardinality({p \in Peer : Kept(p)}) -> Peer]
    BY DEF TableOrder
  <2>2. \A i \in DOMAIN o : Event("start", n, o[i]) \in GoodHandler
    BY <2>1, EventGood
  <2>3. Cardinality({p \in Peer : Kept(p)}) \in Nat
    BY PeerIOAssumption, FS_Subset, FS_CardinalityType
  <2> QED BY <2>1, <2>2, <2>3
<1>3. ASSUME NEW r \in Peer, NEW m \in Message
      PROVE  Held(m, r)'
  <2>1. Held(m, r)
    BY <1>0 DEF HeldInv
  <2>2. ~Comes(e, m, r)
    BY DEF Comes, Continues, Event
  <2> QED BY <1>0, <1>1, <1>2, <2>1, <2>2, ConcatKeeps DEF Held, MainBroadcasts
<1>4. queue' \in Seq(GoodHandler)
  BY <1>0, <1>1, <1>2
<1>5. TypeInv'
  BY <1>0, <1>4 DEF MainBroadcasts, TypeInv, TypeOK, GoodHandler
<1> QED BY <1>3, <1>5 DEF IInv, HeldInv
LEMMA ArrivesInv ==
  ASSUME IInv, NEW f \in Frame, Arrives(f)
  PROVE  IInv'
<1> DEFINE e == Event("read", f, From[f])
<1>1. /\ TypeInv /\ HeldInv /\ queue \in Seq(GoodHandler)
      /\ From[f] \in Peer /\ e \in GoodHandler
  BY PeerIOAssumption, EventGood DEF IInv, TypeInv
<1>2. HeldInv'
  BY <1>1, HeldOnAppend DEF Arrives, Continues, Event
<1>3. queue' \in Seq(GoodHandler)
  BY <1>1 DEF Arrives
<1>4. TypeInv'
  BY <1>1, <1>3 DEF Arrives, TypeInv, TypeOK, GoodHandler
<1> QED BY <1>2, <1>4 DEF IInv

LEMMA ClosesInv ==
  ASSUME IInv, NEW p \in Peer, Closes(p)
  PROVE  IInv'
<1> DEFINE e == Event("closed", None, p)
<1>1. /\ TypeInv /\ HeldInv /\ queue \in Seq(GoodHandler)
      /\ e \in GoodHandler
  BY EventGood DEF IInv, TypeInv
<1>2. HeldInv'
  BY <1>1, HeldOnAppend DEF Closes, Continues, Event
<1>3. queue' \in Seq(GoodHandler)
  BY <1>1 DEF Closes
<1>4. TypeInv'
  BY <1>1, <1>3 DEF Closes, TypeInv, TypeOK, GoodHandler
<1> QED BY <1>2, <1>4 DEF IInv

LEMMA BreaksInv ==
  ASSUME IInv, NEW p \in Peer, Breaks(p)
  PROVE  IInv'
<1> DEFINE o == ops[p]
           e == [i \in DOMAIN o |-> Event("failed", o[i], p)]
<1>1. /\ TypeInv /\ HeldInv /\ ~undefined /\ queue \in Seq(GoodHandler)
      /\ ops \in [Peer -> Seq(Writer)] /\ o \in Seq(Writer)
  BY DEF IInv, TypeInv, TypeOK, Breaks
<1>2. /\ queue' = queue \o e
      /\ ops' = [ops EXCEPT ![p] = <<>>]
      /\ UNCHANGED <<run, blocked, undefined, holder, wire, listener, seen, calls>>
  BY DEF Breaks
<1>3. e \in Seq(GoodHandler)
  BY <1>1, EventGood
<1>4. ASSUME NEW r \in Peer, NEW m \in Message
      PROVE  Held(m, r)'
  <2>1. Held(m, r)
    BY <1>1 DEF HeldInv
  <2>2. CASE r = p
    <3>1. Single(queue, o, m, p)
      BY <2>1, <2>2 DEF Held
    <3> HIDE DEF o
    <3>2. Single(queue', <<>>, m, p)
          /\ (Present(queue', <<>>, m, p) <=> Present(queue, o, m, p))
      BY <1>1, <1>2, <3>1, FailuresKeep
    <3>3. ops'[r] = <<>>
      BY <1>1, <1>2, <2>2
    <3> QED BY <1>2, <2>1, <2>2, <3>2, <3>3 DEF Held, o
  <2>3. CASE r # p
    <3>1. ops'[r] = ops[r]
      BY <1>1, <1>2, <2>3
    <3>2. ~Comes(e, m, r)
      BY <2>3 DEF Comes, Continues, Event
    <3> QED BY <1>1, <1>2, <1>3, <2>1, <3>1, <3>2, ConcatKeeps DEF Held
  <2> QED BY <2>2, <2>3
<1>5. queue' \in Seq(GoodHandler) /\ ops' \in [Peer -> Seq(Writer)]
  BY <1>1, <1>2, <1>3
<1>6. TypeInv'
  BY <1>1, <1>2, <1>5 DEF Breaks, TypeInv, TypeOK, GoodHandler
<1> QED BY <1>4, <1>6 DEF IInv, HeldInv

LEMMA NextInv == IInv /\ [Next]_vars => IInv'
<1> SUFFICES ASSUME IInv, [Next]_vars PROVE IInv'
  OBVIOUS
<1>1. CASE IoThread
  BY <1>1, IoTakesInv, HandlerInv DEF IoThread
<1>2. ASSUME NEW p \in Peer, SocketTakes(p) \/ Breaks(p) \/ Closes(p)
      PROVE  IInv'
  BY <1>2, SocketTakesInv, BreaksInv, ClosesInv
<1>3. ASSUME NEW n \in Message, MainBroadcasts(n)
      PROVE  IInv'
  BY <1>3, MainBroadcastsInv
<1>4. ASSUME NEW f \in Frame, Arrives(f)
      PROVE  IInv'
  BY <1>4, ArrivesInv
<1>5. CASE UNCHANGED vars
  BY <1>5 DEF vars, IInv, TypeInv, TypeOK, HeldInv, Held
<1> QED BY <1>1, <1>2, <1>3, <1>4, <1>5 DEF Next

THEOREM InductiveInvariant == Spec => []IInv
BY InitInv, NextInv, PTL DEF Spec

\* Types, for every number of peers, frames and messages.
THEOREM TypeCorrect == Spec => []TypeOK
<1>1. IInv => TypeOK
  BY DEF IInv, TypeInv
<1> QED BY <1>1, InductiveInvariant, PTL

\* _socket_mu of a peer is held by the async_send whose write is under way,
\* and by nobody when there is none, whatever fails or is resumed in between.
THEOREM MutexHeldWhileWriting == Spec => []HeldWhileWriting
<1>1. IInv => HeldWhileWriting
  BY SomethingUnderWay DEF IInv, HeldInv, Held, HeldWhileWriting
<1> QED BY <1>1, InductiveInvariant, PTL
-----------------------------------------------------------------------------
(* What stands on the wires                                                  *)
(*                                                                           *)
(* Each peer's listener is in one place at a time: a handler in the queue, a *)
(* waiting answer or the turn of the io thread.  So is each send that is     *)
(* still to start, and nothing of it has been written.                       *)

Some(q, H) == \E i \in DOMAIN q : q[i] \in H
Once(q, H) == \A i, j \in DOMAIN q : q[i] \in H /\ q[j] \in H => i = j

\* Members of H in the queue q, members of W among the writes o that wait.
Either(q, o, H, W)     == Some(q, H) \/ Some(o, W)
AtMostOnce(q, o, H, W) == Once(q, H) /\ Once(o, W) /\ ~(Some(q, H) /\ Some(o, W))

\* The handlers of a listener, of a write, of a start, of a read, and all that
\* name a frame.
OfListener(p) ==
  {h \in GoodHandler : /\ h.peer = p
                       /\ \/ h.kind \in {"read", "closed"}
                          \/ h.kind \in {"wrote", "failed"} /\ h.who \in Frame}
OfWrite(w, p) == {Event("wrote", w, p), Event("failed", w, p)}
OfStart(m, p) == {Event("start", m, p)}
OfRead(f)     == {Event("read", f, From[f])}
Naming(f, p)  == {h \in GoodHandler : h.who = f /\ h.peer = p}

\* The answer to f is being written to p.
Writing(f, p) == Either(queue, ops[p], OfWrite(f, p), {f})

\* p's listener has its turn.
Turns(p) == run # None /\ From[run.frame] = p

ListenerInv ==
  \A p \in Peer :
    LET there == Either(queue, ops[p], OfListener(p), Frame)
    IN  /\ AtMostOnce(queue, ops[p], OfListener(p), Frame)
        /\ ~(there /\ Turns(p))
        /\ there \/ Turns(p) => listener[p] = "busy"

PlacesInv ==
  \A f \in Frame, p \in Peer :
    Either(queue, ops[p], Naming(f, p), {f}) => p = From[f] /\ f \in seen

\* todo is what is left of what the handler of frame f sends.
IsRest(todo, f) ==
  \E k \in Nat : /\ Len(todo) + k = Len(Says[f])
                 /\ \A i \in DOMAIN todo : todo[i] = Says[f][i + k]

RunFits == run # None => run.frame \in seen /\ IsRest(run.todo, run.frame)

StartsInv ==
  \A m \in Message, p \in Peer :
    /\ Once(queue, OfStart(m, p))
    /\ Some(queue, OfStart(m, p)) => m \in MainCalls /\ m \notin calls

Unread(f)    == f \notin seen \/ Some(queue, OfRead(f))
Unwritten(f) == Unread(f) \/ (run # None /\ run.frame = f)

\* m is still to be sent to p.
Todo(m, p) ==
  \/ m \in calls
  \/ Some(queue, OfStart(m, p))
  \/ run # None /\ Some(run.todo, {<<m, p>>})
  \/ \E f \in Frame : Unread(f) /\ Some(Says[f], {<<m, p>>})

FreshInv ==
  /\ \A f \in Frame, p \in Peer : Unwritten(f) => ~Some(wire[p], {f})
  /\ \A m \in Message, p \in Peer :
       Todo(m, p) => ~Some(wire[p], {m}) /\ holder[p] # m

Alike(v, w) == v \in Frame <=> w \in Frame

Apart(s) ==
  \A i, j, k \in DOMAIN s :
    i < j /\ j < k /\ s[i] = s[k] /\ Alike(s[j], s[i]) => s[j] = s[i]

\* Nothing like w follows w.
Uncut(w, s) ==
  \A i, j \in DOMAIN s : i < j /\ s[i] = w /\ Alike(s[j], w) => s[j] = w

CutsInv ==
  /\ \A p \in Peer : Apart(wire[p])
  /\ \A p \in Peer, m \in Message : holder[p] = m => Uncut(m, wire[p])
  /\ \A p \in Peer, f \in Frame : Writing(f, p) => Uncut(f, wire[p])

WireInv == ListenerInv /\ PlacesInv /\ RunFits /\ StartsInv /\ FreshInv /\ CutsInv

-----------------------------------------------------------------------------
(* Sequences *)

LEMMA SomeTail ==
  ASSUME NEW S, NEW q \in Seq(S), q # <<>>, NEW H
  PROVE  /\ Some(q, H) <=> Head(q) \in H \/ Some(Tail(q), H)
         /\ Once(q, H) => Once(Tail(q), H) /\ ~(Head(q) \in H /\ Some(Tail(q), H))
<1> DEFINE t == Tail(q)
<1>1. /\ DOMAIN t = 1 .. Len(q) - 1
      /\ DOMAIN q = 1 .. Len(q) /\ Len(q) \in Nat \ {0}
      /\ \A i \in DOMAIN t : i + 1 \in DOMAIN q /\ t[i] = q[i + 1]
      /\ Head(q) = q[1]
  OBVIOUS
<1>2. \A i \in DOMAIN q : i = 1 \/ (i - 1 \in DOMAIN t /\ t[i - 1] = q[i])
  BY <1>1
<1> HIDE DEF t
<1>3. Some(q, H) => Head(q) \in H \/ Some(t, H)
  BY <1>1, <1>2 DEF Some
<1>4. Head(q) \in H \/ Some(t, H) => Some(q, H)
  BY <1>1 DEF Some
<1>5. ASSUME Once(q, H)
      PROVE  Once(t, H) /\ ~(Head(q) \in H /\ Some(t, H))
  <2>1. Once(t, H)
    <3> SUFFICES ASSUME NEW i \in DOMAIN t, NEW j \in DOMAIN t, t[i] \in H, t[j] \in H
                 PROVE  i = j
      BY DEF Once
    <3>1. i + 1 = j + 1
      BY <1>1, <1>5 DEF Once
    <3> QED BY <1>1, <3>1
  <2>2. ASSUME Head(q) \in H, NEW i \in DOMAIN t, t[i] \in H
        PROVE  FALSE
    <3>1. i + 1 = 1
      BY <1>1, <1>5, <2>2 DEF Once
    <3> QED BY <1>1, <3>1
  <2> QED BY <2>1, <2>2 DEF Some
<1> QED BY <1>3, <1>4, <1>5 DEF t

LEMMA SomeAppend ==
  ASSUME NEW S, NEW q \in Seq(S), NEW h \in S, NEW H
  PROVE  /\ Some(Append(q, h), H) <=> Some(q, H) \/ h \in H
         /\ Once(q, H) /\ ~(h \in H /\ Some(q, H)) => Once(Append(q, h), H)
<1> DEFINE r == Append(q, h)
<1>1. /\ DOMAIN r = DOMAIN q \cup {Len(q) + 1} /\ r[Len(q) + 1] = h
      /\ \A i \in DOMAIN q : r[i] = q[i]
  OBVIOUS
<1> HIDE DEF r
<1>2. Some(r, H) <=> Some(q, H) \/ h \in H
  BY <1>1 DEF Some
<1>3. Once(q, H) /\ ~(h \in H /\ Some(q, H)) => Once(r, H)
  BY <1>1 DEF Some, Once
<1> QED BY <1>2, <1>3 DEF r

LEMMA SomeConcat ==
  ASSUME NEW S, NEW q \in Seq(S), NEW e \in Seq(S), NEW H
  PROVE  /\ Some(q \o e, H) <=> Some(q, H) \/ Some(e, H)
         /\ Once(q, H) /\ Once(e, H) /\ ~(Some(q, H) /\ Some(e, H)) => Once(q \o e, H)
<1> DEFINE r == q \o e
<1>1. /\ \A i \in DOMAIN q : i \in DOMAIN r /\ r[i] = q[i]
      /\ \A i \in DOMAIN r : \/ i \in DOMAIN q
                             \/ /\ i \in Int
                                /\ i - Len(q) \in DOMAIN e
                                /\ r[i] = e[i - Len(q)]
      /\ \A i \in DOMAIN e : i + Len(q) \in DOMAIN r /\ r[i + Len(q)] = e[i]
      /\ Len(q) \in Nat
  OBVIOUS
<1> HIDE DEF r
<1>2. Some(r, H) => Some(q, H) \/ Some(e, H)
  BY <1>1 DEF Some
<1>3. Some(q, H) \/ Some(e, H) => Some(r, H)
  BY <1>1 DEF Some
<1>4. ASSUME Once(q, H), Once(e, H), ~(Some(q, H) /\ Some(e, H)),
             NEW i \in DOMAIN r, NEW j \in DOMAIN r, r[i] \in H, r[j] \in H
      PROVE  i = j
  <2>1. CASE i \in DOMAIN q /\ j \in DOMAIN q
    BY <1>1, <1>4, <2>1 DEF Once
  <2>2. CASE i \notin DOMAIN q /\ j \notin DOMAIN q
    <3>1. /\ i \in Int /\ i - Len(q) \in DOMAIN e /\ e[i - Len(q)] \in H
          /\ j \in Int /\ j - Len(q) \in DOMAIN e /\ e[j - Len(q)] \in H
      BY <1>1, <1>4, <2>2
    <3>2. i - Len(q) = j - Len(q)
      BY <1>4, <3>1 DEF Once
    <3> QED BY <1>1, <3>1, <3>2
  <2>3. CASE (i \in DOMAIN q) # (j \in DOMAIN q)
    BY <1>1, <1>4, <2>3 DEF Some
  <2> QED BY <2>1, <2>2, <2>3
<1> QED BY <1>2, <1>3, <1>4 DEF Once, r

\* What a write adds to the wire.
LEMMA PutParts ==
  ASSUME TypeInv, NEW w \in Writer, NEW p \in Peer, NEW k \in Nat, wire' = Put(w, p, k)
  PROVE  /\ \A r \in Peer : r # p => wire'[r] = wire[r]
         /\ \A i \in DOMAIN wire[p] : i \in DOMAIN wire'[p] /\ wire'[p][i] = wire[p][i]
         /\ \A i \in DOMAIN wire'[p] :
              \/ i \in DOMAIN wire[p]
              \/ i > Len(wire[p]) /\ wire'[p][i] = w
         /\ DOMAIN wire[p] = 1 .. Len(wire[p]) /\ Len(wire[p]) \in Nat
         /\ DOMAIN wire'[p] \subseteq Nat
<1> DEFINE s == wire[p]
           e == [i \in 1 .. k |-> w]
<1>1. s \in Seq(Writer) /\ wire \in [Peer -> Seq(Writer)]
  BY DEF TypeInv, TypeOK
<1>2. e \in Seq(Writer) /\ \A i \in DOMAIN e : e[i] = w
  OBVIOUS
<1>3. wire'[p] = s \o e /\ \A r \in Peer : r # p => wire'[r] = wire[r]
  BY <1>1 DEF Put
<1> HIDE DEF s, e
<1>4. /\ \A i \in DOMAIN s : i \in DOMAIN (s \o e) /\ (s \o e)[i] = s[i]
      /\ \A i \in DOMAIN (s \o e) : \/ i \in DOMAIN s
                                    \/ i > Len(s) /\ i - Len(s) \in DOMAIN e
                                       /\ (s \o e)[i] = e[i - Len(s)]
      /\ DOMAIN s = 1 .. Len(s) /\ Len(s) \in Nat /\ DOMAIN (s \o e) \subseteq Nat
  BY <1>1, <1>2
<1> QED BY <1>2, <1>3, <1>4 DEF s

LEMMA PutCuts ==
  ASSUME TypeInv, NEW w \in Writer, NEW p \in Peer, NEW k \in Nat, wire' = Put(w, p, k),
         Apart(wire[p]), Uncut(w, wire[p])
  PROVE  /\ Apart(wire'[p]) /\ Uncut(w, wire'[p])
         /\ \A v : ~Alike(v, w) /\ Uncut(v, wire[p]) => Uncut(v, wire'[p])
         /\ \A v : v # w /\ ~Some(wire[p], {v}) => ~Some(wire'[p], {v})
<1> DEFINE s == wire[p]
           t == wire'[p]
<1>1. /\ \A i \in DOMAIN s : i \in DOMAIN t /\ t[i] = s[i]
      /\ \A i \in DOMAIN t : i \in DOMAIN s \/ (i > Len(s) /\ t[i] = w)
      /\ DOMAIN s = 1 .. Len(s) /\ Len(s) \in Nat /\ DOMAIN t \subseteq Nat
  BY PutParts
<1>2. Apart(s) /\ Uncut(w, s)
  OBVIOUS
<1> HIDE DEF s, t
<1>3. \A i, j \in DOMAIN t : i < j /\ j \in DOMAIN s => i \in DOMAIN s
  <2> SUFFICES ASSUME NEW i \in DOMAIN t, NEW j \in DOMAIN t, i < j, j \in DOMAIN s,
                      i > Len(s)
               PROVE  FALSE
    BY <1>1
  <2>1. i \in Nat /\ j \in Nat /\ j <= Len(s)
    BY <1>1
  <2> QED BY <1>1, <2>1
<1>4. Uncut(w, t)
  BY <1>1, <1>2, <1>3 DEF Uncut
<1>5. Apart(t)
  <2> SUFFICES ASSUME NEW i \in DOMAIN t, NEW j \in DOMAIN t, NEW l \in DOMAIN t,
                      i < j, j < l, t[i] = t[l], Alike(t[j], t[i])
               PROVE  t[j] = t[i]
    BY DEF Apart
  <2>1. CASE l \in DOMAIN s
    BY <1>1, <1>2, <1>3, <2>1 DEF Apart
  <2>2. CASE l \notin DOMAIN s
    <3>1. t[i] = w
      BY <1>1, <2>2
    <3> QED BY <1>4, <3>1 DEF Uncut
  <2> QED BY <2>1, <2>2
<1>6. ASSUME NEW v, ~Alike(v, w), Uncut(v, s)
      PROVE  Uncut(v, t)
  <2> SUFFICES ASSUME NEW i \in DOMAIN t, NEW j \in DOMAIN t, i < j, t[i] = v,
                      Alike(t[j], v)
               PROVE  t[j] = v
    BY DEF Uncut
  <2>1. j \in DOMAIN s
    BY <1>1, <1>6 DEF Alike
  <2>2. i \in DOMAIN s
    BY <1>3, <2>1
  <2> QED BY <1>1, <1>6, <2>1, <2>2 DEF Uncut
<1>7. \A v : v # w /\ ~Some(s, {v}) => ~Some(t, {v})
  BY <1>1 DEF Some
<1> QED BY <1>4, <1>5, <1>6, <1>7 DEF s, t

-----------------------------------------------------------------------------
(* Places of the queue and among the waiting writes *)

\* H and W show the writes of members of W to r, and no other write.
Sees(r, H, W) ==
  \A kind \in {"wrote", "failed"}, w \in Writer, p \in Peer :
    Event(kind, w, p) \in H <=> p = r /\ w \in W

LEMMA Views ==
  ASSUME NEW r \in Peer
  PROVE  /\ Sees(r, OfListener(r), Frame)
         /\ \A f \in Frame : /\ Sees(r, Naming(f, r), {f})
                             /\ Sees(r, OfWrite(f, r), {f})
                             /\ Sees(r, OfRead(f), {})
         /\ \A m \in Message : Sees(r, OfStart(m, r), {})
<1>1. ASSUME NEW kind \in {"wrote", "failed"}, NEW w \in Writer, NEW p \in Peer
      PROVE  /\ Event(kind, w, p) \in OfListener(r) <=> p = r /\ w \in Frame
             /\ \A f \in Frame : Event(kind, w, p) \in Naming(f, r) <=> p = r /\ w \in {f}
             /\ \A f \in Frame : Event(kind, w, p) \in OfWrite(f, r) <=> p = r /\ w \in {f}
             /\ \A f \in Frame : Event(kind, w, p) \notin OfRead(f)
             /\ \A m \in Message : Event(kind, w, p) \notin OfStart(m, r)
  <2> DEFINE e == Event(kind, w, p)
  <2>1. e \in GoodHandler /\ e.kind = kind /\ e.who = w /\ e.peer = p
    BY <1>1, EventGood DEF Event
  <2>2. \A f \in Frame : e \in OfWrite(f, r) <=> p = r /\ w \in {f}
    BY <1>1 DEF OfWrite, Event
  <2>3. /\ \A f \in Frame : e \notin OfRead(f)
        /\ \A m \in Message : e \notin OfStart(m, r)
    BY <1>1 DEF OfRead, OfStart, Event
  <2> HIDE DEF e
  <2>4. /\ e \in OfListener(r) <=> p = r /\ w \in Frame
        /\ \A f \in Frame : e \in Naming(f, r) <=> p = r /\ w \in {f}
    BY <1>1, <2>1 DEF OfListener, Naming
  <2> QED BY <2>2, <2>3, <2>4 DEF e
<1>2. Sees(r, OfListener(r), Frame)
  BY <1>1 DEF Sees
<1>3. ASSUME NEW f \in Frame
      PROVE  Sees(r, Naming(f, r), {f}) /\ Sees(r, OfWrite(f, r), {f})
  BY <1>1 DEF Sees
<1>4. ASSUME NEW f \in Frame
      PROVE  Sees(r, OfRead(f), {})
  BY <1>1 DEF Sees
<1>5. ASSUME NEW m \in Message
      PROVE  Sees(r, OfStart(m, r), {})
  BY <1>1 DEF Sees
<1> QED BY <1>2, <1>3, <1>4, <1>5

\* The other handlers in these sets.
LEMMA OtherEvents ==
  ASSUME NEW p \in Peer, NEW r \in Peer, NEW f \in Frame, NEW g \in Frame,
         NEW m \in Message, NEW n \in Message
  PROVE  /\ LET e == Event("start", n, p)
            IN  /\ e \notin OfListener(r) /\ e \notin Naming(f, r)
                /\ e \notin OfWrite(f, r) /\ e \notin OfRead(f)
                /\ e \in OfStart(m, r) <=> m = n /\ r = p
         /\ LET e == Event("read", g, p)
            IN  /\ e \in OfListener(r) <=> r = p
                /\ e \in Naming(f, r) <=> f = g /\ r = p
                /\ e \notin OfWrite(f, r) /\ e \notin OfStart(m, r)
                /\ e \in OfRead(f) <=> f = g /\ p = From[f]
         /\ LET e == Event("closed", None, p)
            IN  /\ e \in OfListener(r) <=> r = p
                /\ e \notin Naming(f, r) /\ e \notin OfWrite(f, r)
                /\ e \notin OfStart(m, r) /\ e \notin OfRead(f)
<1>0. None \notin Frame /\ Message \cap Frame = {}
  BY PeerIOAssumption
<1>1. /\ Event("start", n, p) \in GoodHandler
      /\ Event("read", g, p) \in GoodHandler
      /\ Event("closed", None, p) \in GoodHandler
  BY EventGood
<1>2. ASSUME NEW kind, NEW w
      PROVE  LET e == Event(kind, w, p)
             IN  e.kind = kind /\ e.who = w /\ e.peer = p
  BY DEF Event
<1>3. LET e == Event("start", n, p)
      IN  e \notin OfListener(r) /\ e \notin Naming(f, r)
  BY <1>0, <1>2 DEF OfListener, Naming
<1>4. LET e == Event("read", g, p)
      IN  /\ e \in OfListener(r) <=> r = p
          /\ e \in Naming(f, r) <=> f = g /\ r = p
  BY <1>1, <1>2 DEF OfListener, Naming
<1>5. LET e == Event("closed", None, p)
      IN  /\ e \in OfListener(r) <=> r = p
          /\ e \notin Naming(f, r)
  BY <1>0, <1>1, <1>2 DEF OfListener, Naming
<1>6. /\ LET e == Event("start", n, p)
         IN  /\ e \notin OfWrite(f, r) /\ e \notin OfRead(f)
             /\ e \in OfStart(m, r) <=> m = n /\ r = p
      /\ LET e == Event("read", g, p)
         IN  /\ e \notin OfWrite(f, r) /\ e \notin OfStart(m, r)
             /\ e \in OfRead(f) <=> f = g /\ p = From[f]
      /\ LET e == Event("closed", None, p)
         IN  /\ e \notin OfWrite(f, r)
             /\ e \notin OfStart(m, r) /\ e \notin OfRead(f)
  BY DEF Event, OfWrite, OfRead, OfStart
<1> QED BY <1>3, <1>4, <1>5, <1>6

\* A handler is what its fields say.
LEMMA HandlerIs ==
  ASSUME NEW h \in GoodHandler
  PROVE  /\ h = Event(h.kind, h.who, h.peer) /\ h.peer \in Peer
         /\ h.kind = "start" => h.who \in Message
         /\ h.kind = "read" => h.who \in Frame
         /\ h.kind \in {"wrote", "failed"} => h.who \in Writer
         /\ h.kind = "closed" => h.who = None
BY DEF GoodHandler, Handler, Event

\* One place for each listener.
LEMMA OnePlace ==
  ASSUME NEW q \in Seq(GoodHandler), NEW o \in Seq(Writer), NEW p \in Peer,
         AtMostOnce(q, o, OfListener(p), Frame),
         NEW f \in Frame, NEW g \in Frame,
         Either(q, o, OfWrite(f, p), {f}), Either(q, o, OfWrite(g, p), {g})
  PROVE  f = g
<1>1. \A v \in Frame : OfWrite(v, p) \subseteq OfListener(p)
  <2> SUFFICES ASSUME NEW v \in Frame PROVE OfWrite(v, p) \subseteq OfListener(p)
    OBVIOUS
  <2>1. v \in Writer
    BY DEF Writer
  <2>2. Sees(p, OfListener(p), Frame)
    BY Views
  <2> QED BY <2>1, <2>2 DEF Sees, OfWrite
<1>2. ASSUME Some(q, OfWrite(f, p)), Some(q, OfWrite(g, p))
      PROVE  f = g
  <2>1. PICK i \in DOMAIN q : q[i] \in OfWrite(f, p)
    BY <1>2 DEF Some
  <2>2. PICK j \in DOMAIN q : q[j] \in OfWrite(g, p)
    BY <1>2 DEF Some
  <2>3. i = j
    BY <1>1, <2>1, <2>2 DEF AtMostOnce, Once
  <2> QED BY <2>1, <2>2, <2>3 DEF OfWrite, Event
<1>3. ASSUME Some(o, {f}), Some(o, {g})
      PROVE  f = g
  BY <1>3 DEF Some, AtMostOnce, Once
<1>4. ASSUME NEW v \in Frame
      PROVE  /\ Some(q, OfWrite(v, p)) => Some(q, OfListener(p))
             /\ Some(o, {v}) => Some(o, Frame)
  BY <1>1 DEF Some
<1> QED BY <1>2, <1>3, <1>4 DEF AtMostOnce, Either

LEMMA TailPlaces ==
  ASSUME NEW q \in Seq(GoodHandler), q # <<>>, NEW o, NEW H, NEW W
  PROVE  /\ Either(q, o, H, W) <=> Head(q) \in H \/ Either(Tail(q), o, H, W)
         /\ AtMostOnce(q, o, H, W) =>
              /\ AtMostOnce(Tail(q), o, H, W)
              /\ ~(Head(q) \in H /\ Either(Tail(q), o, H, W))
BY SomeTail DEF Either, AtMostOnce

LEMMA AppendPlaces ==
  ASSUME NEW q \in Seq(GoodHandler), NEW h \in GoodHandler, NEW o, NEW H, NEW W
  PROVE  /\ Either(Append(q, h), o, H, W) <=> Either(q, o, H, W) \/ h \in H
         /\ AtMostOnce(q, o, H, W) /\ ~(h \in H /\ Either(q, o, H, W)) =>
              AtMostOnce(Append(q, h), o, H, W)
BY SomeAppend DEF Either, AtMostOnce

LEMMA WriteSomePlaces ==
  ASSUME TypeInv, NEW w \in Writer, NEW p \in Peer, NEW q \in Seq(GoodHandler),
         WriteSome(w, p, q), NEW r \in Peer, NEW H, NEW W, Sees(r, H, W)
  PROVE  LET new == r = p /\ w \in W
         IN  /\ Either(queue', ops'[r], H, W) <=> Either(q, ops[r], H, W) \/ new
             /\ AtMostOnce(q, ops[r], H, W) /\ ~(new /\ Either(q, ops[r], H, W)) =>
                  AtMostOnce(queue', ops'[r], H, W)
<1>1. ops \in [Peer -> Seq(Writer)]
  BY DEF TypeInv, TypeOK
<1>2. ASSUME NEW kind \in {"wrote", "failed"}
      PROVE  /\ Event(kind, w, p) \in GoodHandler
             /\ Event(kind, w, p) \in H <=> r = p /\ w \in W
  <2>1. Event(kind, w, p) \in GoodHandler
    BY <1>2, EventGood
  <2> QED BY <2>1 DEF Sees
<1>3. CASE \E kind \in {"wrote", "failed"} : /\ queue' = Append(q, Event(kind, w, p))
                                             /\ UNCHANGED ops
  BY <1>2, <1>3, AppendPlaces
<1>4. CASE ops' = [ops EXCEPT ![p] = Append(@, w)] /\ queue' = q
  <2>1. CASE r = p
    <3>1. ops'[r] = Append(ops[r], w) /\ ops[r] \in Seq(Writer)
      BY <1>1, <1>4, <2>1
    <3>2. /\ Some(ops'[r], W) <=> Some(ops[r], W) \/ w \in W
          /\ Once(ops[r], W) /\ ~(w \in W /\ Some(ops[r], W)) => Once(ops'[r], W)
      BY <3>1, SomeAppend
    <3> QED BY <1>4, <2>1, <3>2 DEF Either, AtMostOnce
  <2>2. CASE r # p
    BY <1>1, <1>4, <2>2
  <2> QED BY <2>1, <2>2
<1> QED BY <1>3, <1>4 DEF WriteSome

\* Writing changes nothing about what is still to be started or read.
LEMMA WriteSomeStarts ==
  ASSUME TypeInv, NEW w \in Writer, NEW p \in Peer, NEW q \in Seq(GoodHandler),
         WriteSome(w, p, q)
  PROVE  /\ \A f \in Frame : Some(queue', OfRead(f)) <=> Some(q, OfRead(f))
         /\ \A m \in Message, r \in Peer :
              /\ Some(queue', OfStart(m, r)) <=> Some(q, OfStart(m, r))
              /\ Once(q, OfStart(m, r)) => Once(queue', OfStart(m, r))
<1>0. \A o : ~Some(o, {}) /\ Once(o, {})
  BY DEF Some, Once
<1>1. ASSUME NEW f \in Frame
      PROVE  Some(queue', OfRead(f)) <=> Some(q, OfRead(f))
  <2>1. Sees(p, OfRead(f), {})
    BY Views
  <2>2. Either(queue', ops'[p], OfRead(f), {}) <=> Either(q, ops[p], OfRead(f), {})
    BY <2>1, WriteSomePlaces
  <2> QED BY <1>0, <2>2 DEF Either
<1>2. ASSUME NEW m \in Message, NEW r \in Peer
      PROVE  /\ Some(queue', OfStart(m, r)) <=> Some(q, OfStart(m, r))
             /\ Once(q, OfStart(m, r)) => Once(queue', OfStart(m, r))
  <2>1. Sees(r, OfStart(m, r), {})
    BY Views
  <2>2. /\ Either(queue', ops'[r], OfStart(m, r), {})
             <=> Either(q, ops[r], OfStart(m, r), {})
        /\ AtMostOnce(q, ops[r], OfStart(m, r), {})
             => AtMostOnce(queue', ops'[r], OfStart(m, r), {})
    BY <2>1, WriteSomePlaces
  <2> QED BY <1>0, <2>2 DEF Either, AtMostOnce
<1> QED BY <1>1, <1>2

-----------------------------------------------------------------------------
(* What a step may do to the wires *)

LEMMA Rests ==
  ASSUME TypeInv, FreshInv, CutsInv, UNCHANGED wire,
         \A p \in Peer, m \in Message : holder'[p] = m => holder[p] = m,
         \A p \in Peer, f \in Frame : Writing(f, p)' => Writing(f, p),
         \A f \in Frame : Unwritten(f)' => Unwritten(f),
         \A m \in Message, p \in Peer : Todo(m, p)' => Todo(m, p)
  PROVE  FreshInv' /\ CutsInv'
<1>1. FreshInv'
  BY DEF FreshInv
<1>2. CutsInv'
  BY DEF CutsInv
<1> QED BY <1>1, <1>2

LEMMA Writes ==
  ASSUME TypeInv, FreshInv, CutsInv, NEW w \in Writer, NEW p \in Peer,
         wire' = wire \/ (\E k \in Nat : wire' = Put(w, p, k)),
         Uncut(w, wire[p]),
         \A r \in Peer, m \in Message :
           holder'[r] = m => holder[r] = m \/ (r = p /\ m = w),
         w \in Message => holder'[p] = w,
         \A r \in Peer, f \in Frame :
           Writing(f, r)' => Writing(f, r) \/ (r = p /\ f = w),
         w \in Frame => \A f \in Frame : Writing(f, p)' => f = w,
         \A f \in Frame : Unwritten(f)' => Unwritten(f) /\ f # w,
         \A m \in Message, r \in Peer :
           Todo(m, r)' => Todo(m, r) /\ ~(r = p /\ m = w)
  PROVE  FreshInv' /\ CutsInv'
<1>0. Message \cap Frame = {}
  BY PeerIOAssumption
<1>1. \A r \in Peer : r # p => wire'[r] = wire[r]
  BY PutParts
<1>2. Apart(wire[p])
  BY DEF CutsInv
<1>3. /\ Apart(wire'[p]) /\ Uncut(w, wire'[p])
      /\ \A v : ~Alike(v, w) /\ Uncut(v, wire[p]) => Uncut(v, wire'[p])
      /\ \A v : v # w /\ ~Some(wire[p], {v}) => ~Some(wire'[p], {v})
  <2>1. CASE wire' = wire
    BY <1>2, <2>1
  <2>2. CASE \E k \in Nat : wire' = Put(w, p, k)
    BY <1>2, <2>2, PutCuts
  <2> QED BY <2>1, <2>2
<1>4. FreshInv'
  <2>1. ASSUME NEW f \in Frame, NEW r \in Peer, Unwritten(f)'
        PROVE  ~Some(wire'[r], {f})
    <3>1. ~Some(wire[r], {f}) /\ f # w
      BY <2>1 DEF FreshInv
    <3> QED BY <1>1, <1>3, <3>1
  <2>2. ASSUME NEW m \in Message, NEW r \in Peer, Todo(m, r)'
        PROVE  ~Some(wire'[r], {m}) /\ holder'[r] # m
    <3>1. ~Some(wire[r], {m}) /\ holder[r] # m /\ ~(r = p /\ m = w)
      BY <2>2 DEF FreshInv
    <3> QED BY <1>1, <1>3, <3>1
  <2> QED BY <2>1, <2>2 DEF FreshInv
<1>5. ASSUME NEW r \in Peer
      PROVE  Apart(wire'[r])
  BY <1>1, <1>3 DEF CutsInv
<1>6. ASSUME NEW r \in Peer, NEW m \in Message, holder'[r] = m
      PROVE  Uncut(m, wire'[r])
  <2>1. CASE r = p /\ m = w
    BY <1>3, <2>1
  <2>2. CASE r = p /\ m # w
    <3>1. w \in Frame /\ holder[p] = m
      BY <1>6, <2>2 DEF Writer
    <3>2. Uncut(m, wire[p]) /\ ~Alike(m, w)
      BY <1>0, <3>1 DEF CutsInv, Alike
    <3> QED BY <1>3, <2>2, <3>2
  <2>3. CASE r # p
    BY <1>1, <1>6, <2>3 DEF CutsInv
  <2> QED BY <2>1, <2>2, <2>3
<1>7. ASSUME NEW r \in Peer, NEW f \in Frame, Writing(f, r)'
      PROVE  Uncut(f, wire'[r])
  <2>1. CASE r = p /\ f = w
    BY <1>3, <2>1
  <2>2. CASE r = p /\ f # w
    <3>1. w \in Message /\ Writing(f, p)
      BY <1>7, <2>2 DEF Writer
    <3>2. Uncut(f, wire[p]) /\ ~Alike(f, w)
      BY <1>0, <3>1 DEF CutsInv, Alike
    <3> QED BY <1>3, <2>2, <3>2
  <2>3. CASE r # p
    BY <1>1, <1>7, <2>3 DEF CutsInv
  <2> QED BY <2>1, <2>2, <2>3
<1>8. CutsInv'
  BY <1>5, <1>6, <1>7 DEF CutsInv
<1> QED BY <1>4, <1>8

LEMMA WriteSomeWire ==
  ASSUME TypeInv, NEW w \in Writer, NEW p \in Peer, NEW q, WriteSome(w, p, q)
  PROVE  wire' = wire \/ (\E k \in Nat : wire' = Put(w, p, k))
<1>1. \A k \in 1 .. Chunks - Written(w, p) : k \in Nat
  BY WrittenType, PeerIOAssumption
<1> QED BY <1>1 DEF WriteSome

\* The queue or what is left of it when its head was taken.
IsLeft(q) == q = queue \/ (queue # <<>> /\ q = Tail(queue))

LEMMA LeftPlaces ==
  ASSUME TypeInv, NEW q, IsLeft(q)
  PROVE  /\ q \in Seq(GoodHandler)
         /\ \A H : Some(q, H) => Some(queue, H)
         /\ \A H : Once(queue, H) => Once(q, H)
         /\ \A o, H, W : Either(q, o, H, W) => Either(queue, o, H, W)
         /\ \A o, H, W : AtMostOnce(queue, o, H, W) => AtMostOnce(q, o, H, W)
<1>1. queue \in Seq(GoodHandler)
  BY DEF TypeInv
<1>2. q \in Seq(GoodHandler)
  BY <1>1 DEF IsLeft
<1>3. \A H : /\ Some(q, H) => Some(queue, H)
             /\ Once(queue, H) => Once(q, H)
  BY <1>1, SomeTail DEF IsLeft
<1> QED BY <1>2, <1>3 DEF Either, AtMostOnce

\* A step that writes w to p, with q what is left of the queue.
LEMMA WriteStep ==
  ASSUME TypeInv, WireInv, NEW w \in Writer, NEW p \in Peer, NEW q, IsLeft(q),
         WriteSome(w, p, q), UNCHANGED <<listener, seen, calls>>,
         \A r \in Peer : Turns(r)' => Turns(r),
         w \in Frame => /\ ~Either(q, ops[p], OfListener(p), Frame)
                        /\ ~Turns(p)' /\ listener[p] = "busy"
                        /\ p = From[w] /\ w \in seen,
         RunFits', Uncut(w, wire[p]),
         \A r \in Peer, m \in Message :
           holder'[r] = m => holder[r] = m \/ (r = p /\ m = w),
         w \in Message => holder'[p] = w,
         \A f \in Frame : Unwritten(f)' => Unwritten(f) /\ f # w,
         \A m \in Message, r \in Peer :
           Todo(m, r)' => Todo(m, r) /\ ~(r = p /\ m = w)
  PROVE  WireInv'
<1>1. /\ q \in Seq(GoodHandler)
      /\ \A H : Once(queue, H) => Once(q, H)
      /\ \A H : Some(q, H) => Some(queue, H)
      /\ \A o, H, W : Either(q, o, H, W) => Either(queue, o, H, W)
      /\ \A o, H, W : AtMostOnce(queue, o, H, W) => AtMostOnce(q, o, H, W)
  BY LeftPlaces
<1>2. queue' \in Seq(GoodHandler) /\ ops' \in [Peer -> Seq(Writer)]
  BY <1>1, WriteSomeType
<1>3. ListenerInv'
  <2> SUFFICES ASSUME NEW r \in Peer
               PROVE  LET there == Either(queue', ops'[r], OfListener(r), Frame)
                      IN  /\ AtMostOnce(queue', ops'[r], OfListener(r), Frame)
                          /\ ~(there /\ Turns(r)')
                          /\ there \/ Turns(r)' => listener'[r] = "busy"
    BY DEF ListenerInv
  <2> DEFINE was == Either(queue, ops[r], OfListener(r), Frame)
             left == Either(q, ops[r], OfListener(r), Frame)
             there == Either(queue', ops'[r], OfListener(r), Frame)
  <2>1. /\ AtMostOnce(queue, ops[r], OfListener(r), Frame)
        /\ ~(was /\ Turns(r))
        /\ was \/ Turns(r) => listener[r] = "busy"
    BY DEF WireInv, ListenerInv
  <2>2. AtMostOnce(q, ops[r], OfListener(r), Frame) /\ (left => was)
    BY <1>1, <2>1
  <2>3. Sees(r, OfListener(r), Frame)
    BY Views
  <2>4. /\ there <=> left \/ (r = p /\ w \in Frame)
        /\ ~(r = p /\ w \in Frame /\ left) =>
             AtMostOnce(queue', ops'[r], OfListener(r), Frame)
    BY <1>1, <2>2, <2>3, WriteSomePlaces
  <2> HIDE DEF was, left, there
  <2>5. r = p /\ w \in Frame => ~left
    BY DEF left
  <2>6. AtMostOnce(queue', ops'[r], OfListener(r), Frame)
    BY <2>4, <2>5
  <2>7. ~(there /\ Turns(r)')
    BY <2>1, <2>2, <2>4
  <2>8. there \/ Turns(r)' => listener'[r] = "busy"
    BY <2>1, <2>2, <2>4
  <2> QED BY <2>6, <2>7, <2>8 DEF there
<1>4. PlacesInv'
  <2> SUFFICES ASSUME NEW f \in Frame, NEW r \in Peer,
                      Either(queue', ops'[r], Naming(f, r), {f})
               PROVE  r = From[f] /\ f \in seen
    BY DEF PlacesInv
  <2>1. Sees(r, Naming(f, r), {f})
    BY Views
  <2>2. Either(q, ops[r], Naming(f, r), {f}) \/ (r = p /\ w = f)
    BY <1>1, <2>1, WriteSomePlaces
  <2>3. CASE Either(q, ops[r], Naming(f, r), {f})
    BY <1>1, <2>3 DEF WireInv, PlacesInv
  <2> QED BY <2>2, <2>3
<1>5. StartsInv'
  <2> SUFFICES ASSUME NEW m \in Message, NEW r \in Peer
               PROVE  /\ Once(queue', OfStart(m, r))
                      /\ Some(queue', OfStart(m, r)) => m \in MainCalls /\ m \notin calls
    BY DEF StartsInv
  <2>1. /\ Once(queue, OfStart(m, r))
        /\ Some(queue, OfStart(m, r)) => m \in MainCalls /\ m \notin calls
    BY DEF WireInv, StartsInv
  <2> QED BY <1>1, <2>1, WriteSomeStarts
<1>6. ASSUME NEW f \in Frame, NEW r \in Peer
      PROVE  /\ Writing(f, r)' => Writing(f, r) \/ (r = p /\ f = w)
             /\ w \in Frame /\ r = p /\ Writing(f, r)' => f = w
  <2>0. Sees(r, OfWrite(f, r), {f})
    BY Views
  <2>1. Either(queue', ops'[r], OfWrite(f, r), {f})
          => Either(q, ops[r], OfWrite(f, r), {f}) \/ (r = p /\ f = w)
    BY <1>1, <2>0, WriteSomePlaces
  <2>2. Writing(f, r)' => Writing(f, r) \/ (r = p /\ f = w)
    BY <1>1, <2>1 DEF Writing
  <2>3. ASSUME w \in Frame, r = p, Writing(f, r)'
        PROVE  f = w
    <3>1. Sees(p, OfWrite(w, p), {w})
      BY <2>3, Views
    <3>2. Either(queue', ops'[p], OfWrite(w, p), {w})
      BY <1>1, <3>1, WriteSomePlaces
    <3>3. AtMostOnce(queue', ops'[p], OfListener(p), Frame)
      BY <1>3 DEF ListenerInv
    <3>4. ops'[p] \in Seq(Writer) /\ Either(queue', ops'[p], OfWrite(f, p), {f})
      BY <1>2, <2>3 DEF Writing
    <3> QED BY <1>2, <2>3, <3>2, <3>3, <3>4, OnePlace
  <2> QED BY <2>2, <2>3
<1>7. FreshInv' /\ CutsInv'
  <2>1. wire' = wire \/ (\E k \in Nat : wire' = Put(w, p, k))
    BY WriteSomeWire
  <2>2. FreshInv /\ CutsInv
    BY DEF WireInv
  <2> QED BY <1>6, <2>1, <2>2, Writes
<1> QED BY <1>3, <1>4, <1>5, <1>7 DEF WireInv

-----------------------------------------------------------------------------
(* The actions, and what stands on the wires *)

\* Less is left to do when the queue has fewer starts and reads.
LEMMA LessToDo ==
  ASSUME UNCHANGED <<run, seen, calls>>,
         \A f \in Frame : Some(queue', OfRead(f)) => Some(queue, OfRead(f)),
         \A m \in Message, p \in Peer :
           Some(queue', OfStart(m, p)) => Some(queue, OfStart(m, p))
  PROVE  /\ \A f \in Frame : Unwritten(f)' => Unwritten(f)
         /\ \A m \in Message, p \in Peer : Todo(m, p)' => Todo(m, p)
<1>1. \A f \in Frame : Unread(f)' => Unread(f)
  BY DEF Unread
<1> QED BY <1>1 DEF Unwritten, Todo

\* The rest of what a handler sends.
LEMMA RestType ==
  ASSUME TypeInv, RunFits, run # None
  PROVE  /\ run.frame \in Frame /\ run.frame \in seen /\ From[run.frame] \in Peer
         /\ run.todo \in Seq(Send) /\ Says[run.frame] \in Seq(Send)
         /\ \A i \in DOMAIN run.todo : \E j \in DOMAIN Says[run.frame] :
              run.todo[i] = Says[run.frame][j]
<1>1. /\ run.frame \in Frame /\ run.todo \in Seq(Send)
      /\ From[run.frame] \in Peer /\ Says[run.frame] \in Seq(Send)
  BY PeerIOAssumption DEF TypeInv, TypeOK, Turn
<1>2. PICK k \in Nat : /\ Len(run.todo) + k = Len(Says[run.frame])
                       /\ \A i \in DOMAIN run.todo : run.todo[i] = Says[run.frame][i + k]
  BY DEF RunFits, IsRest
<1>3. \A i \in DOMAIN run.todo : i + k \in DOMAIN Says[run.frame]
  BY <1>1, <1>2
<1> QED BY <1>1, <1>2, <1>3 DEF RunFits

\* The next send of a handler is sent by nobody else, and not again.
LEMMA NextSend ==
  ASSUME TypeInv, RunFits, run # None, run.todo # <<>>
  PROVE  LET s == Head(run.todo)
         IN  /\ s \in Send /\ s[1] \in Message /\ s[2] \in Peer
             /\ s = <<s[1], s[2]>> /\ s[1] \notin MainCalls
             /\ IsRest(Tail(run.todo), run.frame)
             /\ ~Some(Tail(run.todo), {s})
             /\ \A g \in Frame : Some(Says[g], {s}) => g = run.frame
<1> DEFINE f == run.frame
           u == run.todo
           t == Tail(u)
           s == Head(u)
<1>1. /\ f \in Frame /\ u \in Seq(Send) /\ u # <<>> /\ Says[f] \in Seq(Send)
      /\ f \in seen
  BY RestType
<1>2. PICK k \in Nat : /\ Len(u) + k = Len(Says[f])
                       /\ \A i \in DOMAIN u : u[i] = Says[f][i + k]
  BY DEF RunFits, IsRest
<1> HIDE DEF f, u
<1>3. /\ t \in Seq(Send) /\ Len(t) = Len(u) - 1 /\ DOMAIN t = 1 .. Len(u) - 1
      /\ DOMAIN u = 1 .. Len(u) /\ Len(u) \in Nat \ {0}
      /\ \A i \in DOMAIN t : i + 1 \in DOMAIN u /\ t[i] = u[i + 1]
      /\ s = u[1] /\ s \in Send
      /\ DOMAIN Says[f] = 1 .. Len(Says[f])
  BY <1>1
<1> HIDE DEF t, s
<1>4. 1 + k \in DOMAIN Says[f] /\ s = Says[f][1 + k]
  BY SMTT(30), <1>2, <1>3
<1>5. IsRest(t, f)
  <2>1. k + 1 \in Nat /\ Len(t) + (k + 1) = Len(Says[f])
    BY <1>2, <1>3
  <2>2. \A i \in DOMAIN t : t[i] = Says[f][i + (k + 1)]
    <3> SUFFICES ASSUME NEW i \in DOMAIN t PROVE t[i] = Says[f][i + (k + 1)]
      OBVIOUS
    <3>1. i + 1 \in DOMAIN u /\ t[i] = u[i + 1] /\ i \in Nat
      BY <1>3
    <3>2. u[i + 1] = Says[f][(i + 1) + k]
      BY <1>2, <3>1
    <3>3. (i + 1) + k = i + (k + 1)
      BY <3>1
    <3> QED BY <3>1, <3>2, <3>3
  <2> QED BY <2>1, <2>2 DEF IsRest
<1>6. ASSUME NEW i \in DOMAIN t
      PROVE  t[i] # s
  <2>1. i + 1 \in DOMAIN u /\ t[i] = u[i + 1] /\ i \in Nat /\ i >= 1
    BY <1>3
  <2>2. (i + 1) + k \in DOMAIN Says[f] /\ t[i] = Says[f][(i + 1) + k]
    BY <1>2, <1>3, <2>1
  <2>3. (i + 1) + k # 1 + k
    BY <2>1
  <2> QED BY <1>1, <1>4, <2>2, <2>3, PeerIOAssumption
<1>7. \A g \in Frame : Some(Says[g], {s}) => g = f
  BY <1>1, <1>4, PeerIOAssumption DEF Some
<1>8. s[1] \notin MainCalls
  BY <1>1, <1>4, PeerIOAssumption
<1>9. s \in Send /\ s[1] \in Message /\ s[2] \in Peer /\ s = <<s[1], s[2]>>
  BY <1>3 DEF Send
<1> QED BY <1>5, <1>6, <1>7, <1>8, <1>9 DEF Some, f, u, t, s

\* While a listener has its turn, the frame it handles waits nowhere.
LEMMA RunIsRead ==
  ASSUME TypeInv, WireInv, run # None
  PROVE  /\ ~Unread(run.frame)
         /\ ~Either(queue, ops[From[run.frame]], OfListener(From[run.frame]), Frame)
         /\ listener[From[run.frame]] = "busy"
<1> DEFINE f == run.frame
<1>1. f \in Frame /\ f \in seen /\ From[f] \in Peer
  BY RestType DEF WireInv
<1>2. /\ ~Either(queue, ops[From[f]], OfListener(From[f]), Frame)
      /\ listener[From[f]] = "busy"
  BY <1>1 DEF WireInv, ListenerInv, Turns
<1>3. Event("read", f, From[f]) \in OfListener(From[f])
  <2>1. Event("read", f, From[f]) \in GoodHandler
    BY <1>1, EventGood
  <2> QED BY <2>1 DEF OfListener, Event
<1>4. ~Some(queue, OfRead(f))
  BY <1>2, <1>3 DEF Either, Some, OfRead
<1> QED BY <1>1, <1>2, <1>4 DEF Unread

LEMMA TailStep ==
  ASSUME TypeInv, WireInv, queue # <<>>, queue' = Tail(queue),
         UNCHANGED <<ops, run, wire, seen, calls>>,
         \A p \in Peer, m \in Message : holder'[p] = m => holder[p] = m,
         \A p \in Peer : listener'[p] = listener[p] \/ Head(queue) \in OfListener(p)
  PROVE  WireInv'
<1>0. queue \in Seq(GoodHandler) /\ IsLeft(Tail(queue))
  BY DEF TypeInv, IsLeft
<1>1. /\ \A H : Some(queue', H) => Some(queue, H)
      /\ \A H : Once(queue, H) => Once(queue', H)
      /\ \A o, H, W : Either(queue', o, H, W) => Either(queue, o, H, W)
  BY <1>0, LeftPlaces
<1>2. ListenerInv'
  <2> SUFFICES ASSUME NEW r \in Peer
               PROVE  LET there == Either(queue', ops'[r], OfListener(r), Frame)
                      IN  /\ AtMostOnce(queue', ops'[r], OfListener(r), Frame)
                          /\ ~(there /\ Turns(r)')
                          /\ there \/ Turns(r)' => listener'[r] = "busy"
    BY DEF ListenerInv
  <2> DEFINE was == Either(queue, ops[r], OfListener(r), Frame)
             there == Either(queue', ops'[r], OfListener(r), Frame)
  <2>1. /\ AtMostOnce(queue, ops[r], OfListener(r), Frame)
        /\ ~(was /\ Turns(r))
        /\ was \/ Turns(r) => listener[r] = "busy"
    BY DEF WireInv, ListenerInv
  <2>2. /\ was <=> Head(queue) \in OfListener(r) \/ there
        /\ AtMostOnce(queue', ops'[r], OfListener(r), Frame)
        /\ ~(Head(queue) \in OfListener(r) /\ there)
    BY <1>0, <2>1, TailPlaces
  <2>3. Turns(r)' <=> Turns(r)
    BY DEF Turns
  <2> HIDE DEF was, there
  <2>4. ~(there /\ Turns(r)')
    BY <2>1, <2>2, <2>3
  <2>5. there \/ Turns(r)' => listener'[r] = "busy"
    BY <2>1, <2>2, <2>3
  <2> QED BY <2>2, <2>4, <2>5 DEF there
<1>3. PlacesInv'
  BY <1>1 DEF WireInv, PlacesInv
<1>4. RunFits'
  BY DEF WireInv, RunFits
<1>5. StartsInv'
  BY <1>1 DEF WireInv, StartsInv
<1>6. FreshInv' /\ CutsInv'
  <2>1. FreshInv /\ CutsInv
    BY DEF WireInv
  <2>2. \A p \in Peer, f \in Frame : Writing(f, p)' => Writing(f, p)
    BY <1>1 DEF Writing
  <2>3. /\ \A f \in Frame : Unwritten(f)' => Unwritten(f)
        /\ \A m \in Message, p \in Peer : Todo(m, p)' => Todo(m, p)
    BY <1>1, LessToDo
  <2> QED BY <2>1, <2>2, <2>3, Rests
<1> QED BY <1>2, <1>3, <1>4, <1>5, <1>6 DEF WireInv

\* Handlers that end, and a send that finds its mutex taken.
LEMMA IoEndsWire ==
  ASSUME IInv, WireInv,
         IoEndsSend \/ IoEndsAnswer \/ IoSendFails \/ IoEndsListener \/ IoUsesDestroyed
  PROVE  WireInv'
<1> DEFINE h == Head(queue)
<1>0. /\ TypeInv /\ queue \in Seq(GoodHandler) /\ None \notin Message
      /\ holder \in [Peer -> Message \cup {None}]
      /\ listener \in [Peer -> {"reading", "busy", "ended"}]
      /\ Message \cap Frame = {}
  BY PeerIOAssumption DEF IInv, TypeInv, TypeOK
<1>1. /\ queue # <<>> /\ queue' = Tail(queue)
      /\ UNCHANGED <<ops, run, wire, seen, calls>>
  BY DEF IoEndsSend, IoEndsAnswer, IoSendFails, IoEndsListener, IoUsesDestroyed, Takes
<1>2. h \in GoodHandler /\ h.peer \in Peer
  BY <1>0, <1>1 DEF GoodHandler, Handler
<1>3. \A p \in Peer, m \in Message : holder'[p] = m => holder[p] = m
  BY <1>0, <1>2
     DEF IoEndsSend, IoEndsAnswer, IoSendFails, IoEndsListener, IoUsesDestroyed, Release
<1>4. ASSUME NEW p \in Peer
      PROVE  listener'[p] = listener[p] \/ h \in OfListener(p)
  <2>1. CASE IoEndsAnswer
    <3>1. h.kind = "wrote" /\ h.who \in Frame
          /\ listener' = [listener EXCEPT ![h.peer] = "reading"]
      BY <2>1 DEF IoEndsAnswer, Takes
    <3> QED BY <1>0, <1>2, <3>1 DEF OfListener
  <2>2. CASE IoEndsListener
    <3>1. /\ h.kind \in {"closed", "failed"} /\ h.who \notin Message
          /\ listener' = [listener EXCEPT ![h.peer] = "ended"]
      BY <2>2 DEF IoEndsListener, Takes
    <3>2. h.kind = "failed" => h.who \in Frame
      BY <1>2, <3>1, HandlerIs DEF Writer
    <3>3. h.peer = p => h \in OfListener(p)
      BY <1>2, <3>1, <3>2 DEF OfListener
    <3> QED BY <1>0, <3>1, <3>3
  <2>3. CASE IoEndsSend \/ IoSendFails \/ IoUsesDestroyed
    BY <2>3 DEF IoEndsSend, IoSendFails, IoUsesDestroyed
  <2> QED BY <2>1, <2>2, <2>3
<1> QED BY <1>0, <1>1, <1>3, <1>4, TailStep

LEMMA IoReadsWire ==
  ASSUME TypeInv, WireInv, IoReads
  PROVE  WireInv'
<1> DEFINE h == Head(queue)
           f == h.who
           o == From[f]
<1>0. /\ queue \in Seq(GoodHandler) /\ queue # <<>> /\ h.kind = "read"
      /\ run = None /\ run' = [frame |-> f, todo |-> Says[f]] /\ queue' = Tail(queue)
      /\ UNCHANGED <<holder, ops, wire, listener, seen, calls>>
  BY DEF IoReads, Takes, TypeInv
<1>1. h \in GoodHandler /\ h.peer \in Peer /\ f \in Frame
  <2>1. h \in GoodHandler
    BY <1>0
  <2> QED BY <1>0, <2>1, HandlerIs
<1>2. h.peer = o /\ f \in seen
  <2>1. h \in Naming(f, h.peer)
    BY <1>1 DEF Naming
  <2>2. Either(queue, ops[h.peer], Naming(f, h.peer), {f})
    BY <1>0, <2>1, TailPlaces
  <2> QED BY <1>1, <2>2 DEF WireInv, PlacesInv
<1>3. h \in OfListener(o) /\ h \in OfRead(f)
  <2>1. h = Event("read", f, o)
    BY <1>0, <1>1, <1>2, HandlerIs
  <2> QED BY <1>0, <1>1, <1>2, <2>1 DEF OfListener, OfRead
<1>4. IsLeft(Tail(queue))
  BY <1>0 DEF IsLeft
<1>5. /\ \A H : Some(queue', H) => Some(queue, H)
      /\ \A H : Once(queue, H) => Once(queue', H)
      /\ \A u, H, W : Either(queue', u, H, W) => Either(queue, u, H, W)
  BY <1>0, <1>4, LeftPlaces
<1>6. run'.frame = f /\ run'.todo = Says[f]
  BY <1>0
<1>7. ListenerInv'
  <2> SUFFICES ASSUME NEW r \in Peer
               PROVE  LET there == Either(queue', ops'[r], OfListener(r), Frame)
                      IN  /\ AtMostOnce(queue', ops'[r], OfListener(r), Frame)
                          /\ ~(there /\ Turns(r)')
                          /\ there \/ Turns(r)' => listener'[r] = "busy"
    BY DEF ListenerInv
  <2> DEFINE was == Either(queue, ops[r], OfListener(r), Frame)
             there == Either(queue', ops'[r], OfListener(r), Frame)
  <2>1. /\ AtMostOnce(queue, ops[r], OfListener(r), Frame)
        /\ was \/ Turns(r) => listener[r] = "busy"
    BY DEF WireInv, ListenerInv
  <2>2. /\ was <=> h \in OfListener(r) \/ there
        /\ AtMostOnce(queue', ops'[r], OfListener(r), Frame)
        /\ ~(h \in OfListener(r) /\ there)
    BY <1>0, <2>1, TailPlaces
  <2>3. Turns(r)' => h \in OfListener(r)
    BY <1>3, <1>6 DEF Turns
  <2> HIDE DEF was, there, h
  <2>4. ~(there /\ Turns(r)')
    BY <2>2, <2>3
  <2>5. there \/ Turns(r)' => listener'[r] = "busy"
    BY <1>0, <2>1, <2>2, <2>3
  <2> QED BY <2>2, <2>4, <2>5 DEF there
<1>8. PlacesInv'
  BY <1>0, <1>5 DEF WireInv, PlacesInv
<1>9. RunFits'
  <2>1. IsRest(Says[f], f)
    <3>1. Says[f] \in Seq(Send)
      BY <1>1, PeerIOAssumption
    <3>2. Len(Says[f]) + 0 = Len(Says[f])
          /\ \A i \in DOMAIN Says[f] : Says[f][i] = Says[f][i + 0]
      BY <3>1
    <3>3. 0 \in Nat
      OBVIOUS
    <3> QED BY <3>2, <3>3 DEF IsRest
  <2> HIDE DEF f
  <2> QED BY <1>0, <1>2, <1>6, <2>1 DEF RunFits
<1>10. StartsInv'
  BY <1>0, <1>5 DEF WireInv, StartsInv
<1>11. Unread(f)
  BY <1>0, <1>3, TailPlaces, SomeTail DEF Unread
<1>12. FreshInv' /\ CutsInv'
  <2>1. FreshInv /\ CutsInv
    BY DEF WireInv
  <2>2. \A p \in Peer, g \in Frame : Writing(g, p)' => Writing(g, p)
    BY <1>0, <1>5 DEF Writing
  <2>3. \A g \in Frame : Unread(g)' => Unread(g)
    BY <1>0, <1>5 DEF Unread
  <2> HIDE DEF f
  <2>4. \A g \in Frame : Unwritten(g)' => Unwritten(g)
    BY <1>6, <1>11, <2>3 DEF Unwritten
  <2>5. \A m \in Message, p \in Peer : Todo(m, p)' => Todo(m, p)
    BY <1>0, <1>1, <1>5, <1>6, <1>11, <2>3 DEF Todo
  <2> QED BY <1>0, <2>1, <2>2, <2>4, <2>5, Rests
<1> QED BY <1>7, <1>8, <1>9, <1>10, <1>12 DEF WireInv

\* A write to p by the only holder of its mutex, or by its only listener.
LEMMA WriterUncut ==
  ASSUME IInv, WireInv, ~undefined, NEW w \in Writer, NEW p \in Peer,
         Either(queue, ops[p], OfWrite(w, p), {w})
  PROVE  Uncut(w, wire[p]) /\ (w \in Message => holder[p] = w)
<1>1. ASSUME w \in Message
      PROVE  holder[p] = w
  <2>1. Held(w, p)
    BY <1>1 DEF IInv, HeldInv
  <2>2. Present(queue, ops[p], w, p)
    BY DEF Either, Some, OfWrite, Present, Comes, Waits, Continues, Event
  <2> QED BY <2>1, <2>2 DEF Held
<1>2. CASE w \in Message
  BY <1>1, <1>2 DEF WireInv, CutsInv
<1>3. CASE w \in Frame
  BY <1>1, <1>3 DEF WireInv, CutsInv, Writing
<1> QED BY <1>1, <1>2, <1>3 DEF Writer

\* A frame that is being written waits nowhere else.
LEMMA FrameWritten ==
  ASSUME TypeInv, WireInv, NEW f \in Frame, NEW p \in Peer,
         Either(queue, ops[p], OfWrite(f, p), {f})
  PROVE  /\ p = From[f] /\ f \in seen /\ ~Turns(p) /\ listener[p] = "busy"
         /\ ~Unwritten(f)
<1>0. /\ f \in Writer /\ queue \in Seq(GoodHandler) /\ ops[p] \in Seq(Writer)
  BY DEF Writer, TypeInv, TypeOK
<1>1. /\ OfWrite(f, p) \subseteq Naming(f, p)
      /\ OfWrite(f, p) \subseteq OfListener(p)
  BY <1>0, Views DEF Sees, OfWrite
<1>2. /\ Either(queue, ops[p], Naming(f, p), {f})
      /\ Either(queue, ops[p], OfListener(p), Frame)
  BY <1>1 DEF Either, Some
<1>3. p = From[f] /\ f \in seen /\ ~Turns(p) /\ listener[p] = "busy"
  BY <1>2 DEF WireInv, PlacesInv, ListenerInv
<1>4. ~Some(queue, OfRead(f))
  <2> SUFFICES ASSUME NEW i \in DOMAIN queue, queue[i] \in OfRead(f) PROVE FALSE
    BY DEF Some
  <2>1. Event("read", f, p) \in OfListener(p)
    BY OtherEvents, EventGood DEF OfListener, Event
  <2>2. queue[i] = Event("read", f, p) /\ queue[i] \in OfListener(p)
    BY <1>3, <2>1 DEF OfRead
  <2>3. AtMostOnce(queue, ops[p], OfListener(p), Frame)
    BY DEF WireInv, ListenerInv
  <2>4. CASE Some(ops[p], {f})
    BY <2>2, <2>3, <2>4 DEF AtMostOnce, Some
  <2>5. CASE Some(queue, OfWrite(f, p))
    <3>1. PICK j \in DOMAIN queue : queue[j] \in OfWrite(f, p)
      BY <2>5 DEF Some
    <3>2. i = j
      BY <1>1, <2>2, <2>3, <3>1 DEF AtMostOnce, Once
    <3> QED BY <2>2, <3>1, <3>2 DEF OfWrite, Event
  <2> QED BY <2>4, <2>5 DEF Either
<1> QED BY <1>3, <1>4 DEF Unwritten, Unread, Turns

\* What the main thread broadcasts is sent by no handler.
LEMMA MainOnly ==
  ASSUME TypeInv, RunFits, NEW m \in MainCalls, NEW p
  PROVE  /\ \A f \in Frame : ~Some(Says[f], {<<m, p>>})
         /\ run # None => ~Some(run.todo, {<<m, p>>})
<1>1. \A f \in Frame : ~Some(Says[f], {<<m, p>>})
  <2> SUFFICES ASSUME NEW f \in Frame, NEW i \in DOMAIN Says[f], Says[f][i] = <<m, p>>
               PROVE  FALSE
    BY DEF Some
  <2>1. Says[f][i][1] \notin MainCalls
    BY PeerIOAssumption
  <2> QED BY <2>1
<1>2. ASSUME run # None, NEW i \in DOMAIN run.todo, run.todo[i] = <<m, p>>
      PROVE  FALSE
  <2>1. /\ run.frame \in Frame
        /\ \E j \in DOMAIN Says[run.frame] : run.todo[i] = Says[run.frame][j]
    BY <1>2, RestType
  <2> QED BY <1>1, <1>2, <2>1 DEF Some
<1> QED BY <1>1, <1>2 DEF Some

LEMMA IoStartsWire ==
  ASSUME IInv, WireInv, IoStarts
  PROVE  WireInv'
<1> DEFINE h == Head(queue)
<1>a. PICK m \in Message, p \in Peer : h = Event("start", m, p)
  <2>1. queue \in Seq(GoodHandler) /\ queue # <<>> /\ h.kind = "start"
    BY DEF IInv, TypeInv, IoStarts, Takes
  <2>2. h \in GoodHandler
    BY <2>1
  <2> QED BY <2>1, <2>2, HandlerIs
<1> DEFINE q == Tail(queue)
<1>0. /\ TypeInv /\ queue \in Seq(GoodHandler) /\ queue # <<>>
      /\ Begin(m, p, q) /\ UNCHANGED <<run, undefined, open, listener, seen, calls>>
      /\ holder \in [Peer -> Message \cup {None}] /\ None \notin Message
      /\ Message \cap Frame = {}
  BY <1>a, PeerIOAssumption DEF IInv, TypeInv, TypeOK, IoStarts, Takes, Event
<1>1. m \in Message /\ m \in Writer /\ p \in Peer /\ h = Event("start", m, p)
  BY <1>a DEF Writer
<1>2. IsLeft(q)
  BY <1>0 DEF IsLeft
<1>3. /\ q \in Seq(GoodHandler)
      /\ \A H : Some(q, H) => Some(queue, H)
  BY <1>0, <1>2, LeftPlaces
<1>4. /\ Some(queue, OfStart(m, p)) /\ ~Some(q, OfStart(m, p))
      /\ m \in MainCalls /\ m \notin calls
  <2>1. h \in OfStart(m, p)
    BY <1>1 DEF OfStart
  <2>2. Once(queue, OfStart(m, p))
    BY <1>1 DEF WireInv, StartsInv
  <2>3. Some(queue, OfStart(m, p)) /\ ~Some(q, OfStart(m, p))
    BY <1>0, <2>1, <2>2, SomeTail
  <2> QED BY <1>1, <2>3 DEF WireInv, StartsInv
<1>5. CASE /\ blocked' = <<m, p>>
           /\ queue' = q
           /\ UNCHANGED <<holder, ops, wire>>
  BY <1>0, <1>5, TailStep
<1>6. CASE /\ holder[p] = None
           /\ holder' = [holder EXCEPT ![p] = m]
           /\ WriteSome(m, p, q)
           /\ UNCHANGED blocked
  <2>1. /\ \A f \in Frame : Some(queue', OfRead(f)) => Some(queue, OfRead(f))
        /\ \A n \in Message, r \in Peer :
             Some(queue', OfStart(n, r)) => Some(queue, OfStart(n, r))
        /\ ~Some(queue', OfStart(m, p))
    BY <1>0, <1>1, <1>3, <1>4, <1>6, WriteSomeStarts
  <2>2. /\ \A f \in Frame : Unwritten(f)' => Unwritten(f)
        /\ \A n \in Message, r \in Peer : Todo(n, r)' => Todo(n, r)
    BY <1>0, <2>1, LessToDo
  <2>3. /\ \A f \in Frame : ~Some(Says[f], {<<m, p>>})
        /\ run # None => ~Some(run.todo, {<<m, p>>})
    BY <1>0, <1>4, MainOnly DEF WireInv
  <2>4. ~Todo(m, p)'
    BY <1>0, <1>4, <2>1, <2>3 DEF Todo
  <2>5. ~Some(wire[p], {m})
    BY <1>1, <1>4 DEF WireInv, FreshInv, Todo
  <2>6. Uncut(m, wire[p])
    BY <2>5 DEF Uncut, Some
  <2>7. RunFits' /\ \A r \in Peer : Turns(r)' => Turns(r)
    BY <1>0 DEF RunFits, Turns, WireInv
  <2>8. /\ m \notin Frame
        /\ \A r \in Peer, n \in Message :
             holder'[r] = n => holder[r] = n \/ (r = p /\ n = m)
        /\ holder'[p] = m
    BY <1>0, <1>1, <1>6
  <2> HIDE DEF q
  <2>9. /\ \A f \in Frame : Unwritten(f)' => Unwritten(f) /\ f # m
        /\ \A n \in Message, r \in Peer :
             Todo(n, r)' => Todo(n, r) /\ ~(r = p /\ n = m)
    BY <1>0, <1>1, <2>2, <2>4, <2>8
  <2> QED BY <1>0, <1>1, <1>2, <1>6, <2>6, <2>7, <2>8, <2>9, WriteStep
<1> QED BY <1>0, <1>5, <1>6 DEF Begin

\* async_write goes on.
LEMMA IoWritesOnWire ==
  ASSUME IInv, WireInv, IoWritesOn
  PROVE  WireInv'
<1> DEFINE h == Head(queue)
<1>a. PICK w \in Writer, p \in Peer : h = Event("wrote", w, p)
  <2>1. queue \in Seq(GoodHandler) /\ queue # <<>> /\ h.kind = "wrote"
    BY DEF IInv, TypeInv, IoWritesOn, Takes
  <2>2. h \in GoodHandler
    BY <2>1
  <2> QED BY <2>1, <2>2, HandlerIs
<1> DEFINE q == Tail(queue)
<1>0. /\ TypeInv /\ queue \in Seq(GoodHandler) /\ queue # <<>> /\ h.kind = "wrote"
      /\ WriteSome(w, p, q) /\ ~undefined
      /\ UNCHANGED <<run, holder, listener, seen, calls>>
      /\ Message \cap Frame = {}
  BY <1>a, PeerIOAssumption DEF IInv, TypeInv, TypeOK, IoWritesOn, Takes, Free, Event
<1>1. w \in Writer /\ p \in Peer /\ h = Event("wrote", w, p)
  BY <1>a
<1>2. IsLeft(q)
  BY <1>0 DEF IsLeft
<1>3. /\ q \in Seq(GoodHandler)
      /\ \A H : Some(q, H) => Some(queue, H)
  BY <1>0, <1>2, LeftPlaces
<1>4. Either(queue, ops[p], OfWrite(w, p), {w})
  BY <1>0, <1>1, TailPlaces DEF OfWrite
<1>5. Uncut(w, wire[p]) /\ (w \in Message => holder'[p] = w)
  BY <1>0, <1>1, <1>4, WriterUncut
<1>6. /\ \A f \in Frame : Some(queue', OfRead(f)) => Some(queue, OfRead(f))
      /\ \A n \in Message, r \in Peer :
           Some(queue', OfStart(n, r)) => Some(queue, OfStart(n, r))
  BY <1>0, <1>1, <1>3, WriteSomeStarts
<1>7. /\ \A f \in Frame : Unwritten(f)' => Unwritten(f)
      /\ \A n \in Message, r \in Peer : Todo(n, r)' => Todo(n, r)
  BY <1>0, <1>6, LessToDo
<1>8. RunFits' /\ \A r \in Peer : Turns(r)' <=> Turns(r)
  BY <1>0 DEF RunFits, Turns, WireInv
<1>9. w \in Message => ~Todo(w, p)
  BY <1>0, <1>1, <1>5 DEF WireInv, FreshInv
<1>10. ASSUME w \in Frame
       PROVE  /\ ~Either(q, ops[p], OfListener(p), Frame)
              /\ ~Turns(p)' /\ listener[p] = "busy"
              /\ p = From[w] /\ w \in seen /\ ~Unwritten(w)
  <2>1. /\ p = From[w] /\ w \in seen /\ ~Turns(p) /\ listener[p] = "busy"
        /\ ~Unwritten(w)
    BY <1>0, <1>1, <1>4, <1>10, FrameWritten
  <2>2. h \in OfListener(p)
    BY <1>0, <1>1, <1>10, EventGood DEF OfListener, Event
  <2>3. AtMostOnce(queue, ops[p], OfListener(p), Frame)
    BY <1>1 DEF WireInv, ListenerInv
  <2>4. ~Either(q, ops[p], OfListener(p), Frame)
    BY <1>0, <2>2, <2>3, TailPlaces
  <2> QED BY <1>1, <1>8, <2>1, <2>4
<1> HIDE DEF q
<1>11. \A f \in Frame : Unwritten(f)' => Unwritten(f) /\ f # w
  BY <1>7, <1>10
<1>12. \A m \in Message, r \in Peer : Todo(m, r)' => Todo(m, r) /\ ~(r = p /\ m = w)
  BY <1>7, <1>9
<1>13. \A r \in Peer, m \in Message :
         holder'[r] = m => holder[r] = m \/ (r = p /\ m = w)
  BY <1>0
<1> QED BY <1>0, <1>1, <1>2, <1>5, <1>8, <1>10, <1>11, <1>12, <1>13, WriteStep

\* A listener's turn goes on, or ends without an answer.
LEMMA RunStep ==
  ASSUME TypeInv, WireInv, UNCHANGED <<queue, ops, holder, wire, seen, calls>>,
         \A r \in Peer : \/ Turns(r)' => Turns(r) /\ listener'[r] = listener[r]
                         \/ Turns(r) /\ ~Turns(r)',
         \A r \in Peer : Turns(r) \/ listener'[r] = listener[r],
         RunFits', \A f \in Frame : Unwritten(f)' => Unwritten(f),
         \A m \in Message, r \in Peer : Todo(m, r)' => Todo(m, r)
  PROVE  WireInv'
<1>1. ListenerInv'
  <2> SUFFICES ASSUME NEW r \in Peer
               PROVE  LET there == Either(queue', ops'[r], OfListener(r), Frame)
                      IN  /\ AtMostOnce(queue', ops'[r], OfListener(r), Frame)
                          /\ ~(there /\ Turns(r)')
                          /\ there \/ Turns(r)' => listener'[r] = "busy"
    BY DEF ListenerInv
  <2> DEFINE there == Either(queue, ops[r], OfListener(r), Frame)
  <2>1. /\ AtMostOnce(queue, ops[r], OfListener(r), Frame)
        /\ ~(there /\ Turns(r))
        /\ there \/ Turns(r) => listener[r] = "busy"
    BY DEF WireInv, ListenerInv
  <2> QED BY <2>1
<1>2. PlacesInv' /\ StartsInv'
  BY DEF WireInv, PlacesInv, StartsInv
<1>3. FreshInv' /\ CutsInv'
  <2>1. FreshInv /\ CutsInv
    BY DEF WireInv
  <2>2. \A p \in Peer, f \in Frame : Writing(f, p)' => Writing(f, p)
    BY DEF Writing
  <2> QED BY <2>1, <2>2, Rests
<1> QED BY <1>1, <1>2, <1>3 DEF WireInv

LEMMA HandlerSendsWire ==
  ASSUME IInv, WireInv, HandlerSends
  PROVE  WireInv'
<1>a. /\ TypeInv /\ RunFits /\ run # None /\ run.todo # <<>>
      /\ UNCHANGED <<undefined, open, listener, seen, calls>>
      /\ run' = [run EXCEPT !.todo = Tail(@)] /\ run \in Turn
      /\ holder \in [Peer -> Message \cup {None}] /\ None \notin Message
      /\ Message \cap Frame = {}
  BY PeerIOAssumption DEF IInv, WireInv, TypeInv, TypeOK, HandlerSends
<1>b. PICK m \in Message, p \in Peer : Head(run.todo) = <<m, p>>
  BY <1>a, NextSend
<1>c. PICK f \in Frame : run.frame = f
  BY <1>a DEF Turn
<1>0. /\ m \notin MainCalls /\ m \in Writer /\ m \notin Frame
      /\ IsRest(Tail(run.todo), f)
      /\ ~Some(Tail(run.todo), {<<m, p>>})
      /\ \A g \in Frame : Some(Says[g], {<<m, p>>}) => g = f
      /\ Some(run.todo, {<<m, p>>})
      /\ \A n, r : Some(Tail(run.todo), {<<n, r>>}) => Some(run.todo, {<<n, r>>})
  <2>1. run.todo \in Seq(Send)
    BY <1>a, RestType
  <2>2. \A n, r : /\ Some(run.todo, {<<n, r>>})
                       <=> Head(run.todo) \in {<<n, r>>} \/ Some(Tail(run.todo), {<<n, r>>})
    BY <1>a, <2>1, SomeTail
  <2>3. LET s == Head(run.todo)
        IN  /\ s[1] \notin MainCalls
            /\ IsRest(Tail(run.todo), run.frame)
            /\ ~Some(Tail(run.todo), {s})
            /\ \A g \in Frame : Some(Says[g], {s}) => g = run.frame
    BY <1>a, NextSend
  <2>4. /\ m \notin MainCalls
        /\ IsRest(Tail(run.todo), f)
        /\ ~Some(Tail(run.todo), {<<m, p>>})
        /\ \A g \in Frame : Some(Says[g], {<<m, p>>}) => g = f
    BY SMTT(30), <1>b, <1>c, <2>3
  <2>5. Some(run.todo, {<<m, p>>})
    BY <1>b, <2>2
  <2>6. m \in Writer /\ m \notin Frame
    BY <1>a DEF Writer
  <2> QED BY <2>2, <2>4, <2>5, <2>6
<1>1. ~Unread(f) /\ f \in seen
  BY <1>a, <1>c, RunIsRead DEF RunFits
<1>2. run'.frame = f /\ run'.todo = Tail(run.todo)
  BY <1>a, <1>c DEF Turn
<1>3. RunFits' /\ \A r \in Peer : Turns(r)' => Turns(r)
  BY <1>a, <1>c, <1>0, <1>1, <1>2 DEF RunFits, Turns
<1>4. ASSUME \A g \in Frame : Some(queue', OfRead(g)) => Some(queue, OfRead(g)),
             \A n \in Message, r \in Peer :
               Some(queue', OfStart(n, r)) => Some(queue, OfStart(n, r))
      PROVE  /\ \A g \in Frame : Unwritten(g)' => Unwritten(g)
             /\ \A n \in Message, r \in Peer :
                  Todo(n, r)' => Todo(n, r) /\ ~(r = p /\ n = m)
  <2>1. \A g \in Frame : Unread(g)' => Unread(g)
    BY <1>a, <1>4 DEF Unread
  <2>2. \A g \in Frame : Unwritten(g)' => Unwritten(g)
    BY <1>a, <1>c, <1>2, <2>1 DEF Unwritten
  <2>3. ASSUME NEW n \in Message, NEW r \in Peer, Todo(n, r)'
        PROVE  Todo(n, r)
    BY <1>a, <1>4, <1>0, <1>2, <2>1, <2>3 DEF Todo
  <2>4. ~Todo(m, p)'
    <3>1. m \notin calls /\ ~Some(queue, OfStart(m, p))
      BY <1>a, <1>0 DEF WireInv, StartsInv, TypeInv, TypeOK
    <3>2. ~Some(run'.todo, {<<m, p>>})
      BY <1>0, <1>2
    <3>3. \A g \in Frame : Unread(g)' => ~Some(Says[g], {<<m, p>>})
      BY <1>0, <1>1, <2>1
    <3> QED BY <1>a, <1>4, <3>1, <3>2, <3>3 DEF Todo
  <2> QED BY <2>2, <2>3, <2>4
<1>5. ASSUME UNCHANGED <<queue, ops, holder, wire>>
      PROVE  WireInv'
  <2>1. \A r \in Peer : Turns(r)' => Turns(r) /\ listener'[r] = listener[r]
    BY <1>a, <1>3
  <2>2. /\ \A g \in Frame : Unwritten(g)' => Unwritten(g)
        /\ \A n \in Message, r \in Peer : Todo(n, r)' => Todo(n, r)
    BY <1>4, <1>5
  <2> QED BY <1>a, <1>3, <1>5, <2>1, <2>2, RunStep
<1>6. ASSUME holder' = [holder EXCEPT ![p] = m], WriteSome(m, p, queue)
      PROVE  WireInv'
  <2>1. queue \in Seq(GoodHandler) /\ IsLeft(queue)
    BY <1>a DEF TypeInv, IsLeft
  <2>2. /\ \A g \in Frame : Unwritten(g)' => Unwritten(g)
        /\ \A n \in Message, r \in Peer :
             Todo(n, r)' => Todo(n, r) /\ ~(r = p /\ n = m)
    BY <1>a, <1>0, <1>4, <1>6, <2>1, WriteSomeStarts
  <2>3. ~Some(wire[p], {m})
    BY <1>a, <1>0 DEF WireInv, FreshInv, Todo
  <2>4. Uncut(m, wire[p])
    BY <2>3 DEF Uncut, Some
  <2>5. /\ \A r \in Peer, n \in Message :
             holder'[r] = n => holder[r] = n \/ (r = p /\ n = m)
        /\ holder'[p] = m
    BY <1>a, <1>6
  <2>6. \A g \in Frame : Unwritten(g)' => Unwritten(g) /\ g # m
    BY <1>0, <2>2
  <2> QED BY <1>a, <1>0, <1>3, <1>6, <2>1, <2>2, <2>4, <2>5, <2>6, WriteStep
<1> QED
  <2>1. IF Kept(p) THEN Begin(m, p, queue) ELSE UNCHANGED <<queue, blocked, holder, ops, wire>>
    BY <1>b DEF HandlerSends
  <2> QED BY <2>1, <1>5, <1>6 DEF Begin

\* The answer is written, or there is none.
LEMMA HandlerEndsWire ==
  ASSUME IInv, WireInv, HandlerAnswers \/ HandlerReturns
  PROVE  WireInv'
<1>a. /\ TypeInv /\ RunFits /\ run # None /\ run' = None
      /\ UNCHANGED <<undefined, holder, open, seen, calls>>
      /\ run \in Turn /\ Message \cap Frame = {}
      /\ listener \in [Peer -> {"reading", "busy", "ended"}]
  BY PeerIOAssumption
     DEF IInv, WireInv, TypeInv, TypeOK, HandlerAnswers, HandlerReturns
<1>b. PICK f \in Frame : run.frame = f
  BY <1>a DEF Turn
<1>c. PICK p \in Peer : p = From[f]
  BY PeerIOAssumption
<1>1. /\ ~Unread(f) /\ f \in seen /\ f \in Writer /\ f \notin Message
      /\ ~Either(queue, ops[p], OfListener(p), Frame) /\ listener[p] = "busy"
  BY <1>a, <1>b, <1>c, RunIsRead DEF RunFits, Writer
<1>2. RunFits' /\ \A r \in Peer : ~Turns(r)' /\ (Turns(r) <=> r = p)
  BY <1>a, <1>b, <1>c DEF RunFits, Turns
<1>3. ASSUME \A g \in Frame : Some(queue', OfRead(g)) => Some(queue, OfRead(g)),
             \A n \in Message, r \in Peer :
               Some(queue', OfStart(n, r)) => Some(queue, OfStart(n, r))
      PROVE  /\ \A g \in Frame : Unwritten(g)' => Unwritten(g) /\ g # f
             /\ \A n \in Message, r \in Peer : Todo(n, r)' => Todo(n, r)
  <2>1. \A g \in Frame : Unread(g)' => Unread(g)
    BY <1>a, <1>3 DEF Unread
  <2>2. \A g \in Frame : Unwritten(g)' => Unwritten(g) /\ g # f
    BY <1>a, <1>1, <2>1 DEF Unwritten
  <2>3. ASSUME NEW n \in Message, NEW r \in Peer, Todo(n, r)'
        PROVE  Todo(n, r)
    BY <1>a, <1>3, <2>1, <2>3 DEF Todo
  <2> QED BY <2>2, <2>3
<1>4. CASE HandlerAnswers
  <2>1. queue \in Seq(GoodHandler) /\ IsLeft(queue) /\ WriteSome(f, p, queue)
        /\ UNCHANGED listener
    BY <1>4, <1>a, <1>b, <1>c DEF TypeInv, IsLeft, HandlerAnswers
  <2>2. /\ \A g \in Frame : Unwritten(g)' => Unwritten(g) /\ g # f
        /\ \A n \in Message, r \in Peer : Todo(n, r)' => Todo(n, r)
    BY <1>a, <1>1, <1>3, <2>1, WriteSomeStarts
  <2>3. ~Some(wire[p], {f})
    BY <1>a, <1>b DEF WireInv, FreshInv, Unwritten
  <2>4. Uncut(f, wire[p])
    BY <2>3 DEF Uncut, Some
  <2>5. \A n \in Message, r \in Peer : Todo(n, r)' => Todo(n, r) /\ ~(r = p /\ n = f)
    BY <1>1, <2>2
  <2>6. \A r \in Peer, n \in Message :
          holder'[r] = n => holder[r] = n \/ (r = p /\ n = f)
    BY <1>a
  <2> QED BY <1>a, <1>c, <1>1, <1>2, <2>1, <2>2, <2>4, <2>5, <2>6, WriteStep
<1>5. CASE HandlerReturns
  <2>1. /\ UNCHANGED <<queue, ops, wire>>
        /\ listener' = [listener EXCEPT ![p] = "reading"]
    BY <1>5, <1>b, <1>c DEF HandlerReturns
  <2>2. /\ \A g \in Frame : Unwritten(g)' => Unwritten(g)
        /\ \A n \in Message, r \in Peer : Todo(n, r)' => Todo(n, r)
    BY <1>3, <2>1
  <2>3. \A r \in Peer : Turns(r) \/ listener'[r] = listener[r]
    BY <1>a, <1>2, <2>1
  <2> QED BY <1>a, <1>2, <2>1, <2>2, <2>3, RunStep
<1> QED BY <1>4, <1>5

\* Writes that go from the waiting ones to the queue stay in sight.
LEMMA MoveStep ==
  ASSUME TypeInv, WireInv, UNCHANGED <<run, listener, seen, calls>>,
         \A r \in Peer : \A H, W : Sees(r, H, W) =>
           /\ Either(queue', ops'[r], H, W) <=> Either(queue, ops[r], H, W)
           /\ AtMostOnce(queue, ops[r], H, W) => AtMostOnce(queue', ops'[r], H, W)
  PROVE  /\ ListenerInv' /\ PlacesInv' /\ RunFits' /\ StartsInv'
         /\ \A r \in Peer, f \in Frame : Writing(f, r)' <=> Writing(f, r)
         /\ \A f \in Frame : Unwritten(f)' => Unwritten(f)
         /\ \A m \in Message, r \in Peer : Todo(m, r)' => Todo(m, r)
<1>0. \A o : ~Some(o, {}) /\ Once(o, {})
  BY DEF Some, Once
<1>1. ListenerInv'
  <2> SUFFICES ASSUME NEW r \in Peer
               PROVE  LET there == Either(queue', ops'[r], OfListener(r), Frame)
                      IN  /\ AtMostOnce(queue', ops'[r], OfListener(r), Frame)
                          /\ ~(there /\ Turns(r)')
                          /\ there \/ Turns(r)' => listener'[r] = "busy"
    BY DEF ListenerInv
  <2>1. /\ AtMostOnce(queue, ops[r], OfListener(r), Frame)
        /\ ~(Either(queue, ops[r], OfListener(r), Frame) /\ Turns(r))
        /\ Either(queue, ops[r], OfListener(r), Frame) \/ Turns(r) => listener[r] = "busy"
    BY DEF WireInv, ListenerInv
  <2>2. Sees(r, OfListener(r), Frame)
    BY Views
  <2>3. Turns(r)' <=> Turns(r)
    BY DEF Turns
  <2> QED BY <2>1, <2>2, <2>3
<1>2. ASSUME NEW f \in Frame, NEW r \in Peer
      PROVE  /\ Either(queue', ops'[r], Naming(f, r), {f})
                  <=> Either(queue, ops[r], Naming(f, r), {f})
             /\ Writing(f, r)' <=> Writing(f, r)
             /\ Some(queue', OfRead(f)) <=> Some(queue, OfRead(f))
  <2>1. /\ Sees(r, Naming(f, r), {f}) /\ Sees(r, OfWrite(f, r), {f})
        /\ Sees(r, OfRead(f), {})
    BY Views
  <2>2. Either(queue', ops'[r], Naming(f, r), {f})
          <=> Either(queue, ops[r], Naming(f, r), {f})
    BY <2>1
  <2>3. Writing(f, r)' <=> Writing(f, r)
    BY <2>1 DEF Writing
  <2>4. Either(queue', ops'[r], OfRead(f), {}) <=> Either(queue, ops[r], OfRead(f), {})
    BY <2>1
  <2> QED BY <1>0, <2>2, <2>3, <2>4 DEF Either
<1>3. ASSUME NEW m \in Message, NEW r \in Peer
      PROVE  /\ Some(queue', OfStart(m, r)) <=> Some(queue, OfStart(m, r))
             /\ Once(queue, OfStart(m, r)) => Once(queue', OfStart(m, r))
  <2>1. Sees(r, OfStart(m, r), {})
    BY Views
  <2>2. /\ Either(queue', ops'[r], OfStart(m, r), {})
             <=> Either(queue, ops[r], OfStart(m, r), {})
        /\ AtMostOnce(queue, ops[r], OfStart(m, r), {})
             => AtMostOnce(queue', ops'[r], OfStart(m, r), {})
    BY <2>1
  <2> QED BY <1>0, <2>2 DEF Either, AtMostOnce
<1>4. PlacesInv'
  BY <1>2 DEF WireInv, PlacesInv
<1>5. RunFits'
  BY DEF WireInv, RunFits
<1>6. StartsInv'
  BY <1>3 DEF WireInv, StartsInv
<1>7. \A f \in Frame : Some(queue', OfRead(f)) <=> Some(queue, OfRead(f))
  BY <1>2, PeerIOAssumption
<1>8. /\ \A f \in Frame : Unwritten(f)' => Unwritten(f)
      /\ \A m \in Message, r \in Peer : Todo(m, r)' => Todo(m, r)
  BY <1>3, <1>7, LessToDo
<1> QED BY <1>1, <1>2, <1>4, <1>5, <1>6, <1>8

LEMMA SocketTakesWire ==
  ASSUME IInv, WireInv, NEW p \in Peer, SocketTakes(p)
  PROVE  WireInv'
<1>a. /\ TypeInv /\ queue \in Seq(GoodHandler) /\ ops[p] \in Seq(Writer)
      /\ ops[p] # <<>> /\ ops \in [Peer -> Seq(Writer)] /\ ~undefined
      /\ ops' = [ops EXCEPT ![p] = Tail(@)]
      /\ UNCHANGED <<run, holder, listener, seen, calls>>
      /\ Message \cap Frame = {}
  BY PeerIOAssumption DEF IInv, TypeInv, TypeOK, SocketTakes, Free
<1>b. PICK w \in Writer : w = Head(ops[p])
  BY <1>a
<1>c. PICK k \in 1 .. Chunks - Written(w, p) : wire' = Put(w, p, k)
  BY <1>b DEF SocketTakes
<1>0. k \in Nat /\ queue' = Append(queue, Event("wrote", w, p))
  BY <1>a, <1>b, WrittenType, PeerIOAssumption DEF SocketTakes
<1>1. ASSUME NEW r \in Peer, NEW H, NEW W, Sees(r, H, W)
      PROVE  /\ Either(queue', ops'[r], H, W) <=> Either(queue, ops[r], H, W)
             /\ AtMostOnce(queue, ops[r], H, W) => AtMostOnce(queue', ops'[r], H, W)
  <2>1. /\ Event("wrote", w, p) \in GoodHandler
        /\ Event("wrote", w, p) \in H <=> r = p /\ w \in W
    BY <1>1, EventGood DEF Sees
  <2>2. /\ Some(queue', H) <=> Some(queue, H) \/ (r = p /\ w \in W)
        /\ Once(queue, H) /\ ~(r = p /\ w \in W /\ Some(queue, H)) => Once(queue', H)
    BY <1>a, <1>0, <2>1, SomeAppend
  <2>3. CASE r = p
    <3>1. ops'[r] = Tail(ops[r])
      BY <1>a, <2>3
    <3>2. /\ Some(ops[r], W) <=> w \in W \/ Some(ops'[r], W)
          /\ Once(ops[r], W) => Once(ops'[r], W) /\ ~(w \in W /\ Some(ops'[r], W))
      BY <1>a, <1>b, <2>3, <3>1, SomeTail
    <3> QED BY <2>2, <2>3, <3>2 DEF Either, AtMostOnce
  <2>4. CASE r # p
    <3>1. ops'[r] = ops[r]
      BY <1>a, <2>4
    <3> QED BY <2>2, <2>4, <3>1 DEF Either, AtMostOnce
  <2> QED BY <2>3, <2>4
<1>2. /\ ListenerInv' /\ PlacesInv' /\ RunFits' /\ StartsInv'
      /\ \A r \in Peer, f \in Frame : Writing(f, r)' <=> Writing(f, r)
      /\ \A f \in Frame : Unwritten(f)' => Unwritten(f)
      /\ \A m \in Message, r \in Peer : Todo(m, r)' => Todo(m, r)
  BY <1>a, <1>1, MoveStep
<1>3. Either(queue, ops[p], OfWrite(w, p), {w})
  BY <1>a, <1>b, SomeTail DEF Either
<1>4. Uncut(w, wire[p]) /\ (w \in Message => holder[p] = w)
  BY <1>a, <1>3, WriterUncut
<1>5. w \in Frame => ~Unwritten(w)
  BY <1>a, <1>3, FrameWritten
<1>6. w \in Message => ~Todo(w, p)
  BY <1>4 DEF WireInv, FreshInv
<1>7. ASSUME w \in Frame, NEW f \in Frame, Writing(f, p)'
      PROVE  f = w
  <2>1. Either(queue, ops[p], OfWrite(f, p), {f})
    BY <1>2, <1>7 DEF Writing
  <2>2. AtMostOnce(queue, ops[p], OfListener(p), Frame)
    BY DEF WireInv, ListenerInv
  <2> QED BY <1>a, <1>3, <1>7, <2>1, <2>2, OnePlace
<1>8. FreshInv' /\ CutsInv'
  <2>1. FreshInv /\ CutsInv
    BY DEF WireInv
  <2>2. \A f \in Frame : Unwritten(f)' => Unwritten(f) /\ f # w
    BY <1>2, <1>5
  <2>3. \A m \in Message, r \in Peer : Todo(m, r)' => Todo(m, r) /\ ~(r = p /\ m = w)
    BY <1>2, <1>6
  <2>4. /\ \A r \in Peer, m \in Message :
             holder'[r] = m => holder[r] = m \/ (r = p /\ m = w)
        /\ w \in Message => holder'[p] = w
    BY <1>a, <1>4
  <2>5. wire' = wire \/ (\E l \in Nat : wire' = Put(w, p, l))
    BY <1>c, <1>0
  <2> QED BY <1>a, <1>2, <1>4, <1>7, <2>1, <2>2, <2>3, <2>4, <2>5, Writes
<1> QED BY <1>2, <1>8 DEF WireInv

LEMMA BreaksWire ==
  ASSUME IInv, WireInv, NEW p \in Peer, Breaks(p)
  PROVE  WireInv'
<1> DEFINE o == ops[p]
           e == [i \in DOMAIN o |-> Event("failed", o[i], p)]
<1>0. /\ TypeInv /\ queue \in Seq(GoodHandler) /\ o \in Seq(Writer)
      /\ ops \in [Peer -> Seq(Writer)] /\ ops' = [ops EXCEPT ![p] = <<>>]
      /\ queue' = queue \o e
      /\ UNCHANGED <<run, holder, wire, listener, seen, calls>>
  BY DEF IInv, TypeInv, TypeOK, Breaks
<1> HIDE DEF o
<1>1. e \in Seq(GoodHandler) /\ DOMAIN e = DOMAIN o
  <2>1. \A i \in DOMAIN o : Event("failed", o[i], p) \in GoodHandler
    BY <1>0, EventGood
  <2> QED BY SMTT(30), <1>0, <2>1
<1>2. \A i \in DOMAIN o : o[i] \in Writer /\ e[i] = Event("failed", o[i], p)
  BY <1>0
<1> HIDE DEF e
<1>3. ASSUME NEW r \in Peer, NEW H, NEW W, Sees(r, H, W)
      PROVE  /\ Either(queue', ops'[r], H, W) <=> Either(queue, ops[r], H, W)
             /\ AtMostOnce(queue, ops[r], H, W) => AtMostOnce(queue', ops'[r], H, W)
  <2>1. \A i \in DOMAIN o : e[i] \in H <=> r = p /\ o[i] \in W
    BY <1>2, <1>3 DEF Sees
  <2>2. /\ Some(queue', H) <=> Some(queue, H) \/ Some(e, H)
        /\ Once(queue, H) /\ Once(e, H) /\ ~(Some(queue, H) /\ Some(e, H))
             => Once(queue', H)
    BY <1>0, <1>1, SomeConcat
  <2>3. CASE r = p
    <3>1. ops'[r] = <<>> /\ ops[r] = o
      BY <1>0, <2>3 DEF o
    <3>2. (Some(e, H) <=> Some(o, W)) /\ (Once(o, W) => Once(e, H))
      BY <1>1, <2>1, <2>3 DEF Some, Once
    <3>3. ~Some(<<>>, W) /\ Once(<<>>, W)
      BY DEF Some, Once
    <3> QED BY <2>2, <3>1, <3>2, <3>3 DEF Either, AtMostOnce
  <2>4. CASE r # p
    <3>1. ops'[r] = ops[r]
      BY <1>0, <2>4
    <3>2. ~Some(e, H) /\ Once(e, H)
      BY <1>1, <2>1, <2>4 DEF Some, Once
    <3> QED BY <2>2, <3>1, <3>2 DEF Either, AtMostOnce
  <2> QED BY <2>3, <2>4
<1>4. /\ ListenerInv' /\ PlacesInv' /\ RunFits' /\ StartsInv'
      /\ \A r \in Peer, f \in Frame : Writing(f, r)' <=> Writing(f, r)
      /\ \A f \in Frame : Unwritten(f)' => Unwritten(f)
      /\ \A m \in Message, r \in Peer : Todo(m, r)' => Todo(m, r)
  BY <1>0, <1>3, MoveStep
<1>5. FreshInv' /\ CutsInv'
  BY <1>0, <1>4, Rests DEF WireInv
<1> QED BY <1>4, <1>5 DEF WireInv

\* A frame that arrives, or the end of a connection, wakes the listener.
LEMMA ListenerWakes ==
  ASSUME TypeInv, WireInv, NEW p \in Peer, NEW h \in GoodHandler,
         queue' = Append(queue, h), listener[p] = "reading",
         listener' = [listener EXCEPT ![p] = "busy"], seen \subseteq seen',
         UNCHANGED <<run, holder, ops, wire, calls>>,
         \A r \in Peer : h \in OfListener(r) <=> r = p,
         \A f \in Frame, r \in Peer :
           /\ h \in Naming(f, r) => r = From[f] /\ f \in seen'
           /\ h \notin OfWrite(f, r)
           /\ h \in OfRead(f) => f \notin seen,
         \A m \in Message, r \in Peer : h \notin OfStart(m, r)
  PROVE  WireInv'
<1>0. /\ queue \in Seq(GoodHandler)
      /\ listener \in [Peer -> {"reading", "busy", "ended"}]
  BY DEF TypeInv, TypeOK
<1>1. ListenerInv'
  <2> SUFFICES ASSUME NEW r \in Peer
               PROVE  LET there == Either(queue', ops'[r], OfListener(r), Frame)
                      IN  /\ AtMostOnce(queue', ops'[r], OfListener(r), Frame)
                          /\ ~(there /\ Turns(r)')
                          /\ there \/ Turns(r)' => listener'[r] = "busy"
    BY DEF ListenerInv
  <2> DEFINE was == Either(queue, ops[r], OfListener(r), Frame)
             there == Either(queue', ops'[r], OfListener(r), Frame)
  <2>1. /\ AtMostOnce(queue, ops[r], OfListener(r), Frame)
        /\ ~(was /\ Turns(r))
        /\ was \/ Turns(r) => listener[r] = "busy"
    BY DEF WireInv, ListenerInv
  <2>2. /\ there <=> was \/ r = p
        /\ ~(r = p /\ was) => AtMostOnce(queue', ops'[r], OfListener(r), Frame)
    BY <1>0, <2>1, AppendPlaces
  <2>3. Turns(r)' <=> Turns(r)
    BY DEF Turns
  <2> HIDE DEF was, there
  <2>4. r = p => ~was /\ ~Turns(r)
    BY <2>1
  <2>5. AtMostOnce(queue', ops'[r], OfListener(r), Frame) /\ ~(there /\ Turns(r)')
    BY <2>1, <2>2, <2>3, <2>4
  <2>6. there \/ Turns(r)' => listener'[r] = "busy"
    BY <1>0, <2>1, <2>2, <2>3
  <2> QED BY <2>5, <2>6 DEF there
<1>2. \A u, H, W : Either(queue', u, H, W) <=> Either(queue, u, H, W) \/ h \in H
  BY <1>0, AppendPlaces
<1>3. PlacesInv'
  BY <1>2 DEF WireInv, PlacesInv
<1>4. RunFits'
  BY DEF WireInv, RunFits
<1>5. ASSUME NEW m \in Message, NEW r \in Peer
      PROVE  /\ Some(queue', OfStart(m, r)) <=> Some(queue, OfStart(m, r))
             /\ Once(queue, OfStart(m, r)) => Once(queue', OfStart(m, r))
  BY <1>0, SomeAppend
<1>6. StartsInv'
  BY <1>5 DEF WireInv, StartsInv
<1>7. FreshInv' /\ CutsInv'
  <2>1. \A r \in Peer, f \in Frame : Writing(f, r)' => Writing(f, r)
    BY <1>2 DEF Writing
  <2>2. \A f \in Frame : Some(queue', OfRead(f)) => Some(queue, OfRead(f)) \/ f \notin seen
    <3> SUFFICES ASSUME NEW f \in Frame
                 PROVE  Some(queue', OfRead(f)) => Some(queue, OfRead(f)) \/ f \notin seen
      OBVIOUS
    <3>1. From[f] \in Peer
      BY PeerIOAssumption
    <3> QED BY <1>0, <3>1, SomeAppend
  <2>3. \A f \in Frame : Unread(f)' => Unread(f)
    BY <2>2 DEF Unread
  <2>4. \A f \in Frame : Unwritten(f)' => Unwritten(f)
    BY <2>3 DEF Unwritten
  <2>5. \A m \in Message, r \in Peer : Todo(m, r)' => Todo(m, r)
    BY <1>5, <2>3 DEF Todo
  <2> QED BY <2>1, <2>4, <2>5, Rests DEF WireInv
<1> QED BY <1>1, <1>3, <1>4, <1>6, <1>7 DEF WireInv

LEMMA ArrivesWire ==
  ASSUME IInv, WireInv, NEW f \in Frame, Arrives(f)
  PROVE  WireInv'
<1>0. PICK p \in Peer : p = From[f]
  BY PeerIOAssumption
<1> DEFINE h == Event("read", f, p)
<1>1. /\ TypeInv /\ f \notin seen /\ listener[p] = "reading"
      /\ seen' = seen \cup {f}
      /\ listener' = [listener EXCEPT ![p] = "busy"]
      /\ queue' = Append(queue, h)
      /\ UNCHANGED <<run, holder, ops, wire, calls>>
  BY <1>0 DEF IInv, Arrives
<1>2. h \in GoodHandler
  BY EventGood
<1> HIDE DEF h
<1>3. ASSUME NEW r \in Peer
      PROVE  h \in OfListener(r) <=> r = p
  BY <1>2 DEF OfListener, Event, h
<1>4. ASSUME NEW g \in Frame, NEW r \in Peer
      PROVE  /\ h \in Naming(g, r) => r = From[g] /\ g \in seen'
             /\ h \notin OfWrite(g, r)
             /\ h \in OfRead(g) => g \notin seen
  BY <1>0, <1>1 DEF Naming, OfWrite, OfRead, Event, h
<1>5. \A m \in Message, r \in Peer : h \notin OfStart(m, r)
  BY DEF OfStart, Event, h
<1> QED BY <1>1, <1>2, <1>3, <1>4, <1>5, ListenerWakes

LEMMA ClosesWire ==
  ASSUME IInv, WireInv, NEW p \in Peer, Closes(p)
  PROVE  WireInv'
<1> DEFINE h == Event("closed", None, p)
<1>1. /\ TypeInv /\ listener[p] = "reading" /\ None \notin Frame
      /\ listener' = [listener EXCEPT ![p] = "busy"]
      /\ queue' = Append(queue, h)
      /\ UNCHANGED <<run, holder, ops, wire, seen, calls>>
  BY PeerIOAssumption DEF IInv, Closes
<1>2. h \in GoodHandler
  BY EventGood
<1> HIDE DEF h
<1>3. ASSUME NEW r \in Peer
      PROVE  h \in OfListener(r) <=> r = p
  BY <1>2 DEF OfListener, Event, h
<1>4. ASSUME NEW g \in Frame, NEW r \in Peer
      PROVE  h \notin Naming(g, r) /\ h \notin OfWrite(g, r) /\ h \notin OfRead(g)
  BY <1>1 DEF Naming, OfWrite, OfRead, Event, h
<1>5. \A m \in Message, r \in Peer : h \notin OfStart(m, r)
  BY DEF OfStart, Event, h
<1> QED BY <1>1, <1>2, <1>3, <1>4, <1>5, ListenerWakes

\* async_broadcast goes to each peer once.
LEMMA OrderInjective ==
  ASSUME NEW o \in TableOrder, NEW i \in DOMAIN o, NEW j \in DOMAIN o, o[i] = o[j]
  PROVE  i = j
<1> DEFINE K == {p \in Peer : Kept(p)}
           n == Cardinality(K)
<1>1. IsFiniteSet(K) /\ n \in Nat
  BY PeerIOAssumption, FS_Subset, FS_CardinalityType
<1>2. o \in [1 .. n -> Peer] /\ {o[k] : k \in DOMAIN o} = K
  BY DEF TableOrder
<1> HIDE DEF K
<1>3. o \in Surjection(1 .. n, K)
  BY <1>2 DEF Surjection
<1>4. IsFiniteSet(1 .. n) /\ Cardinality(1 .. n) = n
  BY <1>1, FS_Interval
<1>5. o \in Injection(1 .. n, K)
  BY <1>3, <1>4, FS_SurjSameCardinalityImpliesInj
<1> QED BY <1>2, <1>5 DEF Injection, IsInjective

LEMMA MainBroadcastsWire ==
  ASSUME IInv, WireInv, NEW m \in Message, MainBroadcasts(m)
  PROVE  WireInv'
<1>0. /\ TypeInv /\ queue \in Seq(GoodHandler) /\ m \in calls /\ calls' = calls \ {m}
      /\ calls \subseteq MainCalls
      /\ UNCHANGED <<run, holder, ops, wire, listener, seen>>
  BY DEF IInv, TypeInv, TypeOK, MainBroadcasts
<1>1. PICK o \in TableOrder :
        queue' = queue \o [i \in DOMAIN o |-> Event("start", m, o[i])]
  BY DEF MainBroadcasts
<1> DEFINE e == [i \in DOMAIN o |-> Event("start", m, o[i])]
<1>2. /\ e \in Seq(GoodHandler) /\ DOMAIN e = DOMAIN o
      /\ \A i \in DOMAIN o : o[i] \in Peer /\ e[i] = Event("start", m, o[i])
  <2>1. o \in [1 .. Cardinality({p \in Peer : Kept(p)}) -> Peer]
    BY DEF TableOrder
  <2>2. \A i \in DOMAIN o : Event("start", m, o[i]) \in GoodHandler
    BY <2>1, EventGood
  <2>3. Cardinality({p \in Peer : Kept(p)}) \in Nat
    BY PeerIOAssumption, FS_Subset, FS_CardinalityType
  <2> QED BY <2>1, <2>2, <2>3
<1>3. queue' = queue \o e
  BY <1>1
<1> HIDE DEF e
<1>4. \A H : /\ Some(queue', H) <=> Some(queue, H) \/ Some(e, H)
             /\ Once(queue, H) /\ Once(e, H) /\ ~(Some(queue, H) /\ Some(e, H))
                  => Once(queue', H)
  BY <1>0, <1>2, <1>3, SomeConcat
<1>5. ASSUME NEW f \in Frame, NEW r \in Peer
      PROVE  /\ ~Some(e, Naming(f, r)) /\ ~Some(e, OfWrite(f, r))
             /\ ~Some(e, OfRead(f))
  BY <1>2, OtherEvents DEF Some
<1>6. ASSUME NEW r \in Peer
      PROVE  ~Some(e, OfListener(r))
  <2> SUFFICES ASSUME NEW i \in DOMAIN o, e[i] \in OfListener(r) PROVE FALSE
    BY <1>2 DEF Some
  <2> QED BY <1>2 DEF OfListener, Event
<1>7. ASSUME NEW n \in Message, NEW r \in Peer
      PROVE  Some(e, OfStart(n, r)) => n = m
  BY <1>2 DEF Some, OfStart, Event
<1>8. ASSUME NEW r \in Peer
      PROVE  Once(e, OfStart(m, r))
  <2> SUFFICES ASSUME NEW i \in DOMAIN e, NEW j \in DOMAIN e,
                      e[i] \in OfStart(m, r), e[j] \in OfStart(m, r)
               PROVE  i = j
    BY DEF Once
  <2>1. o[i] = r /\ o[j] = r
    BY <1>2 DEF OfStart, Event
  <2> QED BY <1>2, <2>1, OrderInjective
<1>9. ListenerInv'
  <2> SUFFICES ASSUME NEW r \in Peer
               PROVE  LET there == Either(queue', ops'[r], OfListener(r), Frame)
                      IN  /\ AtMostOnce(queue', ops'[r], OfListener(r), Frame)
                          /\ ~(there /\ Turns(r)')
                          /\ there \/ Turns(r)' => listener'[r] = "busy"
    BY DEF ListenerInv
  <2>1. /\ AtMostOnce(queue, ops[r], OfListener(r), Frame)
        /\ ~(Either(queue, ops[r], OfListener(r), Frame) /\ Turns(r))
        /\ Either(queue, ops[r], OfListener(r), Frame) \/ Turns(r) => listener[r] = "busy"
    BY DEF WireInv, ListenerInv
  <2>2. Once(e, OfListener(r))
    BY <1>6 DEF Once, Some
  <2>3. /\ Some(queue', OfListener(r)) <=> Some(queue, OfListener(r))
        /\ Once(queue, OfListener(r)) => Once(queue', OfListener(r))
    BY <1>4, <1>6, <2>2
  <2>4. Turns(r)' <=> Turns(r)
    BY <1>0 DEF Turns
  <2> QED BY <1>0, <2>1, <2>3, <2>4 DEF Either, AtMostOnce
<1>10. PlacesInv'
  BY <1>0, <1>4, <1>5 DEF WireInv, PlacesInv, Either
<1>11. RunFits'
  BY <1>0 DEF WireInv, RunFits
<1>12. StartsInv'
  <2> SUFFICES ASSUME NEW n \in Message, NEW r \in Peer
               PROVE  /\ Once(queue', OfStart(n, r))
                      /\ Some(queue', OfStart(n, r)) => n \in MainCalls /\ n \notin calls'
    BY DEF StartsInv
  <2>1. /\ Once(queue, OfStart(n, r))
        /\ Some(queue, OfStart(n, r)) => n \in MainCalls /\ n \notin calls
    BY DEF WireInv, StartsInv
  <2>2. CASE n = m
    BY <1>0, <1>4, <1>8, <2>1, <2>2
  <2>3. CASE n # m
    <3>1. ~Some(e, OfStart(n, r)) /\ Once(e, OfStart(n, r))
      BY <1>7, <2>3 DEF Some, Once
    <3> QED BY <1>0, <1>4, <2>1, <3>1
  <2> QED BY <2>2, <2>3
<1>13. FreshInv' /\ CutsInv'
  <2>1. \A r \in Peer, f \in Frame : Writing(f, r)' => Writing(f, r)
    BY <1>0, <1>4, <1>5 DEF Writing, Either
  <2>2. \A f \in Frame : Unread(f)' => Unread(f)
    <3> SUFFICES ASSUME NEW f \in Frame PROVE Unread(f)' => Unread(f)
      OBVIOUS
    <3>1. From[f] \in Peer
      BY PeerIOAssumption
    <3> QED BY <1>0, <1>4, <1>5, <3>1 DEF Unread
  <2>3. \A f \in Frame : Unwritten(f)' => Unwritten(f)
    BY <1>0, <2>2 DEF Unwritten
  <2>4. ASSUME NEW n \in Message, NEW r \in Peer, Todo(n, r)'
        PROVE  Todo(n, r)
    BY <1>0, <1>4, <1>7, <2>2, <2>4 DEF Todo
  <2> QED BY <1>0, <2>1, <2>3, <2>4, Rests DEF WireInv
<1> QED BY <1>9, <1>10, <1>11, <1>12, <1>13 DEF WireInv

LEMMA InitWire == Init => WireInv
<1> SUFFICES ASSUME Init PROVE WireInv
  OBVIOUS
<1>0. \A H : ~Some(<<>>, H) /\ Once(<<>>, H)
  BY DEF Some, Once
<1>1. /\ queue = <<>> /\ run = None /\ \A p \in Peer : ops[p] = <<>> /\ wire[p] = <<>>
      /\ \A p \in Peer, m \in Message : holder[p] # m
  BY PeerIOAssumption DEF Init
<1>2. ListenerInv
  BY <1>0, <1>1 DEF ListenerInv, AtMostOnce, Either, Turns
<1>3. PlacesInv /\ RunFits /\ StartsInv
  BY <1>0, <1>1 DEF PlacesInv, Either, RunFits, StartsInv
<1>4. FreshInv
  BY <1>0, <1>1 DEF FreshInv
<1>5. CutsInv
  <2>1. \A v : Apart(<<>>) /\ Uncut(v, <<>>)
    BY DEF Apart, Uncut
  <2> QED BY <1>1, <2>1 DEF CutsInv
<1> QED BY <1>2, <1>3, <1>4, <1>5 DEF WireInv

LEMMA NextWire == IInv /\ WireInv /\ [Next]_vars => WireInv'
<1> SUFFICES ASSUME IInv, WireInv, [Next]_vars PROVE WireInv'
  OBVIOUS
<1>0. TypeInv
  BY DEF IInv
<1>1. CASE IoThread
  BY <1>0, <1>1, IoReadsWire, IoStartsWire, IoWritesOnWire, IoEndsWire,
     HandlerSendsWire, HandlerEndsWire DEF IoThread
<1>2. ASSUME NEW p \in Peer, SocketTakes(p) \/ Breaks(p) \/ Closes(p)
      PROVE  WireInv'
  BY <1>2, SocketTakesWire, BreaksWire, ClosesWire
<1>3. ASSUME NEW m \in Message, MainBroadcasts(m)
      PROVE  WireInv'
  BY <1>3, MainBroadcastsWire
<1>4. ASSUME NEW f \in Frame, Arrives(f)
      PROVE  WireInv'
  BY <1>4, ArrivesWire
<1>5. CASE UNCHANGED vars
  <2>1. /\ \A r \in Peer : Turns(r)' <=> Turns(r)
        /\ \A f \in Frame : Unwritten(f)' <=> Unwritten(f)
        /\ \A m \in Message, r \in Peer : Todo(m, r)' <=> Todo(m, r)
    BY <1>5 DEF vars, Turns, Unwritten, Unread, Todo
  <2>2. RunFits'
    BY <1>5 DEF vars, WireInv, RunFits
  <2> QED BY <1>0, <1>5, <2>1, <2>2, RunStep DEF vars
<1> QED BY <1>1, <1>2, <1>3, <1>4, <1>5 DEF Next

THEOREM WiresHold == Spec => []WireInv
BY InitWire, NextWire, InductiveInvariant, PTL DEF Spec

\* What comes between two parts of a frame on a wire is an answer in the middle
\* of a send, or a send in the middle of an answer, however often the socket
\* takes only a part of what is written.
THEOREM OnlyAnswersComeBetween == Spec => []OnlyAnswersCutIn
<1>1. IInv /\ WireInv => OnlyAnswersCutIn
  <2> SUFFICES ASSUME IInv, WireInv, NEW p \in Peer,
                      NEW i \in DOMAIN wire[p], NEW j \in DOMAIN wire[p],
                      NEW k \in DOMAIN wire[p],
                      i < j, j < k, wire[p][i] = wire[p][k], wire[p][j] # wire[p][i]
               PROVE  (wire[p][i] \in Frame) # (wire[p][j] \in Frame)
    BY DEF OnlyAnswersCutIn
  <2>1. Apart(wire[p])
    BY DEF WireInv, CutsInv
  <2>2. ~Alike(wire[p][j], wire[p][i])
    BY <2>1 DEF Apart
  <2> QED BY <2>2 DEF Alike
<1> QED BY <1>1, InductiveInvariant, WiresHold, PTL

=============================================================================
