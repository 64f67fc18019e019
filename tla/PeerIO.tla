------------------------------- MODULE PeerIO -------------------------------
(***************************************************************************)
(* Peer: how the coroutines of one io thread share the sockets of the      *)
(* peers.  listen() of each peer reads a frame, has it handled, and writes *)
(* the answer; async_send writes one frame, holding the peer's _socket_mu  *)
(* from its first step to its last, also while it is suspended.  Both call *)
(* async_write, which writes what the socket takes, is suspended until the *)
(* io thread comes to its completion, and goes on with the rest.           *)
(*                                                                         *)
(* queue is the io_context's queue of handlers, run one at a time by the   *)
(* only thread in io_context::run().  co_spawn runs the new coroutine at   *)
(* once when it is called on that thread, and queues it when the main      *)
(* thread calls it.  A frame is its name, Chunks times on the wire.        *)
(***************************************************************************)
EXTENDS FiniteSets, Integers, Sequences

CONSTANTS
  Peer,
  Inbound,     \* the peers that the acceptor made; the others are outbound
  Message,     \* frames that are sent by async_send
  MainCalls,   \* of these: the ones the main thread broadcasts
  Frame,       \* frames that arrive
  From,        \* From[f]: the peer that frame f comes from
  Says,        \* Says[f]: the sends <<m, p>> that the handler of f broadcasts
  Answered,    \* frames whose handler returns an answer to write
  Chunks,      \* how many parts a frame can be written in
  MaxBreaks,   \* bound: connections that break
  None

Send == Message \X Peer

ASSUME PeerIOAssumption ==
  /\ IsFiniteSet(Peer)
  /\ Inbound \subseteq Peer
  /\ MainCalls \subseteq Message
  /\ From \in [Frame -> Peer]
  /\ Says \in [Frame -> Seq(Send)]
  /\ Answered \subseteq Frame
  /\ Message \cap Frame = {}
  /\ \A f, g \in Frame : \A i \in DOMAIN Says[f], j \in DOMAIN Says[g] :
       /\ Says[f][i][1] \notin MainCalls
       /\ Says[f][i] = Says[g][j] => f = g /\ i = j
  /\ Chunks \in Nat \ {0}
  /\ MaxBreaks \in Nat
  /\ None \notin Message \cup Frame \cup Send

VARIABLES
  queue,      \* handlers that are ready, in the order they will run
  run,        \* the listener's handler in progress on the io thread, or None
  blocked,    \* the send whose lock_guard the io thread waits in, or None
  undefined,  \* a coroutine was resumed after its Peer had been destroyed
  holder,     \* holder[p]: the send that holds _socket_mu of p, or None
  ops,        \* ops[p]: writes that wait until the socket takes more
  wire,       \* wire[p]: the chunks written to the socket so far
  open,       \* peers whose connection stands
  listener,   \* listener[p]: reading, busy with a frame, ended
  seen,       \* frames that have arrived
  calls       \* messages that the main thread has yet to broadcast

vars == <<queue, run, blocked, undefined, holder, ops, wire, open, listener,
          seen, calls>>

Writer  == Message \cup Frame
Handler == [kind : {"start", "wrote", "failed", "read", "closed"},
            who : Writer \cup {None}, peer : Peer]
Turn    == [frame : Frame, todo : Seq(Send)]

Init ==
  /\ queue = <<>>
  /\ run = None
  /\ blocked = None
  /\ undefined = FALSE
  /\ holder = [p \in Peer |-> None]
  /\ ops = [p \in Peer |-> <<>>]
  /\ wire = [p \in Peer |-> <<>>]
  /\ open = Peer
  /\ listener = [p \in Peer |-> "reading"]
  /\ seen = {}
  /\ calls = MainCalls

-----------------------------------------------------------------------------
Event(kind, w, p) == [kind |-> kind, who |-> w, peer |-> p]

Written(w, p) == Cardinality({i \in DOMAIN wire[p] : wire[p][i] = w})

\* The peer is in a table of the connection manager: inbound ones are erased,
\* and with that destroyed, when their listener ends.
Kept(p) == p \notin Inbound \/ listener[p] # "ended"

\* The io thread can run the next handler.
Free == blocked = None /\ ~undefined

\* k chunks of w go to p's socket.
Put(w, p, k) == [wire EXCEPT ![p] = @ \o [i \in 1 .. k |-> w]]

\* One write of async_write, queue being q: done as far as the socket takes it
\* now, or put aside behind the writes that wait already.
WriteSome(w, p, q) ==
  \/ /\ p \in open
     /\ ops[p] = <<>>
     /\ \E k \in 1 .. Chunks - Written(w, p) : wire' = Put(w, p, k)
     /\ queue' = Append(q, Event("wrote", w, p))
     /\ UNCHANGED ops
  \/ /\ p \in open
     /\ ops' = [ops EXCEPT ![p] = Append(@, w)]
     /\ queue' = q
     /\ UNCHANGED wire
  \/ /\ p \notin open
     /\ queue' = Append(q, Event("failed", w, p))
     /\ UNCHANGED <<ops, wire>>

\* Mutant: async_send without the lock_guard.
BeginUnlocked(m, p, q) ==
  /\ holder' = [holder EXCEPT ![p] = m]
  /\ WriteSome(m, p, q)
  /\ UNCHANGED blocked

\* async_send up to its first suspension.  Nobody but this thread can resume
\* the owner of a mutex that is taken.
Begin(m, p, q) ==
  \/ /\ holder[p] = None
     /\ holder' = [holder EXCEPT ![p] = m]
     /\ WriteSome(m, p, q)
     /\ UNCHANGED blocked
  \/ /\ holder[p] # None
     /\ blocked' = <<m, p>>
     /\ queue' = q
     /\ UNCHANGED <<holder, ops, wire>>

\* Mutant: the mutex is not released.
ReleaseNothing(p) == UNCHANGED holder

\* The end of async_send.
Release(p) == holder' = [holder EXCEPT ![p] = None]

-----------------------------------------------------------------------------
(* What the io thread takes from its queue *)

Takes(kind) == /\ Free
               /\ run = None
               /\ queue # <<>>
               /\ Head(queue).kind = kind

\* A frame was read: it is handled.
IoReads ==
  /\ Takes("read")
  /\ run' = [frame |-> Head(queue).who, todo |-> Says[Head(queue).who]]
  /\ queue' = Tail(queue)
  /\ UNCHANGED <<blocked, undefined, holder, ops, wire, open, listener, seen, calls>>

\* A send that the main thread has spawned.
IoStarts ==
  /\ Takes("start")
  /\ LET h == Head(queue)
     IN /\ Kept(h.peer)
        /\ Begin(h.who, h.peer, Tail(queue))
  /\ UNCHANGED <<run, undefined, open, listener, seen, calls>>

\* Mutant: async_write ends when the socket has taken a part.
WholeInPart(w, p) == Written(w, p) > 0

Whole(w, p) == Written(w, p) = Chunks

\* A write was done in part, and async_write goes on with the rest.
IoWritesOn ==
  /\ Takes("wrote")
  /\ LET h == Head(queue)
     IN /\ h.who \in Frame \/ Kept(h.peer)
        /\ ~Whole(h.who, h.peer)
        /\ WriteSome(h.who, h.peer, Tail(queue))
  /\ UNCHANGED <<run, blocked, undefined, holder, open, listener, seen, calls>>

\* The rest of a frame was written: async_send ends, or listen() reads on.
\* A connection that has broken meanwhile is noticed by the read.
IoEndsSend ==
  /\ Takes("wrote")
  /\ LET h == Head(queue)
     IN /\ h.who \in Message
        /\ Kept(h.peer)
        /\ Whole(h.who, h.peer)
        /\ Release(h.peer)
  /\ queue' = Tail(queue)
  /\ UNCHANGED <<run, blocked, undefined, ops, wire, open, listener, seen, calls>>

IoEndsAnswer ==
  /\ Takes("wrote")
  /\ LET h == Head(queue)
     IN /\ h.who \in Frame
        /\ Whole(h.who, h.peer)
        /\ listener' = [listener EXCEPT ![h.peer] = "reading"]
  /\ queue' = Tail(queue)
  /\ UNCHANGED <<run, blocked, undefined, holder, ops, wire, open, seen, calls>>

\* A write failed: the exception ends the coroutine, and releases the mutex.
IoSendFails ==
  /\ Takes("failed")
  /\ LET h == Head(queue)
     IN /\ h.who \in Message
        /\ Kept(h.peer)
        /\ Release(h.peer)
  /\ queue' = Tail(queue)
  /\ UNCHANGED <<run, blocked, undefined, ops, wire, open, listener, seen, calls>>

\* A read or the writing of an answer failed: listen() ends.
IoEndsListener ==
  /\ Takes("closed") \/ Takes("failed")
  /\ Head(queue).who \notin Message
  /\ listener' = [listener EXCEPT ![Head(queue).peer] = "ended"]
  /\ queue' = Tail(queue)
  /\ UNCHANGED <<run, blocked, undefined, holder, ops, wire, open, seen, calls>>

\* async_send of a Peer that is gone: its coroutine has only a bare this.
IoUsesDestroyed ==
  /\ Takes("start") \/ Takes("wrote") \/ Takes("failed")
  /\ Head(queue).who \in Message
  /\ ~Kept(Head(queue).peer)
  /\ undefined' = TRUE
  /\ queue' = Tail(queue)
  /\ UNCHANGED <<run, blocked, holder, ops, wire, open, listener, seen, calls>>

(* The rest of listen()'s turn *)

\* The handler spawns its next send, which runs at once.
HandlerSends ==
  /\ Free
  /\ run # None
  /\ run.todo # <<>>
  /\ LET s == Head(run.todo)
     IN IF Kept(s[2])
        THEN Begin(s[1], s[2], queue)
        ELSE UNCHANGED <<queue, blocked, holder, ops, wire>>
  /\ run' = [run EXCEPT !.todo = Tail(@)]
  /\ UNCHANGED <<undefined, open, listener, seen, calls>>

\* The handler is through: listen() writes the answer, without the mutex.
HandlerAnswers ==
  /\ Free
  /\ run # None
  /\ run.todo = <<>>
  /\ run.frame \in Answered
  /\ WriteSome(run.frame, From[run.frame], queue)
  /\ run' = None
  /\ UNCHANGED <<blocked, undefined, holder, open, listener, seen, calls>>

\* The handler is through and there is nothing to answer.
HandlerReturns ==
  /\ Free
  /\ run # None
  /\ run.todo = <<>>
  /\ run.frame \notin Answered
  /\ listener' = [listener EXCEPT ![From[run.frame]] = "reading"]
  /\ run' = None
  /\ UNCHANGED <<queue, blocked, undefined, holder, ops, wire, open, seen, calls>>

\* The reactor, which the same thread runs between handlers: the socket takes
\* more of the write that waits first.
SocketTakes(p) ==
  /\ Free
  /\ run = None
  /\ ops[p] # <<>>
  /\ LET w == Head(ops[p])
     IN /\ \E k \in 1 .. Chunks - Written(w, p) : wire' = Put(w, p, k)
        /\ queue' = Append(queue, Event("wrote", w, p))
  /\ ops' = [ops EXCEPT ![p] = Tail(@)]
  /\ UNCHANGED <<run, blocked, undefined, holder, open, listener, seen, calls>>

-----------------------------------------------------------------------------
(* The main thread and the other ends *)

\* Some order of the peers in the two tables.
TableOrder == {o \in [1 .. Cardinality({p \in Peer : Kept(p)}) -> Peer] :
                 {o[i] : i \in DOMAIN o} = {p \in Peer : Kept(p)}}

\* async_broadcast of a block mined here.  It takes the mutexes of the tables,
\* which a handler that broadcasts on the io thread holds while it does.
MainBroadcasts(m) ==
  /\ m \in calls
  /\ ~undefined
  /\ run # None => run.todo = <<>> /\ blocked = None
  /\ \E o \in TableOrder :
       queue' = queue \o [i \in DOMAIN o |-> Event("start", m, o[i])]
  /\ calls' = calls \ {m}
  /\ UNCHANGED <<run, blocked, undefined, holder, ops, wire, open, listener, seen>>

\* A frame arrives where listen() waits for one.
Arrives(f) ==
  LET from == From[f]
  IN /\ f \notin seen
     /\ ~undefined
     /\ from \in open
     /\ listener[from] = "reading"
     /\ seen' = seen \cup {f}
     /\ listener' = [listener EXCEPT ![from] = "busy"]
     /\ queue' = Append(queue, Event("read", f, from))
     /\ UNCHANGED <<run, blocked, undefined, holder, ops, wire, open, calls>>

\* The connection breaks: writes that wait fail, first.
Breaks(p) ==
  /\ ~undefined
  /\ Cardinality(Peer \ open) < MaxBreaks
  /\ p \in open
  /\ open' = open \ {p}
  /\ ops' = [ops EXCEPT ![p] = <<>>]
  /\ queue' = queue \o [i \in DOMAIN ops[p] |-> Event("failed", ops[p][i], p)]
  /\ UNCHANGED <<run, blocked, undefined, holder, wire, listener, seen, calls>>

\* listen() waits for a frame of a connection that is broken.
Closes(p) ==
  /\ ~undefined
  /\ p \notin open
  /\ listener[p] = "reading"
  /\ listener' = [listener EXCEPT ![p] = "busy"]
  /\ queue' = Append(queue, Event("closed", None, p))
  /\ UNCHANGED <<run, blocked, undefined, holder, ops, wire, open, seen, calls>>

-----------------------------------------------------------------------------
IoThread ==
  \/ IoReads \/ IoStarts \/ IoWritesOn \/ IoEndsSend \/ IoEndsAnswer
  \/ IoSendFails \/ IoEndsListener \/ IoUsesDestroyed
  \/ HandlerSends \/ HandlerAnswers \/ HandlerReturns

Next ==
  \/ IoThread
  \/ \E p \in Peer : SocketTakes(p) \/ Breaks(p) \/ Closes(p)
  \/ \E m \in Message : MainBroadcasts(m)
  \/ \E f \in Frame : Arrives(f)

\* The io thread runs what is ready, and a peer reads what was sent to it.
Spec     == Init /\ [][Next]_vars
FairSpec == Spec /\ WF_vars(IoThread) /\ \A p \in Peer : WF_vars(SocketTakes(p))

-----------------------------------------------------------------------------
(* Properties *)

\* Types of the io thread's queue and turn, of the coroutines and the sockets.
TypeOK ==
  /\ queue \in Seq(Handler)
  /\ run \in Turn \cup {None}
  /\ blocked \in Send \cup {None}
  /\ undefined \in BOOLEAN
  /\ holder \in [Peer -> Message \cup {None}]
  /\ ops \in [Peer -> Seq(Writer)]
  /\ wire \in [Peer -> Seq(Writer)]
  /\ open \subseteq Peer
  /\ listener \in [Peer -> {"reading", "busy", "ended"}]
  /\ seen \subseteq Frame
  /\ calls \subseteq MainCalls

\* async_write of w to p is under way: it waits for the socket, or the io
\* thread has yet to come to its completion.
UnderWay(w, p) ==
  \/ \E i \in DOMAIN ops[p] : ops[p][i] = w
  \/ \E i \in DOMAIN queue : /\ queue[i].kind \in {"wrote", "failed"}
                             /\ queue[i].who = w
                             /\ queue[i].peer = p

\* _socket_mu of a peer is held by the async_send that has a write under way
\* on its socket, and is free when there is none: at most one at a time, and
\* no mutex outlives its send.  So the io thread waits for itself (blocked)
\* only if a send starts while an earlier one to the same peer is suspended.
HeldWhileWriting ==
  ~undefined => \A p \in Peer, m \in Message : holder[p] = m <=> UnderWay(m, p)

\* What stands between two chunks of a frame is an answer in the middle of a
\* send, or a send in the middle of an answer: the mutex keeps async_sends
\* apart, and a listener's answers follow one another, but listen() writes
\* its answers without the mutex.
OnlyAnswersCutIn ==
  \A p \in Peer : \A i, j, k \in DOMAIN wire[p] :
    i < j /\ j < k /\ wire[p][i] = wire[p][k] /\ wire[p][j] # wire[p][i] =>
      (wire[p][i] \in Frame) # (wire[p][j] \in Frame)

\* A frame that listen() or async_send has begun, or that waits to be sent, is
\* written as a whole, unless the connection breaks or the io thread is stuck.
Pending(w, p) ==
  \/ UnderWay(w, p)
  \/ \E i \in DOMAIN queue : queue[i] = Event("start", w, p)

FramesComplete ==
  \A w \in Writer, p \in Peer :
    Pending(w, p) ~> Written(w, p) = Chunks \/ p \notin open \/ ~Free
=============================================================================
