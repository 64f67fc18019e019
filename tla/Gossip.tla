------------------------------- MODULE Gossip -------------------------------
(***************************************************************************)
(* How blocks, transactions and computations spread between nodes: the     *)
(* message handlers of Node and Router, the sync that the main thread of a *)
(* new node waits for, and the announcement of mined blocks.               *)
(*                                                                         *)
(* Only the node on port 5000 mines (Node::start), so there is one chain,  *)
(* a block is its height, and a node's chain is its current_height.  Forks *)
(* are ChainManager's subject.  A node's io thread runs one handler at a   *)
(* time.  A connection carries its bytes in order, but a response is       *)
(* written by the listener and everything else by a coroutine of its own,  *)
(* so each direction has two queues.  Two such coroutines of one socket    *)
(* may lock each other out (PeerIO); here the io thread then stops.        *)
(***************************************************************************)
EXTENDS FiniteSets, Integers, Sequences

CONSTANTS
  Node,
  Miner,        \* the node on port 5000
  Transaction, Computation,
  Needs,        \* Needs[i]: from this height on, i's inputs are outputs of the chain
  MaxHeight,    \* bound: no block is mined above it
  MaxItems,     \* bound: clients hand in so many items
  MaxBreaks,    \* bound: so many connections break
  None

Item == Transaction \cup Computation

ASSUME GossipAssumption ==
  /\ Miner \in Node
  /\ None \notin Node
  /\ Transaction \cap Computation = {}
  /\ IsFiniteSet(Item)
  /\ Needs \in [Item -> Nat]
  /\ \A c \in Computation : Needs[c] = 0
  /\ MaxHeight \in Nat
  /\ MaxItems \in Nat
  /\ MaxBreaks \in Nat

VARIABLES
  phase,      \* phase[n]: is_synced_, and how far the main thread has come
  height,     \* height[n]: current_height of the main chain
  held,       \* held[n]: transactions of the pool, computations of the store
  outbound,   \* outbound[n]: outbound_peer_map_, closed connections included
  syncPeer,   \* syncPeer[n]: sync_peer_
  caughtUp,   \* history: sync_peer_ was synced itself when it ended n's sync
  fresh,      \* items no client has handed in
  unannounced,\* the miner has appended a block and not yet announced it
  links,      \* open connections <<a, b>>, outbound at a and inbound at b
  queue,      \* queue[<<a, b, kind>>]: messages from a to b
  rejected,   \* blocks for which add_block of the other nodes returns false
  thrown,     \* blocks for which it throws
  deaf,       \* <<n, m>>: n's listener of its connection to m has ended
  stopped     \* nodes whose io thread waits for itself

vars == <<phase, height, held, outbound, syncPeer, caughtUp, fresh,
          unannounced, links, queue, rejected, thrown, deaf, stopped>>

\* What one handler alone changes, or nobody.
aside == <<rejected, thrown, deaf, stopped>>

Channel == {c \in Node \X Node \X {"response", "send"} : c[1] # c[2]}

Linked(n, m) == <<n, m>> \in links \/ <<m, n>> \in links

Running(n) == phase[n] \in {"starting", "syncing", "synced"}

Init ==
  /\ phase = [n \in Node |-> "off"]
  /\ height = [n \in Node |-> 0]
  /\ held = [n \in Node |-> {}]
  /\ outbound = [n \in Node |-> {}]
  /\ syncPeer = [n \in Node |-> None]
  /\ caughtUp = [n \in Node |-> FALSE]
  /\ fresh = Item
  /\ unannounced = FALSE
  /\ links = {}
  /\ queue = [c \in Channel |-> <<>>]
  /\ rejected \in SUBSET (1 .. MaxHeight)
  /\ thrown \in SUBSET ((1 .. MaxHeight) \ rejected)
  /\ deaf = {}
  /\ stopped = {}

-----------------------------------------------------------------------------
(* Messages.  wellSynced is history. *)

BlockMsg(type, b) == [type |-> type, block |-> b, items |-> {}, wellSynced |-> FALSE]
ItemMsg(type, S) == [type |-> type, block |-> 0, items |-> S, wellSynced |-> FALSE]
OutOfRange(n) == [type |-> "OutOfRange", block |-> 0, items |-> {},
                  wellSynced |-> phase[n] = "synced"]

\* async_send_to_peer; nothing is written to a closed connection.
SendTo(q, n, m, msg) ==
  IF Linked(n, m) THEN [q EXCEPT ![<<n, m, "send">>] = Append(@, msg)] ELSE q

\* async_broadcast, once for each message of a sequence.
Broadcast(q, n, msgs) ==
  [c \in Channel |->
     IF c[1] = n /\ c[3] = "send" /\ Linked(n, c[2]) THEN q[c] \o msgs ELSE q[c]]

\* The listener of m's connection returns n's response.
Respond(q, n, m, msg) == [q EXCEPT ![<<n, m, "response">>] = Append(@, msg)]

\* n takes a message of type T out of channel c.
Receives(n, c, T) ==
  /\ queue[c] # <<>>
  /\ Head(queue[c]).type = T
  /\ Running(n) /\ n \notin stopped
  /\ <<n, c[1]>> \notin deaf

Taken(c) == [queue EXCEPT ![c] = Tail(@)]

\* Connections of S close: what is in them is lost.
Closed(q, S) ==
  [c \in Channel |-> IF {<<c[1], c[2]>>, <<c[2], c[1]>>} \cap S # {} THEN <<>> ELSE q[c]]

LinksOf(n) == {l \in links : n \in {l[1], l[2]}}

-----------------------------------------------------------------------------
(* A node starts *)

\* The constructor connects to bootstrap peers and to those they name, as far
\* as they answer; then the io thread runs, and the main thread sleeps.
Boot(n, peers) ==
  /\ phase[n] = "off"
  /\ \A p \in peers : p # n /\ Running(p) /\ p \notin stopped
  /\ phase' = [phase EXCEPT ![n] = "starting"]
  /\ outbound' = [outbound EXCEPT ![n] = peers]
  /\ links' = links \cup {<<n, p>> : p \in peers}
  /\ UNCHANGED <<height, held, syncPeer, caughtUp, fresh, unannounced, queue, aside>>

\* start_sync with no outbound peer
StartAlone(n) ==
  /\ phase[n] = "starting"
  /\ outbound[n] = {}
  /\ phase' = [phase EXCEPT ![n] = "synced"]
  /\ UNCHANGED <<height, held, outbound, syncPeer, caughtUp, fresh, unannounced,
                 links, queue, aside>>

StartSync(n) ==
  /\ phase[n] = "starting"
  /\ \E p \in outbound[n] :
       /\ syncPeer' = [syncPeer EXCEPT ![n] = p]
       /\ queue' = SendTo(queue, n, p, BlockMsg("SyncBlock", 1))
  /\ phase' = [phase EXCEPT ![n] = "syncing"]
  /\ UNCHANGED <<height, held, outbound, caughtUp, fresh, unannounced, links, aside>>

-----------------------------------------------------------------------------
(* Blocks *)

\* The main thread appends a block it mined ...
Mine ==
  /\ phase[Miner] = "synced"
  /\ ~unannounced
  /\ height[Miner] < MaxHeight
  /\ height' = [height EXCEPT ![Miner] = @ + 1]
  /\ unannounced' = TRUE
  /\ UNCHANGED <<phase, held, outbound, syncPeer, caughtUp, fresh, links, queue, aside>>

\* ... and then announces it.
Announce ==
  /\ unannounced
  /\ unannounced' = FALSE
  /\ queue' = Broadcast(queue, Miner, <<BlockMsg("InvBlock", height[Miner])>>)
  /\ UNCHANGED <<phase, height, held, outbound, syncPeer, caughtUp, fresh, links, aside>>

\* Mutant: announcements are ignored during the sync.
HandleInvBlockSynced(n, c) ==
  /\ Receives(n, c, "InvBlock")
  /\ LET b == Head(queue[c]).block
     IN  queue' = IF b > height[n] /\ phase[n] = "synced"
                  THEN Respond(Taken(c), n, c[1], BlockMsg("GetBlock", b))
                  ELSE Taken(c)
  /\ UNCHANGED <<phase, height, held, outbound, syncPeer, caughtUp, fresh,
                 unannounced, links, aside>>

HandleInvBlock(n, c) ==
  /\ Receives(n, c, "InvBlock")
  /\ LET b == Head(queue[c]).block
     IN  queue' = IF b > height[n]
                  THEN Respond(Taken(c), n, c[1], BlockMsg("GetBlock", b))
                  ELSE Taken(c)
  /\ UNCHANGED <<phase, height, held, outbound, syncPeer, caughtUp, fresh,
                 unannounced, links, aside>>

HandleGetBlock(n, c) ==
  /\ Receives(n, c, "GetBlock")
  /\ LET b == Head(queue[c]).block
     IN  queue' = IF b <= height[n]
                  THEN Respond(Taken(c), n, c[1], BlockMsg("InfoBlock", b))
                  ELSE Taken(c)
  /\ UNCHANGED <<phase, height, held, outbound, syncPeer, caughtUp, fresh,
                 unannounced, links, aside>>

HandleSyncBlock(n, c) ==
  /\ Receives(n, c, "SyncBlock")
  /\ LET b == Head(queue[c]).block
     IN  queue' = Respond(Taken(c), n, c[1],
                          IF b > height[n] THEN OutOfRange(n)
                          ELSE BlockMsg("InfoBlock", b))
  /\ UNCHANGED <<phase, height, held, outbound, syncPeer, caughtUp, fresh,
                 unannounced, links, aside>>

\* The block in channel c is the next of n's chain.
Attaches(n, c) == Head(queue[c]).block = height[n] + 1

\* add_block adds block b where it attaches.
Sound(b) == b \notin rejected \cup thrown

\* It is known already, or an orphan; in either case it is dropped.
DropBlock(n, c) ==
  /\ Receives(n, c, "InfoBlock")
  /\ ~Attaches(n, c)
  /\ queue' = Taken(c)
  /\ UNCHANGED <<phase, height, held, outbound, syncPeer, caughtUp, fresh,
                 unannounced, links, aside>>

\* handle_info_block: the block is announced.
AddBlock(n, c) ==
  /\ Receives(n, c, "InfoBlock")
  /\ Attaches(n, c) /\ Sound(height[n] + 1)
  /\ phase[n] = "synced"
  /\ height' = [height EXCEPT ![n] = @ + 1]
  /\ queue' = Broadcast(Taken(c), n, <<BlockMsg("InvBlock", height[n] + 1)>>)
  /\ UNCHANGED <<phase, held, outbound, syncPeer, caughtUp, fresh, unannounced,
                 links, aside>>

\* Mutant: the request is for the height just reached.
AddBlockSyncSame(n, c) ==
  /\ Receives(n, c, "InfoBlock")
  /\ Attaches(n, c) /\ Sound(height[n] + 1)
  /\ phase[n] = "syncing"
  /\ height' = [height EXCEPT ![n] = @ + 1]
  /\ queue' = SendTo(Taken(c), n, syncPeer[n], BlockMsg("SyncBlock", height[n] + 1))
  /\ UNCHANGED <<phase, held, outbound, syncPeer, caughtUp, fresh, unannounced,
                 links, aside>>

\* handle_info_block_sync: the next block is asked for, whoever sent this one.
AddBlockSync(n, c) ==
  /\ Receives(n, c, "InfoBlock")
  /\ Attaches(n, c) /\ Sound(height[n] + 1)
  /\ phase[n] = "syncing"
  /\ height' = [height EXCEPT ![n] = @ + 1]
  /\ queue' = SendTo(Taken(c), n, syncPeer[n], BlockMsg("SyncBlock", height[n] + 2))
  /\ UNCHANGED <<phase, held, outbound, syncPeer, caughtUp, fresh, unannounced,
                 links, aside>>

\* add_block returns false: the block is not announced, and during the sync the
\* next one is not asked for.
RejectBlock(n, c) ==
  /\ Receives(n, c, "InfoBlock")
  /\ Attaches(n, c) /\ height[n] + 1 \in rejected
  /\ queue' = Taken(c)
  /\ UNCHANGED <<phase, height, held, outbound, syncPeer, caughtUp, fresh,
                 unannounced, links, aside>>

\* add_block throws, and the listener ends: the acceptor forgets the peer, which
\* closes the connection; the other side keeps it and reads it no more.
ThrowAtBlock(n, c) ==
  /\ Receives(n, c, "InfoBlock")
  /\ Attaches(n, c) /\ height[n] + 1 \in thrown
  /\ links' = links \ {<<c[1], n>>}
  /\ queue' = Closed(Taken(c), links \cap {<<c[1], n>>})
  /\ deaf' = deaf \cup ({<<n, c[1]>>} \cap links)
  /\ UNCHANGED <<phase, height, held, outbound, syncPeer, caughtUp, fresh,
                 unannounced, rejected, thrown, stopped>>

\* Before start_sync: sync_peer_ is null, async_send dereferences it.
AddBlockTooEarly(n, c) ==
  /\ Receives(n, c, "InfoBlock")
  /\ Attaches(n, c) /\ Sound(height[n] + 1)
  /\ phase[n] = "starting"
  /\ phase' = [phase EXCEPT ![n] = "crashed"]
  /\ links' = links \ LinksOf(n)
  /\ queue' = Closed(Taken(c), LinksOf(n))
  /\ UNCHANGED <<height, held, outbound, syncPeer, caughtUp, fresh, unannounced, aside>>

\* Mutant: the peer's transactions are not asked for.
EndSyncOnly(n, c) ==
  /\ Receives(n, c, "OutOfRange")
  /\ phase[n] = "syncing"
  /\ phase' = [phase EXCEPT ![n] = "synced"]
  /\ caughtUp' = [caughtUp EXCEPT ![n] = Head(queue[c]).wellSynced]
  /\ queue' = Taken(c)
  /\ UNCHANGED <<height, held, outbound, syncPeer, fresh, unannounced, links, aside>>

\* set_synced, which lets the main thread go on, and sync_mempool
EndSync(n, c) ==
  /\ Receives(n, c, "OutOfRange")
  /\ phase[n] = "syncing"
  /\ phase' = [phase EXCEPT ![n] = "synced"]
  /\ caughtUp' = [caughtUp EXCEPT ![n] = Head(queue[c]).wellSynced]
  /\ queue' = SendTo(Taken(c), n, syncPeer[n], ItemMsg("SyncTransactions", {}))
  /\ UNCHANGED <<height, held, outbound, syncPeer, fresh, unannounced, links, aside>>

\* The answer to a second SyncBlock: its empty block attaches nowhere.
DropOutOfRange(n, c) ==
  /\ Receives(n, c, "OutOfRange")
  /\ phase[n] = "synced"
  /\ queue' = Taken(c)
  /\ UNCHANGED <<phase, height, held, outbound, syncPeer, caughtUp, fresh,
                 unannounced, links, aside>>

-----------------------------------------------------------------------------
(* Transactions and computations, handled alike but for their stores *)

\* A client hands in a computation or has the wallet make a transaction.
NewItem(n, i) ==
  /\ Running(n) /\ n \notin stopped
  /\ i \in fresh
  /\ Cardinality(Item \ fresh) < MaxItems
  /\ Needs[i] <= height[n]
  /\ fresh' = fresh \ {i}
  /\ held' = [held EXCEPT ![n] = @ \cup {i}]
  /\ queue' = Broadcast(queue, n, <<ItemMsg("InvItem", {i})>>)
  /\ UNCHANGED <<phase, height, outbound, syncPeer, caughtUp, unannounced, links, aside>>

HandleInvItem(n, c) ==
  /\ Receives(n, c, "InvItem")
  /\ LET S == Head(queue[c]).items \ held[n]
     IN  queue' = IF S # {} THEN Respond(Taken(c), n, c[1], ItemMsg("GetItem", S))
                  ELSE Taken(c)
  /\ UNCHANGED <<phase, height, held, outbound, syncPeer, caughtUp, fresh,
                 unannounced, links, aside>>

HandleGetItem(n, c) ==
  /\ Receives(n, c, "GetItem")
  /\ LET S == Head(queue[c]).items \cap held[n]
     IN  queue' = IF S # {} THEN Respond(Taken(c), n, c[1], ItemMsg("InfoItem", S))
                  ELSE Taken(c)
  /\ UNCHANGED <<phase, height, held, outbound, syncPeer, caughtUp, fresh,
                 unannounced, links, aside>>

\* add_tx refuses what it finds no inputs for; what is added is announced.
HandleInfoItem(n, c) ==
  /\ Receives(n, c, "InfoItem")
  /\ LET S == {i \in Head(queue[c]).items \ held[n] : Needs[i] <= height[n]}
     IN  /\ held' = [held EXCEPT ![n] = @ \cup S]
         /\ queue' = IF S # {} THEN Broadcast(Taken(c), n, <<ItemMsg("InvItem", S)>>)
                     ELSE Taken(c)
  /\ UNCHANGED <<phase, height, outbound, syncPeer, caughtUp, fresh, unannounced,
                 links, aside>>

\* The pool is listed, not the computation store.
HandleSyncTransactions(n, c) ==
  /\ Receives(n, c, "SyncTransactions")
  /\ queue' = Respond(Taken(c), n, c[1],
                      ItemMsg("ListTransactions", held[n] \cap Transaction))
  /\ UNCHANGED <<phase, height, held, outbound, syncPeer, caughtUp, fresh,
                 unannounced, links, aside>>

\* Every transaction is asked of every peer, one message each in some order.
HandleListTransactions(n, c) ==
  /\ Receives(n, c, "ListTransactions")
  /\ LET S == Head(queue[c]).items
     IN  \E order \in [1 .. Cardinality(S) -> S] :
           /\ {order[k] : k \in DOMAIN order} = S
           /\ queue' = Broadcast(Taken(c), n,
                         [k \in DOMAIN order |-> ItemMsg("GetItem", {order[k]})])
  /\ UNCHANGED <<phase, height, held, outbound, syncPeer, caughtUp, fresh,
                 unannounced, links, aside>>

-----------------------------------------------------------------------------
\* A connection breaks.  The acceptor forgets the peer, the other side does not.
Break(l) ==
  /\ Cardinality({k \in Node \X Node : k[2] \in outbound[k[1]] /\ k \notin links})
       < MaxBreaks
  /\ links' = links \ {l}
  /\ queue' = Closed(queue, {l})
  /\ UNCHANGED <<phase, height, held, outbound, syncPeer, caughtUp, fresh,
                 unannounced, aside>>

\* Of two coroutines that write to one peer the second locks its _socket_mu
\* while the first is suspended: the io thread waits for itself.  What it had
\* still to write stays in its queues, and may never be read.
StopIO(n) ==
  /\ Running(n) /\ n \notin stopped
  /\ \E p \in Node \ {n} : Len(queue[<<n, p, "send">>]) >= 2
  /\ stopped' = stopped \cup {n}
  /\ UNCHANGED <<phase, height, held, outbound, syncPeer, caughtUp, fresh,
                 unannounced, links, queue, rejected, thrown, deaf>>

\* The listener of c's receiving end.
Listen(c) ==
  LET n == c[2] IN
  \/ HandleInvBlock(n, c) \/ HandleGetBlock(n, c) \/ HandleSyncBlock(n, c)
  \/ DropBlock(n, c) \/ AddBlock(n, c) \/ AddBlockSync(n, c)
  \/ RejectBlock(n, c) \/ ThrowAtBlock(n, c)
  \/ AddBlockTooEarly(n, c) \/ EndSync(n, c) \/ DropOutOfRange(n, c)
  \/ HandleInvItem(n, c) \/ HandleGetItem(n, c) \/ HandleInfoItem(n, c)
  \/ HandleSyncTransactions(n, c) \/ HandleListTransactions(n, c)

MainThread(n) == StartAlone(n) \/ StartSync(n)

Next ==
  \/ \E n \in Node, peers \in SUBSET Node : Boot(n, peers)
  \/ \E n \in Node : MainThread(n)
  \/ Mine \/ Announce
  \/ \E c \in Channel : Listen(c)
  \/ \E n \in Node, i \in Item : NewItem(n, i)
  \/ \E l \in links : Break(l)
  \/ \E n \in Node : StopIO(n)

Spec == Init /\ [][Next]_vars

\* The threads of a running node go on.  Its io thread gets round to every
\* listener, unless it waits for itself (StopIO), and the other end has written
\* what is to be read, unless its io thread does.  Nothing is assumed of
\* clients, of mining or of connections.
FairSpec ==
  /\ Spec
  /\ \A n \in Node : WF_vars(MainThread(n))
  /\ WF_vars(Announce)
  /\ \A c \in Channel : WF_vars(c[1] \notin stopped /\ Listen(c))

-----------------------------------------------------------------------------
(* Properties *)

Message == [type : {"InvBlock", "GetBlock", "SyncBlock", "InfoBlock", "OutOfRange",
                    "InvItem", "GetItem", "InfoItem", "SyncTransactions",
                    "ListTransactions"},
            block : Nat, items : SUBSET Item, wellSynced : BOOLEAN]

\* Types of the variables.
TypeOK ==
  /\ phase \in [Node -> {"off", "starting", "syncing", "synced", "crashed"}]
  /\ height \in [Node -> 0 .. MaxHeight]
  /\ held \in [Node -> SUBSET Item]
  /\ outbound \in [Node -> SUBSET Node]
  /\ syncPeer \in [Node -> Node \cup {None}]
  /\ caughtUp \in [Node -> BOOLEAN]
  /\ fresh \subseteq Item
  /\ unannounced \in BOOLEAN
  /\ links \subseteq Node \X Node
  /\ queue \in [Channel -> Seq(Message)]
  /\ rejected \subseteq 1 .. MaxHeight
  /\ thrown \subseteq 1 .. MaxHeight
  /\ deaf \subseteq Node \X Node
  /\ stopped \subseteq Node

\* Some message of type T with block b is under way from n to m.
UnderWay(n, m, kind, T, b) ==
  \E k \in DOMAIN queue[<<n, m, kind>>] :
    queue[<<n, m, kind>>][k].type = T /\ queue[<<n, m, kind>>][k].block = b

\* While a node syncs and the connection holds, the request for its next block
\* or the answer to it is under way, although blocks that arrive on their own
\* are appended in between and the answers to earlier requests are dropped;
\* unless the sync peer has a next block that add_block does not add.
SyncUnderWay ==
  \A n \in Node :
    LET p == syncPeer[n]
        next == height[n] + 1
    IN  phase[n] = "syncing" /\ Linked(n, p) /\ (height[p] >= next => Sound(next)) =>
          \/ UnderWay(n, p, "send", "SyncBlock", next)
          \/ UnderWay(p, n, "response", "InfoBlock", next)
          \/ UnderWay(p, n, "response", "OutOfRange", 0)

\* Between the end of its sync and the announcements no block is lost: each
\* block a node lacks of its sync peer, which was synced itself, is on its way,
\* up to the first that add_block does not add.
MissingIsUnderWay ==
  \A n \in Node :
    LET p == syncPeer[n]
    IN  phase[n] = "synced" /\ caughtUp[n] /\ Linked(n, p) =>
          \A b \in height[n] + 1 .. height[p] :
            (\A k \in height[n] + 1 .. b : Sound(k)) =>
              \/ UnderWay(p, n, "send", "InvBlock", b)
              \/ UnderWay(n, p, "response", "GetBlock", b)
              \/ UnderWay(p, n, "response", "InfoBlock", b)
              \/ p = Miner /\ unannounced /\ b = height[p]

\* A message of type T with item i is under way from n to m.
ItemUnderWay(n, m, T, i) ==
  \E kind \in {"response", "send"} : \E k \in DOMAIN queue[<<n, m, kind>>] :
    LET msg == queue[<<n, m, kind>>][k] IN msg.type = T /\ i \in msg.items

\* An item that anybody can accept is offered to those one connected to; and
\* between the list a node asks for at the end of its sync and the
\* announcements no transaction of the sync peer is lost.
ItemsUnderWay ==
  \A n, m \in Node, i \in Item :
    /\ Linked(n, m) /\ Needs[i] = 0
    /\ i \in held[m] \ held[n]
    /\ \/ n \in outbound[m]
       \/ phase[n] = "synced" /\ syncPeer[n] = m /\ i \in Transaction
    => \/ ItemUnderWay(m, n, "InvItem", i)
       \/ ItemUnderWay(n, m, "GetItem", i)
       \/ ItemUnderWay(m, n, "InfoItem", i)
       \/ ItemUnderWay(m, n, "ListTransactions", i)
       \/ \E k \in DOMAIN queue[<<n, m, "send">>] :
            queue[<<n, m, "send">>][k].type = "SyncTransactions"

\* main waits for is_synced_.  It waits in vain only if the connection breaks,
\* one of the two io threads waits for itself, or the sync peer has a next block
\* that add_block does not add.
SyncEnds ==
  \A n \in Node :
    LET p == syncPeer[n]
        next == height[n] + 1
    IN  phase[n] = "syncing" ~>
          \/ phase[n] = "synced"
          \/ ~Linked(n, p) \/ {n, p} \cap stopped # {}
          \/ height[p] >= next /\ ~Sound(next)

\* A node that synced from a synced peer follows its chain, up to the first
\* block that add_block does not add.
FollowsSyncPeer ==
  \A n \in Node, b \in 1 .. MaxHeight :
    LET p == syncPeer[n]
    IN  (caughtUp[n] /\ height[p] >= b /\ \A k \in 1 .. b : Sound(k)) ~>
          \/ height[n] >= b
          \/ ~Linked(n, p) \/ {n, p} \cap stopped # {}

=============================================================================
