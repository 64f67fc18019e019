-------------------------- MODULE ConnectionManager --------------------------
(***************************************************************************)
(* ConnectionManager: the tables of inbound and outbound peers, and how    *)
(* nodes find one another: bootstrap_from_config, the exchange of GetAddr  *)
(* and Addr, and connections that end.                                     *)
(*                                                                         *)
(* An address is the node that listens there.  A node connects at most     *)
(* once in its life to an address, because outbound entries are never      *)
(* removed; a connection is <<connector, acceptor, life of the connector>>.*)
(* A Peer's ID is the address of the other end: for the acceptor a port    *)
(* nobody listens on, written as the connection itself, until GetAddr      *)
(* tells the listening address.  A node constructs itself, bootstrap       *)
(* included, before its io thread opens the acceptor.                      *)
(***************************************************************************)
EXTENDS FiniteSets, Integers, Sequences

CONSTANTS
  Node,
  Bootstrap,      \* Bootstrap[n]: lists of addresses n's configuration may hold
  InboundLimit,   \* inbound_peers_limit of each node
  OutboundLimit,  \* outbound_peers_limit of each node
  Lives           \* bound: n is started again at most Lives[n] times

Conn == UNION {{n} \X (Node \ {n}) \X (0 .. Lives[n]) : n \in Node}

\* Listening addresses are told from the ports connections are made from.
ASSUME ConnectionAssumption ==
  /\ IsFiniteSet(Node)
  /\ Node \cap Conn = {}
  /\ InboundLimit \in [Node -> Nat]
  /\ OutboundLimit \in [Node -> Nat]
  /\ Lives \in [Node -> Nat]
  /\ Bootstrap \in [Node -> SUBSET Seq(Node)]
  /\ \A n \in Node : \A s \in Bootstrap[n] : \A k \in 1 .. Len(s) : s[k] # n

VARIABLES
  phase,      \* phase[n]: off, bootstrapping, waiting for a reply, running, ...
  life,       \* life[n]: how often n has been stopped
  todo,       \* todo[n]: bootstrap addresses not tried yet
  paused,     \* nodes with a listener that an ended request left paused
  acceptor,   \* acceptor[n]: n accepts connections
  inbound,    \* inbound[n]: inbound_peer_map_, from IDs to connections
  outbound,   \* outbound[n]: keys of outbound_peer_map_
  open,       \* connections that neither end has closed
  pending,    \* connections waiting to be accepted
  listening,  \* connections to whose acceptor's listen() has not ended
  named,      \* of these: their Peer's ID is the listening address
  spawned,    \* connections with a GetAddr of async_send not yet written
  asked,      \* asked[c]: GetAddr messages not yet read
  answers,    \* answers[c]: Addr messages not yet read
  turnedAway, \* history: accepted, but the inbound table was full
  crossed,    \* history: two listeners of one acceptor had one node behind them
  missed      \* history: one knew of the other, and did not come to be connected

vars == <<phase, life, todo, paused, acceptor, inbound, outbound, open, pending,
          listening, named, spawned, asked, answers, turnedAway, crossed, missed>>

\* n's own connection to address a.
To(n, a) == <<n, a, life[n]>>

Linked(n, m) == \E c \in open : {c[1], c[2]} = {n, m}

\* Peer::ID at the acceptor.
ID(c) == IF c \in named THEN c[1] ELSE c

Put(table, id, c) == [i \in DOMAIN table \cup {id} |-> IF i = id THEN c ELSE table[i]]
Erase(table, id) == [i \in DOMAIN table \ {id} |-> table[i]]

InboundFull(m) == Cardinality(DOMAIN inbound[m]) = InboundLimit[m]
OutboundFull(n) == Cardinality(outbound[n]) = OutboundLimit[n]

Init ==
  /\ phase = [n \in Node |-> "off"]
  /\ life = [n \in Node |-> 0]
  /\ todo = [n \in Node |-> <<>>]
  /\ paused = {}
  /\ acceptor = [n \in Node |-> FALSE]
  /\ inbound = [n \in Node |-> <<>>]
  /\ outbound = [n \in Node |-> {}]
  /\ open = {} /\ pending = {} /\ listening = {} /\ named = {} /\ spawned = {}
  /\ asked = [c \in Conn |-> 0]
  /\ answers = [c \in Conn |-> <<>>]
  /\ turnedAway = {} /\ crossed = {} /\ missed = {}

history == <<turnedAway, crossed, missed>>

-----------------------------------------------------------------------------
(* Connecting *)

\* connect_to_peer, once for each address of D: the kernel completes the
\* handshake as long as the acceptor is open.
Connect(n, D) ==
  LET new == {To(n, a) : a \in D} IN
  /\ outbound' = [outbound EXCEPT ![n] = @ \cup D]
  /\ open' = open \cup new
  /\ pending' = pending \cup new

\* handle_addr: connects to what is not known yet until the table is full, in
\* some order, and spawns a GetAddr on each new connection.  An address that
\* does not answer is skipped.
HandleAddr(n, addresses) ==
  LET others == addresses \ {n}
      unknown == {a \in others : a \notin outbound[n] /\ a \notin DOMAIN inbound[n]}
      reachable == {a \in unknown : acceptor[a]}
      room == OutboundLimit[n] - Cardinality(outbound[n])
  IN  \E D \in SUBSET reachable :
        /\ Cardinality(D) <= room
        /\ D = reachable \/ Cardinality(D) = room
        /\ Connect(n, D)
        /\ spawned' = spawned \cup {To(n, a) : a \in D}
        /\ missed' = missed \cup {{n, a} : a \in {b \in others \ D : ~Linked(n, b)}}

-----------------------------------------------------------------------------
(* Bootstrap, in the constructor *)

Boot(n) ==
  /\ phase[n] = "off"
  /\ phase' = [phase EXCEPT ![n] = "booting"]
  /\ \E s \in Bootstrap[n] : todo' = [todo EXCEPT ![n] = s]
  /\ UNCHANGED <<life, paused, acceptor, inbound, outbound, open, pending,
                 listening, named, spawned, asked, answers, history>>

Trying(n) == phase[n] = "booting" /\ todo[n] # <<>>

\* send_to_peer writes GetAddr and waits for the reply.
Request(n, c) ==
  /\ phase' = [phase EXCEPT ![n] = "waiting"]
  /\ asked' = [asked EXCEPT ![c] = IF c \in open' THEN @ + 1 ELSE @]

\* To a peer that an earlier reply named.
AskKnown(n) ==
  /\ Trying(n)
  /\ Head(todo[n]) \in outbound[n]
  /\ UNCHANGED open
  /\ Request(n, To(n, Head(todo[n])))
  /\ UNCHANGED <<life, todo, paused, acceptor, inbound, outbound, pending,
                 listening, named, spawned, answers, history>>

AskNew(n) ==
  /\ Trying(n)
  /\ Head(todo[n]) \notin outbound[n]
  /\ acceptor[Head(todo[n])]
  /\ ~OutboundFull(n)
  /\ Connect(n, {Head(todo[n])})
  /\ Request(n, To(n, Head(todo[n])))
  /\ UNCHANGED <<life, todo, paused, acceptor, inbound, listening, named, spawned,
                 answers, history>>

\* Nobody accepts at the address: connect throws.
Refused(n) ==
  /\ Trying(n)
  /\ Head(todo[n]) \notin outbound[n]
  /\ ~acceptor[Head(todo[n])]
  /\ todo' = [todo EXCEPT ![n] = Tail(@)]
  /\ UNCHANGED <<phase, life, paused, acceptor, inbound, outbound, open, pending,
                 listening, named, spawned, asked, answers, history>>

Replied(n) ==
  /\ phase' = [phase EXCEPT ![n] = "booting"]
  /\ todo' = [todo EXCEPT ![n] = Tail(@)]

\* Mutant: the listener of the connection stays paused.
TakeReplyPaused(n) ==
  /\ phase[n] = "waiting"
  /\ LET c == To(n, Head(todo[n])) IN
       /\ answers[c] # <<>>
       /\ HandleAddr(n, Head(answers[c]))
       /\ answers' = [answers EXCEPT ![c] = Tail(@)]
  /\ Replied(n)
  /\ paused' = paused \cup {n}
  /\ UNCHANGED <<life, acceptor, inbound, listening, named, asked,
                 turnedAway, crossed>>

TakeReply(n) ==
  /\ phase[n] = "waiting"
  /\ LET c == To(n, Head(todo[n])) IN
       /\ answers[c] # <<>>
       /\ HandleAddr(n, Head(answers[c]))
       /\ answers' = [answers EXCEPT ![c] = Tail(@)]
  /\ Replied(n)
  /\ UNCHANGED <<life, paused, acceptor, inbound, listening, named, asked,
                 turnedAway, crossed>>

\* Peer::send takes the next message for the reply, also when it is one the
\* acceptor broadcast; parsed as Addr it names nobody.
TakeBroadcast(n) ==
  /\ phase[n] = "waiting"
  /\ LET c == To(n, Head(todo[n])) IN
       \E id \in DOMAIN inbound[c[2]] : inbound[c[2]][id] = c
  /\ Replied(n)
  /\ UNCHANGED <<life, paused, acceptor, inbound, outbound, open, pending,
                 listening, named, spawned, asked, answers, history>>

\* The connection has ended: send throws, and leaves _sync_is_running set.
RequestFails(n) ==
  /\ phase[n] = "waiting"
  /\ To(n, Head(todo[n])) \notin open
  /\ Replied(n)
  /\ paused' = paused \cup {n}
  /\ UNCHANGED <<life, acceptor, inbound, outbound, open, pending, listening,
                 named, spawned, asked, answers, history>>

\* The io thread runs the listeners spawned by now, and then opens the
\* acceptor.  A paused listener blocks the thread.
Start(n) ==
  /\ phase[n] = "booting"
  /\ todo[n] = <<>>
  /\ phase' = [phase EXCEPT ![n] = IF n \in paused THEN "stuck" ELSE "running"]
  /\ acceptor' = [acceptor EXCEPT ![n] = n \notin paused]
  /\ UNCHANGED <<life, todo, paused, inbound, outbound, open, pending, listening,
                 named, spawned, asked, answers, history>>

-----------------------------------------------------------------------------
(* A process ends *)

\* n's memory and its ends of connections are gone; others notice later.
Ends(n, also) ==
  LET accepted == {c \in listening : c[2] = n} IN
  /\ todo' = [todo EXCEPT ![n] = <<>>]
  /\ paused' = paused \ {n}
  /\ acceptor' = [acceptor EXCEPT ![n] = FALSE]
  /\ inbound' = [inbound EXCEPT ![n] = <<>>]
  /\ outbound' = [outbound EXCEPT ![n] = {}]
  /\ open' = {c \in open : n \notin {c[1], c[2]}}
  /\ pending' = {c \in pending \cup also : c[2] # n}
  /\ listening' = listening \ accepted
  /\ named' = named \ accepted
  /\ spawned' = {c \in spawned : c[1] # n}
  /\ asked' = [c \in Conn |-> IF c[2] = n THEN 0 ELSE asked[c]]
  /\ answers' = [c \in Conn |-> IF c[1] = n THEN <<>> ELSE answers[c]]

Stop(n) ==
  /\ phase[n] \notin {"off", "crashed"}
  /\ life[n] < Lives[n]
  /\ phase' = [phase EXCEPT ![n] = "off"]
  /\ life' = [life EXCEPT ![n] = @ + 1]
  /\ Ends(n, {})
  /\ UNCHANGED history

\* add_to_outbound does not add to a full table; send_to_peer then dereferences
\* the empty pointer it finds under the address.
AskNewWhenFull(n) ==
  /\ Trying(n)
  /\ Head(todo[n]) \notin outbound[n]
  /\ acceptor[Head(todo[n])]
  /\ OutboundFull(n)
  /\ phase' = [phase EXCEPT ![n] = "crashed"]
  /\ Ends(n, {To(n, Head(todo[n]))})
  /\ UNCHANGED <<life, history>>

-----------------------------------------------------------------------------
(* The io thread *)

Running(n) == phase[n] = "running"

AddToInbound(m, c) ==
  IF InboundFull(m) THEN /\ turnedAway' = turnedAway \cup {c}
                         /\ UNCHANGED inbound
  ELSE /\ inbound' = [inbound EXCEPT ![m] = Put(@, c, c)]
       /\ UNCHANGED turnedAway

\* Listeners of c's acceptor with the same node behind them.
Twins(c) == {d \in listening : d[1] = c[1] /\ d[2] = c[2]}

Accept(c) ==
  /\ c \in pending
  /\ Running(c[2]) /\ acceptor[c[2]]
  /\ pending' = pending \ {c}
  /\ AddToInbound(c[2], c)
  /\ listening' = listening \cup {c}
  /\ crossed' = IF Twins(c) = {} THEN crossed ELSE crossed \cup Twins(c) \cup {c}
  /\ UNCHANGED <<phase, life, todo, paused, acceptor, outbound, open, named, spawned,
                 asked, answers, missed>>

\* The connection was reset before: the constructor of Peer asks for the remote
\* endpoint and throws, which ends listener() and closes the acceptor.
AcceptThrows(c) ==
  /\ c \in pending \ open
  /\ Running(c[2]) /\ acceptor[c[2]]
  /\ acceptor' = [acceptor EXCEPT ![c[2]] = FALSE]
  /\ pending' = {d \in pending : d[2] # c[2]}
  /\ open' = {d \in open : d \in pending => d[2] # c[2]}
  /\ missed' = missed \cup {{d[1], d[2]} : d \in open \ open'}
  /\ UNCHANGED <<phase, life, todo, paused, inbound, outbound, listening, named,
                 spawned, asked, answers, turnedAway, crossed>>

\* A spawned async_send gets its turn.
WriteGetAddr(c) ==
  /\ c \in spawned
  /\ Running(c[1])
  /\ spawned' = spawned \ {c}
  /\ asked' = [asked EXCEPT ![c] = IF c \in open THEN @ + 1 ELSE @]
  /\ UNCHANGED <<phase, life, todo, paused, acceptor, inbound, outbound, open,
                 pending, listening, named, answers, history>>

\* c's listener reads a GetAddr.
ReadsGetAddr(c) ==
  /\ c \in listening
  /\ asked[c] > 0
  /\ Running(c[2])

\* Mutant: the old entry is erased also when it is the new one.
UpdateAddrInfoErasing(c) ==
  LET m == c[2]
      peer == inbound[m][ID(c)]
  IN  /\ ID(c) \in DOMAIN inbound[m]
      /\ named' = named \cup {peer}
      /\ inbound' = [inbound EXCEPT ![m] = Erase(Put(@, c[1], peer), ID(c))]

\* Mutant: the entry moves, the Peer keeps its ID.
UpdateAddrInfoUnnamed(c) ==
  LET m == c[2]
      peer == inbound[m][ID(c)]
  IN  /\ ID(c) \in DOMAIN inbound[m]
      /\ inbound' = [inbound EXCEPT ![m] =
           IF ID(c) = c[1] THEN @ ELSE Erase(Put(@, c[1], peer), ID(c))]
      /\ UNCHANGED named

\* update_inb_peer_addr_info: the entry moves to the listening address.
UpdateAddrInfo(c) ==
  LET m == c[2]
      peer == inbound[m][ID(c)]
  IN  /\ ID(c) \in DOMAIN inbound[m]
      /\ named' = named \cup {peer}
      /\ inbound' = [inbound EXCEPT ![m] =
           IF ID(c) = c[1] THEN @ ELSE Erase(Put(@, c[1], peer), ID(c))]

\* Mutant: only outbound peers are collected.
CollectOutbound(m, table) == outbound[m]

\* collect_peers; addresses nobody listens at are left out.
CollectPeers(m, table) == outbound[m] \cup (DOMAIN table \cap Node)

\* Some peer's remote_endpoint() throws: its socket has been reset.
SomePeerIsReset(m, table) ==
  \/ \E a \in outbound[m] : To(m, a) \notin open
  \/ \E c \in DOMAIN table \ Node : c \notin open

HandleGetAddr(c) ==
  /\ ReadsGetAddr(c)
  /\ UpdateAddrInfo(c)
  /\ asked' = [asked EXCEPT ![c] = @ - 1]
  /\ answers' = IF c \in open
                THEN [answers EXCEPT ![c] = Append(@, CollectPeers(c[2], inbound'[c[2]]))]
                ELSE answers
  /\ UNCHANGED <<phase, life, todo, paused, acceptor, outbound, open, pending,
                 listening, spawned, history>>

\* The listener's completion handler: remove_peer_from_inbound.
Forget(c) ==
  /\ listening' = listening \ {c}
  /\ asked' = [asked EXCEPT ![c] = 0]

\* collect_peers throws, and ends the listener of the peer that asked.
HandleGetAddrThrows(c) ==
  /\ ReadsGetAddr(c)
  /\ ID(c) \in DOMAIN inbound[c[2]]
  /\ SomePeerIsReset(c[2], Erase(inbound[c[2]], ID(c)))
  /\ inbound' = [inbound EXCEPT ![c[2]] = Erase(Erase(@, ID(c)), c[1])]
  /\ named' = named \ {c}
  /\ open' = open \ {c}
  /\ Forget(c)
  /\ missed' = missed \cup {{c[1], c[2]}}
  /\ UNCHANGED <<phase, life, todo, paused, acceptor, outbound, pending,
                 spawned, answers, turnedAway, crossed>>

\* There is no entry under the Peer's ID: the empty pointer is dereferenced.
HandleGetAddrCrashes(c) ==
  /\ ReadsGetAddr(c)
  /\ ID(c) \notin DOMAIN inbound[c[2]]
  /\ phase' = [phase EXCEPT ![c[2]] = "crashed"]
  /\ Ends(c[2], {})
  /\ UNCHANGED <<life, history>>

\* listen() ends because the other end is gone.
ListenFails(c) ==
  /\ c \in listening \ open
  /\ Running(c[2])
  /\ inbound' = [inbound EXCEPT ![c[2]] = Erase(@, ID(c))]
  /\ named' = named \ {c}
  /\ Forget(c)
  /\ UNCHANGED <<phase, life, todo, paused, acceptor, outbound, open, pending,
                 spawned, answers, history>>

\* The connector's listener reads an Addr.
ReadAddr(c) ==
  /\ answers[c] # <<>>
  /\ Running(c[1])
  /\ HandleAddr(c[1], Head(answers[c]))
  /\ answers' = [answers EXCEPT ![c] = Tail(@)]
  /\ UNCHANGED <<phase, life, todo, paused, acceptor, inbound, listening, named,
                 asked, turnedAway, crossed>>

-----------------------------------------------------------------------------
MainThread(n) ==
  \/ AskKnown(n) \/ AskNew(n) \/ AskNewWhenFull(n) \/ Refused(n)
  \/ TakeReply(n) \/ TakeBroadcast(n) \/ RequestFails(n) \/ Start(n)

IoThread(c) ==
  \/ Accept(c) \/ AcceptThrows(c) \/ WriteGetAddr(c)
  \/ HandleGetAddr(c) \/ HandleGetAddrThrows(c) \/ HandleGetAddrCrashes(c)
  \/ ListenFails(c) \/ ReadAddr(c)

Next ==
  \/ \E n \in Node : Boot(n) \/ MainThread(n) \/ Stop(n)
  \/ \E c \in Conn : IoThread(c)

Spec == Init /\ [][Next]_vars

\* Both threads of a process go on, and the io thread gets round to every
\* connection.  Nobody has to start or to stop.
FairSpec ==
  /\ Spec
  /\ \A n \in Node : WF_vars(MainThread(n))
  /\ \A c \in Conn : WF_vars(IoThread(c))

-----------------------------------------------------------------------------
(* Properties *)

Phases == {"off", "booting", "waiting", "running", "stuck", "crashed"}

\* Types of the variables; the tables stay within their limits.
TypeOK ==
  /\ phase \in [Node -> Phases]
  /\ life \in [Node -> Nat] /\ \A n \in Node : life[n] <= Lives[n]
  /\ todo \in [Node -> Seq(Node)]
  /\ paused \subseteq Node
  /\ acceptor \in [Node -> BOOLEAN]
  /\ DOMAIN inbound = Node
  /\ outbound \in [Node -> SUBSET Node]
  /\ \A n \in Node :
       /\ DOMAIN inbound[n] \subseteq Node \cup Conn
       /\ Cardinality(DOMAIN inbound[n]) <= InboundLimit[n]
       /\ \A id \in DOMAIN inbound[n] : inbound[n][id] \in Conn
       /\ Cardinality(outbound[n]) <= OutboundLimit[n]
  /\ open \subseteq Conn /\ pending \subseteq Conn /\ listening \subseteq Conn
  /\ named \subseteq listening
  /\ spawned \subseteq Conn
  /\ asked \in [Conn -> Nat]
  /\ answers \in [Conn -> Seq(SUBSET Node)]

\* The table holds the connections that are listened to, each under its Peer's
\* ID: no entry outlives its listener, although IDs change and entries are
\* removed by ID; and an entry is missing only where the table was full, or
\* where a node that was started again connected before its old connection
\* was noticed to be gone.
InboundIsListening ==
  \A m \in Node :
    /\ \A id \in DOMAIN inbound[m] :
         /\ inbound[m][id] \in listening
         /\ inbound[m][id][2] = m
         /\ ID(inbound[m][id]) = id
    /\ \A c \in listening \ (turnedAway \cup crossed) :
         c[2] = m => ID(c) \in DOMAIN inbound[m]

\* The null pointers behind operator[] are met for these reasons only: a GetAddr
\* from a peer the full table did not take, or whose entry a second connection
\* of the same node has replaced; more bootstrap addresses than fit.
CrashHasCause ==
  [][\A m \in Node : phase[m] # "crashed" /\ phase'[m] = "crashed" =>
       \/ \E c \in listening : /\ c[2] = m /\ asked[c] > 0
                               /\ c \in turnedAway \cup crossed
       \/ phase[m] = "booting" /\ OutboundFull(m)]_vars

\* Two nodes that a third has heard from come to know one another, whichever of
\* them was first: they are connected, or an answer that names one is on its
\* way to the other, or a connection between them was tried and failed.
PeersMeet ==
  \A h, n, p \in Node :
    LET cn == inbound[h][n]
        cp == inbound[h][p]
    IN  /\ n # p
        /\ {n, p} \subseteq DOMAIN inbound[h]
        /\ {cn, cp} \subseteq open
        => \/ Linked(n, p)
           \/ {n, p} \in missed
           \/ \E k \in DOMAIN answers[cn] : p \in answers[cn][k]
           \/ \E k \in DOMAIN answers[cp] : n \in answers[cp][k]

\* Bootstrap ends with a running node, however the nodes connect to one another
\* meanwhile, unless some process has ended.
BootSucceeds ==
  \A n \in Node :
    phase[n] \in {"booting", "waiting"} ~>
      \/ phase[n] = "running"
      \/ \E m \in Node : phase[m] = "crashed" \/ life[m] > 0

=============================================================================
