---------------------- MODULE ConnectionManager_proofs ----------------------
(***************************************************************************)
(* Theorems about ConnectionManager, for all nodes, limits, configurations *)
(* and numbers of restarts.  An entry of the inbound table and the         *)
(* listener of its connection begin, are renamed and end together because  *)
(* a node never connects twice to an address in one life, so that no       *)
(* connection is accepted twice, and because two listeners can only share  *)
(* a name when one node is behind both.  Peers of a node meet because the  *)
(* later of two to get its name is told of the earlier.                    *)
(***************************************************************************)
EXTENDS ConnectionManager, FiniteSetTheorems, TLAPS

\* Types that the type invariant leaves open: addresses to try and to remember
\* are those of other nodes, tables are finite functions, and who waits for a
\* reply has asked somebody.
Typing ==
  /\ TypeOK
  /\ inbound = [n \in Node |-> inbound[n]]
  /\ \A n \in Node :
       /\ IsFiniteSet(DOMAIN inbound[n])
       /\ n \notin outbound[n]
       /\ todo[n] \in Seq(Node \ {n})
       /\ phase[n] = "waiting" => todo[n] # <<>>

\* InboundIsListening as a property of tables I, listeners L, those of them that
\* have the name N of their node, and exceptions X.
Name(c, N) == IF c \in N THEN c[1] ELSE c

Listed(I, L, N, X) ==
  \A m \in Node :
    /\ \A id \in DOMAIN I[m] :
         I[m][id] \in L /\ I[m][id][2] = m /\ Name(I[m][id], N) = id
    /\ \A c \in L \ X : c[2] = m => Name(c, N) \in DOMAIN I[m]

\* A connection is made once.
Fresh ==
  /\ pending \cap listening = {}
  /\ \A c \in pending \cup listening :
       /\ c[3] <= life[c[1]]
       /\ c[3] = life[c[1]] => c[2] \in outbound[c[1]] \/ phase[c[1]] = "crashed"

\* Listeners that could share a name have met.
TwinsCrossed ==
  \A c, d \in listening :
    c # d /\ c[1] = d[1] /\ c[2] = d[2] => {c, d} \subseteq crossed

IInv == Typing /\ Fresh /\ InboundIsListening /\ TwinsCrossed

-----------------------------------------------------------------------------
(* Connections and tables *)

LEMMA ConnType ==
  ASSUME NEW c \in Conn
  PROVE  /\ c[1] \in Node /\ c[2] \in Node /\ c[1] # c[2] /\ c[3] \in Nat
         /\ c = <<c[1], c[2], c[3]>> /\ c \notin Node
BY ConnectionAssumption DEF Conn

LEMMA ToType ==
  ASSUME Typing, NEW n \in Node, NEW a \in Node \ {n}
  PROVE  /\ To(n, a) \in Conn
         /\ To(n, a)[1] = n /\ To(n, a)[2] = a /\ To(n, a)[3] = life[n]
<1>1. life[n] \in 0 .. Lives[n]
  BY ConnectionAssumption DEF Typing, TypeOK
<1> QED BY <1>1 DEF To, Conn

LEMMA EraseIs ==
  ASSUME NEW t, NEW i
  PROVE  /\ DOMAIN Erase(t, i) = DOMAIN t \ {i}
         /\ \A k \in DOMAIN t \ {i} : Erase(t, i)[k] = t[k]
BY DEF Erase

LEMMA ListedIs ==
  InboundIsListening <=> Listed(inbound, listening, named, turnedAway \cup crossed)
BY DEF InboundIsListening, Listed, Name, ID

\* A name is the connection itself or its connector.
LEMMA IDOf ==
  ASSUME NEW c \in Conn
  PROVE  /\ c \in named => ID(c) = c[1] /\ ID(c) \in Node
         /\ c \notin named => ID(c) = c /\ ID(c) \notin Node
BY ConnType DEF ID

-----------------------------------------------------------------------------
(* Addresses connect_to_peer is called with *)

\* None of them is known to have a connection of this life.
LEMMA NotYetConnected ==
  ASSUME Typing, Fresh, NEW n \in Node, NEW a \in Node \ ({n} \cup outbound[n]),
         phase[n] # "crashed"
  PROVE  To(n, a) \notin pending \cup listening
BY ToType DEF Fresh

LEMMA ConnectTyped ==
  ASSUME Typing, NEW n \in Node, NEW D \in SUBSET (Node \ ({n} \cup outbound[n])),
         Cardinality(D) <= OutboundLimit[n] - Cardinality(outbound[n]),
         Connect(n, D)
  PROVE  /\ outbound' \in [Node -> SUBSET Node]
         /\ \A m \in Node : /\ m \notin outbound'[m]
                            /\ Cardinality(outbound'[m]) <= OutboundLimit[m]
         /\ open' \subseteq Conn /\ pending' \subseteq Conn
<1>1. {To(n, a) : a \in D} \subseteq Conn
  BY ToType
<1>2. /\ IsFiniteSet(outbound[n]) /\ IsFiniteSet(D) /\ outbound[n] \cap D = {}
      /\ OutboundLimit[n] \in Nat
  BY FS_Subset, ConnectionAssumption DEF Typing, TypeOK
<1>3. /\ Cardinality(outbound[n]) \in Nat /\ Cardinality(D) \in Nat
      /\ Cardinality(outbound[n] \cap D) = 0
  BY <1>2, FS_CardinalityType, FS_EmptySet
<1>4. Cardinality(outbound[n] \cup D) <= OutboundLimit[n]
  <2>1. Cardinality(outbound[n] \cup D)
          = Cardinality(outbound[n]) + Cardinality(D) - Cardinality(outbound[n] \cap D)
    BY <1>2, FS_Union
  <2> QED BY <2>1, <1>2, <1>3
<1> QED BY ZenonT(40), <1>1, <1>4 DEF Connect, Typing, TypeOK

LEMMA ConnectFresh ==
  ASSUME Typing, Fresh, NEW n \in Node,
         NEW D \in SUBSET (Node \ ({n} \cup outbound[n])),
         phase[n] # "crashed",
         \A m \in Node : phase[m] = "crashed" => phase'[m] = "crashed",
         Connect(n, D), UNCHANGED <<life, listening>>
  PROVE  Fresh'
<1>1. \A a \in D : To(n, a) \notin listening
  BY NotYetConnected
<1>2. pending' \cap listening' = {}
  BY <1>1 DEF Fresh, Connect
<1>3. ASSUME NEW c \in pending' \cup listening'
      PROVE  /\ c[3] <= life'[c[1]]
             /\ c[3] = life'[c[1]] => \/ c[2] \in outbound'[c[1]]
                                      \/ phase'[c[1]] = "crashed"
  <2>1. CASE c \in pending \cup listening
    <3>1. c[1] \in Node
      BY <2>1, ConnType DEF Typing, TypeOK
    <3> QED BY <2>1, <3>1 DEF Fresh, Connect, Typing, TypeOK
  <2>2. CASE \E a \in D : c = To(n, a)
    <3>1. PICK a \in D : c = To(n, a)
      BY <2>2
    <3>2. c[1] = n /\ c[2] = a /\ c[3] = life[n]
      BY <3>1, ToType
    <3>3. life[n] \in Nat /\ outbound'[n] = outbound[n] \cup D
      BY DEF Connect, Typing, TypeOK
    <3> QED BY <3>2, <3>3
  <2> QED BY <1>3, <2>1, <2>2 DEF Connect
<1> QED BY <1>2, <1>3 DEF Fresh

-----------------------------------------------------------------------------
(* The inbound table and its listeners *)

Tables == InboundIsListening /\ TwinsCrossed

LEMMA TablesKept ==
  ASSUME Tables, UNCHANGED <<inbound, listening, named, turnedAway, crossed>>
  PROVE  Tables'
BY DEF Tables, InboundIsListening, TwinsCrossed, ID

\* In a table, a connection has the place its name says.
LEMMA Entries ==
  ASSUME Typing, InboundIsListening, NEW m \in Node, NEW id \in DOMAIN inbound[m]
  PROVE  /\ inbound[m][id] \in listening /\ inbound[m][id] \in Conn
         /\ inbound[m][id][2] = m /\ ID(inbound[m][id]) = id
         /\ id \in Conn => inbound[m][id] = id
BY IDOf, ConnType DEF InboundIsListening, Typing, TypeOK

LEMMA AcceptTables ==
  ASSUME IInv, NEW c \in Conn, Accept(c)
  PROVE  Tables'
<1> DEFINE m == c[2]
<1>1. /\ m \in Node /\ c \notin listening /\ c \notin named /\ ID(c) = c
  BY IDOf, ConnType DEF IInv, Fresh, Accept, Typing, TypeOK
<1>2. /\ listening' = listening \cup {c} /\ named' = named
      /\ crossed \subseteq crossed' /\ turnedAway \subseteq turnedAway'
  BY DEF Accept, AddToInbound
<1>3. /\ \A k \in Node \ {m} : inbound'[k] = inbound[k]
      /\ \/ inbound' = inbound /\ c \in turnedAway'
         \/ inbound'[m] = Put(inbound[m], c, c)
  BY <1>1 DEF Accept, AddToInbound, IInv, Typing, TypeOK
<1>4. Listed(inbound', listening', named', turnedAway' \cup crossed')
  <2> USE <1>1, <1>2, ListedIs DEF IInv
  <2>1. ASSUME NEW k \in Node
        PROVE  /\ \A id \in DOMAIN inbound'[k] : /\ inbound'[k][id] \in listening'
                                                /\ inbound'[k][id][2] = k
                                                /\ Name(inbound'[k][id], named') = id
               /\ \A d \in listening' \ (turnedAway' \cup crossed') :
                    d[2] = k => Name(d, named') \in DOMAIN inbound'[k]
    <3>1. CASE inbound'[k] = inbound[k] /\ (k = m => c \in turnedAway')
      BY <3>1 DEF Listed
    <3>2. CASE k = m /\ inbound'[m] = Put(inbound[m], c, c)
      <4> DEFINE t == inbound[m]
                 u == inbound'[m]
      <4>1. /\ DOMAIN u = DOMAIN t \cup {c} /\ u[c] = c
            /\ \A id \in DOMAIN t \ {c} : u[id] = t[id]
        <5> HIDE DEF t, u
        <5>1. u = Put(t, c, c)
          BY <3>2 DEF t, u
        <5> QED BY <5>1 DEF Put
      <4>2. Name(c, named') = c
        BY DEF Name
      <4> QED BY <3>2, <4>1, <4>2 DEF Listed
    <3> QED BY <3>1, <3>2, <1>3
  <2> QED BY <2>1 DEF Listed
<1>5. TwinsCrossed'
  BY <1>1, <1>2 DEF Accept, Twins, IInv, TwinsCrossed
<1>6. InboundIsListening'
  BY <1>4 DEF InboundIsListening, Listed, Name, ID
<1> QED BY <1>5, <1>6 DEF Tables

\* The entry update_inb_peer_addr_info finds is the asking connection's, or,
\* once that has its name, that of a connection with the same name.
LEMMA FoundEntry ==
  ASSUME IInv, NEW c \in listening, ID(c) \in DOMAIN inbound[c[2]]
  PROVE  LET peer == inbound[c[2]][ID(c)] IN
           /\ peer \in listening /\ peer \in Conn /\ peer[2] = c[2]
           /\ c \notin named => peer = c
           /\ c \in named => peer \in named
<1>1. c \in Conn /\ c[2] \in Node
  BY ConnType DEF IInv, Typing, TypeOK
<1> DEFINE peer == inbound[c[2]][ID(c)]
<1>2. peer \in listening /\ peer \in Conn /\ peer[2] = c[2] /\ ID(peer) = ID(c)
  BY <1>1, Entries DEF IInv
<1>3. (c \notin named => peer = c) /\ (c \in named => peer \in named)
  BY <1>1, <1>2, IDOf
<1> QED BY <1>2, <1>3

LEMMA RenameTables ==
  ASSUME IInv, NEW c \in Conn, HandleGetAddr(c)
  PROVE  Tables'
<1> DEFINE m == c[2]
           peer == inbound[m][ID(c)]
<1>1. /\ c \in listening /\ m \in Node /\ c[1] \in Node /\ c # c[1]
      /\ ID(c) \in DOMAIN inbound[m]
      /\ UNCHANGED <<listening, turnedAway, crossed>>
      /\ named' = named \cup {peer}
      /\ peer \in listening /\ peer[2] = m /\ (c \notin named => peer = c)
      /\ c \in named => peer \in named
  BY ConnType, FoundEntry DEF HandleGetAddr, ReadsGetAddr, UpdateAddrInfo, history
<1>2. CASE c \in named
  <2>1. named' = named /\ inbound' = inbound
    BY SMTT(30), <1>1, <1>2, IDOf DEF HandleGetAddr, UpdateAddrInfo, IInv, Typing, TypeOK
  <2> QED BY <2>1, <1>1, TablesKept DEF IInv, Tables
<1>3. CASE c \notin named
  <2>1. /\ ID(c) = c /\ peer = c /\ named' = named \cup {c}
        /\ Name(c, named) = c /\ Name(c, named') = c[1]
    BY <1>1, <1>3, IDOf DEF Name
  <2>2. \A d : d # c => Name(d, named') = Name(d, named)
    BY <2>1 DEF Name
  <2>3. /\ \A k \in Node \ {m} : inbound'[k] = inbound[k]
        /\ inbound'[m] = Erase(Put(inbound[m], c[1], c), c)
    BY <1>1, <2>1 DEF HandleGetAddr, UpdateAddrInfo, IInv, Typing, TypeOK
  <2>4. /\ DOMAIN inbound'[m] = (DOMAIN inbound[m] \cup {c[1]}) \ {c}
        /\ inbound'[m][c[1]] = c
        /\ \A id \in DOMAIN inbound[m] \ {c, c[1]} : inbound'[m][id] = inbound[m][id]
    <3> DEFINE t == Put(inbound[m], c[1], c)
    <3>1. /\ DOMAIN t = DOMAIN inbound[m] \cup {c[1]} /\ t[c[1]] = c
          /\ \A id \in DOMAIN inbound[m] \ {c[1]} : t[id] = inbound[m][id]
          /\ DOMAIN inbound'[m] = DOMAIN t \ {c}
          /\ \A id \in DOMAIN t \ {c} : inbound'[m][id] = t[id]
      <4>1. /\ DOMAIN t = DOMAIN inbound[m] \cup {c[1]} /\ t[c[1]] = c
            /\ \A id \in DOMAIN inbound[m] \ {c[1]} : t[id] = inbound[m][id]
        BY DEF Put
      <4> HIDE DEF t
      <4> DEFINE u == inbound'[m]
      <4>2. u = Erase(t, c)
        BY <2>3 DEF t
      <4> HIDE DEF u
      <4>3. DOMAIN u = DOMAIN t \ {c} /\ \A id \in DOMAIN t \ {c} : u[id] = t[id]
        BY <4>2, EraseIs
      <4> QED BY <4>1, <4>3 DEF u
    <3> QED BY <3>1, <1>1
  <2>5. /\ Listed(inbound, listening, named, turnedAway \cup crossed)
        /\ \A k \in Node : \A id \in DOMAIN inbound[k] :
             /\ inbound[k][id] \in listening /\ inbound[k][id][2] = k
             /\ Name(inbound[k][id], named) = id
    BY ListedIs DEF IInv, Listed
  <2>6. Listed(inbound', listening', named', turnedAway' \cup crossed')
    <3>1. ASSUME NEW k \in Node, NEW id \in DOMAIN inbound'[k]
          PROVE  /\ inbound'[k][id] \in listening' /\ inbound'[k][id][2] = k
                 /\ Name(inbound'[k][id], named') = id
      <4>1. CASE k = m /\ id = c[1]
        BY <4>1, <1>1, <2>1, <2>4
      <4>2. CASE k = m /\ id # c[1]
        <5> DEFINE d == inbound[m][id]
        <5>1. id \in DOMAIN inbound[m] \ {c, c[1]} /\ inbound'[k][id] = d
          BY <4>2, <2>4
        <5>2. d \in listening /\ d[2] = m /\ Name(d, named) = id
          BY <5>1, <1>1, <2>5
        <5>3. d # c
          BY <5>1, <5>2, <2>1
        <5> QED BY <4>2, <5>1, <5>2, <5>3, <1>1, <2>2
      <4>3. CASE k # m
        <5> DEFINE d == inbound[k][id]
        <5>1. d \in listening /\ d[2] = k /\ Name(d, named) = id /\ inbound'[k][id] = d
          BY <4>3, <2>3, <2>5
        <5>2. d # c
          BY <4>3, <5>1
        <5> QED BY <5>1, <5>2, <1>1, <2>2
      <4> QED BY <4>1, <4>2, <4>3
    <3>2. ASSUME NEW k \in Node, NEW d \in listening' \ (turnedAway' \cup crossed'),
                 d[2] = k
          PROVE  Name(d, named') \in DOMAIN inbound'[k]
      <4>1. CASE d = c
        BY <4>1, <3>2, <1>1, <2>1, <2>4
      <4>2. CASE d # c
        <5>1. Name(d, named) \in DOMAIN inbound[k] /\ Name(d, named') = Name(d, named)
          BY <3>2, <4>2, <1>1, <2>2, <2>5 DEF Listed
        <5>2. Name(d, named) # c
          BY <4>2, <1>1, ConnType DEF Name, IInv, Typing, TypeOK
        <5> QED BY <5>1, <5>2, <1>1, <2>3, <2>4
      <4> QED BY <4>1, <4>2
    <3> QED BY <3>1, <3>2 DEF Listed
  <2>7. TwinsCrossed'
    BY <1>1 DEF IInv, TwinsCrossed
  <2>8. InboundIsListening'
    BY <2>6 DEF InboundIsListening, Listed, Name, ID
  <2> QED BY <2>7, <2>8 DEF Tables
<1> QED BY <1>2, <1>3

\* remove_peer_from_inbound at the end of c's listener; handle_get_addr may have
\* found c's entry under its connector as well.
LEMMA ForgetTables ==
  ASSUME IInv, NEW c \in listening, NEW R \in SUBSET {ID(c), c[1]}, ID(c) \in R,
         listening' = listening \ {c}, named' = named \ {c},
         UNCHANGED <<turnedAway, crossed>>,
         DOMAIN inbound' = Node,
         \A k \in Node \ {c[2]} : inbound'[k] = inbound[k],
         DOMAIN inbound'[c[2]] = DOMAIN inbound[c[2]] \ R,
         \A id \in DOMAIN inbound[c[2]] \ R : inbound'[c[2]][id] = inbound[c[2]][id]
  PROVE  Tables'
<1> DEFINE m == c[2]
<1>1. c \in Conn /\ m \in Node /\ c # c[1] /\ ID(c) = Name(c, named)
  BY ConnType DEF IInv, Typing, TypeOK, ID, Name
<1>2. /\ Listed(inbound, listening, named, turnedAway \cup crossed)
      /\ \A k \in Node : \A id \in DOMAIN inbound[k] :
           /\ inbound[k][id] \in listening /\ inbound[k][id][2] = k
           /\ Name(inbound[k][id], named) = id
  BY ListedIs DEF IInv, Listed
<1>3. \A d : d # c => Name(d, named') = Name(d, named)
  BY DEF Name
<1>4. Listed(inbound', listening', named', turnedAway' \cup crossed')
  <2>1. ASSUME NEW k \in Node, NEW id \in DOMAIN inbound'[k]
        PROVE  /\ inbound'[k][id] \in listening' /\ inbound'[k][id][2] = k
               /\ Name(inbound'[k][id], named') = id
    <3>1. id \in DOMAIN inbound[k] /\ inbound'[k][id] = inbound[k][id]
      BY <2>1
    <3>2. inbound[k][id] # c
      BY <2>1, <3>1, <1>1, <1>2
    <3> QED BY <3>1, <3>2, <1>2, <1>3
  <2>2. ASSUME NEW k \in Node, NEW d \in listening' \ (turnedAway' \cup crossed'),
               d[2] = k
        PROVE  Name(d, named') \in DOMAIN inbound'[k]
    <3>1. d # c /\ d \in listening /\ d \in Conn
      BY <2>2 DEF IInv, Typing, TypeOK
    <3>2. Name(d, named) \in DOMAIN inbound[k] /\ Name(d, named') = Name(d, named)
      BY <2>2, <3>1, <1>2, <1>3 DEF Listed
    <3>3. CASE k = m
      <4>1. d[1] # c[1]
        BY <2>2, <3>1, <3>3 DEF IInv, TwinsCrossed
      <4>2. Name(d, named) \notin {c, c[1]}
        BY <3>1, <4>1, <1>1, ConnType DEF Name
      <4> QED BY <3>2, <3>3, <4>2, <1>1 DEF Name
    <3> QED BY <3>2, <3>3
  <2> QED BY <2>1, <2>2 DEF Listed
<1>5. TwinsCrossed'
  BY DEF IInv, TwinsCrossed
<1>6. InboundIsListening'
  BY <1>4 DEF InboundIsListening, Listed, Name, ID
<1> QED BY <1>5, <1>6 DEF Tables

\* n ends, with the listeners of what it accepted.
LEMMA EndsTables ==
  ASSUME IInv, NEW n \in Node, NEW also, Ends(n, also),
         UNCHANGED <<turnedAway, crossed>>
  PROVE  Tables'
<1>1. /\ listening' = {c \in listening : c[2] # n}
      /\ named' = {c \in named : c[2] # n}
  BY DEF Ends, IInv, Typing, TypeOK
<1>2. /\ \A k \in Node \ {n} : inbound'[k] = inbound[k]
      /\ DOMAIN inbound'[n] = {}
  BY DEF Ends, IInv, Typing, TypeOK
<1>3. \A d : d[2] # n => Name(d, named') = Name(d, named)
  BY <1>1 DEF Name
<1>4. Listed(inbound, listening, named, turnedAway \cup crossed)
  BY ListedIs DEF IInv
<1>5. Listed(inbound', listening', named', turnedAway' \cup crossed')
  BY <1>1, <1>2, <1>3, <1>4 DEF Listed
<1>6. InboundIsListening'
  BY <1>5 DEF InboundIsListening, Listed, Name, ID
<1>7. TwinsCrossed'
  BY <1>1 DEF IInv, TwinsCrossed
<1> QED BY <1>6, <1>7 DEF Tables

\* Its connections are old ones when it starts again.
LEMMA EndsFresh ==
  ASSUME IInv, NEW n \in Node, NEW also \in SUBSET Conn, Ends(n, also),
         also \cap listening = {},
         \A c \in also : c[1] = n /\ c[3] = life[n],
         \/ phase'[n] = "crashed" /\ life' = life
         \/ also = {} /\ life' = [life EXCEPT ![n] = @ + 1] /\ phase[n] # "crashed",
         \A m \in Node \ {n} : phase'[m] = phase[m]
  PROVE  Fresh'
<1>1. pending' \cap listening' = {}
  BY DEF Ends, IInv, Fresh
<1>2. \A c \in pending' \cup listening' :
        /\ c \in pending \cup listening \cup also
        /\ c[1] \in Node /\ c[2] \in Node /\ c[3] \in Nat
  <2>1. pending' \cup listening' \subseteq pending \cup listening \cup also
    BY DEF Ends
  <2>2. pending \cup listening \cup also \subseteq Conn
    BY DEF IInv, Typing, TypeOK
  <2> QED BY <2>1, <2>2, ConnType
<1>3. /\ life \in [Node -> Nat] /\ life' \in [Node -> Nat]
      /\ \A m \in Node \ {n} : life'[m] = life[m] /\ outbound'[m] = outbound[m]
  <2>1. life \in [Node -> Nat] /\ DOMAIN outbound = Node
    BY DEF IInv, Typing, TypeOK
  <2>2. outbound' = [outbound EXCEPT ![n] = {}]
    BY DEF Ends
  <2>3. life' = life \/ life' = [life EXCEPT ![n] = @ + 1]
    OBVIOUS
  <2> QED BY <2>1, <2>2, <2>3
<1>4. ASSUME NEW c \in pending' \cup listening'
      PROVE  /\ c[3] <= life'[c[1]]
             /\ c[3] = life'[c[1]] => \/ c[2] \in outbound'[c[1]]
                                      \/ phase'[c[1]] = "crashed"
  <2>1. CASE c[1] # n
    BY <2>1, <1>2, <1>3 DEF IInv, Fresh
  <2>2. CASE c[1] = n /\ phase'[n] = "crashed" /\ life' = life
    BY <2>2, <1>2, <1>3 DEF IInv, Fresh
  <2>3. CASE c[1] = n /\ also = {} /\ life' = [life EXCEPT ![n] = @ + 1]
    BY <2>3, <1>2, <1>3 DEF IInv, Fresh
  <2> QED BY <2>1, <2>2, <2>3
<1> QED BY <1>1, <1>4 DEF Fresh

-----------------------------------------------------------------------------
(* Steps of the main thread *)

LEMMA FreshKept ==
  ASSUME IInv, pending' \subseteq pending, listening' \subseteq listening,
         UNCHANGED <<life, outbound>>,
         \A n \in Node : phase[n] = "crashed" => phase'[n] = "crashed"
  PROVE  Fresh'
<1>1. \A c \in pending \cup listening : c[1] \in Node
  BY ConnType DEF IInv, Typing, TypeOK
<1> QED BY <1>1 DEF IInv, Fresh

\* One address has been tried.
LEMMA TailTyped ==
  ASSUME Typing, NEW n \in Node, todo[n] # <<>>
  PROVE  /\ Head(todo[n]) \in Node \ {n}
         /\ Tail(todo[n]) \in Seq(Node) /\ Tail(todo[n]) \in Seq(Node \ {n})
<1>1. todo[n] \in Seq(Node \ {n}) /\ todo[n] \in Seq(Node)
  BY DEF Typing, TypeOK
<1>2. \A S : todo[n] \in Seq(S) => Head(todo[n]) \in S /\ Tail(todo[n]) \in Seq(S)
  OBVIOUS
<1> QED BY <1>1, <1>2

LEMMA BootStep ==
  ASSUME IInv, NEW n \in Node, Boot(n)
  PROVE  IInv'
<1>1. PICK s \in Bootstrap[n] : todo' = [todo EXCEPT ![n] = s]
  BY DEF Boot
<1>2. s \in Seq(Node) /\ s \in Seq(Node \ {n})
  <2>1. s \in Seq(Node) /\ \A k \in 1 .. Len(s) : s[k] # n
    BY ConnectionAssumption
  <2> QED BY <2>1
<1>3. Typing'
  BY SMTT(30), <1>1, <1>2 DEF Boot, IInv, Typing, TypeOK, Phases, history
<1>4. Fresh'
  BY FreshKept DEF Boot, IInv, Typing, TypeOK
<1>5. Tables'
  BY TablesKept DEF Boot, IInv, Tables, history
<1> QED BY <1>3, <1>4, <1>5 DEF IInv, Tables

LEMMA RequestTyped ==
  ASSUME Typing, NEW n \in Node, NEW c \in Conn, Request(n, c)
  PROVE  /\ phase' \in [Node -> Phases] /\ asked' \in [Conn -> Nat]
         /\ \A m \in Node \ {n} : phase'[m] = phase[m]
BY DEF Request, Typing, TypeOK, Phases

LEMMA AskKnownStep ==
  ASSUME IInv, NEW n \in Node, AskKnown(n)
  PROVE  IInv'
<1>1. To(n, Head(todo[n])) \in Conn
  BY TailTyped, ToType DEF AskKnown, Trying, IInv
<1>2. Typing'
  <2>1. /\ phase' \in [Node -> Phases] /\ asked' \in [Conn -> Nat]
        /\ \A m \in Node \ {n} : phase'[m] = phase[m]
    BY <1>1, RequestTyped DEF AskKnown, IInv
  <2> QED BY SMTT(30), <2>1 DEF AskKnown, Trying, IInv, Typing, TypeOK, history
<1>3. Fresh'
  BY FreshKept DEF AskKnown, Trying, Request, IInv, Typing, TypeOK
<1>4. Tables'
  BY TablesKept DEF AskKnown, IInv, Tables, history
<1> QED BY <1>2, <1>3, <1>4 DEF IInv, Tables

LEMMA AskNewStep ==
  ASSUME IInv, NEW n \in Node, AskNew(n)
  PROVE  IInv'
<1> DEFINE a == Head(todo[n])
<1>1. a \in Node \ ({n} \cup outbound[n]) /\ To(n, a) \in Conn
  BY TailTyped, ToType DEF AskNew, Trying, IInv
<1>2. Cardinality({a}) <= OutboundLimit[n] - Cardinality(outbound[n])
  <2>1. IsFiniteSet(outbound[n])
    BY FS_Subset, ConnectionAssumption DEF IInv, Typing, TypeOK
  <2>2. Cardinality(outbound[n]) \in Nat /\ OutboundLimit[n] \in Nat
    BY <2>1, FS_CardinalityType, ConnectionAssumption
  <2>3. /\ Cardinality(outbound[n]) <= OutboundLimit[n]
        /\ Cardinality(outbound[n]) # OutboundLimit[n]
    BY DEF AskNew, OutboundFull, IInv, Typing, TypeOK
  <2>4. Cardinality({a}) = 1
    BY FS_Singleton
  <2> QED BY <2>2, <2>3, <2>4
<1>3. Connect(n, {a}) /\ UNCHANGED <<life, listening, inbound>>
  BY DEF AskNew
<1>4. Typing'
  <2>1. /\ outbound' \in [Node -> SUBSET Node]
        /\ \A m \in Node : /\ m \notin outbound'[m]
                           /\ Cardinality(outbound'[m]) <= OutboundLimit[m]
        /\ open' \subseteq Conn /\ pending' \subseteq Conn
    BY <1>1, <1>2, <1>3, ConnectTyped DEF IInv
  <2>2. /\ phase' \in [Node -> Phases] /\ asked' \in [Conn -> Nat]
        /\ \A m \in Node \ {n} : phase'[m] = phase[m]
    BY <1>1, RequestTyped DEF AskNew, IInv
  <2> QED BY <2>1, <2>2 DEF AskNew, Trying, IInv, Typing, TypeOK, history
<1>5. Fresh'
  <2>1. Typing /\ Fresh /\ phase[n] # "crashed" /\ {a} \in SUBSET (Node \ ({n} \cup outbound[n]))
    BY <1>1 DEF AskNew, Trying, IInv
  <2>2. \A m \in Node : phase[m] = "crashed" => phase'[m] = "crashed"
    BY DEF AskNew, Trying, Request, IInv, Typing, TypeOK
  <2> QED BY <1>3, <2>1, <2>2, ConnectFresh
<1>6. Tables'
  BY TablesKept DEF AskNew, IInv, Tables, history
<1> QED BY <1>4, <1>5, <1>6 DEF IInv, Tables

LEMMA RefusedStep ==
  ASSUME IInv, NEW n \in Node, Refused(n)
  PROVE  IInv'
<1>1. Typing'
  BY TailTyped DEF Refused, Trying, IInv, Typing, TypeOK, history
<1>2. Fresh'
  BY FreshKept DEF Refused
<1>3. Tables'
  BY TablesKept DEF Refused, IInv, Tables, history
<1> QED BY <1>1, <1>2, <1>3 DEF IInv, Tables

LEMMA TakeBroadcastStep ==
  ASSUME IInv, NEW n \in Node, TakeBroadcast(n)
  PROVE  IInv'
<1>1. Typing'
  BY TailTyped DEF TakeBroadcast, Replied, IInv, Typing, TypeOK, Phases, history
<1>2. Fresh'
  BY FreshKept DEF TakeBroadcast, Replied, IInv, Typing, TypeOK
<1>3. Tables'
  BY TablesKept DEF TakeBroadcast, IInv, Tables, history
<1> QED BY <1>1, <1>2, <1>3 DEF IInv, Tables

LEMMA RequestFailsStep ==
  ASSUME IInv, NEW n \in Node, RequestFails(n)
  PROVE  IInv'
<1>1. Typing'
  BY TailTyped DEF RequestFails, Replied, IInv, Typing, TypeOK, Phases, history
<1>2. Fresh'
  BY FreshKept DEF RequestFails, Replied, IInv, Typing, TypeOK
<1>3. Tables'
  BY TablesKept DEF RequestFails, IInv, Tables, history
<1> QED BY <1>1, <1>2, <1>3 DEF IInv, Tables

LEMMA StartStep ==
  ASSUME IInv, NEW n \in Node, Start(n)
  PROVE  IInv'
<1>1. Typing'
  BY DEF Start, IInv, Typing, TypeOK, Phases, history
<1>2. Fresh'
  BY FreshKept DEF Start, IInv, Typing, TypeOK
<1>3. Tables'
  BY TablesKept DEF Start, IInv, Tables, history
<1> QED BY <1>1, <1>2, <1>3 DEF IInv, Tables

LEMMA HandleAddrSteps ==
  ASSUME IInv, NEW n \in Node, NEW addresses \in SUBSET Node,
         HandleAddr(n, addresses), phase[n] # "crashed",
         \A m \in Node : phase[m] = "crashed" => phase'[m] = "crashed",
         UNCHANGED <<life, listening>>
  PROVE  /\ outbound' \in [Node -> SUBSET Node]
         /\ \A m \in Node : /\ m \notin outbound'[m]
                            /\ Cardinality(outbound'[m]) <= OutboundLimit[m]
         /\ open' \subseteq Conn /\ pending' \subseteq Conn
         /\ spawned' \subseteq Conn
         /\ Fresh'
<1>1. PICK D \in SUBSET (Node \ ({n} \cup outbound[n])) :
        /\ Cardinality(D) <= OutboundLimit[n] - Cardinality(outbound[n])
        /\ Connect(n, D)
        /\ spawned' = spawned \cup {To(n, a) : a \in D}
  <2>1. \A S \in SUBSET addresses : S \subseteq Node
    OBVIOUS
  <2> QED BY <2>1 DEF HandleAddr
<1>2. {To(n, a) : a \in D} \subseteq Conn
  BY ToType DEF IInv
<1>3. spawned' \subseteq Conn
  BY <1>1, <1>2 DEF IInv, Typing, TypeOK
<1>4. Fresh'
  BY <1>1, ConnectFresh DEF IInv
<1>5. /\ outbound' \in [Node -> SUBSET Node]
      /\ \A m \in Node : /\ m \notin outbound'[m]
                         /\ Cardinality(outbound'[m]) <= OutboundLimit[m]
      /\ open' \subseteq Conn /\ pending' \subseteq Conn
  BY <1>1, ConnectTyped DEF IInv
<1> QED BY <1>3, <1>4, <1>5

LEMMA AnswerTyped ==
  ASSUME Typing, NEW c \in Conn, answers[c] # <<>>
  PROVE  /\ Head(answers[c]) \in SUBSET Node
         /\ [answers EXCEPT ![c] = Tail(@)] \in [Conn -> Seq(SUBSET Node)]
<1>1. answers \in [Conn -> Seq(SUBSET Node)] /\ answers[c] \in Seq(SUBSET Node)
  BY DEF Typing, TypeOK
<1>2. Head(answers[c]) \in SUBSET Node /\ Tail(answers[c]) \in Seq(SUBSET Node)
  <2> DEFINE S == SUBSET Node
             q == answers[c]
  <2> HIDE DEF S, q
  <2>1. q \in Seq(S) /\ q # <<>>
    BY <1>1 DEF S, q
  <2>2. Head(q) \in S /\ Tail(q) \in Seq(S)
    BY <2>1
  <2> QED BY <2>2 DEF S, q
<1> QED BY <1>1, <1>2

LEMMA TakeReplyStep ==
  ASSUME IInv, NEW n \in Node, TakeReply(n)
  PROVE  IInv'
<1> DEFINE c == To(n, Head(todo[n]))
<1>1. /\ todo[n] # <<>> /\ c \in Conn
      /\ answers[c] # <<>> /\ HandleAddr(n, Head(answers[c]))
      /\ answers' = [answers EXCEPT ![c] = Tail(@)]
  BY TailTyped, ToType DEF TakeReply, IInv, Typing
<1>2. /\ UNCHANGED <<life, inbound, listening, named, turnedAway, crossed>>
      /\ phase[n] = "waiting" /\ phase' = [phase EXCEPT ![n] = "booting"]
      /\ \A m \in Node : phase[m] = "crashed" => phase'[m] = "crashed"
  BY DEF TakeReply, Replied, IInv, Typing, TypeOK
<1>3. Head(answers[c]) \in SUBSET Node /\ answers' \in [Conn -> Seq(SUBSET Node)]
  BY <1>1, AnswerTyped DEF IInv
<1>4. /\ outbound' \in [Node -> SUBSET Node]
      /\ \A m \in Node : /\ m \notin outbound'[m]
                         /\ Cardinality(outbound'[m]) <= OutboundLimit[m]
      /\ open' \subseteq Conn /\ pending' \subseteq Conn
      /\ spawned' \subseteq Conn
      /\ Fresh'
  BY <1>1, <1>2, <1>3, HandleAddrSteps
<1>5. Typing'
  <2>1. /\ phase' \in [Node -> Phases] /\ todo' \in [Node -> Seq(Node)]
        /\ \A m \in Node : todo'[m] \in Seq(Node \ {m})
        /\ \A m \in Node : phase'[m] = "waiting" => todo'[m] # <<>>
    <3>1. /\ phase \in [Node -> Phases] /\ todo \in [Node -> Seq(Node)]
          /\ \A m \in Node : /\ todo[m] \in Seq(Node \ {m})
                             /\ phase[m] = "waiting" => todo[m] # <<>>
          /\ "booting" \in Phases
      BY DEF IInv, Typing, TypeOK, Phases
    <3>2. Tail(todo[n]) \in Seq(Node) /\ Tail(todo[n]) \in Seq(Node \ {n})
      BY <1>1, TailTyped DEF IInv
    <3>3. todo' = [todo EXCEPT ![n] = Tail(@)]
      BY DEF TakeReply, Replied
    <3> QED BY <3>1, <3>2, <3>3, <1>2
  <2>2. /\ UNCHANGED <<life, paused, acceptor, inbound, listening, named, asked>>
    BY DEF TakeReply
  <2> HIDE DEF c
  <2> QED BY <2>1, <2>2, <1>3, <1>4 DEF IInv, Typing, TypeOK
<1>6. Tables'
  BY <1>2, TablesKept DEF IInv, Tables
<1> QED BY <1>4, <1>5, <1>6 DEF IInv, Tables

-----------------------------------------------------------------------------
(* Processes that end *)

LEMMA EndsTyped ==
  ASSUME IInv, NEW n \in Node, NEW also \in SUBSET Conn, Ends(n, also),
         phase' \in [Node -> Phases], phase'[n] # "waiting",
         \A m \in Node \ {n} : phase'[m] = phase[m],
         life' \in [Node -> Nat], \A m \in Node : life'[m] <= Lives[m]
  PROVE  Typing'
<1>1. DOMAIN <<>> = {} /\ IsFiniteSet({}) /\ Cardinality({}) = 0
  BY FS_EmptySet
<1>2. InboundLimit[n] >= 0 /\ OutboundLimit[n] >= 0
  BY ConnectionAssumption
<1>3. /\ inbound' = [inbound EXCEPT ![n] = <<>>]
      /\ outbound' = [outbound EXCEPT ![n] = {}]
      /\ todo' = [todo EXCEPT ![n] = <<>>]
  BY DEF Ends
<1>4. /\ DOMAIN inbound' = Node /\ inbound' = [m \in Node |-> inbound'[m]]
      /\ outbound' \in [Node -> SUBSET Node] /\ todo' \in [Node -> Seq(Node)]
      /\ \A m \in Node :
           /\ DOMAIN inbound'[m] \subseteq Node \cup Conn
           /\ Cardinality(DOMAIN inbound'[m]) <= InboundLimit[m]
           /\ \A id \in DOMAIN inbound'[m] : inbound'[m][id] \in Conn
           /\ Cardinality(outbound'[m]) <= OutboundLimit[m]
           /\ IsFiniteSet(DOMAIN inbound'[m])
           /\ m \notin outbound'[m]
           /\ todo'[m] \in Seq(Node \ {m})
           /\ phase'[m] = "waiting" => todo'[m] # <<>>
  <2>1. /\ DOMAIN inbound = Node /\ inbound = [m \in Node |-> inbound[m]]
        /\ outbound \in [Node -> SUBSET Node] /\ todo \in [Node -> Seq(Node)]
    BY DEF IInv, Typing, TypeOK
  <2>2. /\ DOMAIN inbound' = Node /\ inbound' = [m \in Node |-> inbound'[m]]
        /\ outbound' \in [Node -> SUBSET Node] /\ todo' \in [Node -> Seq(Node)]
        /\ inbound'[n] = <<>> /\ outbound'[n] = {} /\ todo'[n] = <<>>
        /\ \A m \in Node \ {n} : /\ inbound'[m] = inbound[m]
                                 /\ outbound'[m] = outbound[m]
                                 /\ todo'[m] = todo[m]
    <3>1. DOMAIN inbound' = Node /\ inbound' = [m \in Node |-> inbound'[m]]
      BY <2>1, <1>3
    <3>2. <<>> \in Seq(Node)
      OBVIOUS
    <3>3. outbound' \in [Node -> SUBSET Node] /\ todo' \in [Node -> Seq(Node)]
      BY <2>1, <1>3, <3>2
    <3> QED BY <2>1, <3>1, <3>3, <1>3
  <2>3. <<>> \in Seq(Node \ {n})
    OBVIOUS
  <2> QED BY ZenonT(40), <1>1, <1>2, <2>2, <2>3 DEF IInv, Typing, TypeOK
<1>5. /\ paused' \subseteq Node /\ acceptor' \in [Node -> BOOLEAN]
      /\ open' \subseteq Conn /\ pending' \subseteq Conn /\ listening' \subseteq Conn
      /\ named' \subseteq listening' /\ spawned' \subseteq Conn
  BY DEF Ends, IInv, Typing, TypeOK
<1>6. asked' \in [Conn -> Nat] /\ answers' \in [Conn -> Seq(SUBSET Node)]
  <2>1. <<>> \in Seq(SUBSET Node)
    OBVIOUS
  <2> QED BY <2>1 DEF Ends, IInv, Typing, TypeOK
<1> QED BY <1>4, <1>5, <1>6 DEF Typing, TypeOK

LEMMA StopStep ==
  ASSUME IInv, NEW n \in Node, Stop(n)
  PROVE  IInv'
<1>1. /\ Ends(n, {}) /\ UNCHANGED <<turnedAway, crossed>>
      /\ phase' = [phase EXCEPT ![n] = "off"] /\ phase[n] # "crashed"
      /\ life' = [life EXCEPT ![n] = @ + 1] /\ life[n] < Lives[n]
  BY DEF Stop, history
<1>2. /\ phase' \in [Node -> Phases] /\ phase'[n] # "waiting"
      /\ \A m \in Node \ {n} : phase'[m] = phase[m]
      /\ life' \in [Node -> Nat] /\ \A m \in Node : life'[m] <= Lives[m]
  <2>1. /\ phase \in [Node -> Phases] /\ life \in [Node -> Nat]
        /\ \A m \in Node : life[m] <= Lives[m]
        /\ Lives \in [Node -> Nat] /\ "off" \in Phases
    BY ConnectionAssumption DEF IInv, Typing, TypeOK, Phases
  <2> QED BY <1>1, <2>1
<1>3. Typing'
  BY <1>1, <1>2, EndsTyped
<1>4. Fresh'
  <2> DEFINE also == {}
  <2>1. /\ also \in SUBSET Conn /\ also \cap listening = {}
        /\ \A c \in also : c[1] = n /\ c[3] = life[n]
        /\ also = {} /\ Ends(n, also)
    BY <1>1
  <2> HIDE DEF also
  <2> QED BY <1>1, <1>2, <2>1, EndsFresh
<1>5. Tables'
  BY <1>1, EndsTables
<1> QED BY <1>3, <1>4, <1>5 DEF IInv, Tables

LEMMA AskNewWhenFullStep ==
  ASSUME IInv, NEW n \in Node, AskNewWhenFull(n)
  PROVE  IInv'
<1> DEFINE a == Head(todo[n])
<1>1. /\ Ends(n, {To(n, a)}) /\ UNCHANGED <<life, turnedAway, crossed>>
      /\ phase' = [phase EXCEPT ![n] = "crashed"] /\ phase[n] = "booting"
      /\ a \notin outbound[n] /\ a \in Node \ {n}
  BY TailTyped DEF AskNewWhenFull, Trying, history, IInv
<1>2. To(n, a) \in Conn \ listening /\ To(n, a)[1] = n /\ To(n, a)[3] = life[n]
  BY <1>1, ToType, NotYetConnected DEF IInv
<1>3. /\ phase' \in [Node -> Phases] /\ phase'[n] = "crashed"
      /\ \A m \in Node \ {n} : phase'[m] = phase[m]
      /\ life' \in [Node -> Nat] /\ \A m \in Node : life'[m] <= Lives[m]
  BY <1>1 DEF IInv, Typing, TypeOK, Phases
<1>4. Typing'
  BY <1>1, <1>2, <1>3, EndsTyped
<1>5. Fresh'
  BY <1>1, <1>2, <1>3, EndsFresh
<1>6. Tables'
  BY <1>1, EndsTables
<1> QED BY <1>4, <1>5, <1>6 DEF IInv, Tables

LEMMA HandleGetAddrCrashesStep ==
  ASSUME IInv, NEW c \in Conn, HandleGetAddrCrashes(c)
  PROVE  IInv'
<1> DEFINE n == c[2]
<1>1. /\ n \in Node /\ Ends(n, {}) /\ UNCHANGED <<life, turnedAway, crossed>>
      /\ phase' = [phase EXCEPT ![n] = "crashed"]
  BY ConnType DEF HandleGetAddrCrashes, history
<1>2. /\ phase' \in [Node -> Phases] /\ phase'[n] = "crashed"
      /\ \A m \in Node \ {n} : phase'[m] = phase[m]
      /\ life' \in [Node -> Nat] /\ \A m \in Node : life'[m] <= Lives[m]
  BY <1>1 DEF IInv, Typing, TypeOK, Phases
<1>3. Typing'
  BY <1>1, <1>2, EndsTyped
<1>4. Fresh'
  BY <1>1, <1>2, EndsFresh
<1>5. Tables'
  BY <1>1, EndsTables
<1> QED BY <1>3, <1>4, <1>5 DEF IInv, Tables

-----------------------------------------------------------------------------
(* Steps of the io thread *)

LEMMA OneMore ==
  ASSUME NEW S, NEW x, IsFiniteSet(S)
  PROVE  /\ IsFiniteSet(S \cup {x})
         /\ Cardinality(S \cup {x}) <= Cardinality(S) + 1
<1>1. /\ IsFiniteSet(S \cup {x}) /\ Cardinality(S) \in Nat
      /\ \/ Cardinality(S \cup {x}) = Cardinality(S)
         \/ Cardinality(S \cup {x}) = Cardinality(S) + 1
  BY FS_AddElement, FS_CardinalityType
<1> QED BY <1>1

LEMMA AcceptStep ==
  ASSUME IInv, NEW c \in Conn, Accept(c)
  PROVE  IInv'
<1> DEFINE m == c[2]
           t == inbound[m]
<1>1. m \in Node /\ DOMAIN inbound = Node /\ IsFiniteSet(DOMAIN t)
  BY ConnType DEF IInv, Typing, TypeOK
<1>2. /\ DOMAIN inbound' = Node /\ inbound' = [k \in Node |-> inbound'[k]]
      /\ \A k \in Node \ {m} : inbound'[k] = inbound[k]
      /\ \/ inbound'[m] = t
         \/ inbound'[m] = Put(t, c, c) /\ ~InboundFull(m)
  <2>1. inbound' = inbound \/ inbound' = [inbound EXCEPT ![m] = Put(t, c, c)]
    BY DEF Accept, AddToInbound
  <2>2. inbound = [k \in Node |-> inbound[k]]
    BY DEF IInv, Typing
  <2> QED BY <1>1, <2>1, <2>2 DEF Accept, AddToInbound
<1>3. /\ IsFiniteSet(DOMAIN t \cup {c})
      /\ ~InboundFull(m) => Cardinality(DOMAIN t \cup {c}) <= InboundLimit[m]
  <2>1. /\ Cardinality(DOMAIN t) \in Nat /\ InboundLimit[m] \in Nat
        /\ Cardinality(DOMAIN t) <= InboundLimit[m]
    BY <1>1, FS_CardinalityType, ConnectionAssumption DEF IInv, Typing, TypeOK
  <2>2. /\ IsFiniteSet(DOMAIN t \cup {c})
        /\ Cardinality(DOMAIN t \cup {c}) <= Cardinality(DOMAIN t) + 1
    BY <1>1, <2>1, OneMore
  <2>3. Cardinality(DOMAIN t \cup {c}) \in Nat
    BY <2>2, FS_CardinalityType
  <2> QED BY <2>1, <2>2, <2>3 DEF InboundFull
<1>4. ASSUME NEW k \in Node
      PROVE  /\ DOMAIN inbound'[k] \subseteq Node \cup Conn
             /\ Cardinality(DOMAIN inbound'[k]) <= InboundLimit[k]
             /\ \A id \in DOMAIN inbound'[k] : inbound'[k][id] \in Conn
             /\ IsFiniteSet(DOMAIN inbound'[k])
  <2>1. CASE inbound'[k] = inbound[k]
    BY <2>1 DEF IInv, Typing, TypeOK
  <2>2. CASE k = m /\ inbound'[m] = Put(t, c, c) /\ ~InboundFull(m)
    <3> DEFINE u == inbound'[m]
    <3>1. /\ DOMAIN u = DOMAIN t \cup {c}
          /\ \A id \in DOMAIN u : u[id] = IF id = c THEN c ELSE t[id]
      <4> HIDE DEF t, u
      <4>1. u = Put(t, c, c)
        BY <2>2 DEF t, u
      <4> QED BY <4>1 DEF Put
    <3> QED BY <2>2, <3>1, <1>1, <1>3 DEF IInv, Typing, TypeOK
  <2> QED BY <2>1, <2>2, <1>2
<1>5. Typing'
  BY <1>2, <1>4 DEF Accept, IInv, Typing, TypeOK
<1>6. Fresh'
  BY DEF Accept, IInv, Fresh
<1>7. Tables'
  BY AcceptTables
<1> QED BY <1>5, <1>6, <1>7 DEF IInv, Tables

LEMMA AcceptThrowsStep ==
  ASSUME IInv, NEW c \in Conn, AcceptThrows(c)
  PROVE  IInv'
<1>1. Typing'
  BY ZenonT(40) DEF AcceptThrows, IInv, Typing, TypeOK
<1>2. Fresh'
  BY FreshKept DEF AcceptThrows
<1>3. Tables'
  BY TablesKept DEF AcceptThrows, IInv, Tables
<1> QED BY <1>1, <1>2, <1>3 DEF IInv, Tables

LEMMA WriteGetAddrStep ==
  ASSUME IInv, NEW c \in Conn, WriteGetAddr(c)
  PROVE  IInv'
<1>1. Typing'
  <2>1. asked' \in [Conn -> Nat]
    BY DEF WriteGetAddr, IInv, Typing, TypeOK
  <2> QED BY <2>1 DEF WriteGetAddr, IInv, Typing, TypeOK, history
<1>2. Fresh'
  BY FreshKept DEF WriteGetAddr
<1>3. Tables'
  BY TablesKept DEF WriteGetAddr, IInv, Tables, history
<1> QED BY <1>1, <1>2, <1>3 DEF IInv, Tables

\* A table with entry i taken out and, before that, connection d put at j.
LEMMA MovedTable ==
  ASSUME Typing, NEW m \in Node, NEW i \in DOMAIN inbound[m],
         NEW j \in Node \cup Conn, NEW d \in Conn
  PROVE  LET t == inbound[m]
             u == Erase(Put(t, j, d), i) IN
           /\ DOMAIN u \subseteq Node \cup Conn
           /\ IsFiniteSet(DOMAIN u) /\ Cardinality(DOMAIN u) <= InboundLimit[m]
           /\ \A id \in DOMAIN u : u[id] \in Conn
<1> DEFINE t == inbound[m]
           w == Put(t, j, d)
           u == Erase(w, i)
<1>1. /\ DOMAIN t \subseteq Node \cup Conn /\ IsFiniteSet(DOMAIN t)
      /\ Cardinality(DOMAIN t) <= InboundLimit[m] /\ InboundLimit[m] \in Nat
      /\ \A id \in DOMAIN t : t[id] \in Conn
  BY ConnectionAssumption DEF Typing, TypeOK
<1>2. DOMAIN w = DOMAIN t \cup {j} /\ \A id \in DOMAIN w : w[id] \in Conn
  <2> HIDE DEF t
  <2> QED BY <1>1 DEF Put
<1>3. DOMAIN u = DOMAIN w \ {i} /\ \A id \in DOMAIN u : u[id] \in Conn
  <2> HIDE DEF w
  <2> QED BY <1>2 DEF Erase
<1>4. DOMAIN u = (DOMAIN t \cup {j}) \ {i}
  BY <1>2, <1>3
<1> HIDE DEF t, w, u
<1>5. /\ IsFiniteSet(DOMAIN t \cup {j})
      /\ Cardinality(DOMAIN t \cup {j}) <= Cardinality(DOMAIN t) + 1
      /\ Cardinality(DOMAIN t) \in Nat
  <2>1. Cardinality(DOMAIN t) \in Nat
    BY <1>1, FS_CardinalityType
  <2> QED BY <1>1, <2>1, OneMore
<1>6. /\ IsFiniteSet(DOMAIN u)
      /\ Cardinality(DOMAIN u) = Cardinality(DOMAIN t \cup {j}) - 1
      /\ Cardinality(DOMAIN t \cup {j}) \in Nat
  <2>1. i \in DOMAIN t \cup {j}
    BY DEF t
  <2>2. Cardinality(DOMAIN t \cup {j}) \in Nat
    BY <1>5, FS_CardinalityType
  <2> QED BY SMTT(30), <1>4, <1>5, <2>1, <2>2, FS_RemoveElement
<1> QED BY <1>1, <1>3, <1>4, <1>5, <1>6 DEF t, w, u

LEMMA HandleGetAddrStep ==
  ASSUME IInv, NEW c \in Conn, HandleGetAddr(c)
  PROVE  IInv'
<1> DEFINE m == c[2]
           t == inbound[m]
           peer == t[ID(c)]
<1>1. /\ m \in Node /\ c[1] \in Node /\ c \in listening /\ asked[c] > 0
      /\ ID(c) \in DOMAIN t /\ named' = named \cup {peer}
      /\ inbound' = [inbound EXCEPT ![m] =
           IF ID(c) = c[1] THEN t ELSE Erase(Put(t, c[1], peer), ID(c))]
  BY ConnType DEF HandleGetAddr, ReadsGetAddr, UpdateAddrInfo
<1>2. peer \in listening /\ peer \in Conn
  BY <1>1, FoundEntry
<1>3. /\ DOMAIN inbound' = Node /\ inbound' = [k \in Node |-> inbound'[k]]
      /\ \A k \in Node : \/ inbound'[k] = inbound[k]
                         \/ k = m /\ inbound'[k] = Erase(Put(t, c[1], peer), ID(c))
  <2>1. DOMAIN inbound = Node /\ inbound = [k \in Node |-> inbound[k]]
    BY DEF IInv, Typing, TypeOK
  <2> HIDE DEF peer
  <2> QED BY <1>1, <2>1
<1>4. ASSUME NEW k \in Node
      PROVE  /\ DOMAIN inbound'[k] \subseteq Node \cup Conn
             /\ Cardinality(DOMAIN inbound'[k]) <= InboundLimit[k]
             /\ \A id \in DOMAIN inbound'[k] : inbound'[k][id] \in Conn
             /\ IsFiniteSet(DOMAIN inbound'[k])
  <2>1. CASE inbound'[k] = inbound[k]
    BY <2>1 DEF IInv, Typing, TypeOK
  <2>2. CASE k = m /\ inbound'[k] = Erase(Put(t, c[1], peer), ID(c))
    <3> DEFINE u == Erase(Put(t, c[1], peer), ID(c))
    <3>1. /\ DOMAIN u \subseteq Node \cup Conn
          /\ IsFiniteSet(DOMAIN u) /\ Cardinality(DOMAIN u) <= InboundLimit[m]
          /\ \A id \in DOMAIN u : u[id] \in Conn
      BY <1>1, <1>2, MovedTable DEF IInv
    <3>2. inbound'[k] = u /\ k = m
      BY <2>2
    <3> HIDE DEF u
    <3> QED BY <3>1, <3>2
  <2> QED BY <2>1, <2>2, <1>3
<1>5. asked' \in [Conn -> Nat] /\ answers' \in [Conn -> Seq(SUBSET Node)]
  <2>1. asked' = [asked EXCEPT ![c] = @ - 1] /\ asked \in [Conn -> Nat]
    BY DEF HandleGetAddr, IInv, Typing, TypeOK
  <2> DEFINE a == CollectPeers(m, inbound'[m])
  <2>2. /\ answers' = answers \/ answers' = [answers EXCEPT ![c] = Append(@, a)]
        /\ answers \in [Conn -> Seq(SUBSET Node)]
    BY DEF HandleGetAddr, IInv, Typing, TypeOK
  <2>3. a \in SUBSET Node
    BY <1>1 DEF CollectPeers, IInv, Typing, TypeOK
  <2>4. Append(answers[c], a) \in Seq(SUBSET Node)
    <3> DEFINE S == SUBSET Node
               q == answers[c]
    <3>1. q \in Seq(S) /\ a \in S
      BY <2>2, <2>3
    <3> HIDE DEF S, q, a
    <3>2. Append(q, a) \in Seq(S)
      BY <3>1
    <3> QED BY <3>2 DEF S, q
  <2> HIDE DEF a
  <2>5. asked[c] - 1 \in Nat
    BY <1>1, <2>1
  <2>6. asked' \in [Conn -> Nat]
    BY <2>1, <2>5
  <2>7. answers' \in [Conn -> Seq(SUBSET Node)]
    BY <2>2, <2>4
  <2> QED BY <2>6, <2>7
<1>6. Typing'
  <2>1. named' \subseteq listening'
    BY <1>1, <1>2 DEF HandleGetAddr, IInv, Typing, TypeOK
  <2> HIDE DEF peer
  <2> QED BY <1>3, <1>4, <1>5, <2>1 DEF HandleGetAddr, IInv, Typing, TypeOK, history
<1>7. Fresh'
  BY FreshKept DEF HandleGetAddr
<1>8. Tables'
  BY RenameTables
<1> QED BY <1>6, <1>7, <1>8 DEF IInv, Tables

\* c's listener ends, and its entries R go.
LEMMA ListenerGone ==
  ASSUME IInv, NEW c \in listening, NEW R \in SUBSET {ID(c), c[1]}, ID(c) \in R,
         NEW t, inbound' = [inbound EXCEPT ![c[2]] = t],
         DOMAIN t = DOMAIN inbound[c[2]] \ R,
         \A id \in DOMAIN t : t[id] = inbound[c[2]][id],
         listening' = listening \ {c}, named' = named \ {c},
         asked' = [asked EXCEPT ![c] = 0], open' \subseteq open,
         UNCHANGED <<phase, life, todo, paused, acceptor, outbound, pending, spawned,
                     answers, turnedAway, crossed>>
  PROVE  IInv'
<1> DEFINE m == c[2]
<1>1. c \in Conn /\ m \in Node
  BY ConnType DEF IInv, Typing, TypeOK
<1>2. /\ DOMAIN inbound' = Node /\ inbound' = [k \in Node |-> inbound'[k]]
      /\ inbound'[m] = t /\ \A k \in Node \ {m} : inbound'[k] = inbound[k]
  <2>1. DOMAIN inbound = Node /\ inbound = [k \in Node |-> inbound[k]]
    BY DEF IInv, Typing, TypeOK
  <2> QED BY <1>1, <2>1
<1>3. IsFiniteSet(DOMAIN t) /\ Cardinality(DOMAIN t) <= InboundLimit[m]
  <2>1. /\ IsFiniteSet(DOMAIN inbound[m])
        /\ Cardinality(DOMAIN inbound[m]) <= InboundLimit[m]
    BY <1>1 DEF IInv, Typing, TypeOK
  <2>2. IsFiniteSet(DOMAIN t) /\ Cardinality(DOMAIN t) <= Cardinality(DOMAIN inbound[m])
    BY <2>1, FS_Subset
  <2>3. /\ Cardinality(DOMAIN t) \in Nat /\ Cardinality(DOMAIN inbound[m]) \in Nat
        /\ InboundLimit[m] \in Nat
    BY <1>1, <2>1, <2>2, FS_CardinalityType, ConnectionAssumption
  <2> QED BY <2>1, <2>2, <2>3
<1>4. ASSUME NEW k \in Node
      PROVE  /\ DOMAIN inbound'[k] \subseteq Node \cup Conn
             /\ Cardinality(DOMAIN inbound'[k]) <= InboundLimit[k]
             /\ \A id \in DOMAIN inbound'[k] : inbound'[k][id] \in Conn
             /\ IsFiniteSet(DOMAIN inbound'[k])
  BY <1>1, <1>2, <1>3 DEF IInv, Typing, TypeOK
<1>5. Typing'
  <2>1. asked' \in [Conn -> Nat]
    BY <1>1 DEF IInv, Typing, TypeOK
  <2> QED BY <1>2, <1>4, <2>1 DEF IInv, Typing, TypeOK
<1>6. Fresh'
  BY FreshKept
<1>7. Tables'
  BY <1>2, ForgetTables
<1> QED BY <1>5, <1>6, <1>7 DEF IInv, Tables

LEMMA HandleGetAddrThrowsStep ==
  ASSUME IInv, NEW c \in Conn, HandleGetAddrThrows(c)
  PROVE  IInv'
<1> DEFINE t == inbound[c[2]]
           u == Erase(Erase(t, ID(c)), c[1])
<1>1. DOMAIN u = DOMAIN t \ {ID(c), c[1]} /\ \A id \in DOMAIN u : u[id] = t[id]
  <2> HIDE DEF t
  <2> QED BY DEF Erase
<1>2. /\ c \in listening /\ inbound' = [inbound EXCEPT ![c[2]] = u]
      /\ listening' = listening \ {c} /\ named' = named \ {c}
      /\ asked' = [asked EXCEPT ![c] = 0] /\ open' \subseteq open
      /\ UNCHANGED <<phase, life, todo, paused, acceptor, outbound, pending, spawned,
                     answers, turnedAway, crossed>>
  BY DEF HandleGetAddrThrows, ReadsGetAddr, Forget
<1> HIDE DEF u
<1> QED BY <1>1, <1>2, ListenerGone

LEMMA ListenFailsStep ==
  ASSUME IInv, NEW c \in Conn, ListenFails(c)
  PROVE  IInv'
<1> DEFINE t == inbound[c[2]]
           u == Erase(t, ID(c))
<1>1. DOMAIN u = DOMAIN t \ {ID(c)} /\ \A id \in DOMAIN u : u[id] = t[id]
  <2> HIDE DEF t
  <2> QED BY DEF Erase
<1>2. /\ c \in listening /\ inbound' = [inbound EXCEPT ![c[2]] = u]
      /\ listening' = listening \ {c} /\ named' = named \ {c}
      /\ asked' = [asked EXCEPT ![c] = 0] /\ open' \subseteq open
      /\ UNCHANGED <<phase, life, todo, paused, acceptor, outbound, pending, spawned,
                     answers, turnedAway, crossed>>
  BY DEF ListenFails, Forget, history
<1> HIDE DEF u
<1> QED BY <1>1, <1>2, ListenerGone

LEMMA ReadAddrStep ==
  ASSUME IInv, NEW c \in Conn, ReadAddr(c)
  PROVE  IInv'
<1> DEFINE n == c[1]
<1>1. /\ n \in Node /\ answers[c] # <<>> /\ phase[n] = "running"
      /\ HandleAddr(n, Head(answers[c]))
      /\ answers' = [answers EXCEPT ![c] = Tail(@)]
      /\ UNCHANGED <<phase, life, todo, paused, acceptor, inbound, listening, named,
                     asked, turnedAway, crossed>>
  BY ConnType DEF ReadAddr, Running
<1>2. Head(answers[c]) \in SUBSET Node /\ answers' \in [Conn -> Seq(SUBSET Node)]
  BY <1>1, AnswerTyped DEF IInv
<1>3. /\ outbound' \in [Node -> SUBSET Node]
      /\ \A m \in Node : /\ m \notin outbound'[m]
                         /\ Cardinality(outbound'[m]) <= OutboundLimit[m]
      /\ open' \subseteq Conn /\ pending' \subseteq Conn
      /\ spawned' \subseteq Conn
      /\ Fresh'
  BY <1>1, <1>2, HandleAddrSteps
<1>4. Typing'
  BY <1>1, <1>2, <1>3 DEF IInv, Typing, TypeOK
<1>5. Tables'
  BY <1>1, TablesKept DEF IInv, Tables
<1> QED BY <1>3, <1>4, <1>5 DEF IInv, Tables

-----------------------------------------------------------------------------
(* Peers of h that meet                                                      *)
(*                                                                           *)
(* The later of two peers to be named in h's table is told of the other, and *)
(* what it does then is a matter of its own: their connections to h stand as *)
(* long as neither process has ended.                                        *)

\* What PeersMeet says of n and p, when cn and cp are their connections.
Meeting(n, p, cn, cp) ==
  \/ Linked(n, p)
  \/ {n, p} \in missed
  \/ \E k \in DOMAIN answers[cn] : p \in answers[cn][k]
  \/ \E k \in DOMAIN answers[cp] : n \in answers[cp][k]

\* x's ends of connections are gone.
Gone(x) == \A c \in open : x \notin {c[1], c[2]}

\* Answers that name q.
Names(c, q) == \E k \in DOMAIN answers[c] : q \in answers[c][k]

LEMMA MeetIs ==
  PeersMeet <=>
    \A h, n, p \in Node :
      n # p /\ {n, p} \subseteq DOMAIN inbound[h]
        /\ {inbound[h][n], inbound[h][p]} \subseteq open
        => Meeting(n, p, inbound[h][n], inbound[h][p])
BY DEF PeersMeet, Meeting

\* An entry under a listening address is a connection that node has made.
LEMMA NamedEntry ==
  ASSUME IInv, NEW h \in Node, NEW n \in Node, n \in DOMAIN inbound[h]
  PROVE  inbound[h][n] \in listening /\ inbound[h][n][1] = n
<1>1. /\ inbound[h][n] \in listening /\ inbound[h][n] \in Conn
      /\ ID(inbound[h][n]) = n
  BY Entries DEF IInv
<1> QED BY <1>1, IDOf

\* What may become of connections, and of answers on their way, in a step.
Connections ==
  /\ missed \subseteq missed'
  /\ \A c \in listening : c \in open' => c \in open
  /\ \A c \in open :
       c \in open' \/ {c[1], c[2]} \in missed' \/ Gone(c[1])' \/ Gone(c[2])'
  /\ \A c \in listening : c \in open' =>
       \A q \in Node \ {c[1]} : Names(c, q) =>
         Names(c, q)' \/ Linked(c[1], q)' \/ {c[1], q} \in missed'

\* Two entries that a step leaves in place.
LEMMA StillMeet ==
  ASSUME IInv, PeersMeet, Connections, NEW h \in Node, NEW n \in Node, NEW p \in Node,
         NEW cn, NEW cp, n # p, {n, p} \subseteq DOMAIN inbound[h],
         cn = inbound[h][n], cp = inbound[h][p], {cn, cp} \subseteq open'
  PROVE  Meeting(n, p, cn, cp)'
<1>1. /\ cn \in listening /\ cn[1] = n /\ cn \in open
      /\ cp \in listening /\ cp[1] = p /\ cp \in open
  BY NamedEntry DEF Connections
<1>2. Meeting(n, p, cn, cp)
  BY <1>1, MeetIs
<1>3. ~Gone(n)' /\ ~Gone(p)'
  BY <1>1 DEF Gone
<1>4. ASSUME Linked(n, p)
      PROVE  Meeting(n, p, cn, cp)'
  <2>1. PICK c \in open : {c[1], c[2]} = {n, p}
    BY <1>4 DEF Linked
  <2>2. c[1] \in {n, p} /\ c[2] \in {n, p}
    BY <2>1
  <2>3. ~Gone(c[1])' /\ ~Gone(c[2])'
    <3>1. c[1] = n \/ c[1] = p
      BY <2>2
    <3>2. c[2] = n \/ c[2] = p
      BY <2>2
    <3>3. ~Gone(c[1])'
      BY <1>1, <3>1 DEF Gone
    <3>4. ~Gone(c[2])'
      BY <1>1, <3>2 DEF Gone
    <3> QED BY <3>3, <3>4
  <2>4. c \in open' \/ {n, p} \in missed'
    BY <2>1, <2>3 DEF Connections
  <2>5. CASE c \in open'
    BY <2>1, <2>5 DEF Meeting, Linked
  <2>6. CASE {n, p} \in missed'
    BY <2>6 DEF Meeting
  <2> QED BY <2>4, <2>5, <2>6
<1>5. ASSUME {n, p} \in missed
      PROVE  Meeting(n, p, cn, cp)'
  BY <1>5 DEF Connections, Meeting
<1>6. ASSUME Names(cn, p)
      PROVE  Meeting(n, p, cn, cp)'
  <2>1. Names(cn, p)' \/ Linked(n, p)' \/ {n, p} \in missed'
    BY <1>1, <1>6 DEF Connections
  <2> QED BY <2>1 DEF Meeting, Names
<1>7. ASSUME Names(cp, n)
      PROVE  Meeting(n, p, cn, cp)'
  <2>1. Names(cp, n)' \/ Linked(p, n)' \/ {p, n} \in missed'
    BY <1>1, <1>7 DEF Connections
  <2>2. Linked(p, n)' => Linked(n, p)'
    BY DEF Linked
  <2>3. {p, n} = {n, p}
    OBVIOUS
  <2> QED BY <2>1, <2>2, <2>3 DEF Meeting, Names
<1> QED BY <1>2, <1>4, <1>5, <1>6, <1>7 DEF Meeting, Names

\* A step that names nobody.
LEMMA MeetKept ==
  ASSUME IInv, PeersMeet, Connections,
         \A m \in Node : \A id \in DOMAIN inbound'[m] : id \in Node =>
           id \in DOMAIN inbound[m] /\ inbound'[m][id] = inbound[m][id]
  PROVE  PeersMeet'
<1> SUFFICES ASSUME NEW h \in Node, NEW n \in Node, NEW p \in Node,
                    n # p, {n, p} \subseteq DOMAIN inbound'[h],
                    {inbound'[h][n], inbound'[h][p]} \subseteq open'
             PROVE  Meeting(n, p, inbound[h][n], inbound[h][p])'
  BY DEF PeersMeet, Meeting
<1>1. PICK cn, cp : cn = inbound[h][n] /\ cp = inbound[h][p]
  OBVIOUS
<1>2. /\ {n, p} \subseteq DOMAIN inbound[h]
      /\ inbound'[h][n] = cn /\ inbound'[h][p] = cp
  BY <1>1
<1>3. Meeting(n, p, cn, cp)'
  BY <1>1, <1>2, StillMeet
<1> QED BY <1>2, <1>3

\* Nothing changes for connections and answers.
LEMMA QuietMeet ==
  ASSUME IInv, PeersMeet, UNCHANGED <<inbound, open, answers, missed>>
  PROVE  PeersMeet'
BY DEF PeersMeet, Linked

\* connect_to_peer is called for nodes there is no connection to.
LEMMA NewConnections ==
  ASSUME IInv, NEW n \in Node, NEW D \in SUBSET (Node \ ({n} \cup outbound[n])),
         phase[n] # "crashed", Connect(n, D)
  PROVE  /\ open \subseteq open'
         /\ \A c \in listening : c \in open' => c \in open
         /\ \A a \in D : Linked(n, a)'
<1>1. open' = open \cup {To(n, a) : a \in D}
  BY DEF Connect
<1>2. \A a \in D : To(n, a) \notin listening
  BY NotYetConnected DEF IInv
<1>3. \A a \in D : To(n, a)[1] = n /\ To(n, a)[2] = a
  BY ToType DEF IInv
<1>4. ASSUME NEW a \in D
      PROVE  Linked(n, a)'
  <2>1. To(n, a) \in open' /\ {To(n, a)[1], To(n, a)[2]} = {n, a}
    BY <1>1, <1>3
  <2> QED BY <2>1 DEF Linked
<1> QED BY <1>1, <1>2, <1>4

\* handle_addr: who is named is connected to, or missed.
LEMMA HandleAddrMeets ==
  ASSUME IInv, PeersMeet, NEW c \in Conn, answers[c] # <<>>, phase[c[1]] # "crashed",
         HandleAddr(c[1], Head(answers[c])),
         answers' = [answers EXCEPT ![c] = Tail(@)], UNCHANGED inbound
  PROVE  PeersMeet'
<1> DEFINE n == c[1]
           A == Head(answers[c])
<1>0. /\ n \in Node /\ A \in SUBSET Node /\ answers \in [Conn -> Seq(SUBSET Node)]
      /\ answers[c] \in Seq(SUBSET Node)
  BY ConnType, AnswerTyped DEF IInv, Typing, TypeOK
<1>1. PICK D \in SUBSET (Node \ ({n} \cup outbound[n])) :
        /\ Connect(n, D)
        /\ missed' = missed \cup {{n, a} : a \in {b \in (A \ {n}) \ D : ~Linked(n, b)}}
  BY <1>0 DEF HandleAddr
<1> HIDE DEF A
<1>2. /\ open \subseteq open'
      /\ \A d \in listening : d \in open' => d \in open
      /\ \A a \in D : Linked(n, a)'
  BY <1>0, <1>1, NewConnections
<1>3. \A q \in A \ {n} : Linked(n, q)' \/ {n, q} \in missed'
  <2> SUFFICES ASSUME NEW q \in A \ {n}, q \notin D, Linked(n, q)
               PROVE  Linked(n, q)'
    BY <1>1, <1>2
  <2> QED BY <1>2 DEF Linked
<1>4. ASSUME NEW d \in Conn, NEW q \in Node \ {d[1]}, Names(d, q)
      PROVE  Names(d, q)' \/ Linked(d[1], q)' \/ {d[1], q} \in missed'
  <2>1. CASE d = c
    <3> DEFINE s == answers[c]
               u == answers'[c]
    <3>1. PICK k \in DOMAIN s : q \in s[k]
      BY <1>4, <2>1 DEF Names
    <3>2. s \in Seq(SUBSET Node) /\ s # <<>> /\ u = Tail(s) /\ A = Head(s)
      BY <1>0 DEF A
    <3> HIDE DEF s, u
    <3>3. \/ k = 1 /\ s[k] = A
          \/ k - 1 \in DOMAIN u /\ u[k - 1] = s[k]
      BY <3>1, <3>2
    <3>4. CASE s[k] = A
      BY <1>3, <1>4, <2>1, <3>1, <3>4
    <3>5. CASE k - 1 \in DOMAIN u /\ u[k - 1] = s[k]
      BY <2>1, <3>1, <3>5 DEF Names, u
    <3> QED BY <3>3, <3>4, <3>5
  <2>2. CASE d # c
    <3>1. answers'[d] = answers[d]
      BY <1>0, <2>2
    <3> QED BY <1>4, <3>1 DEF Names
  <2> QED BY <2>1, <2>2
<1>5. listening \subseteq Conn
  BY DEF IInv, Typing, TypeOK
<1>6. Connections
  BY <1>1, <1>2, <1>4, <1>5 DEF Connections
<1> QED BY <1>6, MeetKept

LEMMA AskNewMeets ==
  ASSUME IInv, PeersMeet, NEW n \in Node, AskNew(n)
  PROVE  PeersMeet'
<1> DEFINE D == {Head(todo[n])}
<1>1. /\ D \in SUBSET (Node \ ({n} \cup outbound[n])) /\ phase[n] # "crashed"
      /\ Connect(n, D) /\ UNCHANGED <<inbound, answers, missed>>
  BY TailTyped DEF AskNew, Trying, history, IInv
<1> HIDE DEF D
<1>2. /\ open \subseteq open'
      /\ \A c \in listening : c \in open' => c \in open
  BY <1>1, NewConnections
<1>3. Connections
  BY <1>1, <1>2 DEF Connections, Names
<1> QED BY <1>1, <1>3, MeetKept

\* A process ends, and with it its table, its connections and their answers.
LEMMA EndsMeet ==
  ASSUME IInv, PeersMeet, NEW n \in Node, NEW also, Ends(n, also), UNCHANGED missed
  PROVE  PeersMeet'
<1>1. /\ open' = {c \in open : n \notin {c[1], c[2]}}
      /\ inbound' = [inbound EXCEPT ![n] = <<>>]
      /\ answers' = [c \in Conn |-> IF c[1] = n THEN <<>> ELSE answers[c]]
      /\ DOMAIN inbound = Node /\ listening \subseteq Conn
  BY DEF Ends, IInv, Typing, TypeOK
<1>2. Gone(n)'
  BY <1>1 DEF Gone
<1>3. \A c \in open : c \in open' \/ Gone(c[1])' \/ Gone(c[2])'
  <2> SUFFICES ASSUME NEW c \in open, c \notin open'
               PROVE  Gone(c[1])' \/ Gone(c[2])'
    OBVIOUS
  <2>1. c[1] = n \/ c[2] = n
    BY <1>1
  <2>2. CASE c[1] = n
    BY <1>1, <2>2 DEF Gone
  <2>3. CASE c[2] = n
    BY <1>1, <2>3 DEF Gone
  <2> QED BY <2>1, <2>2, <2>3
<1>4. \A c \in listening : c \in open' => answers'[c] = answers[c]
  BY <1>1
<1>5. Connections
  BY <1>1, <1>3, <1>4 DEF Connections, Names
<1>6. \A m \in Node : \A id \in DOMAIN inbound'[m] :
        id \in DOMAIN inbound[m] /\ inbound'[m][id] = inbound[m][id]
  <2> SUFFICES ASSUME NEW m \in Node, NEW id \in DOMAIN inbound'[m]
               PROVE  id \in DOMAIN inbound[m] /\ inbound'[m][id] = inbound[m][id]
    OBVIOUS
  <2>1. CASE m = n
    <3>1. inbound'[m] = <<>>
      BY <1>1, <2>1
    <3> QED BY <3>1
  <2>2. CASE m # n
    BY <1>1, <2>2
  <2> QED BY <2>1, <2>2
<1> QED BY <1>5, <1>6, MeetKept

LEMMA AcceptMeets ==
  ASSUME IInv, PeersMeet, NEW c \in Conn, Accept(c)
  PROVE  PeersMeet'
<1>1. /\ UNCHANGED <<open, answers, missed>> /\ c \notin Node /\ c[2] \in Node
      /\ DOMAIN inbound = Node
      /\ inbound' = inbound \/ inbound' = [inbound EXCEPT ![c[2]] = Put(@, c, c)]
  BY ConnType DEF Accept, AddToInbound, IInv, Typing, TypeOK
<1>2. Connections
  BY <1>1 DEF Connections, Names
<1>3. ASSUME NEW m \in Node, NEW id \in DOMAIN inbound'[m], id \in Node
      PROVE  id \in DOMAIN inbound[m] /\ inbound'[m][id] = inbound[m][id]
  <2>1. CASE inbound'[m] = inbound[m]
    BY <1>3, <2>1
  <2>2. CASE inbound'[m] = Put(inbound[m], c, c)
    <3> DEFINE t == inbound[m]
               u == inbound'[m]
    <3>1. u = Put(t, c, c) /\ id \in DOMAIN u
      BY <1>3, <2>2
    <3> HIDE DEF t, u
    <3>2. id \in DOMAIN t /\ u[id] = t[id]
      BY <1>1, <1>3, <3>1 DEF Put
    <3> QED BY <3>2 DEF t, u
  <2> QED BY <1>1, <2>1, <2>2
<1> QED BY <1>2, <1>3, MeetKept

\* The acceptor closes on connections that wait: they are missed.
LEMMA AcceptThrowsMeets ==
  ASSUME IInv, PeersMeet, NEW c \in Conn, AcceptThrows(c)
  PROVE  PeersMeet'
<1>1. /\ UNCHANGED <<inbound, answers>> /\ open' \subseteq open
      /\ missed' = missed \cup {{d[1], d[2]} : d \in open \ open'}
  BY DEF AcceptThrows
<1>2. Connections
  BY <1>1 DEF Connections, Names
<1> QED BY <1>1, <1>2, MeetKept

\* The listener ends: entries are erased.
LEMMA ErasedMeets ==
  ASSUME IInv, PeersMeet, Connections, NEW h \in Node, NEW i, NEW j,
         \/ inbound' = [inbound EXCEPT ![h] = Erase(@, i)]
         \/ inbound' = [inbound EXCEPT ![h] = Erase(Erase(@, i), j)]
  PROVE  PeersMeet'
<1>1. ASSUME NEW m \in Node, NEW id \in DOMAIN inbound'[m]
      PROVE  id \in DOMAIN inbound[m] /\ inbound'[m][id] = inbound[m][id]
  <2> DEFINE t == inbound[m]
             u == inbound'[m]
  <2>1. u = t \/ u = Erase(t, i) \/ u = Erase(Erase(t, i), j)
    BY DEF IInv, Typing, TypeOK
  <2> HIDE DEF t, u
  <2>2. \A v, k : /\ DOMAIN Erase(v, k) \subseteq DOMAIN v
                  /\ \A l \in DOMAIN Erase(v, k) : Erase(v, k)[l] = v[l]
    BY DEF Erase
  <2>3. \A k \in DOMAIN u : k \in DOMAIN t /\ u[k] = t[k]
    BY <2>1, <2>2
  <2> QED BY <1>1, <2>3 DEF t, u
<1> QED BY <1>1, MeetKept

LEMMA HandleGetAddrThrowsMeets ==
  ASSUME IInv, PeersMeet, NEW c \in Conn, HandleGetAddrThrows(c)
  PROVE  PeersMeet'
<1>1. /\ inbound' = [inbound EXCEPT ![c[2]] = Erase(Erase(@, ID(c)), c[1])]
      /\ open' = open \ {c} /\ missed' = missed \cup {{c[1], c[2]}}
      /\ UNCHANGED answers /\ c[2] \in Node
  BY ConnType DEF HandleGetAddrThrows
<1>2. Connections
  BY <1>1 DEF Connections, Names
<1> QED BY <1>1, <1>2, ErasedMeets

LEMMA ListenFailsMeets ==
  ASSUME IInv, PeersMeet, NEW c \in Conn, ListenFails(c)
  PROVE  PeersMeet'
<1>1. /\ inbound' = [inbound EXCEPT ![c[2]] = Erase(@, ID(c))]
      /\ UNCHANGED <<open, answers, missed>> /\ c[2] \in Node
  BY ConnType DEF ListenFails, history
<1>2. Connections
  BY <1>1 DEF Connections, Names
<1> QED BY <1>1, <1>2, ErasedMeets

\* handle_get_addr tells the peer that gets its name of all that have one.
LEMMA HandleGetAddrMeets ==
  ASSUME IInv, PeersMeet, NEW c \in Conn, HandleGetAddr(c)
  PROVE  PeersMeet'
<1> DEFINE m == c[2]
           A == CollectPeers(m, inbound'[m])
<1>1. /\ c \in listening /\ m \in Node /\ c[1] \in Node
      /\ UNCHANGED <<open, missed>>
      /\ DOMAIN inbound = Node /\ answers \in [Conn -> Seq(SUBSET Node)]
      /\ ID(c) \in DOMAIN inbound[m]
      /\ answers' = IF c \in open THEN [answers EXCEPT ![c] = Append(@, A)] ELSE answers
      /\ inbound' = [inbound EXCEPT ![m] =
           IF ID(c) = c[1] THEN @ ELSE Erase(Put(@, c[1], inbound[m][ID(c)]), ID(c))]
  BY ConnType DEF HandleGetAddr, ReadsGetAddr, UpdateAddrInfo, history,
                  IInv, Typing, TypeOK
<1>2. DOMAIN inbound'[m] \cap Node \subseteq A
  BY DEF CollectPeers
<1> HIDE DEF A
<1>3. ASSUME NEW d \in Conn
      PROVE  /\ \A q : Names(d, q) => Names(d, q)'
             /\ d = c /\ d \in open => \A q \in A : Names(d, q)'
  <2>1. CASE d = c /\ c \in open
    <3> DEFINE s == answers[c]
               u == answers'[c]
    <3>1. s \in Seq(SUBSET Node) /\ u = Append(s, A)
      BY <1>1, <2>1
    <3> HIDE DEF s, u
    <3>2. /\ \A k \in DOMAIN s : k \in DOMAIN u /\ u[k] = s[k]
          /\ Len(s) + 1 \in DOMAIN u /\ u[Len(s) + 1] = A
      BY <3>1
    <3> QED BY <2>1, <3>2 DEF Names, s, u
  <2>2. CASE ~(d = c /\ c \in open)
    <3>1. answers'[d] = answers[d]
      BY <1>1, <2>2
    <3> QED BY <2>2, <3>1 DEF Names
  <2> QED BY <2>1, <2>2
<1>4. Connections
  <2>1. listening \subseteq Conn
    BY DEF IInv, Typing, TypeOK
  <2> QED BY <1>1, <1>3, <2>1 DEF Connections
<1>5. CASE c \in named
  <2>1. ID(c) = c[1]
    BY <1>5, IDOf
  <2>2. \A k \in Node : inbound'[k] = inbound[k]
    BY <1>1, <2>1
  <2> QED BY <1>4, <2>2, MeetKept
<1>6. CASE c \notin named
  <2>1. ID(c) = c /\ c \notin Node /\ inbound[m][ID(c)] = c
    BY <1>1, <1>6, IDOf, ConnType, FoundEntry
  <2>2. /\ \A k \in Node \ {m} : inbound'[k] = inbound[k]
        /\ inbound'[m] = Erase(Put(inbound[m], c[1], c), c)
    BY <1>1, <2>1 DEF HandleGetAddr, UpdateAddrInfo, IInv, Typing, TypeOK
  <2>3. \A id \in DOMAIN inbound'[m] :
          \/ id = c[1] /\ inbound'[m][id] = c
          \/ id # c[1] /\ id \in DOMAIN inbound[m] /\ inbound'[m][id] = inbound[m][id]
    <3> DEFINE t == inbound[m]
               u == inbound'[m]
    <3>1. u = Erase(Put(t, c[1], c), c)
      BY <2>2
    <3> HIDE DEF t, u
    <3> DEFINE v == Put(t, c[1], c)
    <3> HIDE DEF v
    <3>2. \A id \in DOMAIN u : id \in DOMAIN v /\ u[id] = v[id]
      <4>1. u = Erase(v, c)
        BY <3>1 DEF v
      <4> QED BY ZenonT(40), <4>1, EraseIs
    <3>3. \A id \in DOMAIN u : \/ id = c[1] /\ u[id] = c
                               \/ id # c[1] /\ id \in DOMAIN t /\ u[id] = t[id]
      BY <3>2 DEF Put, v
    <3> QED BY <3>3 DEF t, u
  <2> SUFFICES ASSUME NEW h \in Node, NEW n \in Node, NEW p \in Node,
                      n # p, {n, p} \subseteq DOMAIN inbound'[h],
                      {inbound'[h][n], inbound'[h][p]} \subseteq open'
               PROVE  Meeting(n, p, inbound[h][n], inbound[h][p])'
    BY DEF PeersMeet, Meeting
  <2>4. PICK cn, cp : cn = inbound'[h][n] /\ cp = inbound'[h][p]
    OBVIOUS
  <2>5. CASE h = m /\ n = c[1]
    <3>1. cn = c /\ c \in open /\ p \in A
      BY <1>1, <1>2, <2>3, <2>4, <2>5
    <3>2. Names(cn, p)'
      BY <1>3, <3>1
    <3> QED BY <2>4, <3>2 DEF Meeting, Names
  <2>6. CASE h = m /\ p = c[1]
    <3>1. cp = c /\ c \in open /\ n \in A
      BY <1>1, <1>2, <2>3, <2>4, <2>6
    <3>2. Names(cp, n)'
      BY <1>3, <3>1
    <3> QED BY <2>4, <3>2 DEF Meeting, Names
  <2>7. CASE ~(h = m /\ c[1] \in {n, p})
    <3>1. /\ {n, p} \subseteq DOMAIN inbound[h]
          /\ cn = inbound[h][n] /\ cp = inbound[h][p]
      BY <2>2, <2>3, <2>4, <2>7
    <3>2. Meeting(n, p, cn, cp)'
      BY <1>4, <2>4, <3>1, StillMeet
    <3> QED BY <2>4, <3>2
  <2> QED BY <2>5, <2>6, <2>7
<1> QED BY <1>5, <1>6

LEMMA NextMeets ==
  ASSUME IInv, PeersMeet, [Next]_vars
  PROVE  PeersMeet'
<1>1. ASSUME NEW n \in Node, Boot(n) \/ MainThread(n) \/ Stop(n)
      PROVE  PeersMeet'
  <2>1. CASE Boot(n) \/ AskKnown(n) \/ Refused(n) \/ TakeBroadcast(n)
             \/ RequestFails(n) \/ Start(n)
    BY <2>1, QuietMeet
       DEF Boot, AskKnown, Refused, TakeBroadcast, RequestFails, Start, history
  <2>2. CASE AskNew(n)
    BY <2>2, AskNewMeets
  <2>3. CASE AskNewWhenFull(n)
    BY <2>3, EndsMeet DEF AskNewWhenFull, history
  <2>4. CASE Stop(n)
    BY <2>4, EndsMeet DEF Stop, history
  <2>5. CASE TakeReply(n)
    <3> DEFINE c == To(n, Head(todo[n]))
    <3>1. /\ todo[n] # <<>> /\ phase[n] = "waiting" /\ UNCHANGED inbound
          /\ answers[c] # <<>> /\ HandleAddr(n, Head(answers[c]))
          /\ answers' = [answers EXCEPT ![c] = Tail(@)]
      BY <2>5 DEF TakeReply, IInv, Typing
    <3>2. c \in Conn /\ c[1] = n
      BY <3>1, TailTyped, ToType DEF IInv
    <3> HIDE DEF c
    <3> QED BY <3>1, <3>2, HandleAddrMeets
  <2> QED BY <1>1, <2>1, <2>2, <2>3, <2>4, <2>5 DEF MainThread
<1>2. ASSUME NEW c \in Conn, IoThread(c)
      PROVE  PeersMeet'
  <2>1. c[1] \in Node /\ c[2] \in Node
    BY ConnType
  <2>2. CASE WriteGetAddr(c)
    BY <2>2, QuietMeet DEF WriteGetAddr, history
  <2>3. CASE HandleGetAddrCrashes(c)
    BY <2>1, <2>3, EndsMeet DEF HandleGetAddrCrashes, history
  <2>4. CASE ReadAddr(c)
    <3>1. phase[c[1]] # "crashed"
      BY <2>4 DEF ReadAddr, Running
    <3> QED BY <2>4, <3>1, HandleAddrMeets DEF ReadAddr
  <2> QED BY <1>2, <2>2, <2>3, <2>4, AcceptMeets, AcceptThrowsMeets, HandleGetAddrMeets,
             HandleGetAddrThrowsMeets, ListenFailsMeets DEF IoThread
<1>3. CASE UNCHANGED vars
  BY <1>3, QuietMeet DEF vars
<1> QED BY <1>1, <1>2, <1>3 DEF Next

-----------------------------------------------------------------------------
(* Theorems *)

LEMMA InitIInv ==
  ASSUME Init
  PROVE  IInv
<1>1. DOMAIN <<>> = {} /\ IsFiniteSet({}) /\ Cardinality({}) = 0
  BY FS_EmptySet
<1>2. \A n \in Node : /\ InboundLimit[n] >= 0 /\ OutboundLimit[n] >= 0
                     /\ 0 \in Nat /\ 0 <= Lives[n]
  BY ConnectionAssumption
<1>3. \A S : <<>> \in Seq(S)
  OBVIOUS
<1>4. Typing
  BY <1>1, <1>2, <1>3 DEF Init, Typing, TypeOK, Phases
<1>5. Fresh /\ InboundIsListening /\ TwinsCrossed
  BY <1>1 DEF Init, Fresh, InboundIsListening, TwinsCrossed
<1> QED BY <1>4, <1>5 DEF IInv

LEMMA NextIInv ==
  ASSUME IInv, [Next]_vars
  PROVE  IInv'
<1>1. CASE \E n \in Node : Boot(n) \/ MainThread(n) \/ Stop(n)
  BY <1>1, BootStep, AskKnownStep, AskNewStep, AskNewWhenFullStep, RefusedStep,
     TakeReplyStep, TakeBroadcastStep, RequestFailsStep, StartStep, StopStep
     DEF MainThread
<1>2. CASE \E c \in Conn : IoThread(c)
  BY <1>2, AcceptStep, AcceptThrowsStep, WriteGetAddrStep, HandleGetAddrStep,
     HandleGetAddrThrowsStep, HandleGetAddrCrashesStep, ListenFailsStep, ReadAddrStep
     DEF IoThread
<1>3. CASE UNCHANGED vars
  <2>1. Typing'
    BY <1>3 DEF vars, IInv, Typing, TypeOK
  <2>2. Fresh'
    BY <1>3, FreshKept DEF vars
  <2>3. Tables'
    BY <1>3, TablesKept DEF vars, IInv, Tables
  <2> QED BY <2>1, <2>2, <2>3 DEF IInv, Tables
<1> QED BY <1>1, <1>2, <1>3 DEF Next

\* Connections are made once, entries and listeners of the inbound table begin
\* and end together, and listeners that could share a name have met: what every
\* step of ConnectionManager keeps.
THEOREM InductiveInvariant == Spec => []IInv
<1>1. Init => IInv
  BY InitIInv
<1>2. IInv /\ [Next]_vars => IInv'
  BY NextIInv
<1> QED BY <1>1, <1>2, PTL DEF Spec

\* The variables keep their types, and neither table of peers outgrows its limit,
\* whichever handler or bootstrap step adds to it.
THEOREM TypeCorrect == Spec => []TypeOK
<1>1. IInv => TypeOK
  BY DEF IInv, Typing
<1> QED BY <1>1, InductiveInvariant, PTL

\* inbound_peer_map_ holds the connections that are listened to, each under the
\* ID its Peer has then, except where the table was full or a node came back
\* before its old connection was noticed to be gone.
THEOREM InboundListens == Spec => []InboundIsListening
<1>1. IInv => InboundIsListening
  BY DEF IInv
<1> QED BY <1>1, InductiveInvariant, PTL

\* Two nodes that a third has heard from are connected, or one of them has an
\* answer to read that names the other, or their connection failed: nobody is
\* forgotten, whoever was first and whatever ends in between.
THEOREM NodesMeet == Spec => []PeersMeet
<1>1. Init => PeersMeet
  BY DEF Init, PeersMeet
<1>2. IInv /\ PeersMeet /\ [Next]_vars => PeersMeet'
  BY NextMeets
<1> QED BY <1>1, <1>2, InductiveInvariant, PTL DEF Spec

\* handle_get_addr and bootstrap_from_config dereference an empty pointer for
\* the reasons CrashHasCause names only.
THEOREM CrashesHaveCauses == Spec => CrashHasCause
<1> DEFINE Cause(m) == \/ \E c \in listening : /\ c[2] = m /\ asked[c] > 0
                                               /\ c \in turnedAway \cup crossed
                       \/ phase[m] = "booting" /\ OutboundFull(m)
           Step == \A m \in Node :
                     phase[m] # "crashed" /\ phase'[m] = "crashed" => Cause(m)
<1>1. ASSUME IInv, [Next]_vars, NEW m \in Node,
             phase[m] # "crashed", phase'[m] = "crashed"
      PROVE  Cause(m)
  <2>1. phase \in [Node -> Phases]
    BY <1>1 DEF IInv, Typing, TypeOK
  <2>2. ASSUME NEW n \in Node, AskNewWhenFull(n)
        PROVE  Cause(m)
    BY <2>1, <2>2, <1>1 DEF AskNewWhenFull, Trying
  <2>3. ASSUME NEW c \in Conn, HandleGetAddrCrashes(c)
        PROVE  Cause(m)
    <3>1. m = c[2]
      BY <2>1, <2>3, <1>1 DEF HandleGetAddrCrashes
    <3>2. c \in listening /\ asked[c] > 0 /\ ID(c) \notin DOMAIN inbound[m]
      BY <2>3, <3>1 DEF HandleGetAddrCrashes, ReadsGetAddr
    <3>3. c \in turnedAway \cup crossed
      BY <1>1, <3>1, <3>2 DEF IInv, InboundIsListening
    <3> QED BY <3>1, <3>2, <3>3
  <2>4. ASSUME NEW n \in Node,
               \/ Boot(n) \/ AskKnown(n) \/ AskNew(n) \/ Refused(n) \/ TakeReply(n)
               \/ TakeBroadcast(n) \/ RequestFails(n) \/ Start(n) \/ Stop(n)
        PROVE  FALSE
    BY <2>1, <2>4, <1>1
       DEF Boot, AskKnown, AskNew, Request, Refused, TakeReply, TakeBroadcast,
           RequestFails, Replied, Start, Stop
  <2>5. ASSUME NEW c \in Conn,
               \/ Accept(c) \/ AcceptThrows(c) \/ WriteGetAddr(c) \/ HandleGetAddr(c)
               \/ HandleGetAddrThrows(c) \/ ListenFails(c) \/ ReadAddr(c)
        PROVE  FALSE
    BY <2>5, <1>1
       DEF Accept, AcceptThrows, WriteGetAddr, HandleGetAddr, HandleGetAddrThrows,
           ListenFails, ReadAddr
  <2>6. ~UNCHANGED vars
    BY <1>1 DEF vars
  <2> HIDE DEF Cause
  <2> QED BY <1>1, <2>2, <2>3, <2>4, <2>5, <2>6 DEF Next, MainThread, IoThread
<1>2. IInv /\ [Next]_vars => [Step]_vars
  BY <1>1
<1>3. [][Step]_vars => CrashHasCause
  BY PTL DEF CrashHasCause
<1> QED BY <1>2, <1>3, InductiveInvariant, PTL DEF Spec
=============================================================================
