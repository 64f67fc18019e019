---------------------------- MODULE MCMiningNode ----------------------------
(***************************************************************************)
(* Small nodes for MiningNode.  t1 and t3 spend the same output; t1 and t2 *)
(* pay the same amount to the same key; t3 makes its payment twice.        *)
(***************************************************************************)
EXTENDS MiningNode

MCTx == {"t1", "t2", "t3"}
MCFee == [t \in MCTx |-> IF t = "t3" THEN 2 ELSE 1]
MCOutKey == {"k1", "k2", "k3"}
MCPays == [t \in MCTx |-> IF t = "t3" THEN <<"k3", "k3">> ELSE <<"k1">>]
MCOutPoint == {"o1", "o2", "p1", "p2", "p3"}
MCInitial == {"o1", "o2"}
MCInputs == [t \in MCTx |-> IF t = "t2" THEN {"o2"} ELSE {"o1"}]
MCCreates == [t \in MCTx |-> CASE t = "t1" -> {"p1"}
                               [] t = "t2" -> {"p2"}
                               [] t = "t3" -> {"p3"}]

\* c2 is enough for a block, c1 and c3 together, too; c3 cannot be proved.
MCComp == {"c1", "c2", "c3"}
MCDepth == [c \in MCComp |-> IF c = "c2" THEN 2 ELSE 1]
MCFaulty == {"c3"}

\* An empty block, blocks of one transaction, and one that spends twice.
MCReceived == {<<>>, <<"t1">>, <<"t1", "t3">>}

\* Bound: one computation with transactions, three without, and then one block
\* of a peer.
Small ==
  IF "c3" \in compStore
  THEN /\ adding = NotAdding /\ storage = {} /\ Bodies \subseteq {<<>>}
       /\ Cardinality({i \in DOMAIN chain : chain[i].coinbase = 0}) <= 1
  ELSE "c1" \notin compStore \cup appending.comps

\* These transactions are such as the theorems suppose.
ASSUME MCHypotheses == OutputsDiffer
=============================================================================
