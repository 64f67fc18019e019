------------------------------ MODULE MCGossip ------------------------------
(***************************************************************************)
(* Small networks for Gossip: a miner and a node that joins it or is       *)
(* joined by it; or, with no items and no broken connections, a miner, a   *)
(* node that joins it and a third node.  Blocks may be refused.            *)
(***************************************************************************)
EXTENDS Gossip, TLC

CONSTANTS m, a, a1, t, t1, c

\* t1 spends an output of the first block.
MCNeeds == [i \in Item |-> IF i = t1 THEN 1 ELSE 0]

\* Bounds: which nodes, items, blocks, broken connections and stopped io threads
\* there are together.
TwoNodes ==
  /\ phase[a1] = "off"
  /\ \/ fresh = Item /\ Cardinality(rejected \cup thrown) <= 1
     \/ /\ Item \ fresh \in {{c}, {t}, {t, t1}}
        /\ Item \ fresh = {t, t1} => outbound[m] = {}
        /\ height[m] <= 1 /\ rejected \cup thrown = {} /\ stopped = {}

\* The third node comes when the first has mined one block at most, or joins a
\* alone: then there are two blocks, or the first is rejected.
ThreeNodes ==
  /\ fresh = Item /\ outbound[m] = {} /\ outbound[a] \subseteq {m}
  /\ stopped = {} /\ thrown = {}
  /\ \A n \in Node : \A p \in outbound[n] :
       <<n, p>> \in links \/ "crashed" \in {phase[n], phase[p]}
  /\ phase[a1] # "off" =>
       /\ phase[m] = "synced"
       /\ \/ /\ rejected = {} /\ height[m] <= 1
             /\ outbound[a1] = {m, a} => phase[a] \in {"synced", "crashed"}
          \/ /\ rejected = {} /\ outbound[a1] = {a}
             /\ phase[a] \in {"synced", "crashed"}
          \/ rejected = {1} /\ outbound[a1] = {a}

Small == TwoNodes \/ ThreeNodes
=============================================================================
