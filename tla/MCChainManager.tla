--------------------------- MODULE MCChainManager ---------------------------
(***************************************************************************)
(* Small block trees for ChainManager.  A block is named by its branch and *)
(* its height: a1, a2, ... extend genesis g, b1, b2, ... compete with them *)
(* from g on, c2, c3, ... fork from a1.  The other names are blocks with   *)
(* one defect each:                                                        *)
(*   h1  a header that does not verify, and o2, its child (an orphan);     *)
(*   s1  on g, not newer than g;                                           *)
(*   w1  on g, two transactions spending the same output;                  *)
(*   d3  on b2, spending what b1 has already spent, and d4, its child;     *)
(*   m2  on a1, mined here with a proof that does not verify.              *)
(***************************************************************************)
EXTENDS ChainManager

Branch == [g |-> "g", a1 |-> "g", a2 |-> "a1", a3 |-> "a2",
           b1 |-> "g", b2 |-> "b1", b3 |-> "b2", b4 |-> "b3",
           c2 |-> "a1", c3 |-> "c2", c4 |-> "c3",
           d3 |-> "b2", d4 |-> "d3",
           h1 |-> "g", o2 |-> "h1", s1 |-> "g", w1 |-> "g", m2 |-> "a1"]

\* Two branches, and every kind of block that is rejected.
TwoBranches == {"g", "a1", "a2", "a3", "b1", "b2", "b3",
                "h1", "o2", "s1", "w1"}

\* Three branches, which take turns as the main chain; the one from a1 is off
\* the main chain after a reorg to another.
Nested == {"g", "a1", "a2", "c2", "c3", "c4", "b1", "b2", "b3"}

\* With them, a branch that turns out to be invalid in its third block, one that
\* is invalid in its first, every kind of block that is rejected at once, and
\* blocks mined here.
Forest == Nested \cup {"d3", "d4", "w1", "h1", "o2", "s1", "m2"}

\* What this node may mine: w1 and m2 have a defect each.
OwnBlocks == {"a2", "b2", "w1", "m2"} \cap Block
SoundOwnBlocks == {"a2", "b2"} \cap Block

MCParent == [b \in Block |-> Branch[b]]
MCTimestamp ==
  [b \in Block |-> CASE b \in {"g", "s1"} -> 0
                     [] b \in {"a1", "b1", "h1", "w1"} -> 1
                     [] b \in {"a2", "b2", "c2", "o2", "m2"} -> 2
                     [] b \in {"a3", "b3", "c3", "d3"} -> 3
                     [] OTHER -> 4]
MCHeight == [b \in Block |-> IF b = "s1" THEN 1 ELSE MCTimestamp[b]]
MCSoundHeader == Block \ {"h1", "m2"}
MCSoundBody == Block

(* Transactions: t spends the genesis output, and u an output of t; v    *)
(* spends the genesis output too.  The others are coinbases, named after  *)
(* their blocks; a2 and b2 were made by one miner at one height.           *)
MCTx == Block \cup {"t", "u", "v"}
MCCoinbase == [b \in Block |-> CASE b = "b2" /\ "a2" \in Block -> "a2"
                                 [] OTHER -> b]
MCBody == [b \in Block |-> CASE b \in {"a1", "b1"} -> {"t"}
                             [] b \in {"a2", "b3"} -> {"u"}
                             [] b = "d3" -> {"v"}
                             [] b = "w1" -> {"t", "v"}
                             [] OTHER -> {}]
MCInputs == [t \in MCTx |-> CASE t \in {"t", "v"} -> {"g"}
                              [] t = "u" -> {"t.0"}
                              [] OTHER -> {}]
MCOutputs == [t \in MCTx |-> CASE t = "t" -> {"t.0", "t.1"}
                               [] t \in {"u", "v"} -> {t \o ".0"}
                               [] OTHER -> {t}]
MCOutPoint == UNION {MCOutputs[t] : t \in MCTx}
MCOwned == {"t.0", "u.0", "a1", "b2"} \cap MCOutPoint

\* The instances meet the hypotheses of the theorems about the ledger.
ASSUME MCLedgerHypotheses ==
  /\ TransactionsDiffer(MCHeight)
  /\ Owned \cap Created(Genesis) = {}
=============================================================================
