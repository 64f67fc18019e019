----------------------------- MODULE BlockTree -----------------------------
(***************************************************************************)
(* The data every component of a node works on: blocks, transactions and   *)
(* transaction outputs, with hashes taken to be injective, so that a block *)
(* (a transaction) and its hash (its TXID) are one value.                  *)
(*                                                                         *)
(* Difficulty: below height blocks_per_epoch (2016 in the sample configs)  *)
(* every valid block has the difficulty of the genesis block, so the total *)
(* difficulty of a chain is its length in that unit.                       *)
(***************************************************************************)
EXTENDS SequencesExt

CONSTANTS
  Block,        \* the blocks that miners and peers may produce
  Genesis,      \* the block every node builds from its configuration
  Parent,       \* Parent[b]: the block whose hash is b's prev_hash
  Timestamp,    \* Timestamp[b]: header timestamp
  SoundHeader,  \* blocks whose difficulty, depth and proofs verify
  SoundBody,    \* blocks whose Merkle root, coinbase and signatures verify
  Tx,           \* transactions, coinbase transactions included
  Coinbase,     \* Coinbase[b]: first transaction of b
  Body,         \* Body[b]: the other transactions of b
  OutPoint,     \* (TXID, vout) pairs
  Inputs,       \* Inputs[t]: the outputs t spends
  Outputs,      \* Outputs[t]: the outputs t creates
  Owned         \* the outputs paying this node's wallet key

ASSUME BlockTreeAssumption ==
  /\ Genesis \in Block
  /\ Parent \in [Block -> Block]
  /\ Timestamp \in [Block -> Nat]
  /\ SoundHeader \subseteq Block
  /\ SoundBody \subseteq Block
  /\ Coinbase \in [Block -> Tx]
  /\ Body \in [Block -> SUBSET Tx]
  /\ Inputs \in [Tx -> SUBSET OutPoint]
  /\ Outputs \in [Tx -> SUBSET OutPoint]
  /\ Owned \subseteq OutPoint

\* The genesis block has one transaction, its coinbase.
ASSUME GenesisAssumption == Body[Genesis] = {}

\* An output belongs to one transaction: its key starts with the TXID.
ASSUME OutputAssumption ==
  \A t, u \in Tx : t # u => Outputs[t] \cap Outputs[u] = {}

-----------------------------------------------------------------------------
(* Blocks *)

\* The outputs b adds to the chainstate, and those it takes out of it.
Created(b)  == UNION {Outputs[t] : t \in Body[b] \cup {Coinbase[b]}}
Consumed(b) == UNION {Inputs[t] : t \in Body[b]}

\* Two transactions of b spend the same output.
SpendsTwice(b) ==
  \E t, u \in Body[b] : t # u /\ Inputs[t] \cap Inputs[u] # {}

(* Chains of blocks *)

Linked(c) == \A i \in 1..Len(c) - 1 : Parent[c[i + 1]] = c[i]

Rooted(c) == /\ c # <<>>
             /\ c[1] = Genesis
             /\ Linked(c)

TimeOrdered(c) ==
  \A i \in 1..Len(c) - 1 : Timestamp[c[i]] < Timestamp[c[i + 1]]

\* The outputs that a chain has created and not consumed.
Unspent(c) == (UNION {Created(c[i]) : i \in DOMAIN c})
              \ (UNION {Consumed(c[i]) : i \in DOMAIN c})

\* Every block of c spends outputs left unspent by the blocks before it.
NoDoubleSpend(c) ==
  \A i \in DOMAIN c : /\ ~SpendsTwice(c[i])
                      /\ Consumed(c[i]) \subseteq Unspent(SubSeq(c, 1, i - 1))

ValidChain(c) == Rooted(c) /\ TimeOrdered(c) /\ NoDoubleSpend(c)

-----------------------------------------------------------------------------
(* What theorems about all block trees suppose of a tree *)

\* h[b] is the height of b: no block is its own ancestor.
Heights(h) ==
  /\ h \in [Block -> Nat]
  /\ \A b \in Block \ {Genesis} : h[b] = h[Parent[b]] + 1

\* What keeps a transaction from being on a chain twice.  Miners write the
\* height into the coinbase, and every other transaction spends something.  No
\* validation establishes it, nor that a coinbase of one block is not among the
\* other transactions of a block.
TransactionsDiffer(h) ==
  /\ Heights(h)
  /\ \A b, d \in Block : Coinbase[b] = Coinbase[d] => h[b] = h[d]
  /\ \A b, d \in Block : Coinbase[b] \notin Body[d]
  /\ \A b \in Block : \A t \in Body[b] : Inputs[t] # {}
=============================================================================
