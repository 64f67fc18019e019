------------------------------ MODULE MemPool ------------------------------
(***************************************************************************)
(* MemPool: the transactions waiting for a block (tx_storage_), ranked by  *)
(* fee (tx_set_), and utxo_ref_, the index that decides which transactions *)
(* leave the pool with one that a block has spent.                         *)
(*                                                                         *)
(* utxo_ref_ is keyed by the hash of an OUTPUT of the pooled transaction,  *)
(* that is by (public key, amount); what a transaction spends (Inputs) is  *)
(* not looked at, so transactions in conflict stay.  spend_block holds mu_ for *)
(* the whole block; its transactions are the steps, and no other operation *)
(* runs in between.  remove_tx and add_block have no caller and are left   *)
(* out.                                                                    *)
(***************************************************************************)
EXTENDS SequencesExt

CONSTANTS
  Tx,       \* transactions
  Fee,      \* Fee[t]: what t's inputs are worth more than its outputs
  OutKey,   \* hashes of transaction outputs
  Pays,     \* Pays[t]: the hashes of t's outputs, in order
  OutPoint, \* outputs of the chain, which transactions spend
  Inputs,   \* Inputs[t]: those that t spends
  Bodies    \* the blocks, as sequences of transactions without the coinbase

ASSUME MemPoolAssumption ==
  /\ Fee \in [Tx -> Nat]
  /\ Pays \in [Tx -> Seq(OutKey)]
  /\ Inputs \in [Tx -> SUBSET OutPoint]
  /\ Bodies \subseteq Seq(Tx)

VARIABLES
  storage,   \* keys of tx_storage_
  ranked,    \* tx_set_: <<fee, transaction>> pairs
  refs,      \* utxo_ref_: refs[k] = {} when k is not a key
  spending,  \* the transactions spend_block has still to go through
  status     \* "running", or "aborted" by a failed assertion

vars == <<storage, ranked, refs, spending, status>>

Init ==
  /\ storage = {}
  /\ ranked = {}
  /\ refs = [k \in OutKey |-> {}]
  /\ spending = <<>>
  /\ status = "running"

Unlocked == status = "running" /\ spending = <<>>

Ranked(S) == {<<Fee[t], t>> : t \in S}

\* Mutant: only the first output is filed.
AddUnderFirstOutput(t) ==
  /\ Unlocked
  /\ t \notin storage
  /\ storage' = storage \cup {t}
  /\ ranked' = ranked \cup Ranked({t})
  /\ refs' = [k \in OutKey |->
                IF Pays[t] # <<>> /\ k = Head(Pays[t]) THEN refs[k] \cup {t}
                                                      ELSE refs[k]]
  /\ UNCHANGED <<spending, status>>

\* add_valid_tx of a transaction that is not in the pool yet; for one that is,
\* it returns false and changes nothing.
AddValidTx(t) ==
  /\ Unlocked
  /\ t \notin storage
  /\ storage' = storage \cup {t}
  /\ ranked' = ranked \cup Ranked({t})
  /\ refs' = [k \in OutKey |-> IF k \in ToSet(Pays[t]) THEN refs[k] \cup {t}
                                                      ELSE refs[k]]
  /\ UNCHANGED <<spending, status>>

\* spend_block takes mu_.
SpendBlock(body) ==
  /\ Unlocked
  /\ spending' = body
  /\ UNCHANGED <<storage, ranked, refs, status>>

\* What leaves the pool with t: all that pays one of t's outputs, too.
Evicted(t) == {t} \cup UNION {refs[k] : k \in ToSet(Pays[t])}

\* Two outputs of t pay the same amount to the same key.
EqualOutputs(t) ==
  \E i, j \in DOMAIN Pays[t] : i # j /\ Pays[t][i] = Pays[t][j]

\* spend_tx_unsafe erases the key of each output after looking it up, so the
\* second of two equal outputs is not found.
KeyMissing(t) ==
  \/ \E k \in ToSet(Pays[t]) : refs[k] = {}
  \/ EqualOutputs(t)

SpendMissing(t) ==
  /\ t \notin storage
  /\ UNCHANGED <<storage, ranked, refs, status>>

\* Mutant: t leaves, the keys are erased, the others stay.
SpendAlone(t) ==
  /\ t \in storage
  /\ ~KeyMissing(t)
  /\ storage' = storage \ {t}
  /\ ranked' = ranked \ Ranked({t})
  /\ refs' = [k \in OutKey |-> IF k \in ToSet(Pays[t]) THEN {} ELSE refs[k]]
  /\ UNCHANGED status

SpendPooled(t) ==
  /\ t \in storage
  /\ ~KeyMissing(t)
  /\ storage' = storage \ Evicted(t)
  /\ ranked' = ranked \ Ranked(Evicted(t))
  /\ refs' = [k \in OutKey |-> IF k \in ToSet(Pays[t]) THEN {} ELSE refs[k]]
  /\ UNCHANGED status

SpendAborts(t) ==
  /\ t \in storage
  /\ KeyMissing(t)
  /\ status' = "aborted"
  /\ UNCHANGED <<storage, ranked, refs>>

SpendTx(t) ==
  /\ status = "running"
  /\ spending # <<>>
  /\ t = Head(spending)
  /\ SpendMissing(t) \/ SpendPooled(t) \/ SpendAborts(t)
  /\ spending' = IF status' = "running" THEN Tail(spending) ELSE spending

Next ==
  \/ \E t \in Tx : AddValidTx(t) \/ SpendTx(t)
  \/ \E body \in Bodies : SpendBlock(body)

Spec == Init /\ [][Next]_vars

-----------------------------------------------------------------------------
(* Properties *)

\* Types of the pool's variables.
TypeOK ==
  /\ storage \subseteq Tx
  /\ ranked \subseteq Nat \X Tx
  /\ refs \in [OutKey -> SUBSET Tx]
  /\ spending \in Seq(Tx)
  /\ status \in {"running", "aborted"}

\* The ranking and the storage hold the same transactions, so that get_top's
\* tx_storage_.at never throws, in the mining thread that calls it.
RankedIsStorage == ranked = Ranked(storage)

\* A pooled transaction is filed under all of its outputs, whatever was added
\* and evicted before: what the assertion in spend_tx_unsafe relies on.
RefsCoverStorage == \A t \in storage : \A k \in ToSet(Pays[t]) : t \in refs[k]

\* Both indexes agree with tx_storage_: adding and evicting write all three,
\* and an eviction for one output must not leave the others behind.
IndexesMatchStorage == RankedIsStorage /\ RefsCoverStorage

\* The assertion of spend_tx_unsafe fails only for a transaction with equal
\* outputs, never because of what other transactions left in utxo_ref_.
AbortNeedsEqualOutputs ==
  status = "aborted" => spending # <<>> /\ EqualOutputs(Head(spending))

\* What the comments at utxo_ref_ (mem_pool.hpp), in spend_tx_unsafe and in
\* Wallet::new_transaction say: with a spent transaction all others leave that
\* spend the same output.  The code does not do this.
SpendEvictsConflicts ==
  [][\A t \in Tx : SpendTx(t) /\ SpendPooled(t) =>
       \A u \in storage' : Inputs[t] \cap Inputs[u] = {}]_vars
=============================================================================
