--------------------------- MODULE MemPool_proofs ---------------------------
(***************************************************************************)
(* Proofs about MemPool, for all sets of transactions, fees, outputs and   *)
(* blocks.  RefsCoverStorage is inductive together with the types; the     *)
(* agreement of ranking and storage is inductive by itself.                *)
(***************************************************************************)
EXTENDS MemPool, TLAPS

\* Types of the pool's variables, in every state of add_valid_tx and
\* spend_block.
THEOREM TypeCorrect == Spec => []TypeOK
<1>1. Init => TypeOK
  BY DEF Init, TypeOK
<1>2. TypeOK /\ [Next]_vars => TypeOK'
  <2> SUFFICES ASSUME TypeOK, [Next]_vars
               PROVE  TypeOK'
    OBVIOUS
  <2> USE MemPoolAssumption DEF TypeOK
  <2>1. ASSUME NEW t \in Tx, AddValidTx(t)
        PROVE  TypeOK'
    BY <2>1 DEF AddValidTx, Ranked
  <2>2. ASSUME NEW t \in Tx, SpendTx(t)
        PROVE  TypeOK'
    <3>1. CASE SpendMissing(t)
      BY <2>2, <3>1 DEF SpendTx, SpendMissing
    <3>2. CASE SpendPooled(t)
      BY <2>2, <3>2 DEF SpendTx, SpendPooled
    <3>3. CASE SpendAborts(t)
      BY <2>2, <3>3 DEF SpendTx, SpendAborts
    <3>4. QED
      BY <2>2, <3>1, <3>2, <3>3 DEF SpendTx
  <2>3. ASSUME NEW body \in Bodies, SpendBlock(body)
        PROVE  TypeOK'
    BY <2>3 DEF SpendBlock
  <2>4. CASE UNCHANGED vars
    BY <2>4 DEF vars
  <2>5. QED
    BY <2>1, <2>2, <2>3, <2>4 DEF Next
<1>3. QED
  BY <1>1, <1>2, PTL DEF Spec

\* get_top finds every transaction of its ranking in the storage.
THEOREM GetTopNeverThrows == Spec => []RankedIsStorage
<1>1. Init => RankedIsStorage
  BY DEF Init, RankedIsStorage, Ranked
<1>2. RankedIsStorage /\ [Next]_vars => RankedIsStorage'
  <2> SUFFICES ASSUME RankedIsStorage, [Next]_vars
               PROVE  RankedIsStorage'
    OBVIOUS
  <2> USE DEF RankedIsStorage
  <2>1. ASSUME NEW t \in Tx, AddValidTx(t)
        PROVE  RankedIsStorage'
    BY <2>1 DEF AddValidTx, Ranked
  <2>2. ASSUME NEW t \in Tx, SpendTx(t)
        PROVE  RankedIsStorage'
    <3>1. CASE SpendMissing(t)
      BY <3>1 DEF SpendMissing
    <3>2. CASE SpendPooled(t)
      <4>1. Ranked(storage) \ Ranked(Evicted(t)) = Ranked(storage \ Evicted(t))
        BY DEF Ranked
      <4>2. QED
        BY <3>2, <4>1 DEF SpendPooled
    <3>3. CASE SpendAborts(t)
      BY <3>3 DEF SpendAborts
    <3>4. QED
      BY <2>2, <3>1, <3>2, <3>3 DEF SpendTx
  <2>3. ASSUME NEW body \in Bodies, SpendBlock(body)
        PROVE  RankedIsStorage'
    BY <2>3 DEF SpendBlock
  <2>4. CASE UNCHANGED vars
    BY <2>4 DEF vars
  <2>5. QED
    BY <2>1, <2>2, <2>3, <2>4 DEF Next
<1>3. QED
  BY <1>1, <1>2, PTL DEF Spec

-----------------------------------------------------------------------------
\* The keys of a transaction's outputs are keys of the index.
LEMMA PaysOutKeys ==
  ASSUME NEW t \in Tx
  PROVE  ToSet(Pays[t]) \subseteq OutKey
BY MemPoolAssumption DEF ToSet

\* One spent transaction leaves the others filed under all their outputs:
\* those that lose an entry are the evicted ones.
LEMMA SpendKeepsRefs ==
  ASSUME TypeOK, RefsCoverStorage, NEW t \in Tx, SpendPooled(t)
  PROVE  RefsCoverStorage'
<1> SUFFICES ASSUME NEW u \in storage', NEW k \in ToSet(Pays[u])
             PROVE  u \in refs'[k]
  BY DEF RefsCoverStorage
<1>1. u \in storage /\ u \in Tx /\ u \notin Evicted(t)
  BY DEF SpendPooled, TypeOK
<1>2. u \in refs[k]
  BY <1>1 DEF RefsCoverStorage
<1>3. k \notin ToSet(Pays[t])
  BY <1>1, <1>2 DEF Evicted
<1>4. QED
  BY <1>1, <1>2, <1>3, PaysOutKeys DEF SpendPooled

\* Every pooled transaction is filed under all of its outputs.
THEOREM RefsCover == Spec => []RefsCoverStorage
<1>1. Init => RefsCoverStorage
  BY DEF Init, RefsCoverStorage
<1>2. TypeOK /\ RefsCoverStorage /\ [Next]_vars => RefsCoverStorage'
  <2> SUFFICES ASSUME TypeOK, RefsCoverStorage, [Next]_vars
               PROVE  RefsCoverStorage'
    OBVIOUS
  <2>1. ASSUME NEW t \in Tx, AddValidTx(t)
        PROVE  RefsCoverStorage'
    <3> SUFFICES ASSUME NEW u \in storage', NEW k \in ToSet(Pays[u])
                 PROVE  u \in refs'[k]
      BY DEF RefsCoverStorage
    <3>1. u \in Tx /\ k \in OutKey
      BY <2>1, PaysOutKeys DEF AddValidTx, TypeOK
    <3>2. CASE u = t
      BY <2>1, <3>1, <3>2 DEF AddValidTx
    <3>3. CASE u # t
      BY <2>1, <3>1, <3>3 DEF AddValidTx, RefsCoverStorage
    <3>4. QED
      BY <3>2, <3>3
  <2>2. ASSUME NEW t \in Tx, SpendTx(t)
        PROVE  RefsCoverStorage'
    <3>1. CASE SpendMissing(t)
      BY <3>1 DEF SpendMissing, RefsCoverStorage
    <3>2. CASE SpendPooled(t)
      BY <3>2, SpendKeepsRefs
    <3>3. CASE SpendAborts(t)
      BY <3>3 DEF SpendAborts, RefsCoverStorage
    <3>4. QED
      BY <2>2, <3>1, <3>2, <3>3 DEF SpendTx
  <2>3. ASSUME NEW body \in Bodies, SpendBlock(body)
        PROVE  RefsCoverStorage'
    BY <2>3 DEF SpendBlock, RefsCoverStorage
  <2>4. CASE UNCHANGED vars
    BY <2>4 DEF vars, RefsCoverStorage
  <2>5. QED
    BY <2>1, <2>2, <2>3, <2>4 DEF Next
<1>3. QED
  BY <1>1, <1>2, TypeCorrect, PTL DEF Spec

\* What add_valid_tx_unsafe and spend_tx_unsafe write to the ranking and to
\* utxo_ref_ always agrees with tx_storage_.
THEOREM IndexesMatch == Spec => []IndexesMatchStorage
<1>1. RankedIsStorage /\ RefsCoverStorage => IndexesMatchStorage
  BY DEF IndexesMatchStorage
<1>2. QED
  BY <1>1, GetTopNeverThrows, RefsCover, PTL

\* The assertion of spend_tx_unsafe can only fail for equal outputs.
THEOREM AbortOnlyForEqualOutputs == Spec => []AbortNeedsEqualOutputs
<1>1. Init => AbortNeedsEqualOutputs
  BY DEF Init, AbortNeedsEqualOutputs
<1>2. /\ TypeOK /\ RefsCoverStorage /\ AbortNeedsEqualOutputs
      /\ [Next]_vars
      => AbortNeedsEqualOutputs'
  <2> SUFFICES ASSUME TypeOK, RefsCoverStorage, AbortNeedsEqualOutputs,
                      [Next]_vars
               PROVE  AbortNeedsEqualOutputs'
    OBVIOUS
  <2> USE DEF AbortNeedsEqualOutputs
  <2>1. ASSUME NEW t \in Tx, AddValidTx(t)
        PROVE  AbortNeedsEqualOutputs'
    BY <2>1 DEF AddValidTx, Unlocked
  <2>2. ASSUME NEW t \in Tx, SpendTx(t)
        PROVE  AbortNeedsEqualOutputs'
    <3>1. CASE SpendMissing(t) \/ SpendPooled(t)
      BY <2>2, <3>1 DEF SpendTx, SpendMissing, SpendPooled
    <3>2. CASE SpendAborts(t)
      <4>1. EqualOutputs(t)
        BY <3>2 DEF SpendAborts, KeyMissing, RefsCoverStorage
      <4>2. spending' = spending /\ spending # <<>> /\ t = Head(spending)
        BY <2>2, <3>2 DEF SpendTx, SpendAborts
      <4>3. QED
        BY <4>1, <4>2
    <3>3. QED
      BY <2>2, <3>1, <3>2 DEF SpendTx
  <2>3. ASSUME NEW body \in Bodies, SpendBlock(body)
        PROVE  AbortNeedsEqualOutputs'
    BY <2>3 DEF SpendBlock, Unlocked
  <2>4. CASE UNCHANGED vars
    BY <2>4 DEF vars
  <2>5. QED
    BY <2>1, <2>2, <2>3, <2>4 DEF Next
<1>3. QED
  BY <1>1, <1>2, TypeCorrect, RefsCover, PTL DEF Spec
=============================================================================
