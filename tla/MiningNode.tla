----------------------------- MODULE MiningNode -----------------------------
(***************************************************************************)
(* A mining node: the main thread with the mining thread it joins          *)
(* (Node::start, ChainManager::start_mining, Miner::mine) against the io   *)
(* thread, which appends received blocks and adds transactions and         *)
(* computations.  start_mining reads pool, computations, tip and height    *)
(* one after another, each under a mutex of its own; add_tx holds no mutex *)
(* between its look at the chainstate and its call of the pool.            *)
(*                                                                         *)
(* MemPool is composed with it: a block on its way into the chain goes     *)
(* through SpendBlock and SpendTx, and mu_ keeps the other thread off.     *)
(*                                                                         *)
(* The chain only grows here; reorg is ChainManager's subject.  Heights    *)
(* stay below the first retarget, so Difficulty is constant.  No           *)
(* transaction spends a coinbase output.  stop_flag_ is never set, so a    *)
(* proof once begun is completed.                                          *)
(***************************************************************************)
EXTENDS FiniteSetsExt, SequencesExt

CONSTANTS
  Tx, Fee, OutKey, Pays,   \* as in MemPool
  OutPoint,   \* (TXID, vout) pairs
  Inputs,     \* Inputs[t]: the outputs t spends
  Creates,    \* Creates[t]: the outputs t adds to the chainstate
  Initial,    \* the outputs of the chainstate at the start
  Comp,       \* computations
  Depth,      \* Depth[c]: what difficulty() says of c
  Faulty,     \* those whose expression names a ciphertext they do not have
  Difficulty, \* what a block's computations have to reach
  Limit,      \* default_tx_per_block
  Received,   \* bodies of blocks that peers send
  MaxHeight,  \* bound: no block is mined or received above it
  None

ASSUME MiningAssumption ==
  /\ Fee \in [Tx -> Nat]
  /\ Pays \in [Tx -> Seq(OutKey)]
  /\ Inputs \in [Tx -> SUBSET OutPoint]
  /\ Creates \in [Tx -> SUBSET OutPoint]
  /\ Initial \subseteq OutPoint
  /\ Depth \in [Comp -> Nat]
  /\ Faulty \subseteq Comp
  /\ Difficulty \in Nat \ {0}
  /\ Limit \in Nat
  /\ Received \subseteq Seq(Tx)
  /\ MaxHeight \in Nat
  /\ None \notin Tx

VARIABLES
  storage, ranked, refs, spending, status,   \* as in MemPool
  chain,     \* header_chain_ above genesis, with bodies and coinbase heights
  unspent,   \* keys of the chainstate
  compStore, \* keys of MemCompStore's storage_
  used,      \* of these: their objects were given to a round, which binds them
  refused,   \* history: computations of own blocks that were not added
  failed,    \* history: those bound by a round that ended without a block
  appending, \* the append_block that holds chain_mu_
  mining,    \* the main thread's round of the mining loop
  adding     \* the io thread's add_tx: a transaction, its unchecked inputs

poolVars == <<storage, ranked, refs, spending, status>>
bindVars == <<used, refused, failed>>
vars == <<poolVars, chain, unspent, compStore, bindVars, appending, mining, adding>>

Pool == INSTANCE MemPool WITH Bodies <- Received

Running == status = "running"

\* No append_block holds chain_mu_; nor, then, chain_manager_mu_.
ChainFree == appending.by = "none"

NotAppending == [by |-> "none", at |-> "pool", comps |-> {}]
NotAdding == [tx |-> None, unchecked |-> {}]
NewRound == [at |-> "top", txs |-> <<>>, comps |-> {}, again |-> {},
             unread |-> {}, head |-> 0, height |-> 0, calm |-> TRUE]

Init ==
  /\ Pool!Init
  /\ chain = <<>>
  /\ unspent = Initial
  /\ compStore = {}
  /\ used = {}
  /\ refused = {}
  /\ failed = {}
  /\ appending = NotAppending
  /\ mining = NewRound
  /\ adding = NotAdding

-----------------------------------------------------------------------------
(* append_block *)

ConsumedBy(body) == UNION {Inputs[t] : t \in ToSet(body)}
CreatedBy(body) == UNION {Creates[t] : t \in ToSet(body)}

\* Mutant: outputs are looked up, but not whether the block spends them twice.
SpendableOneByOne(body) == \A t \in ToSet(body) : Inputs[t] \subseteq unspent

\* What validate_block asks of the inputs.
Spendable(body) ==
  /\ \A i \in DOMAIN body : Inputs[body[i]] \subseteq unspent
  /\ \A i, j \in DOMAIN body : i # j => Inputs[body[i]] \cap Inputs[body[j]] = {}

\* What MemChainstate::add_block asserts: each input is there when its
\* transaction's turn comes.
Applies(body) ==
  \A i \in DOMAIN body :
    LET before == SubSeq(body, 1, i - 1)
    IN  Inputs[body[i]] \subseteq (unspent \cup CreatedBy(before))
                                    \ ConsumedBy(before)

TotalDepth(comps) == MapThenSumSet(LAMBDA c : Depth[c], comps)

\* Header and chainstate; again is history: computations that were bound twice
\* when the block's proofs were made, so that they do not verify.  The rest of
\* append_block follows step by step.
PushBlock(by, body, comps, coinbase, again) ==
  /\ chain' = Append(chain, [body |-> body, coinbase |-> coinbase, again |-> again])
  /\ unspent' = (unspent \cup CreatedBy(body)) \ ConsumedBy(body)
  /\ appending' = [by |-> by, at |-> "pool", comps |-> comps]

\* mem_pool_->spend_block takes mu_, ...
SpendPool ==
  /\ ~ChainFree
  /\ appending.at = "pool"
  /\ Pool!SpendBlock(Last(chain).body)
  /\ appending' = [appending EXCEPT !.at = "spending"]
  /\ UNCHANGED <<bindVars, chain, unspent, compStore, mining, adding>>

\* ... goes through the transactions ...
SpendPooledTx(t) ==
  /\ appending.at = "spending"
  /\ Pool!SpendTx(t)
  /\ UNCHANGED <<bindVars, chain, unspent, compStore, appending, mining, adding>>

\* Mutant: append_block does not take the block's computations out of the store.
SpendNoComps ==
  /\ Running
  /\ appending.at = "spending"
  /\ spending = <<>>
  /\ appending' = NotAppending
  /\ mining' = IF appending.by = "main" THEN NewRound ELSE mining
  /\ UNCHANGED <<bindVars, poolVars, chain, unspent, compStore, adding>>

\* ... and returns; comp_store_->spend_block, the end of append_block and, when
\* it is an own block, its announcement and the next round.
SpendComps ==
  /\ Running
  /\ appending.at = "spending"
  /\ spending = <<>>
  /\ compStore' = compStore \ appending.comps
  /\ used' = used \ appending.comps
  /\ appending' = NotAppending
  /\ mining' = IF appending.by = "main" THEN NewRound ELSE mining
  /\ UNCHANGED <<poolVars, refused, failed, chain, unspent, adding>>

-----------------------------------------------------------------------------
(* The io thread: messages and RPCs, one after another *)

IoIdle == Running /\ adding = NotAdding /\ appending.by # "io"

\* A valid block that attaches to the tip.  Its coinbase may carry any height:
\* validate_block does not look at it, and nothing here depends on it (0).
\* Nobody can prove a faulty computation.
ReceiveBlock(body, comps) ==
  /\ IoIdle
  /\ ChainFree
  /\ Len(chain) < MaxHeight
  /\ Spendable(body)
  /\ TotalDepth(comps) >= Difficulty
  /\ comps \cap Faulty = {}
  /\ PushBlock("io", body, comps, 0, {})
  /\ mining' = [mining EXCEPT !.calm = FALSE]
  /\ UNCHANGED <<bindVars, poolVars, compStore, adding>>

\* handle_info_tx asks the pool; add_tx starts.
StartAddTx(t) ==
  /\ IoIdle
  /\ spending = <<>>
  /\ t \notin storage
  /\ adding' = [tx |-> t, unchecked |-> Inputs[t]]
  /\ UNCHANGED <<bindVars, poolVars, chain, unspent, compStore, appending, mining>>

\* One input is looked up in the chainstate; if it is missing, add_tx is over.
CheckInput(o) ==
  /\ Running
  /\ o \in adding.unchecked
  /\ adding' = IF o \in unspent
               THEN [adding EXCEPT !.unchecked = @ \ {o}]
               ELSE NotAdding
  /\ UNCHANGED <<bindVars, poolVars, chain, unspent, compStore, appending, mining>>

\* Mutant: add_tx skips the look at the last input.
AddTxUnchecked(t) ==
  /\ adding.tx = t
  /\ Cardinality(adding.unchecked) <= 1
  /\ Pool!AddValidTx(t)
  /\ adding' = NotAdding
  /\ UNCHANGED <<bindVars, chain, unspent, compStore, appending, mining>>

\* Mutant: add_valid_tx does not take mu_.
AddTxUnlocked(t) ==
  /\ Running /\ adding.tx = t /\ adding.unchecked = {} /\ t \notin storage
  /\ storage' = storage \cup {t}
  /\ ranked' = ranked \cup Pool!Ranked({t})
  /\ refs' = [k \in OutKey |-> refs[k] \cup (IF k \in ToSet(Pays[t]) THEN {t} ELSE {})]
  /\ adding' = NotAdding
  /\ UNCHANGED <<bindVars, spending, status, chain, unspent, compStore, appending, mining>>

\* All inputs were found and the signatures verified: add_valid_tx.
AddTx(t) ==
  /\ adding.tx = t
  /\ adding.unchecked = {}
  /\ Pool!AddValidTx(t)
  /\ adding' = NotAdding
  /\ UNCHANGED <<bindVars, chain, unspent, compStore, appending, mining>>

\* From a peer or by RPC; a computation used in a block may come again.
AddComputation(c) ==
  /\ IoIdle
  /\ compStore' = compStore \cup {c}
  /\ UNCHANGED <<bindVars, poolVars, chain, unspent, appending, mining, adding>>

-----------------------------------------------------------------------------
(* The mining loop *)

\* The Limit first pairs of the ranking, highest fee first; the order of equal
\* fees is that of the hashes.
Tops ==
  UNION {{top \in SetToSeqs(P) :
            \A i, j \in DOMAIN top : i < j => top[i][1] >= top[j][1]} :
         P \in {Q \in kSubset(Min({Limit, Cardinality(ranked)}), ranked) :
                  \A p \in Q, r \in ranked \ Q : p[1] >= r[1]}}

\* A round starts: the miner is reset and takes transactions from the pool.
\* calm is history: these transactions can all be applied, no block is on its
\* way in, and (see ReceiveBlock) none has come since.
GetTop ==
  /\ Running
  /\ mining.at = "top"
  /\ Len(chain) < MaxHeight
  /\ spending = <<>>
  /\ \E top \in Tops :
       LET txs == [i \in DOMAIN top |-> top[i][2]]
       IN  mining' = [mining EXCEPT !.at = "comps", !.txs = txs,
                                    !.calm = ChainFree /\ Applies(txs)]
  /\ UNCHANGED <<bindVars, poolVars, chain, unspent, compStore, appending, adding>>

\* collect_computations stops when the difficulty is reached.  It hands out the
\* stored objects; one that an earlier round has bound will be bound again on top
\* of that.
Reaching(comps) ==
  /\ TotalDepth(comps) >= Difficulty
  /\ \E c \in comps : TotalDepth(comps \ {c}) < Difficulty

Collect ==
  /\ Running
  /\ mining.at = "comps"
  /\ \E comps \in SUBSET compStore :
       /\ Reaching(comps)
       /\ mining' = [mining EXCEPT !.at = "args", !.comps = comps,
                                   !.again = comps \cap used,
                                   !.unread = {"head", "height"}]
       /\ used' = used \cup comps
  /\ UNCHANGED <<poolVars, refused, failed, chain, unspent, compStore, appending, adding>>

\* Mutant: the thread waits for computations without returning.
CollectTooFewWaits ==
  /\ Running
  /\ mining.at = "comps"
  /\ TotalDepth(compStore) < Difficulty
  /\ UNCHANGED vars

\* Not enough of them: the thread sleeps and returns, the loop starts it again.
CollectTooFew ==
  /\ Running
  /\ mining.at = "comps"
  /\ TotalDepth(compStore) < Difficulty
  /\ mining' = NewRound
  /\ UNCHANGED <<bindVars, poolVars, chain, unspent, compStore, appending, adding>>

\* Mutant: the index of the last header, as if genesis were not among them.
ReadHeadIndex ==
  /\ Running
  /\ mining.at = "args" /\ "head" \in mining.unread
  /\ ChainFree
  /\ mining' = [mining EXCEPT !.head = Len(chain) - 1, !.unread = @ \ {"head"}]
  /\ UNCHANGED <<bindVars, poolVars, chain, unspent, compStore, appending, adding>>

\* The arguments of mine are evaluated in an order of the compiler's choice,
\* and chain_mu_ is released in between.
ReadHead ==
  /\ Running
  /\ mining.at = "args" /\ "head" \in mining.unread
  /\ ChainFree
  /\ mining' = [mining EXCEPT !.head = Len(chain), !.unread = @ \ {"head"}]
  /\ UNCHANGED <<bindVars, poolVars, chain, unspent, compStore, appending, adding>>

\* Mutant: the height is taken from the head, which may not have been read yet.
ReadHeightOfHead ==
  /\ Running
  /\ mining.at = "args" /\ "height" \in mining.unread
  /\ ChainFree
  /\ mining' = [mining EXCEPT !.height = mining.head + 1,
                              !.unread = @ \ {"height"}]
  /\ UNCHANGED <<bindVars, poolVars, chain, unspent, compStore, appending, adding>>

ReadHeight ==
  /\ Running
  /\ mining.at = "args" /\ "height" \in mining.unread
  /\ ChainFree
  /\ mining' = [mining EXCEPT !.height = Len(chain) + 1,
                              !.unread = @ \ {"height"}]
  /\ UNCHANGED <<bindVars, poolVars, chain, unspent, compStore, appending, adding>>

\* mine builds the block, binds its computations and proves them, however long it
\* takes.
Mine ==
  /\ Running
  /\ mining.at = "args" /\ mining.unread = {}
  /\ mining.comps \cap Faulty = {}
  /\ mining' = [mining EXCEPT !.at = "mined"]
  /\ UNCHANGED <<bindVars, poolVars, chain, unspent, compStore, appending, adding>>

\* The computations up to the first faulty one are bound, in the order in which
\* they were collected: the last one is that without which they did not suffice.
BoundAtFault(bound) ==
  \E f \in Faulty :
    /\ bound \cap Faulty = {f}
    /\ \E last \in IF bound = mining.comps THEN {f} ELSE mining.comps \ bound :
         TotalDepth(mining.comps \ {last}) < Difficulty

\* generate_proof throws out_of_range, which mine takes for the stop flag: there
\* is no block, the loop goes on, and the objects stay in the store, bound.
MineFails ==
  /\ Running
  /\ mining.at = "args" /\ mining.unread = {}
  /\ \E bound \in SUBSET mining.comps :
       /\ BoundAtFault(bound)
       /\ used' = used \ (mining.comps \ (bound \cup mining.again))
       /\ failed' = failed \cup bound
  /\ mining' = NewRound
  /\ UNCHANGED <<poolVars, refused, chain, unspent, compStore, appending, adding>>

\* The main thread's call of add_block, with is_main_and_valid.
AddingOwn ==
  /\ Running
  /\ mining.at = "mined"
  /\ ChainFree
  /\ UNCHANGED <<storage, ranked, refs, spending, compStore, adding>>

\* append_block throws, nothing in the main thread catches it.
OwnIsStale ==
  /\ AddingOwn
  /\ mining.head # Len(chain)
  /\ status' = "terminated"
  /\ UNCHANGED <<bindVars, chain, unspent, appending, mining>>

\* The tip is from the same second or from the future: false is returned, the
\* block announced all the same, and the next round starts.
OwnIsTooOld ==
  /\ AddingOwn
  /\ mining.head = Len(chain)
  /\ mining' = NewRound
  /\ refused' = refused \cup mining.comps
  /\ UNCHANGED <<status, used, failed, chain, unspent, appending>>

\* remove_utxo returns false and its caller's assertion fails.
OwnDoesNotApply ==
  /\ AddingOwn
  /\ mining.head = Len(chain)
  /\ ~Applies(mining.txs)
  /\ status' = "aborted"
  /\ UNCHANGED <<bindVars, chain, unspent, appending, mining>>

AppendOwn ==
  /\ AddingOwn
  /\ mining.head = Len(chain)
  /\ Applies(mining.txs)
  /\ PushBlock("main", mining.txs, mining.comps, mining.height, mining.again)
  /\ mining' = [mining EXCEPT !.at = "appending"]
  /\ UNCHANGED <<status, bindVars>>

-----------------------------------------------------------------------------
AppendStep == SpendPool \/ (\E t \in Tx : SpendPooledTx(t)) \/ SpendComps

AddTxStep == (\E o \in OutPoint : CheckInput(o)) \/ (\E t \in Tx : AddTx(t))

MiningStep ==
  \/ GetTop \/ Collect \/ CollectTooFew
  \/ ReadHead \/ ReadHeight \/ Mine \/ MineFails
  \/ OwnIsStale \/ OwnIsTooOld \/ OwnDoesNotApply \/ AppendOwn

Next ==
  \/ AppendStep \/ AddTxStep \/ MiningStep
  \/ \E body \in Received, comps \in SUBSET Comp : ReceiveBlock(body, comps)
  \/ \E t \in Tx : StartAddTx(t)
  \/ \E c \in Comp : AddComputation(c)

Spec == Init /\ [][Next]_vars

\* Both threads run, and what they wait for in the middle of a call is a mutex
\* that is held for a bounded time.  Nothing is assumed of peers and clients.
FairSpec ==
  /\ Spec
  /\ WF_vars(AppendStep)
  /\ WF_vars(AddTxStep)
  /\ WF_vars(MiningStep)

-----------------------------------------------------------------------------
(* Properties *)

Block == [body : Seq(Tx), coinbase : Nat, again : SUBSET Comp]

\* Types of the variables; those of the rest of the pool are MemPool's.
TypeOK ==
  /\ ranked \subseteq Nat \X Tx
  /\ status \in {"running", "aborted", "terminated"}
  /\ chain \in Seq(Block)
  /\ unspent \subseteq OutPoint
  /\ compStore \subseteq Comp
  /\ used \subseteq compStore
  /\ refused \subseteq Comp
  /\ failed \subseteq Comp
  /\ appending \in [by : {"none", "io", "main"}, at : {"pool", "spending"},
                    comps : SUBSET Comp]
  /\ mining \in [at : {"top", "comps", "args", "mined", "appending"},
                 txs : Seq(Tx), comps : SUBSET Comp, again : SUBSET Comp,
                 unread : SUBSET {"head", "height"},
                 head : Nat, height : Nat, calm : BOOLEAN]
  /\ adding \in [tx : Tx \cup {None}, unchecked : SUBSET OutPoint]

Bodies == {chain[i].body : i \in DOMAIN chain}
Mined == UNION {ToSet(body) : body \in Bodies}

\* Although own blocks are appended unvalidated, no output is spent twice on
\* the chain, and the chainstate is what the chain leaves of the outputs.
SpentOnce ==
  /\ \A i, j \in DOMAIN chain :
       \A k \in DOMAIN chain[i].body, l \in DOMAIN chain[j].body :
         <<i, k>> # <<j, l>> =>
           Inputs[chain[i].body[k]] \cap Inputs[chain[j].body[l]] = {}
  /\ unspent = (Initial \cup UNION {CreatedBy(body) : body \in Bodies})
                 \ UNION {ConsumedBy(body) : body \in Bodies}

\* A mined transaction is not in the pool any more, whatever add_tx and the two
\* appending threads do, unless a mined transaction with an equal output has
\* evicted it from the pool while it was being mined.
MinedLeavesPool ==
  ChainFree =>
    \A t \in storage \cap Mined :
      \E u \in Mined \ {t} : ToSet(Pays[t]) \cap ToSet(Pays[u]) # {}

\* The node dies of an own block only if another block came while it was mined,
\* if the transactions taken from the pool did not fit together and the chain,
\* or when the pool comes to one of them that makes the same payment twice.
CalmRoundSurvives ==
  mining.at # "top" /\ mining.calm =>
    Running \/ (spending # <<>> /\ Pool!EqualOutputs(Head(spending)))

\* "include height in signature field to have unique coinbase TXID": however
\* reading the height is interleaved with arriving blocks, two own blocks of
\* the chain have different heights in their coinbase.
OwnCoinbasesDiffer ==
  \A i, j \in DOMAIN chain :
    i # j /\ chain[i].coinbase # 0 => chain[i].coinbase # chain[j].coinbase

\* The miner binds the objects of the computation store themselves, and binding
\* cannot be undone.  Nevertheless the proofs of an own block on the chain are
\* for computations bound once, as its receivers will bind them, unless such a
\* computation was in an own block that was refused, or was bound in a round that
\* then met a faulty one: its object is still in the store, and the next round
\* proves it for inputs that nobody else will compute.
OwnBlocksVerify ==
  \A i \in DOMAIN chain : chain[i].again \subseteq refused \cup failed

\* The bodies that append_block hands to the pool: of blocks received, and mined.
SpentBodies == Received \cup SeqOf(Tx, Limit)

\* When the node dies of an own block, the pool is left as it was.
PoolStatus == IF spending = <<>> THEN "running" ELSE status

PoolAlone == INSTANCE MemPool WITH Bodies <- SpentBodies, status <- PoolStatus

\* What the two threads do to the pool is what MemPool says of one user: no
\* transaction comes in while spend_block is half way through a block, and no
\* block while it is half way through another.
ImplementsMemPool == PoolAlone!Spec

\* Each round of the mining loop ends, also while blocks keep arriving, until
\* an own block ends the process.
MiningLoopRuns == mining.at # "top" ~> (mining.at = "top" \/ ~Running)
-----------------------------------------------------------------------------
(* What theorems about all nodes suppose of the transactions *)

\* The key of an output starts with the TXID of the transaction it belongs to.
\* That a transaction spends something is not asked by any validation.
OutputsDiffer ==
  /\ \A t, u \in Tx : t # u => Creates[t] \cap Creates[u] = {}
  /\ \A t \in Tx : Creates[t] \cap Initial = {} /\ Inputs[t] # {}
=============================================================================
