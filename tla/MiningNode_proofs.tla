-------------------------- MODULE MiningNode_proofs --------------------------
(***************************************************************************)
(* Theorems about MiningNode, for all transactions, blocks and bounds.     *)
(*                                                                         *)
(* The last part shows that the two threads use the pool as MemPool says   *)
(* one user does: SpendsInOrder is what keeps their calls apart.  MemPool's*)
(* own theorems are then carried over, with the instance MemPoolOf.        *)
(***************************************************************************)
EXTENDS MiningNode, FiniteSetTheorems, WellFoundedInduction, TLAPS

\* The height for the coinbase of the block being mined has been read.
HeightRead ==
  mining.at = "mined" \/ (mining.at = "args" /\ "height" \notin mining.unread)

\* A height that was read lies above every own block's and not beyond the tip;
\* no own block's height is greater than its place.
HeightFresh ==
  /\ \A i \in DOMAIN chain : chain[i].coinbase <= i
  /\ HeightRead =>
       /\ 0 < mining.height /\ mining.height <= Len(chain) + 1
       /\ \A i \in DOMAIN chain : chain[i].coinbase < mining.height

IndInv ==
  TypeOK /\ IsFiniteSet(ranked) /\ HeightFresh /\ OwnCoinbasesDiffer

-----------------------------------------------------------------------------
(* Init *)

LEMMA InitInv == Init => IndInv
<1> SUFFICES ASSUME Init PROVE IndInv
    OBVIOUS
<1> USE MiningAssumption DEF Init
<1>1. TypeOK
  <2>1. ranked \subseteq Nat \X Tx /\ status = "running"
        BY DEF Pool!Init
  <2>2. chain \in Seq(Block) /\ unspent \subseteq OutPoint
        OBVIOUS
  <2>3. mining \in [at : {"top", "comps", "args", "mined", "appending"},
                    txs : Seq(Tx), comps : SUBSET Comp, again : SUBSET Comp,
                    unread : SUBSET {"head", "height"},
                    head : Nat, height : Nat, calm : BOOLEAN]
        BY DEF NewRound
  <2> QED BY <2>1, <2>2, <2>3 DEF TypeOK, NotAppending, NotAdding
<1>2. HeightFresh
      BY DEF HeightFresh, HeightRead, NewRound
<1>3. OwnCoinbasesDiffer
      BY DEF OwnCoinbasesDiffer
<1>4. IsFiniteSet(ranked)
      BY FS_EmptySet DEF Pool!Init
<1> QED BY <1>1, <1>2, <1>3, <1>4 DEF IndInv

-----------------------------------------------------------------------------
(* The actions *)

\* A block pushed with coinbase 0 or with a fresh height.
LEMMA PushInv ==
  ASSUME IndInv, NEW by \in {"io", "main"}, NEW body \in Seq(Tx),
         NEW comps \in SUBSET Comp, NEW coinbase \in Nat,
         NEW again \in SUBSET Comp,
         PushBlock(by, body, comps, coinbase, again),
         coinbase <= Len(chain) + 1,
         coinbase = 0 \/ \A i \in DOMAIN chain : chain[i].coinbase < coinbase
  PROVE  /\ chain' \in Seq(Block)
         /\ Len(chain') = Len(chain) + 1
         /\ DOMAIN chain' = 1 .. Len(chain) + 1
         /\ \A i \in DOMAIN chain : chain'[i] = chain[i]
         /\ chain'[Len(chain) + 1].coinbase = coinbase
         /\ chain'[Len(chain) + 1].again = again
         /\ \A i \in DOMAIN chain' : chain'[i].coinbase <= i
         /\ OwnCoinbasesDiffer'
<1> DEFINE b == [body |-> body, coinbase |-> coinbase, again |-> again]
<1>1. chain \in Seq(Block) /\ b \in Block
      BY DEF IndInv, TypeOK, Block
<1>2. chain' = Append(chain, b)
      BY DEF PushBlock
<1>3. /\ chain' \in Seq(Block)
      /\ Len(chain') = Len(chain) + 1
      /\ DOMAIN chain' = 1 .. Len(chain) + 1
      /\ \A i \in DOMAIN chain : chain'[i] = chain[i]
      /\ chain'[Len(chain) + 1] = b
      BY <1>1, <1>2
<1>4. \A i \in DOMAIN chain : chain[i].coinbase \in Nat
  <2>1. \A i \in DOMAIN chain : chain[i] \in Block
        BY <1>1
  <2> QED BY <2>1 DEF Block
<1>5. DOMAIN chain = 1 .. Len(chain) /\ Len(chain) \in Nat
      BY <1>1
<1>6. \A i \in DOMAIN chain' : i \in DOMAIN chain \/ i = Len(chain) + 1
      BY <1>3, <1>5
<1>7. \A i \in DOMAIN chain' : chain'[i].coinbase <= i
      BY <1>3, <1>5, <1>6 DEF IndInv, HeightFresh
<1>8. OwnCoinbasesDiffer'
  <2> SUFFICES ASSUME NEW i \in DOMAIN chain', NEW j \in DOMAIN chain',
                      i # j, chain'[i].coinbase # 0
               PROVE  chain'[i].coinbase # chain'[j].coinbase
      BY DEF OwnCoinbasesDiffer
  <2>1. CASE i \in DOMAIN chain /\ j \in DOMAIN chain
        BY <2>1, <1>3 DEF IndInv, OwnCoinbasesDiffer
  <2>2. CASE i \in DOMAIN chain /\ j = Len(chain) + 1
        BY <2>2, <1>3, <1>4
  <2>3. CASE i = Len(chain) + 1 /\ j \in DOMAIN chain
        BY <2>3, <1>3, <1>4
  <2> QED BY <2>1, <2>2, <2>3, <1>6
<1> QED BY <1>3, <1>7, <1>8

\* What leaves the chain and the round as they are keeps the two facts about
\* heights.
LEMMA SameHeights ==
  ASSUME IndInv, UNCHANGED <<chain, mining>>
  PROVE  HeightFresh' /\ OwnCoinbasesDiffer'
  BY DEF IndInv, HeightFresh, HeightRead, OwnCoinbasesDiffer

LEMMA SpendPoolInv == IndInv /\ SpendPool => IndInv'
<1> SUFFICES ASSUME IndInv, SpendPool PROVE IndInv'
    OBVIOUS
<1>1. UNCHANGED <<ranked, status, chain, unspent, compStore, used, refused, failed,
                  mining, adding>>
      BY DEF SpendPool, Pool!SpendBlock, bindVars
<1>2. appending' = [appending EXCEPT !.at = "spending"]
      BY DEF SpendPool
<1>3. TypeOK'
      BY <1>1, <1>2 DEF IndInv, TypeOK
<1> QED BY <1>1, <1>3, SameHeights DEF IndInv

LEMMA SpendPooledTxInv ==
  ASSUME IndInv, NEW t \in Tx, SpendPooledTx(t)
  PROVE  IndInv'
<1>1. UNCHANGED <<chain, unspent, compStore, used, refused, failed, appending, mining,
                  adding>>
      BY DEF SpendPooledTx, bindVars
<1>2. ranked' \subseteq ranked /\ status' \in {status, "aborted"}
      BY DEF SpendPooledTx, Pool!SpendTx, Pool!SpendMissing, Pool!SpendPooled,
             Pool!SpendAborts
<1>3. TypeOK'
      BY <1>1, <1>2 DEF IndInv, TypeOK
<1>4. IsFiniteSet(ranked')
      BY <1>2, FS_Subset DEF IndInv
<1> QED BY <1>1, <1>3, <1>4, SameHeights DEF IndInv

\* The round that starts is one that has read no height.
LEMMA NewRoundInv ==
  ASSUME IndInv, mining' = NewRound, chain' = chain
  PROVE  /\ mining' \in [at : {"top", "comps", "args", "mined", "appending"},
                         txs : Seq(Tx), comps : SUBSET Comp, again : SUBSET Comp,
                         unread : SUBSET {"head", "height"},
                         head : Nat, height : Nat, calm : BOOLEAN]
         /\ HeightFresh' /\ OwnCoinbasesDiffer'
<1>1. <<>> \in Seq(Tx)
      OBVIOUS
<1>2. ~HeightRead'
      BY DEF HeightRead, NewRound
<1> QED BY <1>1, <1>2 DEF IndInv, HeightFresh, OwnCoinbasesDiffer, NewRound

LEMMA SpendCompsInv == IndInv /\ SpendComps => IndInv'
<1> SUFFICES ASSUME IndInv, SpendComps PROVE IndInv'
    OBVIOUS
<1>1. /\ UNCHANGED <<ranked, status, refused, failed, chain, unspent, adding>>
      /\ compStore' = compStore \ appending.comps
      /\ used' = used \ appending.comps
      /\ appending' = NotAppending
      BY DEF SpendComps, poolVars
<1>2. CASE mining' = mining
  <2>1. TypeOK'
        BY <1>1, <1>2 DEF IndInv, TypeOK, NotAppending
  <2> QED BY <1>1, <1>2, <2>1, SameHeights DEF IndInv
<1>3. CASE mining' = NewRound
  <2>1. TypeOK'
        BY <1>1, <1>3, NewRoundInv DEF IndInv, TypeOK, NotAppending
  <2> QED BY <1>1, <1>3, <2>1, NewRoundInv DEF IndInv
<1> QED BY <1>2, <1>3 DEF SpendComps

LEMMA ReceiveBlockInv ==
  ASSUME IndInv, NEW body \in Received, NEW comps \in SUBSET Comp,
         ReceiveBlock(body, comps)
  PROVE  IndInv'
<1>1. body \in Seq(Tx)
      BY MiningAssumption
<1>2. /\ PushBlock("io", body, comps, 0, {})
      /\ mining' = [mining EXCEPT !.calm = FALSE]
      /\ UNCHANGED <<ranked, status, compStore, used, refused, failed, adding>>
      BY DEF ReceiveBlock, poolVars, bindVars
<1>3. Len(chain) \in Nat /\ DOMAIN chain = 1 .. Len(chain)
      BY DEF IndInv, TypeOK
<1>4. /\ chain' \in Seq(Block)
      /\ Len(chain') = Len(chain) + 1
      /\ DOMAIN chain' = 1 .. Len(chain) + 1
      /\ \A i \in DOMAIN chain : chain'[i] = chain[i]
      /\ chain'[Len(chain) + 1].coinbase = 0
      /\ \A i \in DOMAIN chain' : chain'[i].coinbase <= i
      /\ OwnCoinbasesDiffer'
  <2>1. /\ 0 \in Nat /\ 0 <= Len(chain) + 1 /\ "io" \in {"io", "main"}
        /\ {} \in SUBSET Comp
        BY <1>3
  <2> QED BY <1>1, <1>2, <2>1, PushInv
<1>5. TypeOK'
  <2>1. unspent' \subseteq OutPoint
        BY <1>1, <1>2, MiningAssumption
        DEF PushBlock, CreatedBy, IndInv, TypeOK, ToSet
  <2> QED BY <1>2, <1>4, <2>1 DEF PushBlock, IndInv, TypeOK
<1>6. HeightFresh'
  <2> SUFFICES ASSUME HeightRead'
               PROVE  /\ 0 < mining'.height
                      /\ mining'.height <= Len(chain') + 1
                      /\ \A i \in DOMAIN chain' :
                           chain'[i].coinbase < mining'.height
      BY <1>4 DEF HeightFresh
  <2>1. mining'.height = mining.height /\ mining.height \in Nat /\ HeightRead
        BY <1>2 DEF HeightRead, IndInv, TypeOK
  <2>2. /\ 0 < mining.height /\ mining.height <= Len(chain) + 1
        /\ \A i \in DOMAIN chain : chain[i].coinbase < mining.height
        BY <2>1 DEF IndInv, HeightFresh
  <2> QED BY <1>3, <1>4, <2>1, <2>2
<1> QED BY <1>2, <1>4, <1>5, <1>6 DEF IndInv

LEMMA StartAddTxInv ==
  ASSUME IndInv, NEW t \in Tx, StartAddTx(t)
  PROVE  IndInv'
<1>1. /\ UNCHANGED <<ranked, status, chain, unspent, compStore, used, refused, failed,
                     appending, mining>>
      /\ adding' = [tx |-> t, unchecked |-> Inputs[t]]
      BY DEF StartAddTx, poolVars, bindVars
<1>2. TypeOK'
      BY <1>1, MiningAssumption DEF IndInv, TypeOK
<1> QED BY <1>1, <1>2, SameHeights DEF IndInv

LEMMA CheckInputInv ==
  ASSUME IndInv, NEW o \in OutPoint, CheckInput(o)
  PROVE  IndInv'
<1>1. UNCHANGED <<ranked, status, chain, unspent, compStore, used, refused, failed,
                  appending, mining>>
      BY DEF CheckInput, poolVars, bindVars
<1>2. adding' \in [tx : Tx \cup {None}, unchecked : SUBSET OutPoint]
      BY DEF CheckInput, IndInv, TypeOK, NotAdding
<1>3. TypeOK'
      BY <1>1, <1>2 DEF IndInv, TypeOK
<1> QED BY <1>1, <1>3, SameHeights DEF IndInv

LEMMA AddTxInv ==
  ASSUME IndInv, NEW t \in Tx, AddTx(t)
  PROVE  IndInv'
<1>1. /\ UNCHANGED <<status, chain, unspent, compStore, used, refused, failed, appending,
                     mining>>
      /\ adding' = NotAdding
      /\ ranked' = ranked \cup {<<Fee[t], t>>}
  <2>1. Pool!Ranked({t}) = {<<Fee[t], t>>}
        BY DEF Pool!Ranked
  <2> QED BY <2>1 DEF AddTx, Pool!AddValidTx, bindVars
<1>2. TypeOK'
      BY SMTT(30), <1>1, MiningAssumption DEF IndInv, TypeOK, NotAdding
<1>3. IsFiniteSet(ranked')
      BY <1>1, FS_AddElement DEF IndInv
<1> QED BY <1>1, <1>2, <1>3, SameHeights DEF IndInv

LEMMA AddComputationInv ==
  ASSUME IndInv, NEW c \in Comp, AddComputation(c)
  PROVE  IndInv'
<1>1. /\ UNCHANGED <<ranked, status, used, refused, failed, chain, unspent, appending,
                     mining, adding>>
      /\ compStore' = compStore \cup {c}
      BY DEF AddComputation, poolVars, bindVars
<1>2. TypeOK'
      BY <1>1 DEF IndInv, TypeOK
<1> QED BY <1>1, <1>2, SameHeights DEF IndInv

-----------------------------------------------------------------------------
(* The mining loop *)

\* get_top returns transactions.
LEMMA TopsAreSeqs ==
  ASSUME IndInv, NEW top \in Tops
  PROVE  [i \in DOMAIN top |-> top[i][2]] \in Seq(Tx)
<1>1. PICK P \in SUBSET ranked : top \in SetToSeqs(P)
      BY DEF Tops, kSubset
<1>2. Cardinality(P) \in Nat
      BY <1>1, FS_Subset, FS_CardinalityType DEF IndInv
<1>3. top \in [1 .. Cardinality(P) -> P]
      BY <1>1 DEF SetToSeqs
<1>4. \A p \in P : p[2] \in Tx
      BY <1>1 DEF IndInv, TypeOK
<1>5. [i \in DOMAIN top |-> top[i][2]] \in [1 .. Cardinality(P) -> Tx]
      BY <1>3, <1>4
<1> QED BY <1>2, <1>5

\* A step of the mining thread before it has built a block.
LEMMA MiningOnly ==
  ASSUME IndInv, UNCHANGED <<poolVars, refused, chain, unspent, compStore,
                             appending, adding>>,
         used' \subseteq compStore, failed' \subseteq Comp,
         mining' \in [at : {"top", "comps", "args", "mined", "appending"},
                      txs : Seq(Tx), comps : SUBSET Comp, again : SUBSET Comp,
                      unread : SUBSET {"head", "height"},
                      head : Nat, height : Nat, calm : BOOLEAN],
         HeightFresh'
  PROVE  IndInv'
<1>1. TypeOK'
      BY SMTT(30) DEF IndInv, TypeOK, poolVars
<1>2. IsFiniteSet(ranked') /\ OwnCoinbasesDiffer'
      BY DEF IndInv, OwnCoinbasesDiffer, poolVars
<1> QED BY <1>1, <1>2 DEF IndInv

LEMMA GetTopInv == IndInv /\ GetTop => IndInv'
<1> SUFFICES ASSUME IndInv, GetTop PROVE IndInv'
    OBVIOUS
<1>1. PICK top \in Tops :
        LET txs == [i \in DOMAIN top |-> top[i][2]]
        IN  mining' = [mining EXCEPT !.at = "comps", !.txs = txs,
                                     !.calm = ChainFree /\ Applies(txs)]
      BY DEF GetTop
<1> DEFINE txs == [i \in DOMAIN top |-> top[i][2]]
<1>2. txs \in Seq(Tx)
      BY TopsAreSeqs
<1>3. (ChainFree /\ Applies(txs)) \in BOOLEAN
      BY DEF ChainFree, Applies
<1> HIDE DEF txs
<1>4. mining' = [mining EXCEPT !.at = "comps", !.txs = txs,
                               !.calm = ChainFree /\ Applies(txs)]
      BY <1>1 DEF txs
<1>5. mining' \in [at : {"top", "comps", "args", "mined", "appending"},
                   txs : Seq(Tx), comps : SUBSET Comp, again : SUBSET Comp,
                   unread : SUBSET {"head", "height"},
                   head : Nat, height : Nat, calm : BOOLEAN]
      BY <1>2, <1>3, <1>4 DEF IndInv, TypeOK
<1>6. HeightFresh'
  <2>1. ~HeightRead' /\ chain' = chain
        BY <1>4 DEF HeightRead, GetTop, IndInv, TypeOK
  <2> QED BY <2>1 DEF IndInv, HeightFresh
<1>7. UNCHANGED bindVars /\ used' \subseteq compStore /\ failed' \subseteq Comp
      BY DEF GetTop, bindVars, IndInv, TypeOK
<1> QED BY ZenonT(40), <1>5, <1>6, <1>7, MiningOnly DEF GetTop, bindVars

LEMMA CollectInv == IndInv /\ (Collect \/ CollectTooFew) => IndInv'
<1> SUFFICES ASSUME IndInv, Collect \/ CollectTooFew PROVE IndInv'
    OBVIOUS
<1>1. UNCHANGED <<poolVars, refused, failed, chain, unspent, compStore, appending, adding>>
      BY DEF Collect, CollectTooFew, bindVars
<1>0. failed' \subseteq Comp
      BY <1>1 DEF IndInv, TypeOK
<1>2. CASE Collect
  <2>1. PICK comps \in SUBSET compStore :
          /\ mining' = [mining EXCEPT !.at = "args", !.comps = comps,
                                      !.again = comps \cap used,
                                      !.unread = {"head", "height"}]
          /\ used' = used \cup comps
        BY <1>2 DEF Collect
  <2>2. mining' \in [at : {"top", "comps", "args", "mined", "appending"},
                     txs : Seq(Tx), comps : SUBSET Comp, again : SUBSET Comp,
                     unread : SUBSET {"head", "height"},
                     head : Nat, height : Nat, calm : BOOLEAN]
    <3>1. comps \in SUBSET Comp /\ comps \cap used \in SUBSET Comp
          BY DEF IndInv, TypeOK
    <3> QED BY <2>1, <3>1 DEF IndInv, TypeOK
  <2>3. ~HeightRead'
        BY <2>1 DEF HeightRead, IndInv, TypeOK
  <2>4. HeightFresh'
        BY <1>1, <2>3 DEF IndInv, HeightFresh
  <2>5. used' \subseteq compStore
        BY <2>1 DEF IndInv, TypeOK
  <2> QED BY <1>0, <1>1, <2>2, <2>4, <2>5, MiningOnly
<1>3. CASE CollectTooFew
  <2>1. used' \subseteq compStore
        BY <1>3 DEF CollectTooFew, bindVars, IndInv, TypeOK
  <2> QED BY <1>0, <1>1, <1>3, <2>1, NewRoundInv, MiningOnly DEF CollectTooFew
<1> QED BY <1>2, <1>3

LEMMA ReadHeadInv == IndInv /\ ReadHead => IndInv'
<1> SUFFICES ASSUME IndInv, ReadHead PROVE IndInv'
    OBVIOUS
<1>1. mining' = [mining EXCEPT !.head = Len(chain), !.unread = @ \ {"head"}]
      BY DEF ReadHead
<1>2. Len(chain) \in Nat
      BY DEF IndInv, TypeOK
<1>3. mining' \in [at : {"top", "comps", "args", "mined", "appending"},
                   txs : Seq(Tx), comps : SUBSET Comp, again : SUBSET Comp,
                   unread : SUBSET {"head", "height"},
                   head : Nat, height : Nat, calm : BOOLEAN]
      BY <1>1, <1>2 DEF IndInv, TypeOK
<1>4. HeightRead' => HeightRead
      BY <1>1 DEF HeightRead, IndInv, TypeOK
<1>5. chain' = chain /\ mining'.height = mining.height
      BY <1>1 DEF ReadHead, IndInv, TypeOK
<1>6. HeightFresh'
      BY <1>4, <1>5 DEF IndInv, HeightFresh
<1>7. UNCHANGED bindVars /\ used' \subseteq compStore /\ failed' \subseteq Comp
      BY DEF ReadHead, bindVars, IndInv, TypeOK
<1> QED BY <1>3, <1>6, <1>7, MiningOnly DEF ReadHead, bindVars

\* The height is one more than that of the tip, so it is fresh.
LEMMA ReadHeightInv == IndInv /\ ReadHeight => IndInv'
<1> SUFFICES ASSUME IndInv, ReadHeight PROVE IndInv'
    OBVIOUS
<1>1. mining' = [mining EXCEPT !.height = Len(chain) + 1,
                               !.unread = @ \ {"height"}]
      BY DEF ReadHeight
<1>2. chain \in Seq(Block) /\ Len(chain) \in Nat
      BY DEF IndInv, TypeOK
<1>3. mining' \in [at : {"top", "comps", "args", "mined", "appending"},
                   txs : Seq(Tx), comps : SUBSET Comp, again : SUBSET Comp,
                   unread : SUBSET {"head", "height"},
                   head : Nat, height : Nat, calm : BOOLEAN]
  <2>1. Len(chain) + 1 \in Nat
        BY <1>2
  <2>2. mining.unread \ {"height"} \in SUBSET {"head", "height"}
        BY DEF IndInv, TypeOK
  <2> QED BY <1>1, <2>1, <2>2, Zenon DEF IndInv, TypeOK
<1>4. chain' = chain /\ mining'.height = Len(chain) + 1
      BY <1>1 DEF ReadHeight, IndInv, TypeOK
<1>5. \A i \in DOMAIN chain : chain[i].coinbase < Len(chain) + 1
  <2> SUFFICES ASSUME NEW i \in DOMAIN chain
               PROVE  chain[i].coinbase < Len(chain) + 1
      OBVIOUS
  <2>1. chain[i] \in Block /\ i \in 1 .. Len(chain)
        BY <1>2
  <2>2. chain[i].coinbase \in Nat /\ chain[i].coinbase <= i
        BY <2>1 DEF Block, IndInv, HeightFresh
  <2> QED BY <1>2, <2>1, <2>2
<1>6. HeightFresh'
      BY <1>2, <1>4, <1>5 DEF IndInv, HeightFresh
<1>7. UNCHANGED bindVars /\ used' \subseteq compStore /\ failed' \subseteq Comp
      BY DEF ReadHeight, bindVars, IndInv, TypeOK
<1> QED BY <1>3, <1>6, <1>7, MiningOnly DEF ReadHeight, bindVars

LEMMA MineInv == IndInv /\ Mine => IndInv'
<1> SUFFICES ASSUME IndInv, Mine PROVE IndInv'
    OBVIOUS
<1>1. /\ mining' = [mining EXCEPT !.at = "mined"]
      /\ mining.at = "args" /\ mining.unread = {}
      BY DEF Mine
<1>2. mining' \in [at : {"top", "comps", "args", "mined", "appending"},
                   txs : Seq(Tx), comps : SUBSET Comp, again : SUBSET Comp,
                   unread : SUBSET {"head", "height"},
                   head : Nat, height : Nat, calm : BOOLEAN]
      BY <1>1 DEF IndInv, TypeOK
<1>3. HeightRead /\ chain' = chain /\ mining'.height = mining.height
      BY <1>1 DEF HeightRead, Mine, IndInv, TypeOK
<1>4. HeightFresh'
      BY <1>3 DEF IndInv, HeightFresh
<1>5. UNCHANGED bindVars /\ used' \subseteq compStore /\ failed' \subseteq Comp
      BY DEF Mine, bindVars, IndInv, TypeOK
<1> QED BY <1>2, <1>4, <1>5, MiningOnly DEF Mine, bindVars

LEMMA MineFailsInv == IndInv /\ MineFails => IndInv'
<1> SUFFICES ASSUME IndInv, MineFails PROVE IndInv'
    OBVIOUS
<1>1. /\ UNCHANGED <<poolVars, refused, chain, unspent, compStore, appending, adding>>
      /\ mining' = NewRound
      BY DEF MineFails
<1>2. used' \subseteq compStore /\ failed' \subseteq Comp
      BY DEF MineFails, IndInv, TypeOK
<1> QED BY <1>1, <1>2, NewRoundInv, MiningOnly

\* The three ways in which an own block does not get onto the chain.
LEMMA OwnFailsInv ==
  IndInv /\ (OwnIsStale \/ OwnIsTooOld \/ OwnDoesNotApply) => IndInv'
<1> SUFFICES ASSUME IndInv, OwnIsStale \/ OwnIsTooOld \/ OwnDoesNotApply
             PROVE  IndInv'
    OBVIOUS
<1>1. /\ UNCHANGED <<ranked, chain, unspent, compStore, used, failed, appending,
                     adding>>
      /\ status' \in {status, "terminated", "aborted"}
      /\ refused' \in {refused, refused \cup mining.comps}
      BY DEF OwnIsStale, OwnIsTooOld, OwnDoesNotApply, AddingOwn, bindVars
<1>0. refused' \subseteq Comp
      BY <1>1 DEF IndInv, TypeOK
<1>2. CASE mining' = mining
  <2>1. TypeOK'
        BY <1>0, <1>1, <1>2 DEF IndInv, TypeOK
  <2> QED BY <1>1, <1>2, <2>1, SameHeights DEF IndInv
<1>3. CASE mining' = NewRound
  <2>1. TypeOK'
        BY <1>0, <1>1, <1>3, NewRoundInv DEF IndInv, TypeOK
  <2> QED BY <1>1, <1>3, <2>1, NewRoundInv DEF IndInv
<1> QED BY <1>2, <1>3 DEF OwnIsStale, OwnIsTooOld, OwnDoesNotApply

LEMMA AppendOwnInv == IndInv /\ AppendOwn => IndInv'
<1> SUFFICES ASSUME IndInv, AppendOwn PROVE IndInv'
    OBVIOUS
<1>1. /\ PushBlock("main", mining.txs, mining.comps, mining.height, mining.again)
      /\ mining' = [mining EXCEPT !.at = "appending"]
      /\ UNCHANGED <<ranked, status, compStore, used, refused, failed, adding>>
      BY DEF AppendOwn, AddingOwn, bindVars
<1>2. /\ mining.txs \in Seq(Tx)
      /\ mining.comps \in SUBSET Comp /\ mining.again \in SUBSET Comp
      BY DEF IndInv, TypeOK
<1>3. mining.height \in Nat /\ HeightRead
      BY DEF IndInv, TypeOK, AppendOwn, AddingOwn, HeightRead
<1>4. /\ mining.height <= Len(chain) + 1
      /\ \A i \in DOMAIN chain : chain[i].coinbase < mining.height
      BY <1>3 DEF IndInv, HeightFresh
<1>5. /\ chain' \in Seq(Block)
      /\ \A i \in DOMAIN chain' : chain'[i].coinbase <= i
      /\ OwnCoinbasesDiffer'
  <2>1. "main" \in {"io", "main"}
        OBVIOUS
  <2> QED BY <1>1, <1>2, <1>3, <1>4, <2>1, PushInv
<1>6. TypeOK'
  <2>1. unspent' \subseteq OutPoint
        BY <1>1, <1>2, MiningAssumption
        DEF PushBlock, CreatedBy, IndInv, TypeOK, ToSet
  <2> QED BY <1>1, <1>2, <1>5, <2>1 DEF PushBlock, IndInv, TypeOK
<1>7. HeightFresh'
  <2>1. ~HeightRead'
        BY <1>1 DEF HeightRead, IndInv, TypeOK
  <2> QED BY <1>5, <2>1 DEF HeightFresh
<1> QED BY <1>1, <1>5, <1>6, <1>7 DEF IndInv

LEMMA StepInv == IndInv /\ [Next]_vars => IndInv'
<1> SUFFICES ASSUME IndInv, [Next]_vars PROVE IndInv'
    OBVIOUS
<1>1. CASE AppendStep
      BY <1>1, SpendPoolInv, SpendPooledTxInv, SpendCompsInv DEF AppendStep
<1>2. CASE AddTxStep
      BY <1>2, CheckInputInv, AddTxInv DEF AddTxStep
<1>3. CASE MiningStep
      BY <1>3, GetTopInv, CollectInv, ReadHeadInv, ReadHeightInv, MineInv,
         MineFailsInv, OwnFailsInv, AppendOwnInv DEF MiningStep
<1>4. CASE \E body \in Received, comps \in SUBSET Comp :
             ReceiveBlock(body, comps)
      BY <1>4, ReceiveBlockInv
<1>5. CASE \E t \in Tx : StartAddTx(t)
      BY <1>5, StartAddTxInv
<1>6. CASE \E c \in Comp : AddComputation(c)
      BY <1>6, AddComputationInv
<1>7. CASE UNCHANGED vars
  <2>1. TypeOK' /\ IsFiniteSet(ranked')
        BY <1>7 DEF vars, poolVars, bindVars, IndInv, TypeOK
  <2> QED BY <1>7, <2>1, SameHeights DEF vars, IndInv
<1> QED BY <1>1, <1>2, <1>3, <1>4, <1>5, <1>6, <1>7 DEF Next

-----------------------------------------------------------------------------
(* What is bound a second time *)

\* A round that has taken computations out of the store and has not ended.
HasTaken == mining.at \in {"args", "mined", "appending"}

\* What was bound, but came into no block of the chain.
Wasted == refused \cup failed

\* An object that was bound and is still in the store was in a block that was
\* refused or in a round that failed, or is in the hands of the round in progress.
BindInv ==
  /\ used \subseteq Wasted \cup (IF HasTaken THEN mining.comps ELSE {})
  /\ HasTaken => mining.again \subseteq Wasted
  /\ mining.at = "appending" <=> appending.by = "main"
  /\ appending.by = "main" => appending.comps = mining.comps
  /\ OwnBlocksVerify

LEMMA InitBind == Init => BindInv
  BY DEF Init, BindInv, HasTaken, NewRound, NotAppending, OwnBlocksVerify, Wasted

LEMMA SameBind ==
  ASSUME BindInv, UNCHANGED <<chain, used, refused, failed, mining>>,
         appending'.by = appending.by, appending'.comps = appending.comps
  PROVE  BindInv'
  BY DEF BindInv, HasTaken, OwnBlocksVerify, Wasted

LEMMA PushBind ==
  ASSUME IndInv, BindInv, NEW by \in {"io", "main"}, NEW body, NEW comps, NEW coinbase,
         NEW again, PushBlock(by, body, comps, coinbase, again),
         Wasted' = Wasted, again \subseteq Wasted
  PROVE  /\ appending'.by = by /\ appending'.comps = comps
         /\ OwnBlocksVerify'
<1> DEFINE b == [body |-> body, coinbase |-> coinbase, again |-> again]
<1>1. chain' = Append(chain, b) /\ chain \in Seq(Block) /\ b.again = again
      BY DEF PushBlock, IndInv, TypeOK
<1> HIDE DEF b
<1>2. \A i \in DOMAIN chain' : chain'[i] = b \/ (i \in DOMAIN chain /\ chain'[i] = chain[i])
      BY <1>1
<1>3. OwnBlocksVerify'
      BY <1>1, <1>2 DEF BindInv, OwnBlocksVerify, Wasted
<1> QED BY <1>3 DEF PushBlock

LEMMA AppendStepBind ==
  ASSUME IndInv, BindInv, AppendStep
  PROVE  BindInv'
<1>1. CASE SpendPool
  <2>1. UNCHANGED <<chain, used, refused, failed, mining>>
        BY <1>1 DEF SpendPool, bindVars
  <2>2. appending'.by = appending.by /\ appending'.comps = appending.comps
        BY <1>1 DEF SpendPool, IndInv, TypeOK
  <2> QED BY <2>1, <2>2, SameBind
<1>2. CASE \E t \in Tx : SpendPooledTx(t)
      BY <1>2, SameBind DEF SpendPooledTx, bindVars
<1>3. CASE SpendComps
  <2>1. /\ used' = used \ appending.comps /\ Wasted' = Wasted /\ chain' = chain
        /\ appending' = NotAppending
        /\ mining' = IF appending.by = "main" THEN NewRound ELSE mining
        BY <1>3 DEF SpendComps, Wasted
  <2>2. OwnBlocksVerify'
        BY <2>1 DEF BindInv, OwnBlocksVerify, Wasted
  <2>3. CASE appending.by = "main"
    <3>1. used' \subseteq Wasted'
          BY <2>1, <2>3 DEF BindInv
    <3> QED BY <2>1, <2>2, <2>3, <3>1 DEF BindInv, HasTaken, NewRound, NotAppending
  <2>4. CASE appending.by # "main"
        BY <2>1, <2>2, <2>4 DEF BindInv, HasTaken, NotAppending
  <2> QED BY <2>3, <2>4
<1> QED BY <1>1, <1>2, <1>3 DEF AppendStep

LEMMA ReceiveBlockBind ==
  ASSUME IndInv, BindInv, NEW body \in Received, NEW comps \in SUBSET Comp,
         ReceiveBlock(body, comps)
  PROVE  BindInv'
<1>1. /\ PushBlock("io", body, comps, 0, {})
      /\ mining' = [mining EXCEPT !.calm = FALSE]
      /\ UNCHANGED <<used, refused, failed>>
      /\ appending.by = "none"
      BY DEF ReceiveBlock, bindVars, ChainFree
<1>2. /\ mining'.at = mining.at /\ mining'.comps = mining.comps
      /\ mining'.again = mining.again
      BY <1>1 DEF IndInv, TypeOK
<1>3. Wasted' = Wasted
      BY <1>1 DEF Wasted
<1>4. appending'.by = "io" /\ OwnBlocksVerify'
      BY <1>1, <1>3, PushBind
<1> QED BY <1>1, <1>2, <1>3, <1>4 DEF BindInv, HasTaken

\* The miner takes from the store, beside objects that nobody has bound, only
\* objects of refused blocks and failed rounds.
LEMMA MiningStepBind ==
  ASSUME IndInv, BindInv, MiningStep
  PROVE  BindInv'
<1>1. CASE GetTop \/ CollectTooFew
  <2>1. /\ UNCHANGED <<chain, used, refused, failed, appending>>
        /\ mining.at \in {"top", "comps"}
        BY <1>1 DEF GetTop, CollectTooFew, bindVars
  <2>2. mining'.at \in {"top", "comps"}
    <3>1. CASE GetTop
      <4>1. PICK txs, fits :
              mining' = [mining EXCEPT !.at = "comps", !.txs = txs, !.calm = fits]
            BY <3>1 DEF GetTop
      <4> QED BY <4>1 DEF IndInv, TypeOK
    <3>2. CASE CollectTooFew
          BY <3>2 DEF CollectTooFew, NewRound
    <3> QED BY <1>1, <3>1, <3>2
  <2> QED BY <2>1, <2>2 DEF BindInv, HasTaken, OwnBlocksVerify, Wasted
<1>2. CASE Collect
  <2>1. PICK comps \in SUBSET compStore :
          /\ mining' = [mining EXCEPT !.at = "args", !.comps = comps,
                                      !.again = comps \cap used,
                                      !.unread = {"head", "height"}]
          /\ used' = used \cup comps
        BY <1>2 DEF Collect
  <2>2. /\ mining'.at = "args" /\ mining'.comps = comps
        /\ mining'.again = comps \cap used
        BY <2>1 DEF IndInv, TypeOK
  <2>3. UNCHANGED <<chain, refused, failed, appending>> /\ mining.at = "comps"
        BY <1>2 DEF Collect
  <2>4. used \subseteq Wasted
        BY <2>3 DEF BindInv, HasTaken
  <2> QED BY <2>1, <2>2, <2>3, <2>4 DEF BindInv, HasTaken, OwnBlocksVerify, Wasted
<1>3. CASE ReadHead \/ ReadHeight \/ Mine
  <2>1. /\ UNCHANGED <<chain, used, refused, failed, appending>>
        /\ mining.at = "args" /\ mining'.at \in {"args", "mined"}
        /\ mining'.comps = mining.comps /\ mining'.again = mining.again
        BY <1>3 DEF ReadHead, ReadHeight, Mine, bindVars, IndInv, TypeOK
  <2> QED BY <2>1 DEF BindInv, HasTaken, OwnBlocksVerify, Wasted
<1>4. CASE OwnIsStale \/ OwnDoesNotApply
      BY <1>4, SameBind DEF OwnIsStale, OwnDoesNotApply, bindVars
<1>5. CASE OwnIsTooOld
  <2>1. /\ mining' = NewRound /\ refused' = refused \cup mining.comps
        /\ UNCHANGED <<used, failed, chain, appending>>
        /\ appending.by = "none"
        BY <1>5 DEF OwnIsTooOld, AddingOwn, ChainFree
  <2>2. used' \subseteq Wasted'
        BY <2>1 DEF BindInv, Wasted
  <2> QED BY <2>1, <2>2 DEF BindInv, HasTaken, NewRound, OwnBlocksVerify, Wasted
<1>7. CASE MineFails
  <2>1. PICK bound \in SUBSET mining.comps :
          /\ used' = used \ (mining.comps \ (bound \cup mining.again))
          /\ failed' = failed \cup bound
        BY <1>7 DEF MineFails
  <2>2. /\ mining' = NewRound /\ UNCHANGED <<refused, chain, appending>>
        /\ mining.at = "args"
        BY <1>7 DEF MineFails
  <2>3. used \subseteq Wasted \cup mining.comps /\ mining.again \subseteq Wasted
        BY <2>2 DEF BindInv, HasTaken
  <2>4. used' \subseteq Wasted' /\ Wasted \subseteq Wasted'
        BY <2>1, <2>2, <2>3 DEF Wasted
  <2>5. OwnBlocksVerify'
        BY <2>2, <2>4 DEF BindInv, OwnBlocksVerify, Wasted
  <2>6. mining'.at = "top"
        BY <2>2 DEF NewRound
  <2> QED BY <2>2, <2>4, <2>5, <2>6 DEF BindInv, HasTaken
<1>6. CASE AppendOwn
  <2>1. /\ PushBlock("main", mining.txs, mining.comps, mining.height, mining.again)
        /\ mining' = [mining EXCEPT !.at = "appending"]
        /\ UNCHANGED <<used, refused, failed>>
        /\ mining.at = "mined"
        BY <1>6 DEF AppendOwn, AddingOwn, bindVars
  <2>2. /\ mining'.at = "appending" /\ mining'.comps = mining.comps
        /\ mining'.again = mining.again
        BY <2>1 DEF IndInv, TypeOK
  <2>3. mining.again \subseteq Wasted
        BY <2>1 DEF BindInv, HasTaken
  <2>4. Wasted' = Wasted
        BY <2>1 DEF Wasted
  <2>5. /\ appending'.by = "main" /\ appending'.comps = mining.comps
        /\ OwnBlocksVerify'
        BY <2>1, <2>3, <2>4, PushBind
  <2> QED BY <2>1, <2>2, <2>3, <2>4, <2>5 DEF BindInv, HasTaken
<1> QED BY <1>1, <1>2, <1>3, <1>4, <1>5, <1>6, <1>7 DEF MiningStep

LEMMA StepBind == IndInv /\ BindInv /\ [Next]_vars => BindInv'
<1> SUFFICES ASSUME IndInv, BindInv, [Next]_vars PROVE BindInv'
    OBVIOUS
<1>1. CASE AddTxStep
  <2>1. UNCHANGED <<chain, used, refused, failed, mining, appending>>
        BY <1>1 DEF AddTxStep, CheckInput, AddTx, bindVars
  <2> QED BY <2>1, SameBind
<1>2. CASE (\E t \in Tx : StartAddTx(t)) \/ \E c \in Comp : AddComputation(c)
  <2>1. UNCHANGED <<chain, used, refused, failed, mining, appending>>
        BY <1>2 DEF StartAddTx, AddComputation, bindVars
  <2> QED BY <2>1, SameBind
<1>3. CASE UNCHANGED vars
      BY <1>3, SameBind DEF vars, bindVars
<1> QED BY <1>1, <1>2, <1>3, AppendStepBind, MiningStepBind, ReceiveBlockBind DEF Next

-----------------------------------------------------------------------------
(* The ledger *)

LEMMA LessIsWellFounded ==
  IsWellFoundedOn({ss \in Nat \X Nat : ss[1] < ss[2]}, Nat)
BY Zenon, NatLessThanWellFounded DEF OpToRel

LEMMA LeastElement ==
  ASSUME NEW T \in SUBSET Nat, T # {}
  PROVE  \E x \in T : \A y \in T : x <= y
<1> DEFINE R == {ss \in Nat \X Nat : ss[1] < ss[2]}
<1>1. IsWellFoundedOn(R, Nat)
      BY LessIsWellFounded
<1>2. \A x, y \in Nat : <<x, y>> \in R <=> x < y
      OBVIOUS
<1> HIDE DEF R
<1>3. PICK x \in T : \A y \in T : <<y, x>> \notin R
      BY <1>1, WFMin
<1>4. ASSUME NEW y \in T PROVE x <= y
  <2>1. x \in Nat /\ y \in Nat /\ ~(y < x)
        BY <1>2, <1>3
  <2> QED BY <2>1
<1> QED BY <1>4

\* What the transactions of the chain have created, and consumed.
Created  == UNION {CreatedBy(body) : body \in Bodies}
Consumed == UNION {ConsumedBy(body) : body \in Bodies}

\* No output comes from nowhere.
LedgerInv ==
  /\ SpentOnce
  /\ Consumed \subseteq Initial \cup Created

\* The transactions before the i-th of a body.
LEMMA Before ==
  ASSUME NEW body \in Seq(Tx), NEW i \in DOMAIN body
  PROVE  /\ i \in 1 .. Len(body) /\ Len(body) \in Nat
         /\ CreatedBy(SubSeq(body, 1, i - 1)) = UNION {Creates[body[j]] : j \in 1 .. i - 1}
         /\ ConsumedBy(SubSeq(body, 1, i - 1)) = UNION {Inputs[body[j]] : j \in 1 .. i - 1}
<1> DEFINE p == SubSeq(body, 1, i - 1)
<1>1. i \in 1 .. Len(body) /\ Len(body) \in Nat
      OBVIOUS
<1>2. DOMAIN p = 1 .. i - 1 /\ \A j \in 1 .. i - 1 : p[j] = body[j]
      BY <1>1
<1> HIDE DEF p
<1>3. ToSet(p) = {body[j] : j \in 1 .. i - 1}
      BY <1>2 DEF ToSet
<1>4. CreatedBy(p) = UNION {Creates[body[j]] : j \in 1 .. i - 1}
      BY <1>3 DEF CreatedBy
<1>5. ConsumedBy(p) = UNION {Inputs[body[j]] : j \in 1 .. i - 1}
      BY <1>3 DEF ConsumedBy
<1> QED BY <1>1, <1>4, <1>5 DEF p

\* What a body applies to, transaction by transaction.
LEMMA AppliesOneByOne ==
  ASSUME NEW body \in Seq(Tx), Applies(body), NEW i \in DOMAIN body
  PROVE  /\ Inputs[body[i]] \subseteq unspent \cup UNION {Creates[body[j]] : j \in 1 .. i - 1}
         /\ \A j \in 1 .. i - 1 : Inputs[body[i]] \cap Inputs[body[j]] = {}
BY Before DEF Applies

\* What validate_block asks for is more than what add_block asserts.
LEMMA SpendableApplies ==
  ASSUME NEW body \in Seq(Tx), Spendable(body)
  PROVE  Applies(body)
<1>1. ASSUME NEW i \in DOMAIN body
      PROVE  Inputs[body[i]] \subseteq (unspent \cup CreatedBy(SubSeq(body, 1, i - 1)))
                                         \ ConsumedBy(SubSeq(body, 1, i - 1))
  <2>1. /\ i \in 1 .. Len(body) /\ Len(body) \in Nat
        /\ ConsumedBy(SubSeq(body, 1, i - 1)) = UNION {Inputs[body[j]] : j \in 1 .. i - 1}
        BY Before
  <2>2. \A j \in 1 .. i - 1 : j \in DOMAIN body /\ j # i
        BY <2>1
  <2>3. \A j \in 1 .. i - 1 : Inputs[body[i]] \cap Inputs[body[j]] = {}
        BY <2>2 DEF Spendable
  <2> QED BY <2>1, <2>3 DEF Spendable
<1> QED BY <1>1 DEF Applies

\* The chain's transactions and the outputs they touch.
LEMMA TouchedByMined ==
  /\ Created = UNION {Creates[t] : t \in Mined}
  /\ Consumed = UNION {Inputs[t] : t \in Mined}
BY DEF Created, Consumed, CreatedBy, ConsumedBy, Mined

\* A block on top of the chain.
LEMMA PushedBody ==
  ASSUME IndInv, NEW by, NEW body \in Seq(Tx), NEW comps, NEW coinbase, NEW again,
         PushBlock(by, body, comps, coinbase, again)
  PROVE  /\ Bodies' = Bodies \cup {body}
         /\ Mined' = Mined \cup ToSet(body)
         /\ Created' = Created \cup CreatedBy(body)
         /\ Consumed' = Consumed \cup ConsumedBy(body)
         /\ Len(chain) \in Nat
         /\ DOMAIN chain = 1 .. Len(chain) /\ DOMAIN chain' = 1 .. Len(chain) + 1
         /\ chain'[Len(chain) + 1].body = body
         /\ \A i \in DOMAIN chain : chain'[i] = chain[i]
         /\ Last(chain').body = body /\ chain' # <<>>
<1> DEFINE b == [body |-> body, coinbase |-> coinbase, again |-> again]
           n == Len(chain)
<1>1. chain' = Append(chain, b) /\ chain \in Seq(Block) /\ b.body = body
      BY DEF PushBlock, IndInv, TypeOK
<1> HIDE DEF b
<1>2. /\ n \in Nat /\ DOMAIN chain = 1 .. n /\ DOMAIN chain' = 1 .. n + 1
      /\ Len(chain') = n + 1 /\ chain'[n + 1] = b /\ chain' # <<>>
      /\ \A i \in 1 .. n : chain'[i] = chain[i]
      BY <1>1
<1> HIDE DEF n
<1>3. Bodies' = Bodies \cup {body}
  <2>1. \A i \in 1 .. n + 1 : i \in 1 .. n \/ i = n + 1
        BY <1>2
  <2>2. \A i \in 1 .. n : i \in 1 .. n + 1
        BY <1>2
  <2>3. n + 1 \in 1 .. n + 1
        BY <1>2
  <2> QED BY <1>1, <1>2, <2>1, <2>2, <2>3 DEF Bodies
<1>4. Mined' = Mined \cup ToSet(body)
      BY <1>3 DEF Mined
<1>5. /\ Created' = Created \cup CreatedBy(body)
      /\ Consumed' = Consumed \cup ConsumedBy(body)
      BY <1>3 DEF Created, Consumed, CreatedBy, ConsumedBy
<1> QED BY <1>1, <1>2, <1>3, <1>4, <1>5 DEF Last, n

\* A body that applies has only transactions that are not on the chain, though
\* a transaction may spend what an earlier one of the body creates: the first
\* that were on the chain would spend what is spent.
LEMMA AppliedAreNew ==
  ASSUME OutputsDiffer, IndInv, LedgerInv, NEW body \in Seq(Tx), Applies(body),
         NEW i \in DOMAIN body
  PROVE  body[i] \notin Mined /\ Inputs[body[i]] \cap Consumed = {}
<1> DEFINE T == {j \in DOMAIN body : Inputs[body[j]] \cap Consumed # {}}
<1>1. \A j \in DOMAIN body : j \in Nat /\ body[j] \in Tx
      OBVIOUS
<1>2. T = {}
  <2> SUFFICES ASSUME T # {} PROVE FALSE
      OBVIOUS
  <2>1. T \in SUBSET Nat
        BY <1>1
  <2>2. PICK m \in T : \A j \in T : m <= j
        BY <2>1, LeastElement
  <2>3. PICK o : o \in Inputs[body[m]] /\ o \in Consumed
        OBVIOUS
  <2>4. o \notin unspent
        BY <2>3 DEF LedgerInv, SpentOnce, Consumed
  <2>5. PICK j \in 1 .. m - 1 : o \in Creates[body[j]]
        BY <2>3, <2>4, AppliesOneByOne
  <2>6. j \in DOMAIN body /\ ~(m <= j)
        BY <1>1
  <2>7. PICK u \in Mined : o \in Creates[u]
        BY SMTT(30), <1>1, <2>3, <2>5, <2>6, TouchedByMined DEF LedgerInv, OutputsDiffer
  <2>8. u \in Tx
    <3>1. \A k \in DOMAIN chain : chain[k].body \in Seq(Tx)
      <4>1. \A k \in DOMAIN chain : chain[k] \in Block
            BY DEF IndInv, TypeOK
      <4> QED BY <4>1 DEF Block
    <3> QED BY <3>1 DEF Mined, Bodies, ToSet
  <2>9. u = body[j]
        BY <1>1, <2>5, <2>6, <2>7, <2>8 DEF OutputsDiffer
  <2>10. Inputs[body[j]] \subseteq Consumed /\ Inputs[body[j]] # {}
        BY <1>1, <2>6, <2>7, <2>9, TouchedByMined DEF OutputsDiffer
  <2>11. j \in T
        BY <2>6, <2>10
  <2> QED BY <2>2, <2>6, <2>11
<1>3. Inputs[body[i]] \cap Consumed = {}
      BY <1>2
<1>4. body[i] \in Mined => Inputs[body[i]] \subseteq Consumed
      BY TouchedByMined
<1> QED BY <1>1, <1>3, <1>4 DEF OutputsDiffer

LEMMA MinedAreTx == IndInv => Mined \subseteq Tx
<1> SUFFICES ASSUME IndInv PROVE Mined \subseteq Tx
    OBVIOUS
<1>1. \A i \in DOMAIN chain : chain[i] \in Block
      BY DEF IndInv, TypeOK
<1>2. \A i \in DOMAIN chain : chain[i].body \in Seq(Tx)
      BY <1>1 DEF Block
<1> QED BY <1>2 DEF Mined, Bodies, ToSet

\* Nor has the chain spent what they create.
LEMMA CreatedAreNew ==
  ASSUME OutputsDiffer, IndInv, LedgerInv, NEW body \in Seq(Tx), Applies(body)
  PROVE  CreatedBy(body) \cap Consumed = {}
<1> SUFFICES ASSUME NEW o \in CreatedBy(body), o \in Consumed PROVE FALSE
    OBVIOUS
<1>1. PICK i \in DOMAIN body : o \in Creates[body[i]]
      BY DEF CreatedBy, ToSet
<1>2. body[i] \in Tx /\ body[i] \notin Mined
      BY AppliedAreNew
<1>3. PICK u \in Mined : o \in Creates[u]
      BY <1>1, <1>2, TouchedByMined DEF LedgerInv, OutputsDiffer
<1> QED BY <1>1, <1>2, <1>3, MinedAreTx DEF OutputsDiffer

LEMMA PushLedger ==
  ASSUME OutputsDiffer, IndInv, LedgerInv, NEW by, NEW body \in Seq(Tx), NEW comps,
         NEW coinbase, NEW again, Applies(body),
         PushBlock(by, body, comps, coinbase, again)
  PROVE  LedgerInv'
<1> DEFINE n == Len(chain)
<1>1. /\ Created' = Created \cup CreatedBy(body)
      /\ Consumed' = Consumed \cup ConsumedBy(body)
      /\ n \in Nat /\ DOMAIN chain = 1 .. n /\ DOMAIN chain' = 1 .. n + 1
      /\ chain'[n + 1].body = body
      /\ \A i \in 1 .. n : chain'[i] = chain[i]
      BY PushedBody
<1> HIDE DEF n
<1>2. \A i \in 1 .. n + 1 : i \in 1 .. n \/ i = n + 1
      BY <1>1
<1>3. ASSUME NEW j \in 1 .. n, NEW k \in DOMAIN body, NEW l \in DOMAIN chain[j].body
      PROVE  Inputs[body[k]] \cap Inputs[chain[j].body[l]] = {}
  <2>1. chain[j].body[l] \in Mined
        BY <1>1 DEF Mined, Bodies, ToSet
  <2> QED BY <2>1, AppliedAreNew, TouchedByMined
<1>4. ASSUME NEW k \in DOMAIN body, NEW l \in DOMAIN body, k # l
      PROVE  Inputs[body[k]] \cap Inputs[body[l]] = {}
  <2>1. k \in Nat /\ l \in Nat /\ 1 <= k /\ 1 <= l
        OBVIOUS
  <2>2. CASE l < k
        BY <2>1, <2>2, AppliesOneByOne
  <2>3. CASE k < l
        BY <2>1, <2>3, AppliesOneByOne
  <2> QED BY <1>4, <2>1, <2>2, <2>3
<1>5. ASSUME NEW i \in 1 .. n + 1, NEW j \in 1 .. n + 1,
             NEW k \in DOMAIN chain'[i].body, NEW l \in DOMAIN chain'[j].body,
             <<i, k>> # <<j, l>>
      PROVE  Inputs[chain'[i].body[k]] \cap Inputs[chain'[j].body[l]] = {}
  <2>1. CASE i \in 1 .. n /\ j \in 1 .. n
        BY <1>1, <1>5, <2>1 DEF LedgerInv, SpentOnce
  <2>2. CASE i = n + 1 /\ j \in 1 .. n
        BY <1>1, <1>3, <2>2
  <2>3. CASE i \in 1 .. n /\ j = n + 1
        BY <1>1, <1>3, <2>3
  <2>4. CASE i = n + 1 /\ j = n + 1
        BY <1>1, <1>4, <1>5, <2>4
  <2> QED BY <1>2, <2>1, <2>2, <2>3, <2>4
<1>6. ConsumedBy(body) \subseteq unspent \cup CreatedBy(body)
  <2>1. ASSUME NEW i \in DOMAIN body
        PROVE  Inputs[body[i]] \subseteq unspent \cup CreatedBy(body)
    <3>1. i \in 1 .. Len(body) /\ DOMAIN body = 1 .. Len(body) /\ Len(body) \in Nat
          OBVIOUS
    <3>2. \A j \in 1 .. i - 1 : j \in DOMAIN body
          BY <3>1
    <3>3. \A j \in DOMAIN body : Creates[body[j]] \subseteq CreatedBy(body)
          BY DEF CreatedBy, ToSet
    <3> QED BY <3>2, <3>3, AppliesOneByOne
  <2> QED BY <2>1 DEF ConsumedBy, ToSet
<1>7. /\ unspent = (Initial \cup Created) \ Consumed
      /\ Consumed \subseteq Initial \cup Created
      BY DEF LedgerInv, SpentOnce, Created, Consumed
<1>8. unspent' = (unspent \cup CreatedBy(body)) \ ConsumedBy(body)
      BY DEF PushBlock
<1>9. CreatedBy(body) \cap Consumed = {}
      BY CreatedAreNew
<1>10. unspent' = (Initial \cup Created') \ Consumed'
       BY <1>1, <1>7, <1>8, <1>9
<1>11. Consumed' \subseteq Initial \cup Created'
       BY <1>1, <1>6, <1>7
<1>12. SpentOnce'
  <2>1. unspent' = (Initial \cup UNION {CreatedBy(b) : b \in Bodies'})
                     \ UNION {ConsumedBy(b) : b \in Bodies'}
        BY <1>10 DEF Created, Consumed
  <2> QED BY <1>1, <1>5, <2>1 DEF SpentOnce
<1> QED BY <1>11, <1>12 DEF LedgerInv

LEMMA SameLedger ==
  ASSUME LedgerInv, UNCHANGED <<chain, unspent>>
  PROVE  LedgerInv'
<1>1. Bodies' = Bodies
      BY DEF Bodies
<1>2. Created' = Created /\ Consumed' = Consumed
      BY <1>1 DEF Created, Consumed, CreatedBy, ConsumedBy
<1>3. SpentOnce'
  <2>1. unspent' = (Initial \cup Created') \ Consumed'
        BY <1>2 DEF LedgerInv, SpentOnce, Created, Consumed
  <2> QED BY <2>1 DEF LedgerInv, SpentOnce, Created, Consumed
<1> QED BY <1>2, <1>3 DEF LedgerInv

\* The two blocks that get onto the chain, validated or not, apply to it.
LEMMA PushedApplies ==
  ASSUME IndInv, NEW body \in Received, NEW comps \in SUBSET Comp,
         ReceiveBlock(body, comps)
  PROVE  /\ body \in Seq(Tx) /\ Applies(body) /\ ChainFree
         /\ PushBlock("io", body, comps, 0, {})
BY MiningAssumption, SpendableApplies DEF ReceiveBlock

LEMMA OwnApplies ==
  ASSUME IndInv, AppendOwn
  PROVE  /\ mining.txs \in Seq(Tx) /\ Applies(mining.txs) /\ ChainFree
         /\ PushBlock("main", mining.txs, mining.comps, mining.height, mining.again)
BY DEF AppendOwn, AddingOwn, IndInv, TypeOK

LEMMA StepLedger == OutputsDiffer /\ IndInv /\ LedgerInv /\ [Next]_vars => LedgerInv'
<1> SUFFICES ASSUME OutputsDiffer, IndInv, LedgerInv, [Next]_vars PROVE LedgerInv'
    OBVIOUS
<1>1. CASE AppendStep
      BY <1>1, SameLedger DEF AppendStep, SpendPool, SpendPooledTx, SpendComps
<1>2. CASE AddTxStep
      BY <1>2, SameLedger DEF AddTxStep, CheckInput, AddTx
<1>3. CASE \/ GetTop \/ Collect \/ CollectTooFew \/ ReadHead \/ ReadHeight \/ Mine
           \/ MineFails \/ OwnIsStale \/ OwnIsTooOld \/ OwnDoesNotApply
      BY <1>3, SameLedger DEF GetTop, Collect, CollectTooFew, ReadHead, ReadHeight, Mine,
                              MineFails, OwnIsStale, OwnIsTooOld, OwnDoesNotApply
<1>4. CASE AppendOwn
      BY <1>4, OwnApplies, PushLedger
<1>5. ASSUME NEW body \in Received, NEW comps \in SUBSET Comp, ReceiveBlock(body, comps)
      PROVE  LedgerInv'
      BY <1>5, PushedApplies, PushLedger
<1>6. CASE (\E t \in Tx : StartAddTx(t)) \/ \E c \in Comp : AddComputation(c)
      BY <1>6, SameLedger DEF StartAddTx, AddComputation
<1>7. CASE UNCHANGED vars
      BY <1>7, SameLedger DEF vars
<1> QED BY <1>1, <1>2, <1>3, <1>4, <1>5, <1>6, <1>7 DEF Next, MiningStep

LEMMA InitLedger == Init => LedgerInv
BY DEF Init, LedgerInv, SpentOnce, Created, Consumed, Bodies

-----------------------------------------------------------------------------
(* The pool *)

\* As MemPool's proofs have it, for a pool that also goes through the bodies
\* of own blocks: the ranking is that of the storage, what is stored is filed
\* under its outputs and nothing else is, and what is being spent is mined.
PoolInv ==
  /\ storage \subseteq Tx
  /\ ranked = Pool!Ranked(storage)
  /\ refs \in [OutKey -> SUBSET Tx]
  /\ \A t \in storage : \A k \in ToSet(Pays[t]) : t \in refs[k]
  /\ \A k \in OutKey : \A t \in refs[k] : k \in ToSet(Pays[t])
  /\ spending \in Seq(Tx)
  /\ ToSet(spending) \subseteq Mined
  /\ ~ChainFree => chain # <<>>

\* The elements of a sequence, as MemPool speaks of them.
LEMMA SameToSet == \A s : Pool!ToSet(s) = ToSet(s)
BY DEF Pool!ToSet, ToSet

LEMMA PaysOutKeys ==
  ASSUME NEW t \in Tx
  PROVE  ToSet(Pays[t]) \subseteq OutKey
BY MiningAssumption DEF ToSet

\* A step that leaves the pool's index alone.
LEMMA SamePool ==
  ASSUME PoolInv, UNCHANGED <<storage, ranked, refs, spending>>,
         Mined \subseteq Mined', ~ChainFree' => chain' # <<>>
  PROVE  PoolInv'
BY DEF PoolInv, Pool!Ranked

LEMMA MinedGrows ==
  ASSUME IndInv, [Next]_vars
  PROVE  /\ Mined \subseteq Mined' /\ Bodies \subseteq Bodies'
         /\ chain # <<>> => chain' # <<>>
<1>1. CASE chain' = chain
      BY <1>1 DEF Mined, Bodies
<1>2. ASSUME NEW by, NEW body \in Seq(Tx), NEW comps, NEW coinbase, NEW again,
             PushBlock(by, body, comps, coinbase, again)
      PROVE  Mined \subseteq Mined' /\ Bodies \subseteq Bodies' /\ chain' # <<>>
      BY <1>2, PushedBody
<1>3. CASE AppendOwn
      BY <1>2, <1>3, OwnApplies
<1>4. ASSUME NEW body \in Received, NEW comps \in SUBSET Comp, ReceiveBlock(body, comps)
      PROVE  Mined \subseteq Mined' /\ Bodies \subseteq Bodies' /\ chain' # <<>>
      BY <1>2, <1>4, PushedApplies
<1> QED BY <1>1, <1>3, <1>4
        DEF Next, AppendStep, AddTxStep, MiningStep, SpendPool, SpendPooledTx,
            SpendComps, CheckInput, AddTx, GetTop, Collect, CollectTooFew, ReadHead,
            ReadHeight, Mine, MineFails, OwnIsStale, OwnIsTooOld, OwnDoesNotApply, StartAddTx,
            AddComputation, vars

\* What one spent transaction does to the pool.
LEMMA SpendPooledTxPool ==
  ASSUME IndInv, PoolInv, NEW t \in Tx, SpendPooledTx(t)
  PROVE  /\ PoolInv'
         /\ t = Head(spending) /\ spending # <<>> /\ t \in Mined
         /\ \A u \in storage \ storage' :
              u = t \/ ToSet(Pays[u]) \cap ToSet(Pays[t]) # {}
         /\ storage' \subseteq storage
         /\ \/ spending' = spending
            \/ spending' = Tail(spending) /\ t \notin storage'
<1>1. /\ UNCHANGED <<chain, appending>> /\ spending # <<>> /\ t = Head(spending)
      /\ Pool!SpendMissing(t) \/ Pool!SpendPooled(t) \/ Pool!SpendAborts(t)
      /\ spending' = Tail(spending) \/ spending' = spending
      /\ status = "running"
      /\ spending' = IF status' = "running" THEN Tail(spending) ELSE spending
      BY DEF SpendPooledTx, Pool!SpendTx
<1>2. Mined' = Mined
      BY <1>1 DEF Mined, Bodies
<1>3. /\ spending' \in Seq(Tx) /\ ToSet(spending') \subseteq ToSet(spending)
      /\ t \in ToSet(spending)
  <2>1. spending \in Seq(Tx) /\ spending # <<>>
        BY <1>1 DEF PoolInv
  <2>2. Tail(spending) \in Seq(Tx) /\ ToSet(Tail(spending)) \subseteq ToSet(spending)
        BY <2>1 DEF ToSet
  <2>3. Head(spending) \in ToSet(spending)
        BY <2>1 DEF ToSet
  <2> QED BY <1>1, <2>1, <2>2, <2>3
<1>4. ~ChainFree' => chain' # <<>>
      BY <1>1 DEF PoolInv, ChainFree
<1>5. CASE Pool!SpendPooled(t)
  <2>1. /\ storage' = storage \ Pool!Evicted(t)
        /\ ranked' = ranked \ Pool!Ranked(Pool!Evicted(t))
        /\ refs' = [k \in OutKey |-> IF k \in ToSet(Pays[t]) THEN {} ELSE refs[k]]
        /\ status' = status
        BY <1>5, SameToSet DEF Pool!SpendPooled
  <2>2. Pool!Ranked(storage) \ Pool!Ranked(Pool!Evicted(t))
          = Pool!Ranked(storage \ Pool!Evicted(t))
        BY DEF Pool!Ranked
  <2>3. ASSUME NEW u \in storage', NEW k \in ToSet(Pays[u])
        PROVE  u \in refs'[k]
    <3>1. u \in storage /\ u \in Tx /\ u \notin Pool!Evicted(t) /\ k \in OutKey
          BY <2>1, PaysOutKeys DEF PoolInv
    <3>2. u \in refs[k]
          BY <3>1 DEF PoolInv
    <3>3. k \notin ToSet(Pays[t])
          BY <3>1, <3>2, SameToSet DEF Pool!Evicted
    <3> QED BY <2>1, <3>1, <3>2, <3>3
  <2>4. ASSUME NEW u \in storage \ storage'
        PROVE  u = t \/ ToSet(Pays[u]) \cap ToSet(Pays[t]) # {}
    <3>1. u = t \/ \E k \in ToSet(Pays[t]) : u \in refs[k]
          BY <2>1, SameToSet DEF Pool!Evicted
    <3>2. \A k \in ToSet(Pays[t]) : u \in refs[k] => k \in ToSet(Pays[u])
          BY PaysOutKeys DEF PoolInv
    <3> QED BY <3>1, <3>2
  <2>5. refs' \in [OutKey -> SUBSET Tx]
        BY <2>1 DEF PoolInv
  <2>6. \A k \in OutKey : \A u \in refs'[k] : k \in ToSet(Pays[u])
        BY <2>1 DEF PoolInv
  <2>7. PoolInv'
        BY <1>2, <1>3, <1>4, <2>1, <2>2, <2>3, <2>5, <2>6 DEF PoolInv
  <2>8. t \notin storage'
        BY <2>1 DEF Pool!Evicted
  <2> QED BY <1>1, <1>3, <2>1, <2>4, <2>7, <2>8 DEF PoolInv
<1>6. CASE Pool!SpendMissing(t) \/ Pool!SpendAborts(t)
  <2>1. UNCHANGED <<storage, ranked, refs>>
        BY <1>6 DEF Pool!SpendMissing, Pool!SpendAborts
  <2>2. PoolInv'
        BY <1>2, <1>3, <1>4, <2>1 DEF PoolInv, Pool!Ranked
  <2>3. spending' = spending \/ (spending' = Tail(spending) /\ t \notin storage')
        BY <1>1, <1>6, <2>1 DEF Pool!SpendMissing, Pool!SpendAborts
  <2> QED BY <1>1, <1>3, <2>1, <2>2, <2>3 DEF PoolInv
<1> QED BY <1>1, <1>5, <1>6

\* add_valid_tx files the transaction under all its outputs.
LEMMA AddTxPool ==
  ASSUME PoolInv, NEW t \in Tx, AddTx(t)
  PROVE  PoolInv' /\ storage' = storage \cup {t}
<1>1. /\ storage' = storage \cup {t}
      /\ ranked' = ranked \cup Pool!Ranked({t})
      /\ refs' = [k \in OutKey |-> IF k \in ToSet(Pays[t]) THEN refs[k] \cup {t} ELSE refs[k]]
      /\ UNCHANGED <<spending, chain, appending>>
      BY SameToSet DEF AddTx, Pool!AddValidTx
<1>2. ranked' = Pool!Ranked(storage')
      BY <1>1 DEF PoolInv, Pool!Ranked
<1>3. refs' \in [OutKey -> SUBSET Tx]
      BY <1>1 DEF PoolInv
<1>4. ASSUME NEW u \in storage', NEW k \in ToSet(Pays[u])
      PROVE  u \in refs'[k]
  <2>1. u \in Tx /\ k \in OutKey /\ (u = t \/ u \in storage)
        BY <1>1, PaysOutKeys DEF PoolInv
  <2>2. CASE u = t
        BY <1>1, <2>1, <2>2
  <2>3. CASE u \in storage
        BY <1>1, <2>1, <2>3 DEF PoolInv
  <2> QED BY <2>1, <2>2, <2>3
<1>5. \A k \in OutKey : \A u \in refs'[k] : k \in ToSet(Pays[u])
      BY <1>1 DEF PoolInv
<1>6. Mined' = Mined /\ (~ChainFree' => chain' # <<>>)
      BY <1>1 DEF PoolInv, ChainFree, Mined, Bodies
<1> QED BY <1>1, <1>2, <1>3, <1>4, <1>5, <1>6 DEF PoolInv

LEMMA SpendPoolPool ==
  ASSUME IndInv, PoolInv, SpendPool
  PROVE  /\ PoolInv' /\ spending' = Last(chain).body
         /\ UNCHANGED <<storage, chain>>
<1>1. /\ UNCHANGED <<storage, ranked, refs, chain>> /\ spending' = Last(chain).body
      /\ ~ChainFree /\ chain # <<>>
      BY DEF SpendPool, Pool!SpendBlock, PoolInv
<1>2. Last(chain).body \in Bodies /\ Last(chain).body \in Seq(Tx)
  <2>1. chain \in Seq(Block) /\ Len(chain) \in DOMAIN chain
        BY <1>1 DEF IndInv, TypeOK
  <2>2. chain[Len(chain)] \in Block
        BY <2>1
  <2> QED BY <2>1, <2>2 DEF Bodies, Block, Last
<1>3. ToSet(spending') \subseteq Mined'
      BY <1>1, <1>2 DEF Mined, Bodies
<1> QED BY <1>1, <1>2, <1>3 DEF PoolInv, Pool!Ranked

LEMMA StepPool == IndInv /\ PoolInv /\ [Next]_vars => PoolInv'
<1> SUFFICES ASSUME IndInv, PoolInv, [Next]_vars PROVE PoolInv'
    OBVIOUS
<1>0. Mined \subseteq Mined' /\ (chain # <<>> => chain' # <<>>)
      BY MinedGrows
<1>1. CASE SpendPool \/ \E t \in Tx : SpendPooledTx(t) \/ AddTx(t)
      BY <1>1, SpendPoolPool, SpendPooledTxPool, AddTxPool
<1>2. ASSUME UNCHANGED <<storage, ranked, refs, spending>>,
             appending' \in {appending, NotAppending} \/ chain' # <<>>
      PROVE  PoolInv'
      BY <1>0, <1>2, SamePool DEF PoolInv, ChainFree, NotAppending
<1>3. CASE SpendComps \/ \E o \in OutPoint : CheckInput(o)
      BY <1>2, <1>3 DEF SpendComps, CheckInput, poolVars
<1>4. CASE AppendOwn
  <2>1. UNCHANGED <<storage, ranked, refs, spending>>
        BY <1>4 DEF AppendOwn, AddingOwn
  <2>2. chain' # <<>>
        BY <1>4, OwnApplies, PushedBody
  <2> QED BY <1>2, <2>1, <2>2
<1>5. CASE \/ GetTop \/ Collect \/ CollectTooFew \/ ReadHead \/ ReadHeight \/ Mine
           \/ MineFails \/ OwnIsStale \/ OwnIsTooOld \/ OwnDoesNotApply
  <2>1. UNCHANGED <<storage, ranked, refs, spending, appending>>
        BY <1>5 DEF GetTop, Collect, CollectTooFew, ReadHead, ReadHeight, Mine,
                    MineFails, OwnIsStale, OwnIsTooOld, OwnDoesNotApply, AddingOwn, poolVars
  <2> QED BY <1>2, <2>1
<1>6. ASSUME NEW body \in Received, NEW comps \in SUBSET Comp, ReceiveBlock(body, comps)
      PROVE  PoolInv'
  <2>1. UNCHANGED <<storage, ranked, refs, spending>>
        BY <1>6 DEF ReceiveBlock, poolVars
  <2>2. chain' # <<>>
        BY <1>6, PushedApplies, PushedBody
  <2> QED BY <1>2, <2>1, <2>2
<1>7. CASE \/ \E t \in Tx : StartAddTx(t)
           \/ \E c \in Comp : AddComputation(c)
           \/ UNCHANGED vars
      BY <1>2, <1>7 DEF StartAddTx, AddComputation, vars, poolVars
<1> QED BY <1>1, <1>3, <1>4, <1>5, <1>6, <1>7 DEF Next, AppendStep, AddTxStep, MiningStep

LEMMA InitPool == Init => PoolInv
<1> SUFFICES ASSUME Init PROVE PoolInv
    OBVIOUS
<1>1. /\ storage = {} /\ ranked = {} /\ refs = [k \in OutKey |-> {}]
      /\ spending = <<>> /\ ChainFree
      BY DEF Init, Pool!Init, ChainFree, NotAppending
<1>2. ToSet(<<>>) = {} /\ <<>> \in Seq(Tx)
      BY DEF ToSet
<1> QED BY <1>1, <1>2 DEF PoolInv, Pool!Ranked

\* get_top takes from the pool.
LEMMA TopsArePooled ==
  ASSUME IndInv, PoolInv, NEW top \in Tops
  PROVE  ToSet([i \in DOMAIN top |-> top[i][2]]) \subseteq storage
<1>1. PICK P \in SUBSET ranked : top \in SetToSeqs(P)
      BY DEF Tops, kSubset
<1>2. \A i \in DOMAIN top : top[i] \in ranked
      BY <1>1 DEF SetToSeqs
<1>3. \A p \in ranked : p[2] \in storage
      BY DEF PoolInv, Pool!Ranked
<1> QED BY <1>2, <1>3 DEF ToSet

-----------------------------------------------------------------------------
(* A round in which no block arrives *)

\* spend_block has come to a transaction with two equal outputs.
Doomed == spending # <<>> /\ Pool!EqualOutputs(Head(spending))

\* Its transactions still apply, and its head is still the tip.
CalmInv ==
  mining.at # "top" /\ mining.calm =>
    /\ Running \/ Doomed
    /\ mining.at # "appending" => ChainFree /\ Applies(mining.txs)
    /\ \/ mining.at = "mined"
       \/ mining.at = "args" /\ "head" \notin mining.unread
       => mining.head = Len(chain)

\* The assertion of spend_tx_unsafe fails only where MemPool says.
LEMMA SpendAbortsWhenDoomed ==
  ASSUME PoolInv, NEW t \in Tx, SpendPooledTx(t)
  PROVE  Running' \/ Doomed'
<1>1. t \in storage => \A k \in ToSet(Pays[t]) : refs[k] # {}
      BY DEF PoolInv
<1>2. CASE Pool!SpendAborts(t) /\ t \in storage
  <2>1. Pool!EqualOutputs(t)
        BY <1>1, <1>2, SameToSet DEF Pool!SpendAborts, Pool!KeyMissing
  <2>2. spending' = spending /\ spending # <<>> /\ t = Head(spending)
        BY <1>2 DEF SpendPooledTx, Pool!SpendTx, Pool!SpendAborts
  <2> QED BY <2>1, <2>2 DEF Doomed
<1>3. CASE ~(Pool!SpendAborts(t) /\ t \in storage)
      BY <1>3 DEF SpendPooledTx, Pool!SpendTx, Pool!SpendMissing, Pool!SpendPooled,
                  Pool!SpendAborts, Running
<1> QED BY <1>2, <1>3

LEMMA SameCalm ==
  ASSUME CalmInv, UNCHANGED <<chain, unspent, mining>>, ChainFree => ChainFree',
         Running' \/ Doomed'
  PROVE  CalmInv'
<1>1. Applies(mining.txs) => Applies(mining.txs)'
      BY DEF Applies
<1> QED BY <1>1 DEF CalmInv

LEMMA TakenApplies ==
  ASSUME NEW txs, Applies(txs), unspent' = unspent, mining'.txs = txs
  PROVE  Applies(mining.txs)'
BY DEF Applies

LEMMA MiningStepCalm ==
  ASSUME IndInv, CalmInv, MiningStep
  PROVE  CalmInv'
<1>1. CASE GetTop
  <2>1. PICK top \in Tops :
          LET txs == [i \in DOMAIN top |-> top[i][2]]
          IN  mining' = [mining EXCEPT !.at = "comps", !.txs = txs,
                                       !.calm = ChainFree /\ Applies(txs)]
        BY <1>1 DEF GetTop
  <2> DEFINE txs == [i \in DOMAIN top |-> top[i][2]]
             fits == ChainFree /\ Applies(txs)
  <2>2. mining' = [mining EXCEPT !.at = "comps", !.txs = txs, !.calm = fits]
        BY <2>1
  <2>3. Running /\ UNCHANGED <<status, chain, unspent, appending>>
        BY <1>1 DEF GetTop, poolVars
  <2>4. fits => ChainFree' /\ Applies(txs)
        BY <2>3 DEF ChainFree
  <2> HIDE DEF txs, fits
  <2>5. mining'.at = "comps" /\ mining'.txs = txs /\ mining'.calm = fits
        BY <2>2 DEF IndInv, TypeOK
  <2>6. fits => Applies(mining.txs)'
        BY <2>3, <2>4, <2>5, TakenApplies
  <2> QED BY SMTT(30), <2>3, <2>4, <2>5, <2>6 DEF CalmInv, Running
<1>2. CASE Collect \/ ReadHead \/ ReadHeight \/ Mine
  <2>1. /\ UNCHANGED <<status, chain, unspent, appending>>
        /\ mining.at # "top" /\ mining.at # "appending"
        /\ mining'.txs = mining.txs /\ mining'.calm = mining.calm
    <3>1. CASE Collect
          BY <3>1 DEF Collect, poolVars, IndInv, TypeOK
    <3>2. CASE ReadHead
          BY <3>2 DEF ReadHead, poolVars, IndInv, TypeOK
    <3>3. CASE ReadHeight
          BY <3>3 DEF ReadHeight, poolVars, IndInv, TypeOK
    <3>4. CASE Mine
          BY <3>4 DEF Mine, poolVars, IndInv, TypeOK
    <3> QED BY <1>2, <3>1, <3>2, <3>3, <3>4
  <2>2. Applies(mining.txs) => Applies(mining.txs)'
        BY <2>1 DEF Applies
  <2>3. mining.calm => Running' /\ ChainFree' /\ Applies(mining.txs)'
    <3>1. Running'
          BY <1>2, <2>1 DEF Running, Collect, ReadHead, ReadHeight, Mine
    <3> QED BY <2>1, <2>2, <3>1, ZenonT(40) DEF CalmInv, ChainFree
  <2>4. \/ mining'.at = "mined"
        \/ mining'.at = "args" /\ "head" \notin mining'.unread
        => \/ mining'.head = Len(chain)
           \/ /\ mining'.head = mining.head
              /\ mining.at = "args" /\ "head" \notin mining.unread
    <3>1. CASE Collect
          BY <3>1 DEF Collect, IndInv, TypeOK
    <3>2. CASE ReadHead
          BY <3>2 DEF ReadHead, IndInv, TypeOK
    <3>3. CASE ReadHeight
          BY <3>3 DEF ReadHeight, IndInv, TypeOK
    <3>4. CASE Mine
          BY <3>4 DEF Mine, IndInv, TypeOK
    <3> QED BY <1>2, <3>1, <3>2, <3>3, <3>4
  <2> QED BY <2>1, <2>3, <2>4 DEF CalmInv
<1>3. CASE CollectTooFew \/ OwnIsTooOld \/ MineFails
      BY <1>3 DEF CollectTooFew, OwnIsTooOld, MineFails, CalmInv, NewRound
<1>4. CASE OwnIsStale \/ OwnDoesNotApply
  <2>1. mining' = mining /\ mining.at = "mined"
        /\ (mining.head # Len(chain) \/ ~Applies(mining.txs))
        BY <1>4 DEF OwnIsStale, OwnDoesNotApply, AddingOwn
  <2>2. ~mining.calm
        BY <2>1 DEF CalmInv
  <2> QED BY <2>1, <2>2 DEF CalmInv
<1>5. CASE AppendOwn
  <2>1. mining'.at = "appending" /\ Running /\ status' = status
        BY <1>5 DEF AppendOwn, AddingOwn, IndInv, TypeOK
  <2> QED BY <2>1 DEF CalmInv, Running
<1> QED BY <1>1, <1>2, <1>3, <1>4, <1>5 DEF MiningStep

LEMMA StepCalm ==
  ASSUME IndInv, PoolInv, CalmInv, [Next]_vars
  PROVE  CalmInv'
<1>1. CASE SpendPool
  <2>1. UNCHANGED <<chain, unspent, mining>> /\ ~ChainFree /\ Running'
        BY <1>1 DEF SpendPool, Pool!SpendBlock, Pool!Unlocked, Running
  <2> QED BY <2>1, SameCalm
<1>2. ASSUME NEW t \in Tx, SpendPooledTx(t)
      PROVE  CalmInv'
  <2>1. UNCHANGED <<chain, unspent, mining, appending>>
        BY <1>2 DEF SpendPooledTx
  <2> QED BY <1>2, <2>1, SpendAbortsWhenDoomed, SameCalm DEF ChainFree
<1>3. CASE SpendComps
  <2>1. CASE appending.by = "main"
        BY <1>3, <2>1 DEF SpendComps, CalmInv, NewRound
  <2>2. CASE appending.by # "main"
    <3>1. UNCHANGED <<chain, unspent, mining>> /\ ChainFree' /\ Running'
          BY <1>3, <2>2 DEF SpendComps, poolVars, ChainFree, NotAppending, Running
    <3> QED BY <3>1, SameCalm
  <2> QED BY <2>1, <2>2
<1>4. CASE AddTxStep
  <2>1. UNCHANGED <<chain, unspent, mining, appending>> /\ Running'
        BY <1>4 DEF AddTxStep, CheckInput, AddTx, Pool!AddValidTx, Pool!Unlocked,
                    poolVars, Running
  <2> QED BY <2>1, SameCalm DEF ChainFree
<1>5. ASSUME NEW body \in Received, NEW comps \in SUBSET Comp, ReceiveBlock(body, comps)
      PROVE  CalmInv'
  <2>1. mining'.calm = FALSE
        BY <1>5 DEF ReceiveBlock, IndInv, TypeOK
  <2> QED BY <2>1 DEF CalmInv
<1>6. CASE (\E t \in Tx : StartAddTx(t)) \/ \E c \in Comp : AddComputation(c)
  <2>1. UNCHANGED <<chain, unspent, mining, appending>> /\ Running'
        BY <1>6 DEF StartAddTx, AddComputation, IoIdle, poolVars, Running
  <2> QED BY <2>1, SameCalm DEF ChainFree
<1>7. CASE UNCHANGED vars
      BY <1>7 DEF vars, poolVars, CalmInv, Running, Doomed, ChainFree, Applies
<1> QED BY <1>1, <1>2, <1>3, <1>4, <1>5, <1>6, <1>7, MiningStepCalm DEF Next, AppendStep

-----------------------------------------------------------------------------
(* What is mined leaves the pool *)

\* Another transaction on the chain pays what t pays.
Rival(t) == \E u \in Mined \ {t} : ToSet(Pays[t]) \cap ToSet(Pays[u]) # {}

\* The append_block in progress has yet to come to t.
StillToSpend(t) ==
  /\ ~ChainFree
  /\ \/ appending.at = "pool" /\ t \in ToSet(Last(chain).body)
     \/ appending.at = "spending" /\ t \in ToSet(spending)

\* A mined transaction is in the pool only for a rival's sake or until it is
\* spent.
MinedAreLeaving == \A t \in storage \cap Mined : Rival(t) \/ StillToSpend(t)

\* A transaction leaves the pool only for a block that holds it or a rival of
\* it, so one that was taken for a round is still there, mined, or has a rival.
TakenAreKnown ==
  mining.at \in {"comps", "args", "mined"} =>
    \A t \in ToSet(mining.txs) : t \in storage \cup Mined \/ Rival(t)

\* add_tx of a mined transaction never gets beyond its inputs.
AddedIsNew ==
  /\ adding.tx \notin storage
  /\ adding.tx \in Mined =>
       \/ Rival(adding.tx)
       \/ adding.unchecked # {} /\ adding.unchecked \subseteq Inputs[adding.tx]

EvictInv == MinedAreLeaving /\ TakenAreKnown /\ AddedIsNew

LEMMA RivalStays ==
  ASSUME Mined \subseteq Mined', NEW t, Rival(t)
  PROVE  Rival(t)'
BY DEF Rival

LEMMA SameMined ==
  ASSUME UNCHANGED chain
  PROVE  Mined' = Mined /\ \A t : Rival(t)' = Rival(t)
BY DEF Rival, Mined, Bodies

\* The inputs of a mined transaction are never found again.
LEMMA MinedInputsSpent ==
  ASSUME LedgerInv, NEW t \in Mined
  PROVE  Inputs[t] \cap unspent = {}
BY TouchedByMined DEF LedgerInv, SpentOnce, Created, Consumed

LEMMA NoneIsNew == IndInv /\ PoolInv => None \notin Mined /\ None \notin storage
BY MiningAssumption, MinedAreTx DEF PoolInv

\* The round goes on with its transactions, or has none, while transactions
\* leave the pool as they may.
LEMMA SameTaken ==
  ASSUME TakenAreKnown, Mined \subseteq Mined',
         mining'.at \in {"comps", "args", "mined"} =>
           mining'.txs = mining.txs /\ mining.at \in {"comps", "args", "mined"},
         \A t \in storage \ storage' : t \in Mined \/ Rival(t)
  PROVE  TakenAreKnown'
<1>1. \A t : Rival(t) => Rival(t)'
      BY RivalStays
<1>2. mining'.at \in {"comps", "args", "mined"} =>
        \A t \in ToSet(mining'.txs) : t \in storage' \cup Mined' \/ Rival(t)'
      BY <1>1 DEF TakenAreKnown
<1> QED BY <1>2 DEF TakenAreKnown

\* No block comes, nothing is added.
LEMMA SameAdded ==
  ASSUME AddedIsNew, UNCHANGED <<chain, adding>>, storage' \subseteq storage
  PROVE  AddedIsNew'
<1>1. Mined' = Mined
      BY SameMined
<1> QED BY <1>1 DEF AddedIsNew, Rival

\* Neither the pool nor the append_block in progress moves, but a transaction
\* that is not mined may come to the pool.
LEMMA SameLeaving ==
  ASSUME MinedAreLeaving, UNCHANGED <<chain, appending, spending>>,
         \A t \in storage' \ storage : t \in Mined => Rival(t)
  PROVE  MinedAreLeaving'
<1>1. Mined' = Mined /\ \A t : Rival(t)' = Rival(t)
      BY SameMined
<1>2. \A t : StillToSpend(t)' = StillToSpend(t)
      BY DEF StillToSpend, ChainFree
<1> QED BY <1>1, <1>2 DEF MinedAreLeaving

LEMMA SpendPoolEvict ==
  ASSUME IndInv, PoolInv, EvictInv, SpendPool
  PROVE  EvictInv'
<1>1. /\ UNCHANGED <<storage, chain, mining, adding>>
      /\ spending' = Last(chain).body
      /\ ~ChainFree /\ appending.at = "pool"
      /\ appending'.by = appending.by /\ appending'.at = "spending"
      BY SpendPoolPool DEF SpendPool, IndInv, TypeOK
<1>2. Mined' = Mined /\ \A t : Rival(t)' = Rival(t)
      BY <1>1, SameMined
<1>3. \A t : StillToSpend(t) => StillToSpend(t)'
      BY <1>1 DEF StillToSpend, ChainFree
<1>4. MinedAreLeaving'
      BY <1>1, <1>2, <1>3 DEF EvictInv, MinedAreLeaving
<1> QED BY <1>1, <1>2, <1>4, SameTaken, SameAdded DEF EvictInv

LEMMA SpendPooledTxEvict ==
  ASSUME IndInv, PoolInv, EvictInv, NEW t \in Tx, SpendPooledTx(t)
  PROVE  EvictInv'
<1>1. /\ UNCHANGED <<chain, appending, mining, adding>>
      /\ appending.at = "spending"
      BY DEF SpendPooledTx
<1>2. /\ t = Head(spending) /\ spending # <<>> /\ t \in Mined
      /\ spending \in Seq(Tx)
      /\ \A u \in storage \ storage' :
           u = t \/ ToSet(Pays[u]) \cap ToSet(Pays[t]) # {}
      /\ storage' \subseteq storage
      /\ \/ spending' = spending
         \/ spending' = Tail(spending) /\ t \notin storage'
      BY SpendPooledTxPool DEF PoolInv
<1>3. Mined' = Mined /\ \A u : Rival(u)' = Rival(u)
      BY <1>1, SameMined
<1>4. \A u \in ToSet(spending) : u = t \/ u \in ToSet(Tail(spending))
  <2>1. \A i \in DOMAIN spending : i = 1 \/ i - 1 \in DOMAIN Tail(spending)
        BY <1>2
  <2>2. \A i \in DOMAIN Tail(spending) : Tail(spending)[i] = spending[i + 1]
        BY <1>2
  <2>3. \A i \in DOMAIN spending : i # 1 => Tail(spending)[i - 1] = spending[i]
    <3> SUFFICES ASSUME NEW i \in DOMAIN spending, i # 1
                 PROVE  Tail(spending)[i - 1] = spending[i]
        OBVIOUS
    <3>1. i \in Nat /\ i - 1 \in DOMAIN Tail(spending) /\ (i - 1) + 1 = i
          BY <2>1, <1>2
    <3> QED BY <2>2, <3>1
  <2>4. spending[1] = t
        BY <1>2
  <2> QED BY <2>1, <2>3, <2>4 DEF ToSet
<1>5. ASSUME NEW u \in storage', u \in Mined
      PROVE  Rival(u) \/ StillToSpend(u)'
  <2>1. Rival(u) \/ (~ChainFree /\ u \in ToSet(spending))
        BY <1>1, <1>2, <1>5 DEF EvictInv, MinedAreLeaving, StillToSpend
  <2>2. u \in ToSet(spending) => u \in ToSet(spending')
        BY <1>2, <1>4
  <2> QED BY <1>1, <2>1, <2>2 DEF StillToSpend, ChainFree
<1>6. MinedAreLeaving'
      BY <1>3, <1>5 DEF MinedAreLeaving
<1>7. \A u \in storage \ storage' : u \in Mined \/ Rival(u)
      BY <1>2 DEF Rival
<1>8. TakenAreKnown'
      BY <1>1, <1>3, <1>7, SameTaken DEF EvictInv
<1>9. AddedIsNew'
      BY <1>1, <1>2, SameAdded DEF EvictInv
<1> QED BY <1>6, <1>8, <1>9 DEF EvictInv

LEMMA SpendCompsEvict ==
  ASSUME IndInv, EvictInv, SpendComps
  PROVE  EvictInv'
<1>1. /\ UNCHANGED <<storage, spending, chain, adding>>
      /\ appending.at = "spending" /\ spending = <<>>
      /\ mining' \in {mining, NewRound}
      BY DEF SpendComps, poolVars
<1>2. \A t : ~StillToSpend(t)
      BY <1>1 DEF StillToSpend, ToSet
<1>3. Mined' = Mined /\ \A t : Rival(t)' = Rival(t)
      BY <1>1, SameMined
<1>4. MinedAreLeaving'
      BY <1>1, <1>2, <1>3 DEF EvictInv, MinedAreLeaving
<1>5. TakenAreKnown'
      BY <1>1, <1>3, SameTaken DEF EvictInv, NewRound
<1> QED BY <1>1, <1>4, <1>5, SameAdded DEF EvictInv

\* The three steps of add_tx.
LEMMA StartAddTxEvict ==
  ASSUME OutputsDiffer, IndInv, EvictInv, NEW t \in Tx, StartAddTx(t)
  PROVE  EvictInv'
<1>1. /\ UNCHANGED <<storage, spending, chain, appending, mining>>
      /\ adding'.tx = t /\ adding'.unchecked = Inputs[t] /\ t \notin storage
      BY DEF StartAddTx, poolVars
<1>2. Mined' = Mined
      BY <1>1, SameMined
<1>3. Inputs[t] # {}
      BY DEF OutputsDiffer
<1>4. AddedIsNew'
      BY <1>1, <1>3 DEF AddedIsNew
<1> QED BY <1>1, <1>2, <1>4, SameTaken, SameLeaving DEF EvictInv

LEMMA CheckInputEvict ==
  ASSUME IndInv, LedgerInv, PoolInv, EvictInv, NEW o \in OutPoint, CheckInput(o)
  PROVE  EvictInv'
<1>1. /\ UNCHANGED <<storage, spending, chain, appending, mining>>
      /\ o \in adding.unchecked
      BY DEF CheckInput, poolVars
<1>2. Mined' = Mined /\ \A t : Rival(t)' = Rival(t)
      BY <1>1, SameMined
<1>3. ASSUME o \notin unspent PROVE AddedIsNew'
  <2>1. adding'.tx = None
        BY <1>3 DEF CheckInput, NotAdding
  <2>2. adding'.tx \notin storage' /\ adding'.tx \notin Mined'
        BY <1>1, <1>2, <2>1, NoneIsNew
  <2> QED BY <2>2 DEF AddedIsNew
<1>4. ASSUME o \in unspent PROVE AddedIsNew'
  <2>1. adding'.tx = adding.tx
        BY <1>4 DEF CheckInput, IndInv, TypeOK
  <2>2. adding.tx \in Mined => Rival(adding.tx)
        BY <1>1, <1>4, MinedInputsSpent DEF EvictInv, AddedIsNew
  <2> QED BY <1>1, <1>2, <2>1, <2>2 DEF EvictInv, AddedIsNew, Rival
<1> QED BY <1>1, <1>2, <1>3, <1>4, SameTaken, SameLeaving DEF EvictInv

LEMMA AddTxEvict ==
  ASSUME IndInv, PoolInv, EvictInv, NEW t \in Tx, AddTx(t)
  PROVE  EvictInv'
<1>1. /\ storage' = storage \cup {t} /\ adding.tx = t /\ adding.unchecked = {}
      /\ UNCHANGED <<spending, chain, appending, mining>> /\ adding'.tx = None
      BY AddTxPool DEF AddTx, Pool!AddValidTx, NotAdding
<1>2. Mined' = Mined
      BY <1>1, SameMined
<1>3. t \in Mined => Rival(t)
      BY <1>1 DEF EvictInv, AddedIsNew
<1>4. adding'.tx \notin storage' /\ adding'.tx \notin Mined'
      BY <1>1, <1>2, NoneIsNew, MiningAssumption
<1>5. AddedIsNew'
      BY <1>4 DEF AddedIsNew
<1>6. MinedAreLeaving'
      BY <1>1, <1>3, SameLeaving DEF EvictInv
<1> QED BY <1>1, <1>2, <1>5, <1>6, SameTaken DEF EvictInv

\* A block: whatever of it is in the pool is yet to be spent.
LEMMA PushEvict ==
  ASSUME IndInv, MinedAreLeaving, ChainFree,
         NEW by \in {"io", "main"}, NEW body \in Seq(Tx), NEW comps, NEW coinbase,
         NEW again, PushBlock(by, body, comps, coinbase, again), UNCHANGED storage
  PROVE  MinedAreLeaving'
<1>1. /\ Mined' = Mined \cup ToSet(body)
      /\ Last(chain').body = body
      BY PushedBody
<1>2. appending'.by = by /\ appending'.at = "pool"
      BY DEF PushBlock
<1>3. \A t \in ToSet(body) : StillToSpend(t)'
      BY <1>1, <1>2 DEF StillToSpend, ChainFree
<1>4. \A t \in storage \cap Mined : Rival(t)'
      BY <1>1, RivalStays DEF MinedAreLeaving, StillToSpend
<1> QED BY <1>1, <1>3, <1>4 DEF MinedAreLeaving

LEMMA ReceiveBlockEvict ==
  ASSUME IndInv, PoolInv, EvictInv, NEW body \in Received, NEW comps \in SUBSET Comp,
         ReceiveBlock(body, comps), PoolInv'
  PROVE  EvictInv'
<1>1. /\ adding' = adding /\ adding.tx = None
      /\ UNCHANGED storage
      /\ mining' = [mining EXCEPT !.calm = FALSE]
      BY DEF ReceiveBlock, IoIdle, NotAdding, poolVars
<1>2. /\ body \in Seq(Tx) /\ ChainFree
      /\ PushBlock("io", body, comps, 0, {})
      BY PushedApplies
<1>3. MinedAreLeaving'
      BY <1>1, <1>2, PushEvict DEF EvictInv
<1>4. Mined \subseteq Mined'
      BY <1>2, PushedBody
<1>5. mining'.at = mining.at /\ mining'.txs = mining.txs
      BY <1>1 DEF IndInv, TypeOK
<1>6. TakenAreKnown'
      BY <1>1, <1>4, <1>5, SameTaken DEF EvictInv
<1>7. adding'.tx \notin Mined' /\ adding'.tx \notin storage'
  <2>1. Mined' = Mined \cup ToSet(body)
        BY <1>2, PushedBody
  <2>2. ToSet(body) \subseteq Tx
        BY <1>2 DEF ToSet
  <2>3. storage' \subseteq Tx
        BY DEF PoolInv
  <2> QED BY <1>1, <2>1, <2>2, <2>3, MinedAreTx, MiningAssumption
<1>8. AddedIsNew'
      BY <1>7 DEF AddedIsNew
<1> QED BY <1>3, <1>6, <1>8 DEF EvictInv

\* An own block may hold what add_tx is at: it left the pool since it was taken,
\* and can only have left it for a rival.
LEMMA AppendOwnEvict ==
  ASSUME OutputsDiffer, IndInv, LedgerInv, EvictInv, AppendOwn
  PROVE  EvictInv'
<1>1. /\ UNCHANGED <<storage, adding>> /\ mining.at = "mined"
      /\ mining' = [mining EXCEPT !.at = "appending"]
      BY DEF AppendOwn, AddingOwn
<1>2. /\ mining.txs \in Seq(Tx) /\ Applies(mining.txs) /\ ChainFree
      /\ PushBlock("main", mining.txs, mining.comps, mining.height, mining.again)
      BY OwnApplies
<1>3. MinedAreLeaving'
      BY <1>1, <1>2, PushEvict DEF EvictInv
<1>4. Mined' = Mined \cup ToSet(mining.txs)
      BY <1>2, PushedBody
<1>5. mining'.at = "appending"
      BY <1>1 DEF IndInv, TypeOK
<1>6. TakenAreKnown'
      BY <1>5 DEF TakenAreKnown
<1>7. ASSUME adding.tx \in ToSet(mining.txs) PROVE Rival(adding.tx)
  <2>1. adding.tx \notin Mined
        BY <1>2, <1>7, AppliedAreNew DEF ToSet
  <2> QED BY <1>1, <1>7, <2>1 DEF EvictInv, TakenAreKnown, AddedIsNew
<1>8. adding.tx \in Mined' =>
        \/ Rival(adding.tx)
        \/ adding.unchecked # {} /\ adding.unchecked \subseteq Inputs[adding.tx]
      BY <1>4, <1>7 DEF EvictInv, AddedIsNew
<1>9. AddedIsNew'
      BY <1>1, <1>4, <1>8 DEF EvictInv, AddedIsNew, Rival
<1> QED BY <1>3, <1>6, <1>9 DEF EvictInv

\* The rest of the round.
LEMMA MiningStepEvict ==
  ASSUME OutputsDiffer, IndInv, LedgerInv, PoolInv, EvictInv, MiningStep
  PROVE  EvictInv'
<1>1. CASE GetTop
  <2>1. /\ UNCHANGED <<storage, spending, chain, appending, adding>>
        /\ \E top \in Tops : mining'.txs = [i \in DOMAIN top |-> top[i][2]]
        BY <1>1 DEF GetTop, poolVars, IndInv, TypeOK
  <2>2. ToSet(mining'.txs) \subseteq storage'
        BY <2>1, TopsArePooled
  <2>3. TakenAreKnown'
        BY <2>2 DEF TakenAreKnown
  <2> QED BY <2>1, <2>3, SameLeaving, SameAdded DEF EvictInv
<1>2. CASE \/ Collect \/ CollectTooFew \/ ReadHead \/ ReadHeight \/ Mine
           \/ MineFails \/ OwnIsStale \/ OwnIsTooOld \/ OwnDoesNotApply
  <2>1. UNCHANGED <<storage, spending, chain, appending, adding>>
        BY <1>2 DEF Collect, CollectTooFew, ReadHead, ReadHeight, Mine, MineFails,
                    OwnIsStale, OwnIsTooOld, OwnDoesNotApply, AddingOwn, poolVars
  <2>2. mining'.at \in {"comps", "args", "mined"} =>
          mining'.txs = mining.txs /\ mining.at \in {"comps", "args", "mined"}
    <3>1. CASE Collect \/ ReadHead \/ ReadHeight \/ Mine
          BY <3>1 DEF Collect, ReadHead, ReadHeight, Mine, IndInv, TypeOK
    <3>2. CASE CollectTooFew \/ OwnIsTooOld \/ MineFails
          BY <3>2 DEF CollectTooFew, OwnIsTooOld, MineFails, NewRound
    <3>3. CASE OwnIsStale \/ OwnDoesNotApply
          BY <3>3 DEF OwnIsStale, OwnDoesNotApply, AddingOwn
    <3> QED BY <1>2, <3>1, <3>2, <3>3
  <2>3. Mined' = Mined
        BY <2>1, SameMined
  <2>4. TakenAreKnown'
        BY <2>1, <2>2, <2>3, SameTaken DEF EvictInv
  <2> QED BY <2>1, <2>4, SameLeaving, SameAdded DEF EvictInv
<1> QED BY <1>1, <1>2, AppendOwnEvict DEF MiningStep

LEMMA StepEvict ==
  ASSUME OutputsDiffer, IndInv, LedgerInv, PoolInv, EvictInv, [Next]_vars
  PROVE  EvictInv'
<1>1. CASE AppendStep
      BY <1>1, SpendPoolEvict, SpendPooledTxEvict, SpendCompsEvict DEF AppendStep
<1>2. CASE AddTxStep
      BY <1>2, CheckInputEvict, AddTxEvict DEF AddTxStep
<1>3. ASSUME NEW body \in Received, NEW comps \in SUBSET Comp, ReceiveBlock(body, comps)
      PROVE  EvictInv'
      BY <1>3, StepPool, ReceiveBlockEvict
<1>4. CASE (\E c \in Comp : AddComputation(c)) \/ UNCHANGED vars
  <2>1. UNCHANGED <<storage, spending, chain, appending, mining, adding>>
        BY <1>4 DEF AddComputation, vars, poolVars
  <2>2. Mined' = Mined
        BY <2>1, SameMined
  <2> QED BY <2>1, <2>2, SameTaken, SameLeaving, SameAdded DEF EvictInv
<1> QED BY <1>1, <1>2, <1>3, <1>4, MiningStepEvict, StartAddTxEvict DEF Next

LEMMA InitEvict == Init => EvictInv
<1> SUFFICES ASSUME Init PROVE EvictInv
    OBVIOUS
<1>1. storage = {} /\ chain = <<>> /\ mining.at = "top"
      BY DEF Init, Pool!Init, NewRound
<1>2. Mined = {}
      BY <1>1 DEF Mined, Bodies
<1> QED BY <1>1, <1>2 DEF EvictInv, MinedAreLeaving, TakenAreKnown, AddedIsNew

-----------------------------------------------------------------------------
(* The theorems *)

\* Types of the mining node's variables, in every reachable state.
THEOREM TypeCorrect == Spec => []TypeOK
<1>1. IndInv => TypeOK
      BY DEF IndInv
<1> QED BY InitInv, StepInv, <1>1, PTL DEF Spec

\* However blocks arrive while the two reads of start_mining are made, no two
\* own blocks on the chain carry the same height in their coinbase.
THEOREM OwnCoinbasesAreUnique == Spec => []OwnCoinbasesDiffer
<1>1. IndInv => OwnCoinbasesDiffer
      BY DEF IndInv
<1> QED BY InitInv, StepInv, <1>1, PTL DEF Spec

\* append_block and collect_computations: an own block on the chain has a
\* computation bound twice only if that was in an own block refused before.
THEOREM OwnProofsAreForOneBinding == Spec => []OwnBlocksVerify
<1>1. Init => IndInv /\ BindInv
      BY InitInv, InitBind
<1>2. (IndInv /\ BindInv) /\ [Next]_vars => (IndInv /\ BindInv)'
      BY StepInv, StepBind
<1>3. BindInv => OwnBlocksVerify
      BY DEF BindInv
<1> QED BY <1>1, <1>2, <1>3, PTL DEF Spec

\* append_block and validate_block: although own blocks are not validated, every
\* chain the node gets to spends each output once, and its chainstate is what
\* the chain leaves; a transaction may even spend what an earlier one of the
\* same own block creates.
THEOREM OutputsSpentOnce ==
  ASSUME OutputsDiffer
  PROVE  Spec => []SpentOnce
<1>1. Init => IndInv /\ LedgerInv
      BY InitInv, InitLedger
<1>2. (IndInv /\ LedgerInv) /\ [Next]_vars => (IndInv /\ LedgerInv)'
      BY StepInv, StepLedger
<1>3. LedgerInv => SpentOnce
      BY DEF LedgerInv
<1> QED BY <1>1, <1>2, <1>3, PTL DEF Spec

\* start_mining and append_block: a round that no block interrupts, with
\* transactions that fit together, is never what the node dies of, unless one of
\* them makes the same payment twice.
THEOREM CalmRoundsSurvive == Spec => []CalmRoundSurvives
<1>1. Init => IndInv /\ PoolInv /\ CalmInv
      BY InitInv, InitPool DEF Init, NewRound, CalmInv
<1>2. (IndInv /\ PoolInv /\ CalmInv) /\ [Next]_vars => (IndInv /\ PoolInv /\ CalmInv)'
      BY StepInv, StepPool, StepCalm
<1>3. CalmInv => CalmRoundSurvives
      BY DEF CalmInv, CalmRoundSurvives, Doomed
<1> QED BY <1>1, <1>2, <1>3, PTL DEF Spec

\* add_tx against append_block: between blocks, a mined transaction is in the
\* pool only if a mined one with an equal output evicted it there while it was
\* being mined.
THEOREM MinedTransactionsLeave ==
  ASSUME OutputsDiffer
  PROVE  Spec => []MinedLeavesPool
<1> DEFINE I == IndInv /\ LedgerInv /\ PoolInv /\ EvictInv
<1>1. Init => I
      BY InitInv, InitLedger, InitPool, InitEvict
<1>2. I /\ [Next]_vars => I'
      BY StepInv, StepLedger, StepPool, StepEvict
<1>3. I => MinedLeavesPool
      BY DEF EvictInv, MinedAreLeaving, StillToSpend, Rival, MinedLeavesPool
<1> QED BY <1>1, <1>2, <1>3, PTL DEF Spec
-----------------------------------------------------------------------------
(* The pool in the node *)

\* MemPool, with what is proved about it.
MemPoolOf == INSTANCE MemPool_proofs WITH Bodies <- SpentBodies, status <- PoolStatus

\* A block's transactions are gone through while its append_block holds
\* chain_mu_, and what a round takes from the pool is of a body's length.
SpendsInOrder ==
  /\ spending # <<>> => ~ChainFree
  /\ mining.at \in {"comps", "args", "mined"} => mining.txs \in SeqOf(Tx, Limit)
  /\ ~ChainFree => Last(chain).body \in SpentBodies

LEMMA ShortSeqs ==
  ASSUME NEW s \in Seq(Tx), Len(s) <= Limit
  PROVE  s \in SeqOf(Tx, Limit)
<1>1. Len(s) \in 0..Limit /\ s \in [1..Len(s) -> Tx]
  BY MiningAssumption
<1>2. QED
  BY <1>1 DEF SeqOf

\* get_top hands out no more than Limit transactions.
LEMMA TopsAreShort ==
  ASSUME IndInv, NEW top \in Tops
  PROVE  [i \in DOMAIN top |-> top[i][2]] \in SeqOf(Tx, Limit)
<1> DEFINE n == Min({Limit, Cardinality(ranked)})
           txs == [i \in DOMAIN top |-> top[i][2]]
<1>1. PICK P \in SUBSET ranked : Cardinality(P) = n /\ top \in SetToSeqs(P)
  BY DEF Tops, kSubset
<1>2. DOMAIN top = 1..n
  BY <1>1 DEF SetToSeqs
<1>3. n \in Nat /\ n <= Limit
  <2>1. Cardinality(ranked) \in Nat /\ Limit \in Nat
    BY FS_CardinalityType, MiningAssumption DEF IndInv
  <2> DEFINE m == IF Limit <= Cardinality(ranked) THEN Limit ELSE Cardinality(ranked)
  <2>2. m \in {Limit, Cardinality(ranked)} /\ \A y \in {Limit, Cardinality(ranked)} : m <= y
    BY <2>1
  <2>3. n \in {Limit, Cardinality(ranked)} /\ \A y \in {Limit, Cardinality(ranked)} : n <= y
    BY <2>2 DEF Min
  <2>4. QED
    BY <2>1, <2>3
<1>4. txs \in Seq(Tx)
  BY TopsAreSeqs
<1>5. Len(txs) = n
  <2>1. DOMAIN txs = 1..n
    BY <1>2
  <2>2. QED
    BY <1>3, <1>4, <2>1
<1>6. QED
  BY <1>3, <1>4, <1>5, ShortSeqs

LEMMA InitInOrder == Init => SpendsInOrder
BY DEF Init, Pool!Init, NotAppending, NewRound, SpendsInOrder, ChainFree

\* A block goes onto the chain while none is on its way through the pool.
LEMMA PushInOrder ==
  ASSUME IndInv, SpendsInOrder, ChainFree, NEW by \in {"io", "main"},
         NEW body \in SpentBodies \cap Seq(Tx), NEW comps, NEW coinbase, NEW again,
         PushBlock(by, body, comps, coinbase, again), UNCHANGED spending,
         mining'.at \in {"comps", "args", "mined"} =>
           mining.at \in {"comps", "args", "mined"} /\ mining'.txs = mining.txs
  PROVE  SpendsInOrder'
<1>1. Last(chain').body = body
  BY PushedBody
<1>2. spending' = <<>>
  BY DEF SpendsInOrder
<1>3. QED
  BY <1>1, <1>2 DEF SpendsInOrder, SpentBodies

LEMMA StepInOrder == IndInv /\ SpendsInOrder /\ [Next]_vars => SpendsInOrder'
<1> SUFFICES ASSUME IndInv, SpendsInOrder, [Next]_vars PROVE SpendsInOrder'
  OBVIOUS
<1>1. ASSUME UNCHANGED chain, appending'.by = appending.by,
             spending' # <<>> => spending # <<>> \/ ~ChainFree,
             mining'.at \in {"comps", "args", "mined"} =>
               mining'.txs \in SeqOf(Tx, Limit)
      PROVE  SpendsInOrder'
  BY <1>1 DEF SpendsInOrder, ChainFree, SpentBodies
<1>2. mining' = mining =>
        (mining'.at \in {"comps", "args", "mined"} => mining'.txs \in SeqOf(Tx, Limit))
  BY DEF SpendsInOrder
<1>3. CASE SpendPool
  <2>1. UNCHANGED <<chain, mining>> /\ ~ChainFree /\ appending'.by = appending.by
    BY <1>3 DEF SpendPool, IndInv, TypeOK
  <2>2. QED
    BY <1>1, <1>2, <2>1
<1>4. ASSUME NEW t \in Tx, SpendPooledTx(t)
      PROVE  SpendsInOrder'
  BY <1>1, <1>2, <1>4 DEF SpendPooledTx, Pool!SpendTx
<1>5. CASE SpendComps
  <2>1. spending' = <<>> /\ appending' = NotAppending
        /\ mining' = (IF appending.by = "main" THEN NewRound ELSE mining)
    BY <1>5 DEF SpendComps, poolVars
  <2>2. mining' = mining \/ mining'.at = "top"
    BY <2>1 DEF NewRound
  <2>3. QED
    BY <1>2, <2>1, <2>2 DEF SpendsInOrder, NotAppending, ChainFree, SpentBodies
<1>6. ASSUME NEW body \in Received, NEW comps \in SUBSET Comp, ReceiveBlock(body, comps)
      PROVE  SpendsInOrder'
  <2>1. body \in SpentBodies \cap Seq(Tx)
    BY MiningAssumption DEF SpentBodies
  <2>2. ChainFree /\ PushBlock("io", body, comps, 0, {}) /\ UNCHANGED spending
        /\ mining'.at = mining.at /\ mining'.txs = mining.txs
    BY <1>6 DEF ReceiveBlock, poolVars, IndInv, TypeOK
  <2>3. QED
    BY <2>1, <2>2, PushInOrder
<1>7. CASE AppendOwn
  <2>1. /\ ChainFree /\ UNCHANGED spending /\ mining.at = "mined"
        /\ PushBlock("main", mining.txs, mining.comps, mining.height, mining.again)
        /\ mining' = [mining EXCEPT !.at = "appending"]
    BY <1>7 DEF AppendOwn, AddingOwn
  <2>2. mining.txs \in SpentBodies \cap Seq(Tx)
    BY <2>1 DEF SpendsInOrder, SpentBodies, IndInv, TypeOK
  <2>3. mining'.at = "appending"
    BY <2>1 DEF IndInv, TypeOK
  <2>4. QED
    BY <2>1, <2>2, <2>3, PushInOrder
<1>8. CASE GetTop
  <2>1. /\ UNCHANGED <<spending, chain, appending>>
        /\ \E top \in Tops : mining'.txs = [i \in DOMAIN top |-> top[i][2]]
    BY <1>8 DEF GetTop, poolVars, IndInv, TypeOK
  <2>2. mining'.txs \in SeqOf(Tx, Limit)
    BY <2>1, TopsAreShort
  <2>3. QED
    BY <1>1, <2>1, <2>2
<1>9. CASE Collect \/ ReadHead \/ ReadHeight \/ Mine
  <2>1. /\ UNCHANGED <<spending, chain, appending>> /\ mining.at \in {"comps", "args"}
        /\ mining'.txs = mining.txs
    BY <1>9 DEF Collect, ReadHead, ReadHeight, Mine, poolVars, IndInv, TypeOK
  <2>2. QED
    BY <1>1, <2>1 DEF SpendsInOrder
<1>10. CASE CollectTooFew \/ OwnIsTooOld \/ MineFails
  <2>1. UNCHANGED <<spending, chain, appending>> /\ mining'.at = "top"
    BY <1>10 DEF CollectTooFew, OwnIsTooOld, MineFails, AddingOwn, poolVars, NewRound
  <2>2. QED
    BY <1>1, <2>1
<1>11. CASE OwnIsStale \/ OwnDoesNotApply \/ UNCHANGED vars
  BY <1>1, <1>2, <1>11 DEF OwnIsStale, OwnDoesNotApply, AddingOwn, vars, poolVars
<1>12. ASSUME NEW t \in Tx, StartAddTx(t) \/ AddTx(t)
       PROVE  SpendsInOrder'
  BY <1>1, <1>2, <1>12 DEF StartAddTx, AddTx, Pool!AddValidTx, poolVars
<1>13. ASSUME NEW o \in OutPoint, CheckInput(o)
       PROVE  SpendsInOrder'
  BY <1>1, <1>2, <1>13 DEF CheckInput, poolVars
<1>14. ASSUME NEW c \in Comp, AddComputation(c)
       PROVE  SpendsInOrder'
  BY <1>1, <1>2, <1>14 DEF AddComputation, poolVars
<1>15. QED
  BY <1>3, <1>4, <1>5, <1>6, <1>7, <1>8, <1>9, <1>10, <1>11, <1>12, <1>13, <1>14
     DEF Next, AppendStep, AddTxStep, MiningStep

\* The pool is not touched, unless it may be that the node dies.
LEMMA PoolUntouched ==
  ASSUME UNCHANGED <<storage, ranked, refs, spending>>,
         spending = <<>> \/ status' = status
  PROVE  UNCHANGED PoolAlone!vars
BY DEF PoolAlone!vars, PoolStatus

LEMMA PoolSpendsTx ==
  ASSUME NEW t \in Tx, Pool!SpendTx(t)
  PROVE  PoolAlone!SpendTx(t)
<1>1. /\ status = "running" /\ spending # <<>> /\ t = Head(spending)
      /\ spending' = IF status' = "running" THEN Tail(spending) ELSE spending
      /\ Pool!SpendMissing(t) \/ Pool!SpendPooled(t) \/ Pool!SpendAborts(t)
  BY DEF Pool!SpendTx
<1>2. PoolStatus = "running"
  BY <1>1 DEF PoolStatus
<1>3. PoolStatus' = status'
  <2>1. status' = "running" => PoolStatus' = "running"
    BY DEF PoolStatus
  <2>2. status' # "running" => spending' # <<>>
    BY <1>1
  <2>3. QED
    BY <2>1, <2>2 DEF PoolStatus
<1>4. PoolAlone!Evicted(t) = Pool!Evicted(t) /\ (PoolAlone!KeyMissing(t) <=> Pool!KeyMissing(t))
  BY DEF PoolAlone!Evicted, Pool!Evicted, PoolAlone!KeyMissing, Pool!KeyMissing,
         PoolAlone!EqualOutputs, Pool!EqualOutputs, PoolAlone!ToSet, Pool!ToSet
<1>5. /\ \A S : PoolAlone!Ranked(S) = Pool!Ranked(S)
      /\ \A s : PoolAlone!ToSet(s) = Pool!ToSet(s)
  BY DEF PoolAlone!Ranked, Pool!Ranked, PoolAlone!ToSet, Pool!ToSet
<1>6. CASE Pool!SpendMissing(t)
  BY <1>1, <1>2, <1>3, <1>6 DEF Pool!SpendMissing, PoolAlone!SpendMissing, PoolAlone!SpendTx
<1>7. CASE Pool!SpendPooled(t)
  BY <1>1, <1>2, <1>3, <1>4, <1>5, <1>7
     DEF Pool!SpendPooled, PoolAlone!SpendPooled, PoolAlone!SpendTx
<1>8. CASE Pool!SpendAborts(t)
  BY <1>1, <1>2, <1>3, <1>4, <1>8
     DEF Pool!SpendAborts, PoolAlone!SpendAborts, PoolAlone!SpendTx
<1>9. QED
  BY <1>1, <1>6, <1>7, <1>8

LEMMA PoolAddsTx ==
  ASSUME NEW t \in Tx, Pool!AddValidTx(t)
  PROVE  PoolAlone!AddValidTx(t)
<1>1. status = "running" /\ spending = <<>> /\ UNCHANGED <<spending, status>>
  BY DEF Pool!AddValidTx, Pool!Unlocked
<1>2. PoolStatus = "running" /\ PoolStatus' = "running"
  BY <1>1 DEF PoolStatus
<1>3. QED
  BY <1>1, <1>2 DEF Pool!AddValidTx, PoolAlone!AddValidTx, PoolAlone!Unlocked,
                    Pool!Ranked, PoolAlone!Ranked, Pool!ToSet, PoolAlone!ToSet

LEMMA StepOfPool == IndInv /\ SpendsInOrder /\ [Next]_vars => [PoolAlone!Next]_(PoolAlone!vars)
<1> SUFFICES ASSUME IndInv, SpendsInOrder, [Next]_vars
             PROVE  PoolAlone!Next \/ UNCHANGED PoolAlone!vars
  OBVIOUS
<1>1. CASE SpendPool
  <2>1. /\ ~ChainFree /\ status = "running" /\ spending = <<>>
        /\ spending' = Last(chain).body
        /\ UNCHANGED <<storage, ranked, refs, status>>
    BY <1>1 DEF SpendPool, Pool!SpendBlock, Pool!Unlocked
  <2>2. PoolStatus = "running" /\ PoolStatus' = "running"
    BY <2>1 DEF PoolStatus
  <2>3. Last(chain).body \in SpentBodies
    BY <2>1 DEF SpendsInOrder
  <2>4. PoolAlone!SpendBlock(Last(chain).body)
    BY <2>1, <2>2 DEF PoolAlone!SpendBlock, PoolAlone!Unlocked
  <2>5. QED
    BY <2>3, <2>4 DEF PoolAlone!Next
<1>2. ASSUME NEW t \in Tx, SpendPooledTx(t)
      PROVE  PoolAlone!Next
  BY <1>2, PoolSpendsTx DEF SpendPooledTx, PoolAlone!Next
<1>3. ASSUME NEW t \in Tx, AddTx(t)
      PROVE  PoolAlone!Next
  BY <1>3, PoolAddsTx DEF AddTx, PoolAlone!Next
<1>4. CASE SpendComps
  BY <1>4, PoolUntouched DEF SpendComps, poolVars
<1>5. ASSUME NEW body \in Received, NEW comps \in SUBSET Comp, ReceiveBlock(body, comps)
      PROVE  UNCHANGED PoolAlone!vars
  BY <1>5, PoolUntouched DEF ReceiveBlock, poolVars
<1>6. CASE OwnIsStale \/ OwnIsTooOld \/ OwnDoesNotApply \/ AppendOwn
  <2>1. ChainFree /\ UNCHANGED <<storage, ranked, refs, spending>>
    BY <1>6 DEF OwnIsStale, OwnIsTooOld, OwnDoesNotApply, AppendOwn, AddingOwn
  <2>2. spending = <<>>
    BY <2>1 DEF SpendsInOrder
  <2>3. QED
    BY <2>1, <2>2, PoolUntouched
<1>7. CASE \/ GetTop \/ Collect \/ CollectTooFew
           \/ ReadHead \/ ReadHeight \/ Mine \/ MineFails
  BY <1>7, PoolUntouched DEF GetTop, Collect, CollectTooFew, ReadHead, ReadHeight, Mine,
                             MineFails, poolVars
<1>8. ASSUME NEW t \in Tx, StartAddTx(t)
      PROVE  UNCHANGED PoolAlone!vars
  BY <1>8, PoolUntouched DEF StartAddTx, poolVars
<1>9. ASSUME NEW o \in OutPoint, CheckInput(o)
      PROVE  UNCHANGED PoolAlone!vars
  BY <1>9, PoolUntouched DEF CheckInput, poolVars
<1>10. ASSUME NEW c \in Comp, AddComputation(c)
       PROVE  UNCHANGED PoolAlone!vars
  BY <1>10, PoolUntouched DEF AddComputation, poolVars
<1>11. CASE UNCHANGED vars
  BY <1>11, PoolUntouched DEF vars, poolVars
<1>12. QED
  BY <1>1, <1>2, <1>3, <1>4, <1>5, <1>6, <1>7, <1>8, <1>9, <1>10, <1>11
     DEF Next, AppendStep, AddTxStep, MiningStep

\* add_tx, append_block and start_mining together use the pool as MemPool says
\* it is used: what two threads do to it in between each other's steps is a
\* behaviour of the pool alone.
THEOREM NodeImplementsMemPool == Spec => ImplementsMemPool
<1>1. Init => PoolAlone!Init
  BY DEF Init, Pool!Init, PoolAlone!Init, PoolStatus
<1>2. QED
  BY <1>1, InitInv, StepInv, InitInOrder, StepInOrder, StepOfPool, PTL
     DEF Spec, ImplementsMemPool, PoolAlone!Spec

\* The same variables and steps, under the name that has the theorems.
LEMMA SamePoolSpec == PoolAlone!Spec => MemPoolOf!Spec
<1>1. PoolAlone!Init => MemPoolOf!Init
  BY DEF PoolAlone!Init, MemPoolOf!Init
<1>2. [PoolAlone!Next]_(PoolAlone!vars) => [MemPoolOf!Next]_(MemPoolOf!vars)
  BY DEF PoolAlone!Next, MemPoolOf!Next, PoolAlone!vars, MemPoolOf!vars,
         PoolAlone!AddValidTx, MemPoolOf!AddValidTx, PoolAlone!SpendTx, MemPoolOf!SpendTx,
         PoolAlone!SpendBlock, MemPoolOf!SpendBlock, PoolAlone!Unlocked, MemPoolOf!Unlocked,
         PoolAlone!SpendMissing, MemPoolOf!SpendMissing,
         PoolAlone!SpendPooled, MemPoolOf!SpendPooled,
         PoolAlone!SpendAborts, MemPoolOf!SpendAborts,
         PoolAlone!KeyMissing, MemPoolOf!KeyMissing,
         PoolAlone!EqualOutputs, MemPoolOf!EqualOutputs,
         PoolAlone!Evicted, MemPoolOf!Evicted, PoolAlone!Ranked, MemPoolOf!Ranked,
         PoolAlone!ToSet, MemPoolOf!ToSet
<1>3. QED
  BY <1>1, <1>2, PTL DEF PoolAlone!Spec, MemPoolOf!Spec

\* MemPoolAssumption, for the bodies that reach the pool.
LEMMA PoolAssumption ==
  /\ Fee \in [Tx -> Nat]
  /\ Pays \in [Tx -> Seq(OutKey)]
  /\ Inputs \in [Tx -> SUBSET OutPoint]
  /\ SpentBodies \subseteq Seq(Tx)
BY MiningAssumption DEF SpentBodies, SeqOf

\* What MemPool promises therefore holds in the node, whatever its two threads
\* do: the mining thread's get_top finds in the storage all that is ranked; the
\* pool aborts the node only for a transaction with equal outputs.
THEOREM PoolServesNode ==
  Spec => [](Pool!RankedIsStorage /\ PoolAlone!AbortNeedsEqualOutputs)
<1>1. MemPoolOf!Spec => []MemPoolOf!RankedIsStorage
  BY PoolAssumption, MemPoolOf!GetTopNeverThrows
<1>2. MemPoolOf!Spec => []MemPoolOf!AbortNeedsEqualOutputs
  BY PoolAssumption, MemPoolOf!AbortOnlyForEqualOutputs
<1>3. MemPoolOf!RankedIsStorage => Pool!RankedIsStorage
  BY DEF MemPoolOf!RankedIsStorage, Pool!RankedIsStorage, MemPoolOf!Ranked, Pool!Ranked
<1>4. MemPoolOf!AbortNeedsEqualOutputs => PoolAlone!AbortNeedsEqualOutputs
  BY DEF MemPoolOf!AbortNeedsEqualOutputs, PoolAlone!AbortNeedsEqualOutputs,
         MemPoolOf!EqualOutputs, PoolAlone!EqualOutputs
<1>5. QED
  BY <1>1, <1>2, <1>3, <1>4, NodeImplementsMemPool, SamePoolSpec, PTL DEF ImplementsMemPool
=============================================================================
