---------------------------- MODULE Wallet_proofs ----------------------------
(***************************************************************************)
(* Theorems about Wallet, for all requests, deposits, chains and reorgs.   *)
(* A transaction is in the chain only once, since what it spends is spent  *)
(* then; so what a block pays to the wallet was never spent before it, and *)
(* filtering and spending a block gives the unspent outputs of the longer  *)
(* chain.  A request that no block overtook finds all its coins live.      *)
(***************************************************************************)
EXTENDS Wallet, TLAPS

Paid(c)  == UNION {PaidBy(c[i]) : i \in DOMAIN c}
Spent(c) == UNION {SpentBy(c[i]) : i \in DOMAIN c}

\* What a block of c spends was paid by an earlier one, and its transactions
\* are finished.
ChainInv(c) ==
  \A i \in DOMAIN c :
    /\ \A r \in c[i].txs : reply[r] = "ok"
    /\ \A d \in SpentBy(c[i]) : \E j \in DOMAIN c : j < i /\ d \in PaidBy(c[j])

\* Before its turn a request has no inputs; in progress and accepted it has.
TxInv ==
  /\ \A r \in Request : /\ reply[r] = "none" /\ rpc.tx # r => inputs[r] = {}
                        /\ reply[r] = "ok" => inputs[r] # {}
  /\ InAddTx => /\ rpc.tx \in Request
                /\ reply[rpc.tx] = "none"
                /\ inputs[rpc.tx] # {}

\* The coins as far as the block being added has come.
CoinsInv ==
  /\ \A o, p \in coins : o[1] = p[1] => o = p
  /\ \A r \in own.block.txs : reply[r] = "ok"
  /\ own.at = "done" => own = NoBlock /\ OutputsOf(coins) = Unspent(chain)
  /\ own.at = "filter" =>
       (OutputsOf(coins) \cup PaidBy(own.block)) \ SpentBy(own.block) = Unspent(chain)
  /\ own.at = "spend" =>
       OutputsOf(coins) \ SpentBy(own.block) = Unspent(chain)

\* A request that no block overtook.
CalmInv ==
  InAddTx /\ rpc.tx \notin raced =>
    /\ own.at = "done"
    /\ rpc.left \subseteq Live
    /\ rpc.at # None => rpc.at \in Live

IInv == /\ TypeOK /\ TxInv /\ SignedForOwner /\ ChainInv(chain) /\ CoinsInv
        /\ CalmInv /\ RefusedNeedsRace

-----------------------------------------------------------------------------
(* Chains *)

LEMMA UnspentDef ==
  ASSUME NEW c PROVE Unspent(c) = Paid(c) \ Spent(c)
BY DEF Unspent, Paid, Spent

\* A valid block pays nothing that was ever spent.
LEMMA NeverSpentBefore ==
  ASSUME TypeOK, TxInv, NEW c \in Seq(Block), NEW b \in Block,
         ChainInv(c), ValidOn(b, c)
  PROVE  PaidBy(b) \cap Spent(c) = {}
<1> SUFFICES ASSUME NEW d \in PaidBy(b), d \in Spent(c) PROVE FALSE
  OBVIOUS
<1>1. PICK i \in DOMAIN c : d \in PaidBy(c[i])
  BY DEF Spent, ChainInv
<1>2. /\ c[i] \in Block /\ b \in Block
      /\ Request \cap Deposit = {}
  BY WalletAssumption
<1>3. CASE d \in Deposit
  <2>1. d \in c[i].pays /\ d \in b.pays
    BY <1>1, <1>2, <1>3 DEF PaidBy, Block
  <2> QED BY <2>1 DEF ValidOn
<1>4. CASE d \in Request
  <2>1. d \in c[i].txs /\ d \in b.txs
    BY <1>1, <1>2, <1>4 DEF PaidBy, Block
  <2>2. reply[d] = "ok" /\ inputs[d] # {}
    BY <1>4, <2>1 DEF ValidOn, TxInv
  <2>3. PICK o \in inputs[d] : TRUE
    BY <2>2
  <2>4. o[1] \in OutputsOf(inputs[d])
    BY <2>3 DEF OutputsOf
  <2>5. o[1] \in Spent(c)
    BY <2>1, <2>4 DEF Spent, SpentBy
  <2>6. o[1] \in Unspent(c)
    BY <2>1, <2>4 DEF ValidOn
  <2> QED BY <2>5, <2>6, UnspentDef
<1>5. d \in Deposit \/ d \in Request
  BY <1>2 DEF PaidBy, Block
<1> QED BY <1>3, <1>4, <1>5

\* A valid block extends the chain.
LEMMA AppendValid ==
  ASSUME TypeOK, TxInv, NEW c \in Seq(Block), NEW b \in Block,
         ChainInv(c), ValidOn(b, c)
  PROVE  /\ Append(c, b) \in Seq(Block)
         /\ ChainInv(Append(c, b))
         /\ Unspent(Append(c, b)) = (Unspent(c) \cup PaidBy(b)) \ SpentBy(b)
<1> DEFINE e == Append(c, b)
<1>1. /\ e \in Seq(Block)
      /\ DOMAIN e = DOMAIN c \cup {Len(c) + 1} /\ e[Len(c) + 1] = b
      /\ \A i \in DOMAIN c : e[i] = c[i] /\ i < Len(c) + 1
  OBVIOUS
<1> HIDE DEF e
<1>2. Paid(e) = Paid(c) \cup PaidBy(b) /\ Spent(e) = Spent(c) \cup SpentBy(b)
  BY <1>1 DEF Paid, Spent
<1>3. Unspent(e) = (Unspent(c) \cup PaidBy(b)) \ SpentBy(b)
  BY <1>2, UnspentDef, NeverSpentBefore
<1>4. SpentBy(b) \subseteq Paid(c)
  BY UnspentDef DEF ValidOn, SpentBy
<1>5. ChainInv(e)
  <2> SUFFICES ASSUME NEW i \in DOMAIN e
               PROVE  /\ \A r \in e[i].txs : reply[r] = "ok"
                      /\ \A d \in SpentBy(e[i]) :
                           \E j \in DOMAIN e : j < i /\ d \in PaidBy(e[j])
    BY DEF ChainInv
  <2>1. CASE i \in DOMAIN c
    <3>1. e[i] = c[i]
      BY <1>1, <2>1
    <3>2. \A d \in SpentBy(c[i]) : \E j \in DOMAIN c : j < i /\ d \in PaidBy(c[j])
      BY <2>1 DEF ChainInv
    <3>3. \A r \in c[i].txs : reply[r] = "ok"
      BY <2>1 DEF ChainInv
    <3> QED BY <1>1, <3>1, <3>2, <3>3
  <2>2. CASE i = Len(c) + 1
    <3>1. \A r \in b.txs : reply[r] = "ok"
      BY DEF ValidOn
    <3>2. \A d \in SpentBy(b) : \E j \in DOMAIN c : d \in PaidBy(c[j])
      BY <1>4 DEF Paid
    <3> QED BY <1>1, <2>2, <3>1, <3>2
  <2> QED BY <1>1, <2>1, <2>2
<1> QED BY <1>1, <1>3, <1>5 DEF e

LEMMA FrontOfChain ==
  ASSUME NEW c \in Seq(Block), c # <<>>, ChainInv(c)
  PROVE  /\ SubSeq(c, 1, Len(c) - 1) \in Seq(Block)
         /\ ChainInv(SubSeq(c, 1, Len(c) - 1))
<1> DEFINE e == SubSeq(c, 1, Len(c) - 1)
<1>1. /\ e \in Seq(Block) /\ DOMAIN e = 1 .. Len(c) - 1
      /\ DOMAIN c = 1 .. Len(c) /\ Len(c) \in Nat
      /\ \A i \in DOMAIN e : i \in DOMAIN c /\ e[i] = c[i]
  OBVIOUS
<1> HIDE DEF e
<1>2. \A i \in DOMAIN e, j \in DOMAIN c : j < i => j \in DOMAIN e
  BY <1>1
<1>3. ChainInv(e)
  BY <1>1, <1>2 DEF ChainInv
<1> QED BY <1>1, <1>3 DEF e

\* Finished transactions stay as they are in every step, and with them what
\* their blocks pay and spend.
FinishedStay ==
  \A r \in Request : reply[r] = "ok" =>
    reply'[r] = "ok" /\ inputs'[r] = inputs[r] /\ change'[r] = change[r]

LEMMA SameBlock ==
  ASSUME FinishedStay, NEW b \in Block, \A r \in b.txs : reply[r] = "ok"
  PROVE  /\ (PaidBy(b))' = PaidBy(b)
         /\ (SpentBy(b))' = SpentBy(b)
         /\ \A r \in b.txs : reply'[r] = "ok"
<1>1. \A r \in b.txs : r \in Request
  BY DEF Block
<1> QED BY <1>1 DEF PaidBy, SpentBy, FinishedStay, OutputsOf

LEMMA SameChain ==
  ASSUME FinishedStay, chain \in Seq(Block), ChainInv(chain), UNCHANGED chain
  PROVE  /\ ChainInv(chain)'
         /\ (Unspent(chain))' = Unspent(chain)
<1>1. ASSUME NEW i \in DOMAIN chain
      PROVE  /\ (PaidBy(chain[i]))' = PaidBy(chain[i])
             /\ (SpentBy(chain[i]))' = SpentBy(chain[i])
             /\ \A r \in chain[i].txs : reply'[r] = "ok"
  <2>1. PICK b \in Block : b = chain[i]
    OBVIOUS
  <2>2. \A r \in b.txs : reply[r] = "ok"
    BY <2>1 DEF ChainInv
  <2>3. /\ (PaidBy(b))' = PaidBy(b)
        /\ (SpentBy(b))' = SpentBy(b)
        /\ \A r \in b.txs : reply'[r] = "ok"
    BY <2>2, SameBlock
  <2>4. (chain[i])' = b
    BY <2>1
  <2> QED BY <2>1, <2>3, <2>4 DEF PaidBy, SpentBy
<1>2. ChainInv(chain)'
  BY <1>1 DEF ChainInv
<1>3. (Unspent(chain))' = Unspent(chain)
  BY <1>1 DEF Unspent
<1> QED BY <1>2, <1>3
-----------------------------------------------------------------------------
(* The actions *)

LEMMA InitInv == Init => IInv
<1> SUFFICES ASSUME Init PROVE IInv
  OBVIOUS
<1> USE WalletAssumption DEF Init, NoBlock, NoRequest
<1>1. TypeOK
  BY DEF TypeOK, Block, Reply
<1>2. Unspent(chain) = {} /\ OutputsOf(coins) = {}
  BY DEF Unspent, OutputsOf
<1>3. CoinsInv
  BY <1>2 DEF CoinsInv
<1>4. TxInv /\ ChainInv(chain) /\ CalmInv /\ ~InAddTx
  BY DEF TxInv, ChainInv, CalmInv, InAddTx
<1>5. SignedForOwner /\ RefusedNeedsRace
  BY DEF SignedForOwner, RefusedNeedsRace
<1> QED BY <1>1, <1>3, <1>4, <1>5 DEF IInv

\* A request that is not in progress and has no answer yet has no inputs, and
\* the new transaction's are fresh.
LEMMA NewTransactionInv ==
  ASSUME IInv, NEW r \in Request, NewTransaction(r)
  PROVE  IInv'
<1> USE DEF IInv
<1>1. PICK S \in Collected(r) :
        /\ CanSign(S)
        /\ inputs' = [inputs EXCEPT ![r] = S]
        /\ change' = [change EXCEPT ![r] = Total(S) - Need[r]]
        /\ signature' = [o \in DOMAIN signature \cup S |->
                           IF o \in S THEN r ELSE signature[o]]
        /\ rpc' = [tx |-> r, left |-> OutputsOf(S), at |-> None]
  BY DEF NewTransaction
<1>2. /\ reply[r] = "none" /\ ~InAddTx /\ rpc.tx # r /\ inputs[r] = {}
      /\ raced' = IF own = NoBlock THEN raced ELSE raced \cup {r}
      /\ UNCHANGED <<chain, coins, reply, own, made, reorgs>>
  BY WalletAssumption DEF NewTransaction, Asks, InAddTx, NoRequest, TxInv
<1>3. /\ S \subseteq coins /\ S \subseteq Object /\ S # {}
      /\ Total(S) - Need[r] \in Nat
      /\ OutputsOf(S) \subseteq Output
      /\ S \cap DOMAIN signature = {}
  BY <1>1 DEF Collected, TypeOK, Object, OutputsOf, CanSign, Unsigned
<1>4. TypeOK'
  <2>1. inputs' \in [Request -> SUBSET Object] /\ change' \in [Request -> Nat]
    BY <1>1, <1>3 DEF TypeOK
  <2>2. /\ DOMAIN signature' \subseteq Object
        /\ \A o \in DOMAIN signature' : signature'[o] \in Request
    BY <1>1, <1>3 DEF TypeOK
  <2>3. rpc' \in [tx : Request \cup {None}, left : SUBSET Output, at : Output \cup {None}]
    BY <1>1, <1>3
  <2> QED BY <1>2, <2>1, <2>2, <2>3 DEF TypeOK
<1>5. TxInv'
  <2>1. rpc.tx = None /\ None \notin Request
    BY <1>2, WalletAssumption DEF InAddTx, NoRequest
  <2>2. ASSUME NEW q \in Request
        PROVE  /\ reply'[q] = "none" /\ rpc'.tx # q => inputs'[q] = {}
               /\ reply'[q] = "ok" => inputs'[q] # {}
    BY <1>1, <1>2, <1>3, <2>1 DEF TxInv, TypeOK
  <2>3. rpc'.tx = r /\ reply'[r] = "none" /\ inputs'[r] # {}
    BY <1>1, <1>2, <1>3 DEF TypeOK
  <2> QED BY <2>2, <2>3 DEF TxInv
<1>6. SignedForOwner'
  <2>1. ASSUME NEW q \in Request
        PROVE  {o \in DOMAIN signature' : signature'[o] = q} = inputs'[q]
    <3>1. CASE q = r
      <4>1. \A o \in DOMAIN signature : signature[o] # r
        BY <1>2 DEF SignedForOwner
      <4>2. {o \in DOMAIN signature' : signature'[o] = r} = S
        BY <1>1, <1>3, <4>1
      <4> QED BY <1>1, <3>1, <4>2 DEF TypeOK
    <3>2. CASE q # r
      <4>1. {o \in DOMAIN signature' : signature'[o] = q}
              = {o \in DOMAIN signature : signature[o] = q}
        BY <1>1, <1>3, <3>2
      <4> QED BY <1>1, <3>2, <4>1 DEF SignedForOwner, TypeOK
    <3> QED BY <3>1, <3>2
  <2> QED BY <2>1 DEF SignedForOwner
<1>7. FinishedStay
  BY <1>1, <1>2 DEF FinishedStay, TypeOK
<1>8. ChainInv(chain)' /\ (Unspent(chain))' = Unspent(chain)
  BY <1>2, <1>7, SameChain DEF TypeOK
<1>9. CoinsInv'
  <2>1. PICK b \in Block : b = own.block
    BY DEF TypeOK
  <2>2. /\ (PaidBy(b))' = PaidBy(b) /\ (SpentBy(b))' = SpentBy(b)
        /\ \A q \in b.txs : reply'[q] = "ok"
    BY <1>7, <2>1, SameBlock DEF CoinsInv
  <2>3. /\ (PaidBy(own.block))' = PaidBy(own.block)
        /\ (SpentBy(own.block))' = SpentBy(own.block)
    BY <1>2, <2>1, <2>2 DEF PaidBy, SpentBy
  <2>4. (OutputsOf(coins))' = OutputsOf(coins) /\ NoBlock' = NoBlock
    BY <1>2 DEF OutputsOf, NoBlock
  <2> QED BY <1>2, <1>8, <2>1, <2>2, <2>3, <2>4 DEF CoinsInv
<1>10. CalmInv'
  <2> SUFFICES ASSUME r \notin raced'
               PROVE  own.at = "done" /\ OutputsOf(S) \subseteq (Live)'
    BY <1>1, <1>2 DEF CalmInv
  <2>1. own = NoBlock
    BY <1>2
  <2>2. own.at = "done" /\ OutputsOf(coins) = Unspent(chain)
    BY <2>1 DEF CoinsInv, NoBlock
  <2> QED BY <1>3, <1>8, <2>2 DEF Live, OutputsOf
<1>11. RefusedNeedsRace'
  BY <1>2 DEF RefusedNeedsRace
<1> QED BY <1>4, <1>5, <1>6, <1>8, <1>9, <1>10, <1>11
\* The answer to a request.  A refusal is for one that a block overtook.
LEMMA AnswerInv ==
  ASSUME IInv, NEW r \in Request, NEW answer \in Reply \ {"none"},
         Answer(r, answer), reply[r] = "none",
         InAddTx => r = rpc.tx,
         answer = "ok" => InAddTx,
         answer \in {"refused", "thrown"} => r \in raced,
         UNCHANGED <<chain, coins, signature, inputs, change, own, made, reorgs, raced>>
  PROVE  IInv'
<1> USE DEF IInv
<1>1. /\ reply' = [reply EXCEPT ![r] = answer] /\ rpc' = NoRequest
      /\ reply \in [Request -> Reply] /\ chain \in Seq(Block)
  BY DEF Answer, TypeOK
<1>2. TypeOK'
  <2>1. reply' \in [Request -> Reply]
    BY <1>1
  <2>2. rpc' \in [tx : Request \cup {None}, left : SUBSET Output, at : Output \cup {None}]
    BY <1>1 DEF NoRequest
  <2> QED BY <2>1, <2>2 DEF TypeOK
<1>3. ~InAddTx'
  BY <1>1 DEF InAddTx, NoRequest
<1>4. TxInv'
  <2>1. ASSUME NEW q \in Request
        PROVE  /\ reply'[q] = "none" => inputs'[q] = {}
               /\ reply'[q] = "ok" => inputs'[q] # {}
    <3>1. CASE q = r
      BY <1>1, <3>1 DEF TxInv
    <3>2. CASE q # r
      <4>1. rpc.tx # q
        BY <3>2, WalletAssumption DEF InAddTx, NoRequest
      <4> QED BY <1>1, <3>2, <4>1 DEF TxInv
    <3> QED BY <3>1, <3>2
  <2> QED BY <1>3, <2>1 DEF TxInv
<1>5. FinishedStay
  BY <1>1 DEF FinishedStay
<1>6. ChainInv(chain)' /\ (Unspent(chain))' = Unspent(chain)
  BY <1>1, <1>5, SameChain
<1>7. CoinsInv'
  <2>1. \A q \in own.block.txs : q \in Request
    BY DEF TypeOK, Block
  <2>2. \A q \in own.block.txs : reply'[q] = "ok"
    BY <1>5, <2>1 DEF CoinsInv, FinishedStay
  <2>3. /\ (PaidBy(own.block))' = PaidBy(own.block)
        /\ (SpentBy(own.block))' = SpentBy(own.block)
        /\ (OutputsOf(coins))' = OutputsOf(coins) /\ NoBlock' = NoBlock
    BY DEF PaidBy, SpentBy, OutputsOf, NoBlock
  <2> QED BY <1>6, <2>2, <2>3 DEF CoinsInv
<1>8. SignedForOwner' /\ RefusedNeedsRace'
  BY <1>1 DEF SignedForOwner, RefusedNeedsRace
<1> QED BY <1>2, <1>3, <1>4, <1>6, <1>7, <1>8 DEF CalmInv

LEMMA RequestInv ==
  ASSUME IInv, NEW r \in Request, CannotPay(r) \/ CannotSign(r)
  PROVE  IInv'
<1>1. PICK answer \in {"unpaid", "signed"} : Answer(r, answer)
  BY DEF CannotPay, CannotSign
<1> QED BY <1>1, AnswerInv DEF CannotPay, CannotSign, Asks, InAddTx, Reply

\* add_tx: while no block overtook the request, its coins are live.
LEMMA AddTxInv ==
  ASSUME IInv, \/ \E o \in Output : InputExists(o) \/ InputMissing(o)
               \/ InputRead \/ Pools
  PROVE  IInv'
<1> USE DEF IInv
<1>1. /\ InAddTx /\ rpc.tx \in Request /\ reply[rpc.tx] = "none"
      /\ rpc \in [tx : Request \cup {None}, left : SUBSET Output, at : Output \cup {None}]
  BY DEF InputExists, InputMissing, InputRead, Pools, TxInv, TypeOK
<1>2. ASSUME NEW at \in Output \cup {None}, at # None => at \in Live,
             NEW left \in SUBSET rpc.left,
             rpc' = [rpc EXCEPT !.at = at, !.left = left],
             UNCHANGED <<chain, coins, signature, inputs, change, reply, own,
                         made, reorgs, raced>>
      PROVE  IInv'
  <2>1. TypeOK'
    BY <1>1, <1>2 DEF TypeOK
  <2>2. rpc'.tx = rpc.tx /\ rpc'.left = left /\ rpc'.at = at
    BY <1>1, <1>2
  <2>3. TxInv'
    BY <1>1, <1>2, <2>2 DEF TxInv
  <2>4. CalmInv'
    BY <1>1, <1>2, <2>2 DEF CalmInv, Live, Unspent, PaidBy, SpentBy, OutputsOf
  <2>5. ChainInv(chain)'
    BY <1>2 DEF ChainInv, PaidBy, SpentBy, OutputsOf
  <2>6. CoinsInv'
    <3>1. /\ (Unspent(chain))' = Unspent(chain)
          /\ (PaidBy(own.block))' = PaidBy(own.block)
          /\ (SpentBy(own.block))' = SpentBy(own.block)
          /\ (OutputsOf(coins))' = OutputsOf(coins) /\ NoBlock' = NoBlock
      BY <1>2 DEF Unspent, PaidBy, SpentBy, OutputsOf, NoBlock
    <3> QED BY <1>2, <3>1 DEF CoinsInv
  <2>7. SignedForOwner' /\ RefusedNeedsRace'
    BY <1>2 DEF SignedForOwner, RefusedNeedsRace
  <2> QED BY <2>1, <2>3, <2>4, <2>5, <2>6, <2>7
<1>3. ASSUME NEW o \in Output, InputExists(o)
      PROVE  IInv'
  <2>1. rpc' = [rpc EXCEPT !.at = o, !.left = rpc.left]
    BY <1>1, <1>3 DEF InputExists
  <2> QED BY <1>2, <1>3, <2>1 DEF InputExists
<1>4. ASSUME NEW o \in Output, InputMissing(o)
      PROVE  IInv'
  <2>1. rpc.tx \in raced
    BY <1>1, <1>4 DEF InputMissing, CalmInv
  <2>2. "refused" \in Reply \ {"none"}
    BY DEF Reply
  <2> QED BY <1>1, <1>4, <2>1, <2>2, AnswerInv DEF InputMissing
<1>5. CASE InputRead
  <2>1. CASE rpc.at \in Live
    <3>1. rpc' = [rpc EXCEPT !.at = None, !.left = rpc.left \ {rpc.at}]
      BY <1>1, <1>5, <2>1 DEF InputRead
    <3> QED BY ZenonT(40), <1>2, <1>5, <2>1, <3>1 DEF InputRead
  <2>2. CASE rpc.at \notin Live
    <3>1. rpc.tx \in raced
      BY <1>1, <1>5, <2>2 DEF InputRead, CalmInv
    <3>2. "thrown" \in Reply \ {"none"}
      BY DEF Reply
    <3> QED BY <1>1, <1>5, <2>2, <3>1, <3>2, AnswerInv DEF InputRead
  <2> QED BY <2>1, <2>2
<1>6. CASE Pools
  <2>1. \A o \in inputs[rpc.tx] : signature[o] = rpc.tx
    BY <1>1 DEF SignedForOwner
  <2>2. Answer(rpc.tx, "ok") /\ "ok" \in Reply \ {"none"}
    BY <1>6, <2>1 DEF Pools, Reply
  <2> QED BY <1>1, <1>6, <2>2, AnswerInv DEF Pools
<1> QED BY <1>3, <1>4, <1>5, <1>6

-----------------------------------------------------------------------------
(* Blocks *)

LEMMA SpentOutputs ==
  ASSUME NEW b, NEW old
  PROVE  OutputsOf(SpentFrom(b, old)) = OutputsOf(old) \ SpentBy(b)
BY DEF OutputsOf, SpentFrom

LEMMA FilteredOutputs ==
  ASSUME NEW b, NEW old
  PROVE  OutputsOf(Filtered(b, old)) = OutputsOf(old) \cup PaidBy(b)
<1> DEFINE new == {<<o, made + 1>> : o \in PaidBy(b)}
<1>1. \A d \in PaidBy(b) : <<d, made + 1>> \in new /\ <<d, made + 1>>[1] = d
  OBVIOUS
<1>2. OutputsOf(Filtered(b, old)) \subseteq OutputsOf(old) \cup PaidBy(b)
  BY DEF OutputsOf, Filtered
<1>3. ASSUME NEW d \in OutputsOf(old) \cup PaidBy(b)
      PROVE  d \in OutputsOf(Filtered(b, old))
  <2>1. CASE d \in PaidBy(b)
    BY <1>1, <2>1 DEF OutputsOf, Filtered
  <2>2. CASE d \notin PaidBy(b)
    BY <1>3, <2>2 DEF OutputsOf, Filtered
  <2> QED BY <2>1, <2>2
<1> QED BY <1>2, <1>3

\* One object for each output, of the right type, after each update.
OneEach(objects) == \A o, p \in objects : o[1] = p[1] => o = p

LEMMA UpdatesKeepOne ==
  ASSUME TypeOK, NEW b \in Block, NEW old \in SUBSET Object, OneEach(old)
  PROVE  /\ OneEach(Filtered(b, old)) /\ Filtered(b, old) \subseteq Object
         /\ OneEach(SpentFrom(b, old)) /\ SpentFrom(b, old) \subseteq Object
<1>1. PaidBy(b) \subseteq Output
  BY DEF PaidBy, Block, Output
<1> QED BY SMTT(30), <1>1 DEF OneEach, Filtered, SpentFrom, Object, TypeOK

LEMMA RescannedCoins ==
  ASSUME TypeOK, NEW c \in Seq(Block)
  PROVE  /\ OneEach(Rescanned(c)) /\ Rescanned(c) \subseteq Object
         /\ OutputsOf(Rescanned(c)) = Unspent(c)
<1>1. Unspent(c) \subseteq Output
  <2>1. \A i \in DOMAIN c : c[i] \in Block
    OBVIOUS
  <2> QED BY <2>1 DEF Unspent, PaidBy, Block, Output
<1>2. \A o \in Unspent(c) : <<o, made + 1>>[1] = o
  OBVIOUS
<1>3. OutputsOf(Rescanned(c)) = Unspent(c)
  BY <1>2 DEF OutputsOf, Rescanned
<1>4. OneEach(Rescanned(c))
  BY DEF OneEach, Rescanned
<1>5. Rescanned(c) \subseteq Object
  <2>1. made + 1 \in Nat
    BY DEF TypeOK
  <2> QED BY <1>1, <2>1 DEF Rescanned, Object
<1> QED BY <1>3, <1>4, <1>5
LEMMA BlockStep ==
  ASSUME IInv, UNCHANGED <<signature, inputs, change, reply, rpc>>,
         raced \subseteq raced'
  PROVE  /\ TxInv' /\ SignedForOwner' /\ RefusedNeedsRace'
         /\ \A b : (PaidBy(b))' = PaidBy(b) /\ (SpentBy(b))' = SpentBy(b)
         /\ \A c : (Unspent(c))' = Unspent(c) /\ (ChainInv(c))' = ChainInv(c)
         /\ \A S : (OutputsOf(S))' = OutputsOf(S)
<1>1. TxInv' /\ SignedForOwner' /\ RefusedNeedsRace'
  BY DEF IInv, TxInv, InAddTx, NoRequest, SignedForOwner, RefusedNeedsRace
<1>2. \A b : (PaidBy(b))' = PaidBy(b) /\ (SpentBy(b))' = SpentBy(b)
  BY DEF PaidBy, SpentBy, OutputsOf
<1>3. \A c : (Unspent(c))' = Unspent(c)
  BY DEF Unspent, PaidBy, SpentBy, OutputsOf
<1>4. \A c : (ChainInv(c))' = ChainInv(c)
  BY DEF ChainInv, PaidBy, SpentBy, OutputsOf
<1> QED BY <1>1, <1>2, <1>3, <1>4 DEF OutputsOf

\* append_block of a block mined here.
LEMMA OwnAppendedInv ==
  ASSUME IInv, NEW b \in Block, OwnAppended(b)
  PROVE  IInv'
<1>1. /\ own = NoBlock /\ own.at = "done" /\ ValidOn(b, chain)
      /\ chain' = Append(chain, b)
      /\ own' = [block |-> b, at |-> "filter"]
      /\ raced' = IF InAddTx THEN raced \cup {rpc.tx} ELSE raced
      /\ UNCHANGED <<coins, signature, inputs, change, reply, rpc, made, reorgs>>
  BY DEF OwnAppended, NoBlock
<1>2. /\ TypeOK /\ TxInv /\ ChainInv(chain) /\ chain \in Seq(Block)
      /\ coins \subseteq Object
      /\ OutputsOf(coins) = Unspent(chain)
      /\ \A o, p \in coins : o[1] = p[1] => o = p
  BY <1>1 DEF IInv, TypeOK, CoinsInv
<1>3. /\ chain' \in Seq(Block)
      /\ ChainInv(Append(chain, b))
      /\ Unspent(Append(chain, b)) = (Unspent(chain) \cup PaidBy(b)) \ SpentBy(b)
  BY <1>1, <1>2, AppendValid
<1>4. \A r \in b.txs : reply[r] = "ok"
  BY <1>1 DEF ValidOn
<1>5. raced' \subseteq Request /\ raced \subseteq raced'
  BY <1>1 DEF IInv, TypeOK, TxInv
<1>6. TypeOK'
  BY <1>1, <1>2, <1>3, <1>5 DEF TypeOK
<1>7. TxInv' /\ SignedForOwner' /\ RefusedNeedsRace'
  BY <1>1, <1>5, BlockStep
<1>8. ChainInv(chain)'
  BY SMTT(30), <1>1, <1>3 DEF ChainInv, PaidBy, SpentBy, OutputsOf
<1>9. (Unspent(chain))' = (OutputsOf(coins) \cup PaidBy(b)) \ SpentBy(b)
  <2>1. (Unspent(chain))' = Unspent(Append(chain, b))
    BY <1>1 DEF Unspent, PaidBy, SpentBy, OutputsOf
  <2> QED BY <1>2, <1>3, <2>1
<1>10. CoinsInv'
  <2>1. /\ (PaidBy(own.block))' = PaidBy(b) /\ (SpentBy(own.block))' = SpentBy(b)
        /\ (OutputsOf(coins))' = OutputsOf(coins)
    BY <1>1 DEF PaidBy, SpentBy, OutputsOf
  <2> QED BY <1>1, <1>2, <1>4, <1>9, <2>1 DEF CoinsInv
<1>11. CalmInv'
  BY <1>1 DEF CalmInv, InAddTx, NoRequest
<1> QED BY <1>6, <1>7, <1>8, <1>10, <1>11 DEF IInv

\* The wallet filters it, and spends it.
LEMMA OwnFilteredInv == IInv /\ OwnFiltered => IInv'
<1> SUFFICES ASSUME IInv, OwnFiltered PROVE IInv'
  OBVIOUS
<1> DEFINE b == own.block
<1>1. /\ own.at = "filter" /\ coins' = Filtered(b, coins) /\ made' = made + 1
      /\ own' = [own EXCEPT !.at = "spend"]
      /\ UNCHANGED <<chain, signature, inputs, change, reply, rpc, reorgs, raced>>
  BY DEF OwnFiltered
<1>2. /\ TypeOK /\ coins \in SUBSET Object /\ b \in Block /\ OneEach(coins)
      /\ \A r \in b.txs : reply[r] = "ok"
      /\ (OutputsOf(coins) \cup PaidBy(b)) \ SpentBy(b) = Unspent(chain)
      /\ own' = [block |-> b, at |-> "spend"]
  BY <1>1 DEF IInv, TypeOK, CoinsInv, OneEach
<1> HIDE DEF b
<1>3. /\ coins' \subseteq Object /\ OneEach(coins')
      /\ OutputsOf(coins') = OutputsOf(coins) \cup PaidBy(b)
  BY <1>1, <1>2, UpdatesKeepOne, FilteredOutputs
<1>4. TypeOK'
  BY SMTT(30), <1>1, <1>2, <1>3 DEF TypeOK
<1>5. TxInv' /\ SignedForOwner' /\ RefusedNeedsRace'
  BY <1>1, BlockStep
<1>6. ChainInv(chain)' /\ (Unspent(chain))' = Unspent(chain)
  BY <1>1 DEF IInv, ChainInv, Unspent, PaidBy, SpentBy, OutputsOf
<1>7. CoinsInv'
  <2>1. (SpentBy(own.block))' = SpentBy(b) /\ (OutputsOf(coins))' = OutputsOf(coins')
    BY <1>1, <1>2 DEF SpentBy, OutputsOf
  <2>2. own'.at = "spend" /\ own'.block = b
    BY <1>2
  <2> QED BY <1>1, <1>2, <1>3, <1>6, <2>1, <2>2 DEF CoinsInv, OneEach
<1>8. CalmInv'
  <2>1. InAddTx => rpc.tx \in raced
    BY <1>1 DEF IInv, CalmInv
  <2> QED BY <1>1, <2>1 DEF CalmInv, InAddTx, NoRequest
<1> QED BY <1>4, <1>5, <1>6, <1>7, <1>8 DEF IInv

LEMMA OwnSpentInv == IInv /\ OwnSpent => IInv'
<1> SUFFICES ASSUME IInv, OwnSpent PROVE IInv'
  OBVIOUS
<1> DEFINE b == own.block
<1>1. /\ own.at = "spend" /\ coins' = SpentFrom(b, coins) /\ own' = NoBlock
      /\ UNCHANGED <<chain, signature, inputs, change, reply, rpc, made, reorgs, raced>>
  BY DEF OwnSpent
<1>2. /\ TypeOK /\ coins \in SUBSET Object /\ b \in Block /\ OneEach(coins)
      /\ OutputsOf(coins) \ SpentBy(b) = Unspent(chain)
      /\ own'.at = "done" /\ own'.block.txs = {}
  BY <1>1 DEF IInv, TypeOK, CoinsInv, OneEach, NoBlock
<1> HIDE DEF b
<1>3. /\ coins' \subseteq Object /\ OneEach(coins')
      /\ OutputsOf(coins') = Unspent(chain)
  BY <1>1, <1>2, UpdatesKeepOne, SpentOutputs
<1>4. own' \in [block : Block, at : {"filter", "spend", "done"}]
  BY <1>1 DEF NoBlock, Block
<1>5. TypeOK'
  BY <1>1, <1>2, <1>3, <1>4 DEF TypeOK
<1>6. TxInv' /\ SignedForOwner' /\ RefusedNeedsRace'
  BY <1>1, BlockStep
<1>7. ChainInv(chain)' /\ (Unspent(chain))' = Unspent(chain)
  BY <1>1 DEF IInv, ChainInv, Unspent, PaidBy, SpentBy, OutputsOf
<1>8. CoinsInv'
  <2>1. (OutputsOf(coins))' = OutputsOf(coins') /\ NoBlock' = NoBlock
    BY DEF OutputsOf, NoBlock
  <2> QED BY <1>1, <1>2, <1>3, <1>7, <2>1 DEF CoinsInv, OneEach
<1>9. CalmInv'
  <2>1. InAddTx => rpc.tx \in raced
    BY <1>1 DEF IInv, CalmInv
  <2> QED BY <1>1, <2>1 DEF CalmInv, InAddTx, NoRequest
<1> QED BY <1>5, <1>6, <1>7, <1>8, <1>9 DEF IInv
\* What the io thread does between requests: the new chain and its coins.
LEMMA ReplacedInv ==
  ASSUME IInv, BetweenRequests, chain' \in Seq(Block), ChainInv(chain'),
         coins' \subseteq Object, OneEach(coins'),
         OutputsOf(coins') = Unspent(chain'),
         made' = made + 1, reorgs' \in Nat,
         UNCHANGED <<signature, inputs, change, reply, rpc, own, raced>>
  PROVE  IInv'
<1>1. /\ own = NoBlock /\ own.at = "done" /\ own.block.txs = {}
      /\ ~InAddTx
  BY DEF BetweenRequests, NoBlock, InAddTx
<1>2. TypeOK'
  BY DEF IInv, TypeOK
<1>3. TxInv' /\ SignedForOwner' /\ RefusedNeedsRace'
  BY BlockStep
<1>4. ChainInv(chain)'
  <2>1. reply' = reply /\ inputs' = inputs /\ change' = change
    OBVIOUS
  <2>2. ChainInv(chain')
    OBVIOUS
  <2> QED BY ONLY <2>1, <2>2 DEF ChainInv, PaidBy, SpentBy, OutputsOf
<1>5. (OutputsOf(coins))' = (Unspent(chain))'
  <2>1. (OutputsOf(coins))' = OutputsOf(coins')
    BY DEF OutputsOf
  <2>2. (Unspent(chain))' = Unspent(chain')
    BY DEF Unspent, PaidBy, SpentBy, OutputsOf
  <2> QED BY <2>1, <2>2
<1>6. CoinsInv'
  BY <1>1, <1>5 DEF CoinsInv, OneEach, NoBlock
<1>7. CalmInv'
  BY <1>1 DEF CalmInv, InAddTx, NoRequest
<1> QED BY <1>2, <1>3, <1>4, <1>6, <1>7 DEF IInv

LEMMA ReceivedInv ==
  ASSUME IInv, NEW b \in Block, Received(b)
  PROVE  IInv'
<1>1. /\ TypeOK /\ TxInv /\ ChainInv(chain) /\ chain \in Seq(Block)
      /\ coins \in SUBSET Object /\ OneEach(coins)
      /\ OutputsOf(coins) = Unspent(chain)
      /\ BetweenRequests /\ ValidOn(b, chain)
      /\ reorgs' \in Nat
  BY DEF IInv, TypeOK, CoinsInv, OneEach, Received, BetweenRequests, NoBlock
<1>2. /\ chain' = Append(chain, b)
      /\ coins' = SpentFrom(b, Filtered(b, coins))
  BY DEF Received
<1>3. /\ chain' \in Seq(Block) /\ ChainInv(chain')
      /\ Unspent(chain') = (Unspent(chain) \cup PaidBy(b)) \ SpentBy(b)
  BY <1>1, <1>2, AppendValid
<1>4. /\ coins' \subseteq Object /\ OneEach(coins')
      /\ OutputsOf(coins') = Unspent(chain')
  <2>1. Filtered(b, coins) \in SUBSET Object /\ OneEach(Filtered(b, coins))
    BY <1>1, UpdatesKeepOne
  <2>2. coins' \subseteq Object /\ OneEach(coins')
    BY <1>1, <1>2, <2>1, UpdatesKeepOne
  <2>3. OutputsOf(coins') = (OutputsOf(coins) \cup PaidBy(b)) \ SpentBy(b)
    BY <1>2, SpentOutputs, FilteredOutputs
  <2> QED BY <1>1, <1>3, <2>2, <2>3
<1> QED BY <1>1, <1>3, <1>4, ReplacedInv DEF Received

LEMMA ReorganisedInv ==
  ASSUME IInv, NEW b \in Block, NEW c \in Block, Reorganised(b, c)
  PROVE  IInv'
<1> DEFINE front == SubSeq(chain, 1, Len(chain) - 1)
<1>1. /\ TypeOK /\ TxInv /\ ChainInv(chain) /\ chain \in Seq(Block) /\ chain # <<>>
      /\ BetweenRequests /\ ValidOn(b, front) /\ ValidOn(c, Append(front, b))
      /\ chain' = front \o <<b, c>>
      /\ coins' = Rescanned(chain')
      /\ reorgs' \in Nat
  BY DEF IInv, TypeOK, Reorganised
<1>2. front \in Seq(Block) /\ ChainInv(front)
  BY <1>1, FrontOfChain
<1> HIDE DEF front
<1>3. Append(front, b) \in Seq(Block) /\ ChainInv(Append(front, b))
  BY <1>1, <1>2, AppendValid
<1>4. /\ Append(Append(front, b), c) \in Seq(Block)
      /\ ChainInv(Append(Append(front, b), c))
  BY <1>1, <1>3, AppendValid
<1>5. chain' = Append(Append(front, b), c)
  BY <1>1, <1>2
<1>6. /\ coins' \subseteq Object /\ OneEach(coins')
      /\ OutputsOf(coins') = Unspent(chain')
  BY <1>1, <1>4, <1>5, RescannedCoins
<1> QED BY <1>1, <1>4, <1>5, <1>6, ReplacedInv DEF Reorganised

LEMMA NextInv == IInv /\ [Next]_vars => IInv'
<1> SUFFICES ASSUME IInv, [Next]_vars PROVE IInv'
  OBVIOUS
<1>1. ASSUME NEW r \in Request, NewTransaction(r) \/ CannotPay(r) \/ CannotSign(r)
      PROVE  IInv'
  BY <1>1, NewTransactionInv, RequestInv
<1>2. CASE (\E o \in Output : InputExists(o) \/ InputMissing(o)) \/ InputRead \/ Pools
  BY <1>2, AddTxInv
<1>3. ASSUME NEW b \in Block, OwnAppended(b) \/ Received(b)
      PROVE  IInv'
  BY <1>3, OwnAppendedInv, ReceivedInv
<1>4. CASE OwnFiltered \/ OwnSpent
  BY <1>4, OwnFilteredInv, OwnSpentInv
<1>5. ASSUME NEW b \in Block, NEW c \in Block, Reorganised(b, c)
      PROVE  IInv'
  BY <1>5, ReorganisedInv
<1>6. CASE UNCHANGED vars
  <2>1. /\ (Unspent(chain))' = Unspent(chain)
        /\ (PaidBy(own.block))' = PaidBy(own.block)
        /\ (SpentBy(own.block))' = SpentBy(own.block)
        /\ (OutputsOf(coins))' = OutputsOf(coins) /\ NoBlock' = NoBlock
    BY <1>6 DEF vars, Unspent, PaidBy, SpentBy, OutputsOf, NoBlock
  <2>2. CoinsInv'
    BY <1>6, <2>1 DEF vars, IInv, CoinsInv
  <2>3. CalmInv'
    BY <1>6, <2>1 DEF vars, IInv, CalmInv, Live, InAddTx, NoRequest
  <2>4. TypeOK'
    BY <1>6 DEF vars, IInv, TypeOK
  <2>5. ChainInv(chain)'
    BY <1>6 DEF vars, IInv, ChainInv, PaidBy, SpentBy, OutputsOf
  <2>6. TxInv' /\ SignedForOwner' /\ RefusedNeedsRace'
    BY <1>6, BlockStep DEF vars
  <2> QED BY <2>2, <2>3, <2>4, <2>5, <2>6 DEF IInv
<1> QED BY <1>1, <1>2, <1>3, <1>4, <1>5, <1>6 DEF Next

THEOREM InductiveInvariant == Spec => []IInv
BY InitInv, NextInv, PTL DEF Spec

\* Types, for all requests, deposits and chains.
THEOREM TypeCorrect == Spec => []TypeOK
<1>1. IInv => TypeOK
  BY DEF IInv
<1> QED BY <1>1, InductiveInvariant, PTL

\* new_transaction never signs an object again that it has put into an earlier
\* transaction, accepted or not.
THEOREM SignaturesStay == Spec => []SignedForOwner
<1>1. IInv => SignedForOwner
  BY DEF IInv
<1> QED BY <1>1, InductiveInvariant, PTL

\* filter_block, spend_block and rescan keep the wallet's coins equal to what
\* the chain leaves unspent, through any sequence of blocks and reorgs.
THEOREM CoinsAreUnspent == Spec => []CoinsMatchChain
<1>1. IInv => CoinsMatchChain
  BY DEF IInv, CoinsInv, CoinsMatchChain, NoBlock
<1> QED BY <1>1, InductiveInvariant, PTL

\* add_tx accepts every payment of the wallet that no own block overtook.
THEOREM PaymentsAreAccepted == Spec => []RefusedNeedsRace
<1>1. IInv => RefusedNeedsRace
  BY DEF IInv
<1> QED BY <1>1, InductiveInvariant, PTL
=============================================================================
