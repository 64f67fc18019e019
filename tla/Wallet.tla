------------------------------- MODULE Wallet -------------------------------
(***************************************************************************)
(* The wallet between a client's payment requests and the chain.  The io   *)
(* thread runs rpc_handle_transaction: new_transaction, then add_tx, which *)
(* looks its inputs up in the chainstate one by one.  Meanwhile the main   *)
(* thread may add a block mined here: the chainstate has it before the     *)
(* wallet filters it, and the wallet filters it before it spends it.       *)
(* Blocks of peers and reorgs come on the io thread, between requests.     *)
(*                                                                         *)
(* coins_ maps an output to a TransactionInput object, and a transaction   *)
(* made here holds these very objects; signing it marks them.  An object   *)
(* is the output and a number that each filtering of a block counts up.    *)
(* Signatures are names of the transactions they were made for.            *)
(***************************************************************************)
EXTENDS FiniteSetsExt, Integers, Sequences

CONSTANTS
  Request,    \* payment requests, and the transactions made for them
  Need,       \* Need[r]: amount and fee of request r
  Deposit,    \* outputs that others, or coinbases, pay to the wallet's key
  Worth,      \* Worth[d]: the amount of deposit d
  MaxHeight,  \* bound: no block is added above it
  MaxReorgs,  \* bound: number of reorgs
  None

ASSUME WalletAssumption ==
  /\ Need \in [Request -> Nat \ {0}]
  /\ Worth \in [Deposit -> Nat \ {0}]
  /\ Request \cap Deposit = {}
  /\ MaxHeight \in Nat
  /\ MaxReorgs \in Nat
  /\ None \notin Request \cup Deposit

VARIABLES
  chain,     \* the main chain, above genesis
  coins,     \* coins_, as a set of objects
  signature, \* signature[o]: the transaction whose signature object o carries
  inputs,    \* inputs[r]: the objects in r's transaction
  change,    \* change[r]: the amount r's transaction pays back
  reply,     \* reply[r]: what became of the request
  rpc,       \* the request in progress and its inputs still to be looked up
  own,       \* the block the main thread is adding, and how far it is
  made,      \* number of objects made so far, by block
  reorgs,    \* number of reorgs so far
  raced      \* history: requests in progress while own # NoBlock

vars == <<chain, coins, signature, inputs, change, reply, rpc, own, made,
          reorgs, raced>>

\* An output that the wallet owns: a deposit, or the change of a transaction.
Output == Deposit \cup Request
Object == Output \X Nat
Block  == [pays : SUBSET Deposit, txs : SUBSET Request]
Reply  == {"none", "unpaid", "signed", "refused", "thrown", "ok"}

NoBlock   == [block |-> [pays |-> {}, txs |-> {}], at |-> "done"]
NoRequest == [tx |-> None, left |-> {}, at |-> None]

Init ==
  /\ chain = <<>>
  /\ coins = {}
  /\ signature = <<>>
  /\ inputs = [r \in Request |-> {}]
  /\ change = [r \in Request |-> 0]
  /\ reply = [r \in Request |-> "none"]
  /\ rpc = NoRequest
  /\ own = NoBlock
  /\ made = 0
  /\ reorgs = 0
  /\ raced = {}

-----------------------------------------------------------------------------
OutputsOf(objects) == {o[1] : o \in objects}

\* What block b pays to the wallet, and what it spends of the wallet's.
PaidBy(b)  == b.pays \cup {r \in b.txs : change[r] > 0}
SpentBy(b) == UNION {OutputsOf(inputs[r]) : r \in b.txs}

\* The wallet's outputs in the chainstate of chain c.
Unspent(c) == (UNION {PaidBy(c[i]) : i \in DOMAIN c})
                \ (UNION {SpentBy(c[i]) : i \in DOMAIN c})

Amount(output) == IF output \in Deposit THEN Worth[output] ELSE change[output]
Total(objects) == MapThenSumSet(LAMBDA o : Amount(o[1]), objects)

\* A block that validate_block accepts on chain c, with new deposits and with
\* transactions that add_tx accepted here, so that peers can have them.
ValidOn(b, c) ==
  /\ Len(c) < MaxHeight
  /\ \A i \in DOMAIN c : b.pays \cap c[i].pays = {}
  /\ \A r \in b.txs : reply[r] = "ok" /\ OutputsOf(inputs[r]) \subseteq Unspent(c)
  /\ \A r, s \in b.txs :
       r # s => OutputsOf(inputs[r]) \cap OutputsOf(inputs[s]) = {}

(* Wallet::filter_block, spend_block and rescan *)

\* The coins of the block, in new objects, take the place of equal ones.
Filtered(b, old) == {o \in old : o[1] \notin PaidBy(b)}
                      \cup {<<o, made + 1>> : o \in PaidBy(b)}

\* Mutant: the objects in the transactions are removed, not the outputs.
SpentObjects(b, old) == old \ UNION {inputs[r] : r \in b.txs}

SpentFrom(b, old) == {o \in old : o[1] \notin SpentBy(b)}

\* Mutant: coins_ is not cleared.
RescannedOnTop(c) == coins \cup {<<o, made + 1>> : o \in Unspent(c) \ OutputsOf(coins)}

Rescanned(c) == {<<o, made + 1>> : o \in Unspent(c)}

-----------------------------------------------------------------------------
(* rpc_handle_transaction *)

\* What new_transaction collects in the order in which it comes across the
\* coins: it stops with the one that covers the request.
Collected(r) ==
  {S \in SUBSET coins : /\ Total(S) - Need[r] \in Nat
                        /\ \E o \in S : Total(S \ {o}) < Need[r]}

Unsigned(S) == \A o \in S : o \notin DOMAIN signature

\* Mutant: each input is checked, and signed, in turn.
SomeUnsigned(S) == \E o \in S : o \notin DOMAIN signature

\* The check at the beginning of Transaction::sign.
CanSign(S) == Unsigned(S)

Asks(r) == reply[r] = "none" /\ rpc = NoRequest

NewTransaction(r) ==
  /\ Asks(r)
  /\ \E S \in Collected(r) :
       /\ CanSign(S)
       /\ inputs' = [inputs EXCEPT ![r] = S]
       /\ change' = [change EXCEPT ![r] = Total(S) - Need[r]]
       /\ signature' = [o \in DOMAIN signature \cup S |->
                          IF o \in S THEN r ELSE signature[o]]
       /\ rpc' = [tx |-> r, left |-> OutputsOf(S), at |-> None]
  /\ raced' = IF own = NoBlock THEN raced ELSE raced \cup {r}
  /\ UNCHANGED <<chain, coins, reply, own, made, reorgs>>

Answer(r, answer) == /\ reply' = [reply EXCEPT ![r] = answer]
                     /\ rpc' = NoRequest

\* Not enough coins: STATUS_PAYMENT_REQUIRED.
CannotPay(r) ==
  /\ Asks(r)
  /\ Total(coins) < Need[r]
  /\ Answer(r, "unpaid")
  /\ UNCHANGED <<chain, coins, signature, inputs, change, own, made, reorgs, raced>>

\* Some coin is signed already: the exception of sign is not a runtime_error,
\* the handler lets it through, and the connection closes without a reply.
CannotSign(r) ==
  /\ Asks(r)
  /\ \E S \in Collected(r) : ~CanSign(S)
  /\ Answer(r, "signed")
  /\ UNCHANGED <<chain, coins, signature, inputs, change, own, made, reorgs, raced>>

(* add_tx *)

InAddTx == rpc # NoRequest
Live    == Unspent(chain)

\* chainstate_->exists for the next input.
InputExists(o) ==
  /\ InAddTx
  /\ rpc.at = None
  /\ o \in rpc.left \cap Live
  /\ rpc' = [rpc EXCEPT !.at = o]
  /\ UNCHANGED <<chain, coins, signature, inputs, change, reply, own, made,
                 reorgs, raced>>

\* An input that is not there: add_tx returns false, which nobody looks at.
InputMissing(o) ==
  /\ InAddTx
  /\ rpc.at = None
  /\ o \in rpc.left \ Live
  /\ Answer(rpc.tx, "refused")
  /\ UNCHANGED <<chain, coins, signature, inputs, change, own, made, reorgs, raced>>

\* Its key and amount are read; when it was spent since, at() throws.
InputRead ==
  /\ InAddTx
  /\ rpc.at # None
  /\ IF rpc.at \in Live
     THEN /\ rpc' = [rpc EXCEPT !.at = None, !.left = @ \ {rpc.at}]
          /\ UNCHANGED reply
     ELSE Answer(rpc.tx, "thrown")
  /\ UNCHANGED <<chain, coins, signature, inputs, change, own, made, reorgs, raced>>

\* validate_transaction checks each input's signature against this
\* transaction; then the pool has it.
Pools ==
  /\ InAddTx
  /\ rpc.left = {}
  /\ Answer(rpc.tx, IF \A o \in inputs[rpc.tx] : signature[o] = rpc.tx
                    THEN "ok" ELSE "refused")
  /\ UNCHANGED <<chain, coins, signature, inputs, change, own, made, reorgs, raced>>

-----------------------------------------------------------------------------
(* Blocks *)

\* The main thread adds a block mined here: append_block, then the wallet.
OwnAppended(b) ==
  /\ own = NoBlock
  /\ ValidOn(b, chain)
  /\ chain' = Append(chain, b)
  /\ own' = [block |-> b, at |-> "filter"]
  /\ raced' = IF InAddTx THEN raced \cup {rpc.tx} ELSE raced
  /\ UNCHANGED <<coins, signature, inputs, change, reply, rpc, made, reorgs>>

OwnFiltered ==
  /\ own.at = "filter"
  /\ coins' = Filtered(own.block, coins)
  /\ made' = made + 1
  /\ own' = [own EXCEPT !.at = "spend"]
  /\ UNCHANGED <<chain, signature, inputs, change, reply, rpc, reorgs, raced>>

OwnSpent ==
  /\ own.at = "spend"
  /\ coins' = SpentFrom(own.block, coins)
  /\ own' = NoBlock
  /\ UNCHANGED <<chain, signature, inputs, change, reply, rpc, made, reorgs, raced>>

\* What the io thread does between requests, holding chain_manager_mu_.
BetweenRequests == rpc = NoRequest /\ own = NoBlock

\* A block of a peer.
Received(b) ==
  /\ BetweenRequests
  /\ ValidOn(b, chain)
  /\ chain' = Append(chain, b)
  /\ coins' = SpentFrom(b, Filtered(b, coins))
  /\ made' = made + 1
  /\ UNCHANGED <<signature, inputs, change, reply, rpc, own, reorgs, raced>>

\* The last block gives way to two others, and the wallet is rescanned.
Reorganised(b, c) ==
  /\ BetweenRequests
  /\ reorgs < MaxReorgs
  /\ chain # <<>>
  /\ LET front == SubSeq(chain, 1, Len(chain) - 1)
     IN /\ ValidOn(b, front)
        /\ ValidOn(c, Append(front, b))
        /\ chain' = front \o <<b, c>>
        /\ coins' = Rescanned(chain')
  /\ made' = made + 1
  /\ reorgs' = reorgs + 1
  /\ UNCHANGED <<signature, inputs, change, reply, rpc, own, raced>>

-----------------------------------------------------------------------------
Next ==
  \/ \E r \in Request : NewTransaction(r) \/ CannotPay(r) \/ CannotSign(r)
  \/ \E o \in Output : InputExists(o) \/ InputMissing(o)
  \/ InputRead \/ Pools
  \/ \E b \in Block : OwnAppended(b) \/ Received(b)
  \/ OwnFiltered \/ OwnSpent
  \/ \E b, c \in Block : Reorganised(b, c)

Spec == Init /\ [][Next]_vars

-----------------------------------------------------------------------------
(* Properties *)

\* Types of the wallet's state, the request in progress and the block mined
\* here that is being added.
TypeOK ==
  /\ chain \in Seq(Block)
  /\ coins \subseteq Object
  /\ DOMAIN signature \subseteq Object
  /\ \A o \in DOMAIN signature : signature[o] \in Request
  /\ inputs \in [Request -> SUBSET Object]
  /\ change \in [Request -> Nat]
  /\ reply \in [Request -> Reply]
  /\ rpc \in [tx : Request \cup {None}, left : SUBSET Output, at : Output \cup {None}]
  /\ own \in [block : Block, at : {"filter", "spend", "done"}]
  /\ made \in Nat
  /\ reorgs \in Nat
  /\ raced \subseteq Request

\* The objects a transaction holds carry the signature that was made for it,
\* and no object is signed for a transaction that was given up: although the
\* wallet goes on offering the same objects, no later payment changes one, and
\* two transactions that spend one output hold two objects of it.
SignedForOwner ==
  \A r \in Request : {o \in DOMAIN signature : signature[o] = r} = inputs[r]

\* A payment the wallet made is accepted by add_tx: the coins it collects are
\* in the chainstate, after any reorg, and its signatures are good.  Only a
\* block that was mined here while the request was in progress can spend a
\* coin before or after it is looked up; the client is told OK all the same.
RefusedNeedsRace ==
  \A r \in Request : reply[r] \in {"refused", "thrown"} => r \in raced

\* The wallet's coins, one object each, are its unspent outputs on the main
\* chain whenever no block mined here is on its way into the wallet.
CoinsMatchChain ==
  own = NoBlock => /\ OutputsOf(coins) = Unspent(chain)
                   /\ \A o, p \in coins : o[1] = p[1] => o = p
=============================================================================
