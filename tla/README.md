# A TLA+ verification project for the FHE blockchain node

The repository is a blockchain node in C++ whose proof of work is the proof of
a computation on FHE ciphertexts. This directory holds TLA+ modules of its
core, the TLC configurations that check them on small instances, and TLAPS
proofs for instances of every size. Paths below are relative to the repository.

## 1. Inventory

One process is one node. It has two long-lived threads: the main thread
(`Node::start`: bootstrap, wait for the sync to end, then the mining loop, which
starts and joins one mining thread per block) and an io thread that runs every
coroutine (listeners, peers, RPC). Everything is in memory; nothing is persisted
and nothing restarts.

| Component | State | Operations | Interacts with | Hard behaviour | Correct when |
|---|---|---|---|---|---|
| Chain manager `src/chain/chain_manager.cpp`, `fork.cpp`, `chain.cpp` | main header chain, total difficulty, forks | `add_block`, `reorg`, `add_tx`, `start_mining` | calls all stores and the wallet, called by node handlers (io) and mining loop (main) | a reorg that fails half way; fork bookkeeping that outlives the chain it points into; one lock for `add_block`, another for the tip | main is one valid chain that only gets heavier; a failed reorg restores everything |
| Chainstate `src/store/mem_chainstate.cpp` | unspent outputs, spent set (undo records) | `add_block`, `rewind_block` | called by `append_block` and `reorg` | add and rewind must cancel in every order | unspent = outputs of main not consumed by main |
| Block store `mem_blockstore.cpp` | blocks by hash | `store_block`, `get_block`, `exists` | reorg, rescan, peers | `get_block` throws for a hash it lacks | holds every block of every chain |
| Memory pool `mem_pool.cpp` | transactions, ranking by fee, `utxo_ref_` | `add_valid_tx`, `spend_block`, `get_top` | `add_tx`, `append_block`, miner | an index by output that decides evictions, assertions on it | ranking = storage; conflicting transactions leave together |
| Computation store `mem_compstore.cpp` | computations by hash | `store_computation`, `collect_computations`, `spend_block` | RPC, gossip, miner | objects shared with a running miner | a computation is used in one block |
| Wallet `src/wallet/wallet.cpp` | key pair, coins | `new_transaction`, `filter_block`, `spend_block`, `rescan` | chain manager, RPC | coins follow reorgs; coin objects shared between transactions | coins = unspent outputs of the wallet's key |
| Miner and mining loop `miner.cpp`, `node.cpp:50-111` | result, stop flag | `start_mining`, `mine` | reads tip, height, pool, computations | all of these read at different times while blocks arrive | a mined block is valid on the tip it names |
| Computation, FHEComputer `src/computer/` | bound inputs, proof | bind, prove, verify | miner, header validation | binding twice | a proof that verified once verifies again |
| AST `src/computer/ast.cpp` | expression tree, stack of nodes with a free place | `shunt`, `build_tree`, `reorg_from` | FHEComputer evaluates the tree and reads its depth as the difficulty | rotations in a tree that is not complete yet, while the stack names places in it | same value, real depths, less depth |
| Difficulty, reward `chain.cpp:286-336` | none | functions of the chain | validation, miner | epochs, unsigned indices | the same on every node |
| Node handlers, sync `src/node/node.cpp` | synced flag, sync peer | one handler per message | peers, chain manager | lost progress, repeated and reordered blocks | sync ends; what is accepted is announced |
| Connection manager `src/net/conn_mngr.cpp` | inbound and outbound tables, acceptor | accept, connect, rename, remove, collect, broadcast | node handlers, peers | full tables; IDs that change; connections noticed late to be gone | the tables are the connections; nodes find one another |
| Peer `src/net/peer.cpp` | socket, ID, pause flag | listen, send, async_send | node, connection manager | a mutex held over a suspension; a pause that is not lifted | every request returns |
| Routers, RPC, encodings, tools | none | | | | |

`PROJECT.json` lists every component with its status, and under `hazards` each
place where this code is hard to test, with the properties aimed at it.

## 2. Plan

In this order, the most important behaviour first; each component has a module,
an MC module and a module of proofs:

1. `BlockTree` (data), `ForkChoice` (abstract promise of the chain manager) and
   `ChainManager`: **done**.
2. `MemPool`: **done**.
3. `MiningNode`, which composes the pool and the computation store, with the
   bindings of its objects, with a growing chain and the main, mining and io
   threads: **done**.
4. `Gossip`: nodes, messages, the sync, broken connections: **done** for one
   mining node.
5. `ConnectionManager`: tables at their limits, bootstrap, exchange of addresses,
   restarts: **done**.
6. `PeerIO`: the coroutines of one io thread on the sockets of the peers: **done**.
7. `Wallet`: payments from coin objects that transactions share: **done**.
8. `ASTree`: the expression of a computation from its text to the balanced tree:
   **done** for well-formed texts.

Every safety invariant, action property and refinement that a passing run checks is
proved, but for three recursive properties of `ASTree` (section 6). Left: forks
between several mining nodes in `Gossip`.

## 3. What the modules model

**`BlockTree`** holds the constants: blocks with parent, timestamp, coinbase and
body, transactions with the outputs they consume and create, which outputs pay
the wallet, which headers and bodies verify. Hashes are injective, so a block is
its own hash. Difficulty: below height `blocks_per_epoch` (2016 in the sample
configurations) every block has the genesis difficulty, so a total difficulty is
counted in that unit and equals a number of headers. `Heights` and
`TransactionsDiffer` are hypotheses of theorems about trees (section 5); no module
assumes them.

**`ForkChoice`** is the abstract specification: one valid chain, replaced only by
a longer valid chain, until a replacement is broken off (`broken`), which leaves a
first part of the chain.

**`ChainManager`** is `ChainManager::add_block` and `reorg`, with
`Chain::append_block`, `Fork::append_block` and validation inlined where they are
called, `MemChainstate`, `MemBlockStore` and the coins of `Wallet`.

| TLA+ | code |
|---|---|
| `main`, `mainDiff` | `main_chain_->header_chain_`, `total_difficulty_` |
| `forks[i]` = `src`, `header`, `chain`, `diff` | a `Fork`: `chain_src_` (from 0), `chain_src_header_`, `header_chain_`, `total_difficulty_` |
| `store`, `unspent`, `spent` | keys of `block_store_`, of the chainstate, of its spent set |
| `altered` | outputs whose `UTXORecord` need not be the original one |
| `coins` | keys of `Wallet::coins_` |
| `pc`, `target`, `old`, `cursor`, `idx` | where reorg is, its `fork`, `old_main_fork`, loop indices |
| `reply`, `status` | what `add_block` returned; whether the process failed an assertion (`aborted`), was ended by an exception nobody catches (`terminated`), or ran into undefined behaviour |
| `AttachToMain`, `StartFork`, `ExtendFork`, `Reject`, `StartReorg` | the paths of `add_block` |
| `OwnBlockAborts`, `OwnBlockThrows` | two ends of `add_block` for a block mined here (`is_main_and_valid`) |
| `RewindMain` .. `KeepMain` | one iteration, or one step, of `reorg` each |

`add_block` holds `chain_manager_mu_`, so one call runs at a time; its paths
without a loop are one step. `reorg` is split, because the mining thread reads
the header chain under another mutex and because exceptions and assertions can
end it anywhere. These choices need a word:

* `remove_utxo` (`mem_chainstate.cpp:73`) reads a record through an erased
  iterator. The model lets any subset of the consumed outputs be filed with an
  arbitrary record (`altered`), and lets validation against such a record answer
  either way. Everything that is checked is checked under that choice.
* `Rebinding`. `bind_inputs_to_data` (`fhe_computation.cpp:89`) adds the new zero
  encryption on top of inputs bound before, and every validation binds. So with
  the repository's only `Computation` a block object validates once
  (`"cumulative"`). The rest of `reorg` is written for a Computation that can be
  bound again (`"idempotent"`), and is checked for that one too.
* An exception of `append_block` inside `reorg` leaves `add_block` (`ApplyThrows`,
  `reply = "thrown"`): the coroutine ends, the process goes on, with `main` cut and
  `total_difficulty_` what it was. `cut` remembers it (history): the wallet, the
  difficulties and the fork choice are right until then, and nobody says that they
  are afterwards.
* Blocks mined here. `append_block` looks only at their parent and their timestamp.
  `Mined` is the set of blocks that the miner may make, valid or not: one that
  cannot be spent fails the assertion on `removed` (`mem_chainstate.cpp:101`), one on
  a tip that main has left throws on the main thread (`node.cpp:99`), which ends the
  process, and one with a bad proof or body gets onto main and is first validated
  when a failed reorg puts it back. What a mining round can really come up with is
  `MiningNode`'s subject. `MinedAssumption` says that no such block spends an output of
  its own: for that a pooled transaction would have to be lost in a reorg and
  handed in again, after another that spends it was pooled. `rewind_block` does not
  undo such a block (it erases the outputs before it restores the inputs), so that
  the output would stay in the chainstate.

Left out here: the pool and the computation store, which `append_block` only
writes (see `MemPool` and `MiningNode`); the wallet ignores the
genesis output until the first rescan, so the instances do not let the wallet own
it; a computation without a proof makes header validation throw before anything
is changed, a reply of `Reject`.

**`MemPool`** is `add_valid_tx` and `spend_block`, one transaction of a block per
step (`mu_` is held meanwhile, so nothing else runs). `storage`, `ranked` and `refs`
are `tx_storage_`, `tx_set_` and `utxo_ref_`; `utxo_ref_` is keyed by the hash of an
output, that is by public key and amount, so two outputs can have one key.
`remove_tx` and `MemPool::add_block` have no callers and are not modelled. What a
transaction spends is a constant (`Inputs`) that no operation of the pool looks at;
only `SpendEvictsConflicts` does. A transaction's fee is a constant: it comes from
amounts that `add_tx` and `validate_block` both read from the chainstate.

**`MiningNode`** is one node that mines, with its pool (an INSTANCE of `MemPool`),
its computation store and its two threads.

| TLA+ | code |
|---|---|
| `chain`, `unspent` | `header_chain_` above genesis with the blocks' bodies, keys of the chainstate |
| `compStore` | keys of `MemCompStore::storage_` |
| `appending` | the `append_block` that holds `chain_mu_`: after header and chainstate, on its way through pool and computation store |
| `adding` | an `add_tx` between its first lookup and `add_valid_tx` |
| `mining` | the round of the mining loop: `at` is the next read, `head` and `height` what was read |
| `ReceiveBlock`, `StartAddTx`, `CheckInput`, `AddTx`, `AddComputation` | the io thread |
| `GetTop`, `Collect`, `CollectTooFew`, `ReadHead`, `ReadHeight`, `Mine`, `MineFails` | the steps of `start_mining` and `mine`, each under its own mutex or none |
| `OwnIsStale`, `OwnIsTooOld`, `OwnDoesNotApply`, `AppendOwn` | `handle_add_valid_block` of the own block |

Choices: header and chainstate change in one step, since only `add_tx`'s lookups
could see one without the other, and they look at the chainstate only. The order
in which `ReadHead` and `ReadHeight` run is open, because they are arguments of
one call. `spend_block` of the computation store is one step; a miner that
collects in between sees a store that a slower block would have left. The chain
only grows; a reorg while a block is mined is a stale tip like any other, and its
inner states are `ChainManager`'s. Heights stay below the first retarget, so the
difficulty is a constant (the index in `get_difficulty_for_height` wraps below
zero from epoch 1 on, see section 6). Coinbase outputs are not
spent. `stop_flag_` is only ever reset, so a proof once begun is completed.
`calm` is a history variable: it stays true while a round was not disturbed.
The store's objects are the ones the miner binds, in place and for good
(`fhe_computation.cpp:61`): `used` names the keys of those that a round was given,
`mining.again` the computations that were in `used` when a round got them, and a
block keeps them in `again`. A computation that was spent and comes again is a
new object. `Faulty` are the computations whose expression names a ciphertext that
they do not have: `generate_proof` looks it up with `at()` (`fhe_computer.cpp:232`,
`:312`), the exception ends the round without a block (`miner.cpp:63`), and what had
been bound by then stays bound (`MineFails`). `refused` and `failed` are history.
`OutputsDiffer` is a hypothesis of theorems (section 5).

**`Gossip`** is a network of nodes. A block is its height: only the process that
listens on port 5000 mines (`node.cpp:84`), so there is one chain, and a node's
chain is a prefix of it.

| TLA+ | code |
|---|---|
| `phase` | before the process starts, before `start_sync`, before and after `set_synced`, after a crash |
| `height`, `held` | `current_height`; transactions of the pool and computations of the store |
| `outbound`, `syncPeer` | `outbound_peer_map_`, from which broken connections are never removed; `sync_peer_` |
| `links`, `queue` | open connections; for each direction the responses that the listener writes and the messages of `async_send` |
| `unannounced` | the main thread between `add_block` and `handle_mined_block` |
| `rejected`, `thrown` | blocks for which `add_block` of a node that does not mine returns false, or throws; any sets of blocks |
| `deaf` | outbound peers whose listener an exception has ended: nothing is read from them any more |
| `stopped` | nodes whose io thread is in the `lock_guard` of `Peer::async_send` |
| one action per handler | `Router::route` chooses by type and, for `InfoBlock`, by `is_synced_` |

Transactions and computations have one set of handlers, because the code of the
two differs only in the store; `add_tx` refuses a transaction before the block
that makes its inputs (`Needs`), and only transactions are listed to a peer that
synced. `caughtUp` (with the field `wellSynced` of a message) is a history
variable: the peer that ended a node's sync was itself synced. It is needed,
because a peer that is still syncing answers `out_of_range` too and does not
announce the blocks it gets later; the node that believed it stays behind.

A block that attaches need not be added. The miner does not validate what it mines,
so the others may refuse it for its body or for a proof of inputs bound twice
(`MiningNode`); whether they do is the same for all of them and does not change.
Then the block is not announced, and in a sync no further request is sent
(`RejectBlock`, `node.cpp:494-502`). An exception of `add_block` ends the listener
besides (`ThrowAtBlock`): the acceptor drops the peer, which closes the connection,
while a node that had connected itself keeps the peer, sends to it and never reads
from it. `StopIO` is what `PeerIO` shows in detail: of two sends to one peer the second
may wait for the first on the thread that would complete it. It may come
whenever two are under way; all that the node had to say is then left where it is.
Left out: the exchange of addresses (see `ConnectionManager`) and `remove` of spent items
(see `MemPool`).

**`ConnectionManager`** is a few processes that start, bootstrap, exchange addresses,
stop and start again.

| TLA+ | code |
|---|---|
| `phase`, `todo` | the constructor (`booting`, `waiting` in `Peer::send`), then `Node::start`; the rest of the bootstrap list |
| `inbound[n]`, `outbound[n]` | `inbound_peer_map_` from IDs to peers, the keys of `outbound_peer_map_` |
| `pending`, `listening`, `open` | accepted by the kernel only; with a running `listen()`; not closed by either end |
| `named` | peers whose `_id` is the listening address (`update_addr_info`) |
| `spawned`, `asked`, `answers` | a `GetAddr` of `async_send` in the io thread's queue; unread `GetAddr` and `Addr` |
| `paused`, phase `stuck` | `_sync_is_running` after an exception in `Peer::send`; the io thread in `_async_cv.wait` |
| `AskNew`, `AskKnown`, `AskNewWhenFull`, `TakeReply`, `RequestFails` | one iteration of `bootstrap_from_config`, split where it waits |
| `Accept`, `AcceptThrows`, `HandleGetAddr`, ..., `ReadAddr` | the coroutines of the io thread |

Choices: the end of a connection is noticed by the other process at any later
time, and what is in it may still be read until then. A reset socket may or may
not make `remote_endpoint` throw. All connects of one `handle_addr` see the
acceptors of one moment. Addresses of ports where nobody listens are left out of
answers, since connecting to them fails. `turnedAway`, `crossed` and `missed` are
history variables. An io thread that a paused listener blocks has not opened the
acceptor yet, because the listeners were spawned first: such a node
(`stuck`) has answered nobody and never will.

**`PeerIO`** is one io thread with the sockets of its peers: what it runs, in which
order, and when it waits for itself.

| TLA+ | code |
|---|---|
| `queue` | the handlers that are ready in the `io_context` |
| `run` | the frame whose handler runs in `listen`, and the sends that it still spawns |
| `holder[p]`, `blocked` | who has `_socket_mu`; the send whose `lock_guard` the thread is in |
| `ops[p]`, `wire[p]` | writes that wait for the socket; what was written, in parts |
| `listener[p]`, `open` | where `listen` is; whether the connection stands |
| `undefined` | a coroutine of a destroyed `Peer` was resumed |
| `IoStarts`, `HandlerSends`, `IoWritesOn`, `IoEndsSend`, `IoSendFails` | `async_send`, from one suspension to the next |
| `IoReads`, `HandlerAnswers`, `HandlerReturns`, `IoEndsAnswer`, `IoEndsListener` | `listen` likewise |
| `MainBroadcasts` | `handle_mined_block` on the main thread |

Choices: what asio does is external and is modelled by how `peer.cpp` and
`conn_mngr.cpp` use it: handlers run one at a time in the order in which they
became ready; a coroutine spawned on the io thread runs at once, one spawned by
the main thread is queued; a write takes as much as the socket takes now, and
otherwise waits behind those that wait already. `listen` reads a frame in one
step, since a read shares nothing. Inbound peers are destroyed when their
listener ends, because only the table and the listener hold them; outbound ones
stay in their table. What a message says is left out; that the main thread
waits while a handler broadcasts is the mutex of the tables.

**`Wallet`** is the wallet between the RPC handler and the blocks.

| TLA+ | code |
|---|---|
| `coins` | `coins_`: outputs with the `TransactionInput` object that stands for them |
| `signature`, `inputs` | `sig_` of each object; the objects in `inputs_` of a transaction made here |
| `rpc` | `add_tx`: inputs not looked up yet, and the one between `exists` and `pubkey` |
| `own` | `add_block` on the main thread: after `append_block`, after `filter_block` |
| `NewTransaction`, `CannotPay`, `CannotSign` | `new_transaction` with the constructor and `sign` of `Transaction` |
| `InputExists`, `InputMissing`, `InputRead`, `Pools` | `add_tx` and `validate_transaction` |
| `Received`, `Reorganised` | blocks on the io thread, between two requests |

Choices: the order of the map is open, so `new_transaction` may collect any coins
that cover the amount with the last one needed. A signature is the name of the
transaction it was made for, because it covers the whole transaction. Blocks contain
payments that `add_tx` accepted here, from which peers have them, and deposits,
which are outputs others pay to the wallet's key. A reorg replaces the last block by
two: the wallet sees only the result, through `rescan`. Sums of amounts do not wrap.
`raced` is history: a block mined here was being added during the request.

**`ASTree`** is one construction of the expression tree of `ast.cpp`. The text is not
chosen at the start: each action of the first phase reads one more token of it, so
that texts share their beginnings, and `text` keeps it for what is said of it.
**`ASTreeMeaning`** adds `eval` and the meaning of a text, which are recursive and
therefore kept apart from the module that is proved about.

| TLA+ | code |
|---|---|
| `operator_stack`, `found_operator`, `input` | `shunt`'s stack and flag; `output_q`, later `input_` |
| `nodes`, `root`, `node_stack` | `ASTNode`s by `node_id_`, `root_`, `node_stack` |
| `curr_node`, `is_full`, `left_to_read` | locals and loop position of `build_tree` |
| `at` | the argument of `reorg_from`, which calls itself with the parent |
| `ReadNumber`, `ReadOpen`, `ReadClose`, `ReadOperator` | the branches of `shunt`'s loop, with the loops that pop inside them |
| `EndText`, `Reject` | the end of `shunt`, and its "no operators found" |
| `Insert`, `Settle` | an iteration of `build_tree` up to `reorg_from`, and what follows it |
| `RotateRight`, `RotateLeft`, `RotateLeftRight`, `RotateRightLeft`, `KeepShape` | one call of `reorg_from` |
| `Results` (`ASTreeMeaning`) | `FHEComputer::eval`, on plaintexts |

Choices: texts are well formed, every operand is a ciphertext of its own, digits
and blanks are not modelled. `Reject` therefore has one cause: no operator is on
the stack at the end of the text, which is so for a single operand, and also for
`(0+1)`, whose operator the parenthesis has popped. A `top()` or `pop()` of an
empty stack has no defined outcome and no step; the run checks for deadlock, so
within its bounds there is none. `Meaning` defines value and depth of a text by
its weakest operator, without stacks or trees.

Definitions marked "Mutant" beside the definition they vary are plausible
mistakes in the code; every property of a passing run is violated by one of them.

## 4. What TLC checks

| Run | Instance | Shows |
|---|---|---|
| `ChainManagerReorg` | three branches of up to four blocks, one of which starts from the first block of another; a branch invalid in its third block and one in its first, an orphan, an unsound header, a stale timestamp, a double spend; blocks mined here, sound and not; `"idempotent"`; 270 995 states | completed, rolled back and broken off reorgs, one after another; in which ways the process ends |
| `MemPoolPool` | five transactions: shared payments, a conflict, equal outputs; all blocks of one or two | ranking, storage and index agree |
| `MiningNode` | three transactions: two in conflict, two with equal payments, one that pays twice the same; three computations, one faulty; blocks of peers: empty, one transaction, a double spend; chains of three blocks; liveness; 929 789 states | the mining loop against the io thread, and the pool that both use |
| `Gossip` | a miner and another node, two blocks, one of them refused or not, a computation or two transactions, one break, io threads that stop; or a third node besides, without items and breaks; liveness; 51 224 states | sync, announcements and lists fit together |
| `ConnectionManager` | a hub with two inbound places and two nodes that know it, one of them also as the other's bootstrap peer and one with a single outbound place; hub and one node restart; liveness | tables against connections, who finds whom |
| `PeerIO` | an inbound and an outbound peer, frames of two parts, a block mined here, a frame that is answered and one that is announced to both, one break; liveness | sends and answers on one thread |
| `Wallet` | two deposits, two payments that may take the same coin, chains of three blocks, one reorg | coins, signatures and the chain |
| `ASTree` | texts of up to five `-` and `*` and two pairs of parentheses | postfix order; value, depths and balance of the tree |
| `ReorgAborts` (violation) | two branches of three blocks, an unsound header, its orphan child, a stale timestamp, a double spend; `"cumulative"` | the first reorg ends the process |
| `StaleForkSource` (violation) | the three branches of `ChainManagerReorg` | reorg cuts main at an index, not at the fork point |
| `ConflictStays` (violation) | as `MemPoolPool` | a transaction stays in the pool although another that spends the same output was in a block |
| `OperandLost` (violation) | products of seven factors, three pairs of parentheses | the tree of `a*(b*(c*(d*e)*f)*g)` lacks an operand |

The properties of the chain manager, in the order of what they protect:

* `MainIsChain`, `StoreHasChains`: at every step, also after a failed reorg, the
  header chain is a chain from genesis and `get_block` finds each of its blocks.
* `ChainstateMatchesChain`, `UndoRecordsComplete`: between any two steps of a
  reorg the chainstate is that of the blocks applied so far, and each of them can
  be rewound. `ChainManagerReorg` rewinds and reapplies a block up to twice.
* `WalletMatchesChain`: `add_block` (filter, then spend) and `rescan` (spend, then
  filter) agree.
* `ForksHangOnMain`, `OnlyStaleForksCutElsewhere`: `chain_src_` is an index into a
  chain that reorgs replace. A fork whose block has left main cuts main anywhere
  (`StaleForkSource`); these say that this is the only case, however the forks start
  from one another: if the block is on main, or comes back to it, the index finds it.
* `HeaviestIsMain`: what the fork choice compares is true of the chains, until an
  exception has left a reorg (`cut`).
* `OnlyFailedReorgsLose`: a block that is in the store is ignored when a peer sends
  it again, so it has to stay in some chain; a step that leaves one out of all
  chains is a step of a reorg that fails.
* `ImplementsForkChoice`: with `chain` mapped to the committed chain, every step
  is a step of `ForkChoice` or changes nothing.
* `EndHasCause`: the ways in which `add_block` ends the process. An assertion fails
  for an own block that cannot be spent, or while a failed reorg puts the old chain
  back (`chain_manager.cpp:150`): a computation is bound once more, the block spends an
  output whose record was misfiled (`mem_chainstate.cpp:73`), or it was mined here and
  never valid. The loop for index 0 does not end, or, after an exception has left a
  reorg, a source index is past the end of main. An exception ends it for an own
  block on a tip that main has left. The run reaches all of these but the first
  cause at line 150, which `ReorgAborts` shows.
* `AddBlockReturns`: liveness, see below.

`ChainManagerReorg` reaches the status `undefined` too: when the invalid block
of a fork is its first, the loop at `chain_manager.cpp:153` counts an unsigned
index below 0. The process stops there in the model.

Those of the other modules:

* `MemPool`: `IndexesMatchStorage` ties the three tables together, by
  `RankedIsStorage` and `RefsCoverStorage`; from the second follows that
  `spend_tx_unsafe` can abort only for a transaction with two equal outputs
  (`AbortNeedsEqualOutputs`), which does happen, since nothing rejects one. Which
  transactions leave with a spent one: those that make an equal payment, for the
  index is over created outputs. The comments (`mem_pool.hpp:43`, `mem_pool.cpp:122`,
  `wallet.cpp:62`) have it over spent ones; `SpendEvictsConflicts` says what they say,
  and `ConflictStays` refutes it.
* `MiningNode`: `SpentOnce`, although own blocks skip validation;
  `CalmRoundSurvives`, the node dies of its own block (an exception or an assertion
  in the main thread) only after a block came while it was mined, when `get_top`
  returned transactions in conflict, or for a transaction with two equal outputs,
  which `add_tx` accepts and no calm round survives (`mem_pool.cpp:120`);
  `OwnCoinbasesDiffer`, which makes coinbase TXIDs of one node unique;
  `MinedLeavesPool`, with the one exception that an equal payment can bring a
  transaction back through `add_tx` (without the exception TLC finds it);
  `MiningLoopRuns`. That an added transaction's inputs are unspent does not hold:
  `add_tx` looks them up without `chain_manager_mu_`, and a block may come before it
  calls the pool. `OwnBlocksVerify`: a computation of an own block is bound once,
  also if other blocks take it out of the store meanwhile, unless an own block with
  it was refused for its timestamp, or a round that had bound it met a computation
  that cannot be proved: its object stays in the store, is bound on top, and the
  node adds a block whose proof no peer will accept. `ImplementsMemPool`: `add_tx`
  on the io thread, `spend_block` inside `append_block` on either thread and
  `get_top` are, step by step, a behaviour of `MemPool`, which has one user, because
  the pool's `mu_` is held over each call; the blocks spent there are those received
  and those mined here.
* `Gossip`: `SyncUnderWay` and `MissingIsUnderWay` say which message keeps the
  sync, and then a synced node, going; `SyncEnds` and `FollowsSyncPeer` are what
  follows under fairness. All four except what the code does not do: a node that
  refuses the next block of its sync peer stays where it is, in a sync for ever, for
  nothing further is requested. They say that nothing else stops a node, but a broken
  connection and an io thread that waits for itself: not a block that comes twice or
  from another peer in the middle of the sync, not the order of announcements and
  answers. `ItemsUnderWay` says the same of transactions and computations.
* `ConnectionManager`: `InboundIsListening`, the table has the peers that are
  listened to, under their IDs, but for two causes; from the same two causes, and
  from too long a bootstrap list, come the null entries that end the process
  (`CrashHasCause`). `PeersMeet`: two nodes that asked the same peer know of each
  other, because an entry is renamed before the addresses are collected. They need
  not be connected: bootstrap ends before `Node::start` opens the acceptor, so a
  node can be named and tried before it accepts, and nobody tries again (`missed`).
  `BootSucceeds`: a request of the bootstrap fails, and the node hangs, only after a
  process has ended.
* `PeerIO`: `HeldWhileWriting`, a mutex is held exactly as long as a write of its
  holder is under way, so that the io thread can wait for itself only while a
  send is suspended and another to the same peer starts. This does happen: then
  nothing runs any more (`blocked`). `OnlyAnswersCutIn` says what is mixed on the
  wire otherwise: an answer between the parts of a send, or the reverse, because
  `listen` writes without the mutex (`peer.cpp:69`); never two sends, nor two
  answers. `FramesComplete`: what was begun or queued is written as a whole
  unless the connection breaks or the thread is stuck.
* `Wallet`: `SignedForOwner`, a failed payment leaves no trace on the objects it
  shares with an earlier one. The second payment from a coin fails until the
  first is in a block (`CannotSign`), although the comment at `wallet.cpp:60` has
  two transactions reference one output. `CoinsMatchChain`, the coins are the
  unspent outputs, however they came and went. `RefusedNeedsRace`: `add_tx` finds
  the coins that `new_transaction` collected, unless a block mined here is being
  added during the request; the client is told OK then, too.
* `ASTree`: `PostfixWellFormed`, what `build_tree` takes on trust from `shunt`:
  every operand and operator of the text, the operands in order, and before each
  operator what it takes. `ResultKept`, the tree's operands are where the text has
  them, however they were rotated while it was built; `DepthsAreLevels`, each
  `depth_` is the number of multiplications under the node, which `eval` and
  `difficulty` rely on; `Balanced`, the tree is not deeper than the text, and a
  product of any shape has the least depth its number of factors allows. Up to five
  operators the last three hold. With six, `reorg_from` may climb to a double
  rotation far above the node inserted into. It pushes the right child, which is
  full by now, while the free place is at the old parent, and that one was popped as
  full before: the stack runs empty, and the last operand overwrites another
  (`OperandLost`); the code, compiled by itself, crashes on this text. With seven,
  `depth_` may be too small, because a rotation leaves the `parent_` of the subtree
  that changes sides as it was: TLC finds `DepthsAreLevels` violated for products
  with `MaxOperators = 7` and `MaxGroups = 4`, and the code reports depth 3 for
  `3*(5*((7*11)*(13*(17*(19*(23*29))))))`, which has nine factors. The run's bound
  of five stays below both: within it the depth property is about the order in which
  depths are computed, not about `parent_`.

Bounds:

* `ChainManager`: the block trees only. Each block arrives in every order and, if it
  was rejected, again and again; branches of two to four blocks are what a reorg, a
  reorg back, a reorg to a fork of the chain just left and a partly invalid reorg take.
* `MemPool`: the smallest sets in which two payments are shared along a chain of
  three transactions, which is what stale index entries need.
* `MiningNode` stops at three blocks (`MaxHeight`): an own block, a foreign one in its
  way, and another own one. `Small` has one computation with transactions, or three
  with empty blocks and one block of a peer, which a round that fails and the next one
  take.
* `Gossip` has two blocks (`MaxHeight`), so that they can come in the wrong order, up to
  two items (`MaxItems`) and one broken connection (`MaxBreaks`), and `Small` says which
  of them there are together. A network of two (`TwoNodes`) has both blocks, one of them
  possibly refused, a break and stopped threads, or items and one block. In a network
  of three (`ThreeNodes`) there are no items, breaks, exceptions or stopped threads; the
  third node starts when the miner is synced, and then there is one block, or two if it
  asks the other node alone, or a first block that is rejected. It takes a block from
  the miner while it syncs from the second node, so that two of its requests are under
  way and answered (`DropOutOfRange`). What `Small` cuts off are steps of the environment
  (clients, mining, starts, breaks, a thread that stops), to which no fairness applies;
  states in which a node has crashed are kept. That blocks do not get lost in any
  network and in any number is proved, not run.
* `ConnectionManager` has three nodes, the fewest of which two meet through a third, and
  restarts two of them once (`Lives`).
* `PeerIO` has frames of two parts (`Chunks`), the least that something can come between,
  and one break (`MaxBreaks`).
* `Wallet` has chains of three blocks (`MaxHeight`) and one reorg (`MaxReorgs`): a deposit,
  the payment, and what spends its change or takes it back.
* `ASTree` has five operators (`MaxOperators`) and two pairs of parentheses
  (`MaxGroups`): a double rotation takes three operators, and the fourth and fifth are
  inserted into what it left; the sixth is the first that goes wrong.

Deadlock checking is off where the process may really stop: an aborted process, or a
tree that is used up.

Each MC module fixes its instance by definitions. `MCChainManager` and `MCMiningNode`
also state as assumptions, which TLC evaluates in each of their runs, that the
instance meets the hypotheses of the theorems (`MCLedgerHypotheses`,
`MCHypotheses`): these are not void, and the runs show the properties where the
theorems apply.

Fairness. `ChainManager`'s `FairSpec` assumes weak fairness of the steps of a
running reorg and nothing of the environment. The thread in `add_block` is waiting
for nobody: it holds `chain_manager_mu_`, and other threads hold the mutexes of the
stores only for single lookups. `MiningNode`: weak fairness of the appending, the
adding and the mining thread's steps; whoever waits for a mutex in the model waits
for a call of bounded length, and `spend_block` of the pool is split into such
steps. Peers and clients may stop. `Gossip`: weak fairness of each listener whose
other end has not stopped (one io thread runs the coroutines in turn, and the other
one writes what there is to read), of the main thread's `start_sync` (after 4 s) and
of the announcement; none of mining, of clients, of a connection's breaking or of a
thread's stopping. A listener of a stopped node has no step, and what a stopped node
left unwritten may never come. `ConnectionManager`: weak fairness of each process's
main thread and of each connection's turn on the io threads; none of starting and
stopping. `PeerIO`: weak fairness of the io thread, which `run()` keeps going, and
of each socket, that is, the other end reads; none of frames, of the main thread or
of breaks. `Wallet` states no liveness.

## 5. What is proved

Eight modules of proofs, for all values of the constants that satisfy the named
assumption of the component's module (`BlockTreeAssumption`, `MemPoolAssumption`,
`MiningAssumption`, `GossipAssumption`, `ConnectionAssumption`, `PeerIOAssumption`,
`WalletAssumption`, `ASTreeAssumption`): types of the constants, finite sets of
nodes, peers and items, kinds of values that cannot be confused; of the chain
manager also that a block mined here spends no output of its own (`MinedAssumption`,
section 3). These say nothing of validity, of uniqueness, or of `Rebinding`. Some
theorems need more, and say so in their statement:

* `TransactionsDiffer(h)`: a coinbase belongs to one height, `h` of its block, and is
  no other transaction of a block; every other transaction spends something. The
  miner writes the height into the coinbase (`miner.cpp`), but no validation asks
  for it, or that a transaction has inputs. Without it the theorems are false: with a
  block that has its parent's coinbase, `rewind_block` removes the parent's output.
* `Heights(h)`, a part of it: every block but genesis is one higher than its parent,
  that is, none is its own ancestor. No theorem supposes anything else of where
  forks start.
* `Owned \cap Created(Genesis) = {}`: the wallet does not own the genesis output,
  which it would ignore until the first rescan.
* `OutputsDiffer`: the outputs of two transactions have different keys, because the
  key starts with the TXID, and a transaction spends something.

Each module has the type invariant as a theorem (`TypeCorrect`), which
the runs then need not check, and each an inductive invariant with one lemma per
action:

* `ChainManager_proofs`. The types alone are not inductive: `reorg` indexes `main`
  and `forks` with values it computed steps before. `ReorgShape` says where these
  indices point in each phase, and `DiffCovers` that a stored difficulty is never
  smaller than the headers it stands for. In `TypeCorrect`, `forks \in Seq(Fork)`
  contains that a difficulty stays natural, so the unsigned subtraction at
  `chain_manager.cpp:156` does not wrap. `MainChainIsChain` needs `OldFits`, that the
  old main chain still fits the block it was cut from and that the restored part is
  a prefix of it; otherwise re-appending an old block could break the chain. It
  holds although source indices go stale: `append_block` throws rather than
  breaks the chain. `ChainsAreStored`: with the header of the chain set aside.
  - `ReorgRunsDown` is the argument behind `AddBlockReturns`: every step of a
    running reorg lowers `Rank`, the blocks that the present loop and the loops after
    it have yet to go through. It needs no hypothesis.
  - `ChainstateIsCorrect` and `UndoRecordsAreComplete` need `LedgerInv`: what main's
    blocks consume, earlier blocks created, and nothing is created twice, also in
    the blocks that are rewound and not applied at the moment. From this follows
    that adding and rewinding cancel. That an output is created once is where
    `TransactionsDiffer` enters: by induction along the chain, a transaction that is
    on it twice would have inputs that are consumed twice.
  - `ForksHang` rests on heights: a source index is the height of the block it stands
    for (`AllPlaced`), and a chain from genesis has the block of every height in
    its place, so an index can go stale only by its block's leaving main.
  - `MainIsHeaviest` needs `ForkInv`: until an exception has left a reorg, every
    fork is a chain from its header on and its difficulty is its length; during a
    reorg the target alone is heavier than the old main chain, and by one block, so
    that the old chain, restored or turned into a fork, is in its place again.
  - `WalletIsCorrect` combines the two (`NodeHolds`), since only `reorg`'s end rescans.
  - `ChainManagerImplementsForkChoice`: the committed chain is the old main chain
    until the reorg is over. A step of `add_block` extends it, a reorg that ends well
    replaces it by a longer one, one that an exception ends leaves its first part, all
    other steps map to a stutter. One lemma each. That an exception leaves no more than
    that is `ThrowsAtFirst`: `append_block` can throw only for the first block of the
    fork, since the others name the one before them (`AllLinked`, which every step
    keeps, also after an exception).
  - `OnlyFailedReorgsLoseBlocks` holds for every tree. It needs `ReorgFits`: where
    in `forks` the target is, and which part of it main has by now.
  - `CommittedChainIsValid`: what a reorg may have to put back was accepted when it was
    on main, and stays what it was (`CommittedInv`, `CommittedMoves`): validated, or
    mined here and spendable (`AllAccepted`). Hence an old block, put back on what it
    was on, passes all of the validation but the proofs bound once more, the lookups
    of misfiled records, and what an own block was never asked: `AbortsHaveCause`.
    `EndsHaveCause` (`EndHasCause`) adds `LoopCause`, that no loop reads past the end of
    main but at index 0 or after a cut, and `ExceptionCause`.
  - `OthersAreCutWhereTheyStart` (`OnlyStaleForksCutElsewhere`): the block that the fork
    starts from, if it is on the chain that is being replaced, is where its height
    says, so what `StaleForkSource` shows happens to no other fork.
* `MemPool_proofs`. `IndexesMatch`: `RankedIsStorage` by itself; `RefsCoverStorage`
  with the types, and from it that an assertion can only fail for equal outputs.
* `MiningNode_proofs`. `OwnCoinbasesAreUnique` needs `HeightFresh`: a height that
  has been read exceeds that of every own block and not the length of the chain by
  more than one, and no block's height exceeds its place. Both are kept because own
  blocks come from one thread and the chain only grows. `OwnProofsAreForOneBinding`
  needs `BindInv`: an object that a round was given and that is still in the store
  belongs to the round in progress, to the block being added, to a refused one, or
  to a round that failed (`Wasted`). `OutputsSpentOnce` needs `LedgerInv`, as above,
  for a chain whose own blocks nobody validates. `CalmRoundsSurvive`: `PoolInv`
  keeps the pool's invariants through the steps of `append_block`, and `CalmInv`
  says that in an undisturbed round the tip is the one read and the transactions
  taken still apply; that a transaction may pay twice the same is not ruled out but
  named in the property. `MinedTransactionsLeave` needs three parts (`EvictInv`), of
  the pool, of what a round took and of what `add_tx` is about to add: a mined
  transaction is still to be spent or has a rival that pays the same, and `add_tx`
  does not find its inputs. `NodeImplementsMemPool` (`ImplementsMemPool`) maps the
  pool's variables to themselves, the bodies to all that may be received or mined,
  and the status to the node's while a block is being spent; a step that leaves the
  pool alone is a stutter. It needs that `add_tx` adds, and a block begins to be
  spent, only when no other is half spent. By instantiating `MemPool_proofs`,
  `PoolServesNode` carries over what was proved of one user.
* `Gossip_proofs`. A block is lost if it arrives before its parent, so
  `NoBlockIsMissed` (`MissingIsUnderWay`) is not inductive without the order of all
  that is on its way. For each direction of a connection, announcements, requests
  and blocks form a pipe of three stages, in two queues that run against one
  another: within a stage heights rise, and the parent of each block is known to
  the receiver or ahead in the same or a later stage. The pipe stands until the next
  block is one that the receiver does not add (`Free`): from then on it lacks that
  block for good, and nothing is said of those behind it. `SyncGoesOn`: a sync that has
  not ended has, under the same condition, a message under way: the request, the block
  or the answer that it is out of range.
  `NoItemIsMissed` (`ItemsUnderWay`) needs `ItemsInv`: what a node holds and a node it has
  connected to does not is announced, asked for or on its way, since the connection
  was made before there was anything to offer. Only what a sync peer holds must
  come by the list that it answers with, or has yet to answer with.
* `ConnectionManager_proofs`. `InboundListens` needs that a connection is made once
  (`Fresh`): what is waiting or listened to is of an earlier life of its node or
  still in its outbound table; and that two listeners with one node behind them
  have been recorded (`TwinsCrossed`). `CrashesHaveCauses` follows from it.
  `NodesMeet` (`PeersMeet`) is inductive with these: whoever is named second at a
  common peer gets an answer that names the first, since the entry is renamed before
  addresses are collected. The rest of the proof is that a connection of
  two living nodes, or an answer in it, is lost only as an event that `missed` records.
* `PeerIO_proofs`. `MutexHeldWhileWriting` needs that each send has one
  continuation at a time (`Held`): one place in the queue or one among the
  waiting writes, never both; what leaves one enters another, or ends the send.
  `OnlyAnswersComeBetween` needs `WireInv`. A listener is in one place: a handler in
  the queue, an answer that waits, or the turn; so a peer has one answer
  at a time. A send that has not started is there once, and nothing of it is on
  a wire (`FreshInv`), since a frame is read once and what its handler has yet to
  send is a rest of its list (`RunFits`). Then, by `Held`, the last part of its
  kind on the wire is the holder's, and whatever is appended cuts in between
  nothing of its own kind (`CutsInv`).
* `Wallet_proofs`. `CoinsAreUnspent` needs that in every chain a block pays only what
  was not spent before it (`ChainInv`), which rests on a transaction's being in a
  chain once; `PaymentsAreAccepted` that a request no block overtook has all its
  coins live (`CalmInv`); `SignaturesStay` that objects are numbered anew.
* `ASTree_proofs`. `PostfixIsWellFormed` needs one count (`ShuntInv`): the operands in
  the output are as many as the operators there and on the stack, and one more
  unless an operand is expected. Parentheses count for nothing, and every prefix
  of the output has more operands than operators, so a pop never comes too early.
  `TypeCorrect` needs `BuildInv`: the nodes hold the tokens taken so far, from the last
  to the first, and only operators have children or are on `node_stack`; every pointer
  assignment of the four rotations keeps this (`TurnedKeeps`, `RotateKeeps`).
  `EachTokenHasNode` combines both: a node for each token, and operands as leaves.
  It does not say that the leaf is still reached from the root: that is
  `ResultKept`, and false from six operators on.

The inductive invariants were model-checked on the instances of section 4 before
they were proved. Induction along a chain is done by the least counterexample, which
exists because `<` on the naturals is well-founded (`LeastElement`).

## 6. What is only model-checked, and what is not modelled

Liveness (`AddBlockReturns`, `MiningLoopRuns`, `SyncEnds`, `FollowsSyncPeer`,
`BootSucceeds`, `FramesComplete`) is beyond the prover; of `AddBlockReturns`
`ReorgRunsDown` is all but the fairness. So are `ResultKept`, `DepthsAreLevels` and
`Balanced` of `ASTree`, because what a tree is compared with (its value, its depth,
that of the text) is defined by recursion over it; beyond the bounds of the run the
first two are not even true (section 4). What the violation runs refute is of course
not proved.

Not modelled:

* The retarget of the difficulty. `get_difficulty_for_height` computes the first
  index of an epoch's average as `(i - 1) * blocks_per_epoch` in unsigned arithmetic
  (`chain.cpp:312`) and reads outside the vector as soon as there is a second epoch,
  at block 2016. What follows is undefined for every block after it, so a
  model beyond the first epoch could say nothing; before, difficulty and reward are
  constants. The Merkle root is a pure function of a block, and is taken as part
  of its identity.
* Data races within one object: `to_proto` (`fhe_computer.cpp:466`) serialises a
  computation for a peer while the miner binds it. What the peer gets may be
  anything, and nothing is stated of it.
* Several nodes that mine: their forks are `ChainManager`'s, one node at a time.
* Encodings, the RPC server's coroutine, the command line tools, the FHE and proof
  libraries (empty submodules). The vendored asio and json are most of the lines of
  the repository; of asio, `PeerIO` has what the node relies on.
