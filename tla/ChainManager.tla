---------------------------- MODULE ChainManager ----------------------------
(***************************************************************************)
(* ChainManager::add_block and ChainManager::reorg with the main Chain,    *)
(* the Forks, the block store, the chainstate with its spent set, and the  *)
(* wallet's coins.  add_block runs under chain_manager_mu_, so one call    *)
(* runs at a time; a reorg is split into the iterations of its loops,      *)
(* because the mining thread reads the main chain without that mutex.      *)
(*                                                                         *)
(* The memory pool and the computation store are written by append_block   *)
(* and never read here; MemPool and MiningNode model them.                 *)
(*                                                                         *)
(* Validation of a block runs on the Computation objects it holds.  The    *)
(* first validation binds them; every later one binds them again.          *)
(* Rebinding says what the Computation makes of the second binding:        *)
(*   "cumulative"  FHEComputer: the new zero encryption is added on top of *)
(*                 the bound inputs and the proof no longer verifies;      *)
(*   "idempotent"  the contract reorg counts on: binding the same data     *)
(*                 again gives the same inputs.                            *)
(***************************************************************************)
EXTENDS BlockTree

CONSTANTS
  Rebinding,    \* what a Computation makes of being bound once more
  Mined         \* the blocks this node may mine, as valid as its miner and
                \* its memory pool make them

ASSUME RebindingAssumption == Rebinding \in {"cumulative", "idempotent"}

\* No block mined here spends an output of its own.
ASSUME MinedAssumption ==
  /\ Mined \subseteq Block
  /\ \A b \in Mined : Consumed(b) \cap Created(b) = {}

VARIABLES
  main,       \* main_chain_->header_chain_, genesis first
  mainDiff,   \* main_chain_->total_difficulty_
  forks,      \* forks_, oldest first
  store,      \* blocks in block_store_
  unspent,    \* keys of chainstate_->storage_
  spent,      \* keys of the chainstate's spent set: what rewind can restore
  altered,    \* outputs whose record is not the one the chainstate was given
  coins,      \* keys of wallet_->coins_
  pc,         \* where the running add_block is
  target,     \* index in forks of the fork being reorganised to
  old,        \* old_main_fork
  cursor,     \* number of blocks of main still applied to the chainstate
  idx,        \* number of fork blocks appended by the reorg
  reply,      \* what the last call of add_block gave back
  status,     \* what became of the process
  cut         \* history: an exception has left a reorg in the middle

chainVars == <<main, mainDiff, store, unspent, spent, altered>>
reorgVars == <<target, old, cursor, idx>>
vars == <<chainVars, forks, coins, pc, reorgVars, reply, status, cut>>

\* A Fork: chain_src_, chain_src_header_, header_chain_, total_difficulty_.
\* chain_src_ counts from 0, main[src + 1] is the header it stands for.
Fork == [src : Nat, header : Block, chain : Seq(Block), diff : Nat]

NoFork == [src |-> 0, header |-> Genesis, chain |-> <<>>, diff |-> 0]

Phase   == {"idle", "rewind", "apply", "undo", "restore"}
Reply   == {"none", "added", "rejected", "thrown"}
Status  == {"running", "aborted", "terminated", "undefined"}

Init ==
  /\ main = <<Genesis>>
  /\ mainDiff = 1
  /\ forks = <<>>
  /\ store = {Genesis}
  /\ unspent = Created(Genesis)
  /\ spent = {}
  /\ altered = {}
  /\ coins = {}
  /\ pc = "idle"
  /\ target = 0
  /\ old = NoFork
  /\ cursor = 0
  /\ idx = 0
  /\ reply = "none"
  /\ status = "running"
  /\ cut = FALSE

-----------------------------------------------------------------------------
(* Validation *)

\* Mutant: transactions of one block are not compared with each other.
SpendableAlone(b) == Consumed(b) \subseteq unspent

\* The checks of validate_block that read the chainstate.
Spendable(b) == Consumed(b) \subseteq unspent /\ ~SpendsTwice(b)

\* What validate_block may answer.  Against an altered record the signature
\* and the amounts are checked with the values of some other output.
BodyVerdicts(b) ==
  IF b \notin SoundBody \/ ~Spendable(b) THEN {FALSE}
  ELSE IF Consumed(b) \cap altered = {} THEN {TRUE} ELSE BOOLEAN

\* validate_header_unsafe for a block object that was validated, or mined,
\* before: its computations are bound once more.
HeaderStillSound(b) == b \in SoundHeader /\ Rebinding = "idempotent"

Newer(b) == Timestamp[b] > Timestamp[Last(main)]

CanAttach(f, b) == f.chain = <<>> \/ Parent[b] = Last(f.chain)

\* The forks that b can attach to; the loop over forks_ stops at the first.
Attachable(b) == {i \in DOMAIN forks : CanAttach(forks[i], b)}
FirstFork(b)  == {i \in Attachable(b) : \A j \in Attachable(b) : i <= j}

-----------------------------------------------------------------------------
(* The chainstate *)

\* MemChainstate::add_block.  remove_utxo reads the record it has just
\* erased, so what it files in the spent set may be any live record.
ChainstateAdd(b) ==
  /\ unspent' = (unspent \cup Created(b)) \ Consumed(b)
  /\ spent' = spent \cup Consumed(b)
  /\ \E S \in SUBSET Consumed(b) : altered' = altered \cup S

\* Mutant: the undo records are used, and not removed.
ChainstateRewindKeepingUndo(b) ==
  /\ unspent' = (unspent \ Created(b)) \cup Consumed(b)
  /\ spent' = spent
  /\ altered' = altered \ Created(b)

\* Mutant: what the rewound block has consumed is not brought back.
ChainstateRewindOnlyOutputs(b) ==
  /\ unspent' = unspent \ Created(b)
  /\ spent' = spent \ Consumed(b)
  /\ altered' = altered \ Created(b)

\* MemChainstate::rewind_block, the undo records being present.
ChainstateRewind(b) ==
  /\ unspent' = (unspent \ Created(b)) \cup Consumed(b)
  /\ spent' = spent \ Consumed(b)
  /\ altered' = altered \ Created(b)

\* Mutant: append_block does not store the block.
ExtendMainUnstored(b) ==
  /\ main' = Append(main, b)
  /\ ChainstateAdd(b)
  /\ store' = store
  /\ mainDiff' = mainDiff + 1

\* Chain::append_block after its checks.
ExtendMain(b) ==
  /\ main' = Append(main, b)
  /\ ChainstateAdd(b)
  /\ store' = store \cup {b}
  /\ mainDiff' = mainDiff + 1

(* The wallet *)

WalletAdd(b) == (coins \cup (Owned \cap Created(b))) \ Consumed(b)

\* Mutant: rescan filters every block and spends none.
RescanFilter(c) == {o \in Owned : \E i \in DOMAIN c : o \in Created(c[i])}

\* Wallet::rescan: every block is spent, then filtered, in chain order.
Rescan(c) ==
  {o \in Owned : \E i \in DOMAIN c :
     /\ o \in Created(c[i])
     /\ \A j \in i + 1..Len(c) : o \notin Consumed(c[j])}

-----------------------------------------------------------------------------
(* add_block *)

\* handle_info_block hands over blocks that the store does not have.
Receivable(b) == /\ status = "running"
                 /\ pc = "idle"
                 /\ b \in Block \ store

\* The block extends the main chain.  own: it was mined here, and append_block
\* checks only its timestamp; that it can be spent, MemChainstate::add_block
\* asserts (OwnBlockAborts).
AttachToMain(b, own) ==
  /\ Receivable(b)
  /\ Parent[b] = Last(main)
  /\ IF own THEN b \in Mined /\ Spendable(b)
            ELSE b \in SoundHeader /\ TRUE \in BodyVerdicts(b)
  /\ Newer(b)
  /\ ExtendMain(b)
  /\ coins' = WalletAdd(b)
  /\ reply' = "added"
  /\ UNCHANGED <<forks, pc, reorgVars, status, cut>>

\* Mutant: the index of the block after the parent.
SourceIndexAfter(b) == CHOOSE i \in DOMAIN main : main[i] = Parent[b]

\* Main chain index (0 based) of b's parent.
SourceIndex(b) == (CHOOSE i \in DOMAIN main : main[i] = Parent[b]) - 1

\* The block starts a fork: its parent is on the main chain, below the tip.
StartFork(b) ==
  /\ Receivable(b)
  /\ Parent[b] # Last(main)
  /\ Attachable(b) = {}
  /\ Parent[b] \in ToSet(main)
  /\ b \in SoundHeader
  /\ forks' = Append(forks, [src |-> SourceIndex(b), header |-> Parent[b],
                             chain |-> <<b>>, diff |-> SourceIndex(b) + 2])
  /\ store' = store \cup {b}
  /\ reply' = "added"
  /\ UNCHANGED <<main, mainDiff, unspent, spent, altered, coins, pc,
                 reorgVars, status, cut>>

\* Fork::append_block
Grown(f, b) == [src |-> f.src, header |-> f.header,
                chain |-> Append(f.chain, b), diff |-> f.diff + 1]

\* The fork choice.
Heavier(f) == f.diff > mainDiff

\* The block extends a fork, and the fork does not become heavier than main.
ExtendFork(b) ==
  /\ Receivable(b)
  /\ Parent[b] # Last(main)
  /\ b \in SoundHeader
  /\ \E i \in FirstFork(b) :
       /\ ~Heavier(Grown(forks[i], b))
       /\ forks' = [forks EXCEPT ![i] = Grown(@, b)]
  /\ store' = store \cup {b}
  /\ reply' = "added"
  /\ UNCHANGED <<main, mainDiff, unspent, spent, altered, coins, pc,
                 reorgVars, status, cut>>

\* No attachment point, or one that refuses the block.  A computation without
\* a proof makes the validation of the header throw.
Reject(b) ==
  /\ Receivable(b)
  /\ \/ /\ Parent[b] = Last(main)
        /\ b \notin SoundHeader \/ FALSE \in BodyVerdicts(b) \/ ~Newer(b)
     \/ /\ Parent[b] # Last(main)
        /\ b \notin SoundHeader
     \/ /\ Parent[b] # Last(main)
        /\ Attachable(b) = {}
        /\ Parent[b] \notin ToSet(main)
  /\ \/ reply' = "rejected"
     \/ /\ b \notin SoundHeader
        /\ Attachable(b) # {} \/ Parent[b] \in ToSet(main)
        /\ reply' = "thrown"
  /\ UNCHANGED <<chainVars, forks, coins, pc, reorgVars, status, cut>>

\* A block mined here spends what is spent already, or spends it twice: the
\* assertion on remove_utxo fails while the block is put into the chainstate.
OwnBlockAborts(b) ==
  /\ Receivable(b)
  /\ b \in Mined
  /\ Parent[b] = Last(main)
  /\ Newer(b)
  /\ ~Spendable(b)
  /\ status' = "aborted"
  /\ UNCHANGED <<chainVars, forks, coins, pc, reorgVars, reply, cut>>

\* A block mined here, on a tip that main has left meanwhile: append_block
\* throws, and nothing on the main thread catches the exception.
OwnBlockThrows(b) ==
  /\ Receivable(b)
  /\ b \in Mined
  /\ Parent[b] \in store \ {Last(main)}
  /\ status' = "terminated"
  /\ UNCHANGED <<chainVars, forks, coins, pc, reorgVars, reply, cut>>

-----------------------------------------------------------------------------
(* reorg *)

\* old_main_fork, built before the main chain is touched.
OldMain(f) == [src |-> f.src, header |-> main[f.src + 1],
               chain |-> SubSeq(main, f.src + 2, Len(main)),
               diff |-> mainDiff]

\* The block makes a fork heavier than main: the reorg starts.  With a
\* chain_src_ past the end of main the code reads outside the vector.
StartReorg(b) ==
  /\ Receivable(b)
  /\ Parent[b] # Last(main)
  /\ b \in SoundHeader
  /\ \E i \in FirstFork(b) :
       /\ Heavier(Grown(forks[i], b))
       /\ forks' = [forks EXCEPT ![i] = Grown(@, b)]
       /\ IF forks[i].src < Len(main)
          THEN /\ pc' = "rewind"
               /\ target' = i
               /\ old' = OldMain(forks[i])
               /\ cursor' = Len(main)
               /\ UNCHANGED status
          ELSE /\ status' = "undefined"
               /\ UNCHANGED <<pc, target, old, cursor>>
  /\ store' = store \cup {b}
  /\ UNCHANGED <<main, mainDiff, unspent, spent, altered, coins, idx, reply,
                 cut>>

\* Mutant: the loop index is not decremented.
RewindSame ==
  /\ cursor > old.src + 1
  /\ ChainstateRewind(main[cursor])
  /\ UNCHANGED <<main, mainDiff, store, forks, coins, pc, reorgVars, reply,
                 status, cut>>

\* One iteration of a rewinding loop: the last applied block of main leaves
\* the chainstate; rewind_block asserts that it finds the undo records.
RewindOne ==
  /\ cursor > old.src + 1
  /\ IF Consumed(main[cursor]) \subseteq spent
     THEN /\ ChainstateRewind(main[cursor])
          /\ cursor' = cursor - 1
          /\ UNCHANGED status
     ELSE /\ status' = "aborted"
          /\ UNCHANGED <<unspent, spent, altered, cursor>>
  /\ UNCHANGED <<main, mainDiff, store, forks, coins, pc, target, old, idx,
                 reply, cut>>

RewindMain == status = "running" /\ pc = "rewind" /\ RewindOne
UndoFork   == status = "running" /\ pc = "undo" /\ RewindOne

\* Mutant: header_chain_.resize(chain_src_).
CutMainShort(next) ==
  /\ cursor = old.src + 1
  /\ main' = SubSeq(main, 1, old.src)
  /\ pc' = next
  /\ UNCHANGED <<mainDiff, store, unspent, spent, altered, forks, coins,
                 reorgVars, reply, status, cut>>

\* header_chain_.resize(chain_src_ + 1) once the loop is through.
CutMain(next) ==
  /\ cursor = old.src + 1
  /\ main' = SubSeq(main, 1, old.src + 1)
  /\ pc' = next
  /\ UNCHANGED <<mainDiff, store, unspent, spent, altered, forks, coins,
                 reorgVars, reply, status, cut>>

TruncateMain == status = "running" /\ pc = "rewind" /\ CutMain("apply")
TruncateFork == status = "running" /\ pc = "undo" /\ CutMain("restore")

\* The fork that main is reorganised to, and its next block.
Winner == forks[target]
NextOfFork == Winner.chain[idx + 1]

Applying == /\ status = "running"
            /\ pc = "apply"
            /\ idx < Len(Winner.chain)

Idle == /\ pc' = "idle"
        /\ target' = 0
        /\ old' = NoFork
        /\ cursor' = 0
        /\ idx' = 0

\* main_chain_->append_block of the next fork block throws: the exception
\* leaves add_block with the main chain as it is.
ApplyThrows ==
  /\ Applying
  /\ Parent[NextOfFork] # Last(main)
  /\ reply' = "thrown"
  /\ cut' = TRUE
  /\ Idle
  /\ UNCHANGED <<chainVars, forks, coins, status>>

\* Mutant: append_block does not look at the parent of a fork block.
ApplyBlockUnlinked ==
  /\ Applying
  /\ HeaderStillSound(NextOfFork)
  /\ TRUE \in BodyVerdicts(NextOfFork)
  /\ Newer(NextOfFork)
  /\ ExtendMain(NextOfFork)
  /\ idx' = idx + 1
  /\ UNCHANGED <<forks, coins, pc, target, old, cursor, reply, status, cut>>

\* main_chain_->append_block of the next fork block succeeds.
ApplyBlock ==
  /\ Applying
  /\ Parent[NextOfFork] = Last(main)
  /\ HeaderStillSound(NextOfFork)
  /\ TRUE \in BodyVerdicts(NextOfFork)
  /\ Newer(NextOfFork)
  /\ ExtendMain(NextOfFork)
  /\ idx' = idx + 1
  /\ UNCHANGED <<forks, coins, pc, target, old, cursor, reply, status, cut>>

\* main_chain_->append_block of the next fork block returns false.
ApplyInvalid ==
  /\ Applying
  /\ Parent[NextOfFork] = Last(main)
  /\ \/ ~HeaderStillSound(NextOfFork)
     \/ FALSE \in BodyVerdicts(NextOfFork)
     \/ ~Newer(NextOfFork)
  /\ pc' = "undo"
  /\ cursor' = Len(main)
  /\ UNCHANGED <<chainVars, forks, coins, target, old, idx, reply, status, cut>>

\* Mutant: the old main chain is forgotten.
AdoptForkOnly ==
  /\ status = "running"
  /\ pc = "apply"
  /\ idx = Len(Winner.chain)
  /\ forks' = RemoveAt(forks, target)
  /\ mainDiff' = Winner.diff
  /\ coins' = Rescan(main)
  /\ reply' = "added"
  /\ Idle
  /\ UNCHANGED <<main, store, unspent, spent, altered, status, cut>>

\* Every fork block was appended: the old main chain becomes a fork.
AdoptFork ==
  /\ status = "running"
  /\ pc = "apply"
  /\ idx = Len(Winner.chain)
  /\ forks' = Append(RemoveAt(forks, target), old)
  /\ mainDiff' = Winner.diff
  /\ coins' = Rescan(main)
  /\ reply' = "added"
  /\ Idle
  /\ UNCHANGED <<main, store, unspent, spent, altered, status, cut>>

\* After an invalid fork block, the old blocks are appended again; the code
\* asserts that append_block accepts each of them.  That each names the tip
\* as its parent, without which append_block throws, is part of MainIsChain.
Restored == Len(main) - (old.src + 1)
NextOfOld == old.chain[Restored + 1]

Restoring == /\ status = "running"
             /\ pc = "restore"
             /\ Restored < Len(old.chain)

RestoreBlock ==
  /\ Restoring
  /\ HeaderStillSound(NextOfOld)
  /\ TRUE \in BodyVerdicts(NextOfOld)
  /\ Newer(NextOfOld)
  /\ ExtendMain(NextOfOld)
  /\ UNCHANGED <<forks, coins, pc, reorgVars, reply, status, cut>>

RestoreFails ==
  /\ Restoring
  /\ ~HeaderStillSound(NextOfOld) \/ FALSE \in BodyVerdicts(NextOfOld)
                                  \/ ~Newer(NextOfOld)
  /\ status' = "aborted"
  /\ UNCHANGED <<chainVars, forks, coins, pc, reorgVars, reply, cut>>

\* The invalid part of the fork is cut off.  The loop that subtracts its
\* difficulty counts an unsigned index down to idx, so it has no end, and
\* reads outside the vector, when the first block was the invalid one.
\* Mutant: the difficulty of the invalid part stays with the fork.
TrimmedHeaders(f, n) == [f EXCEPT !.chain = SubSeq(@, 1, n)]

Trimmed(f, n) == [src |-> f.src, header |-> f.header,
                  chain |-> SubSeq(f.chain, 1, n),
                  diff |-> f.diff - (Len(f.chain) - n)]

KeepMain ==
  /\ status = "running"
  /\ pc = "restore"
  /\ Restored = Len(old.chain)
  /\ IF idx = 0
     THEN /\ status' = "undefined"
          /\ UNCHANGED <<forks, mainDiff, coins, pc, reorgVars, reply>>
     ELSE /\ forks' = [forks EXCEPT ![target] = Trimmed(@, idx)]
          /\ mainDiff' = old.diff
          /\ coins' = Rescan(main)
          /\ reply' = "added"
          /\ Idle
          /\ UNCHANGED status
  /\ UNCHANGED <<main, store, unspent, spent, altered, cut>>

-----------------------------------------------------------------------------
ReorgStep ==
  \/ RewindMain \/ TruncateMain
  \/ ApplyThrows \/ ApplyBlock \/ ApplyInvalid \/ AdoptFork
  \/ UndoFork \/ TruncateFork
  \/ RestoreBlock \/ RestoreFails \/ KeepMain

Next ==
  \/ \E b \in Block : \/ \E own \in BOOLEAN : AttachToMain(b, own)
                      \/ StartFork(b)
                      \/ ExtendFork(b)
                      \/ Reject(b)
                      \/ OwnBlockAborts(b)
                      \/ OwnBlockThrows(b)
                      \/ StartReorg(b)
  \/ ReorgStep

\* A call of add_block that runs goes on running: its thread is not waiting
\* for anything, chain_manager_mu_ is held and chain_mu_ is only ever held
\* for a short time by others.
Spec     == Init /\ [][Next]_vars
FairSpec == Spec /\ WF_vars(ReorgStep)

-----------------------------------------------------------------------------
(* Properties *)

\* Types of all variables of add_block, reorg and the stores they change.
TypeOK ==
  /\ main \in Seq(Block) /\ main # <<>>
  /\ mainDiff \in Nat
  /\ forks \in Seq(Fork)
  /\ store \subseteq Block
  /\ unspent \subseteq OutPoint
  /\ spent \subseteq OutPoint
  /\ altered \subseteq OutPoint
  /\ coins \subseteq OutPoint
  /\ pc \in Phase
  /\ target \in Nat
  /\ old \in Fork
  /\ cursor \in Nat
  /\ idx \in Nat
  /\ reply \in Reply
  /\ status \in Status
  /\ cut \in BOOLEAN

\* Whatever add_block and reorg have done so far, finished or interrupted by
\* an exception or a failed assertion, header_chain_ is a chain: it starts at
\* genesis, every block names the one before it and is newer than it.
MainIsChain == Rooted(main) /\ TimeOrdered(main)

\* Every header that reorg, the wallet's rescan or a peer's GetBlock looks up
\* is in the block store, so get_block never throws.
StoreHasChains ==
  /\ ToSet(main) \subseteq store
  /\ ToSet(old.chain) \subseteq store
  /\ \A i \in DOMAIN forks : ToSet(forks[i].chain) \cup {forks[i].header}
                             \subseteq store

\* The part of main that the chainstate stands for: while a reorg rewinds,
\* the headers stay until all their blocks are rewound.
Applied == IF pc \in {"rewind", "undo"} THEN SubSeq(main, 1, cursor) ELSE main

\* The chainstate holds the outputs left unspent by the blocks applied to it,
\* also between any two steps of a reorg: add_block and rewind_block cancel.
ChainstateMatchesChain ==
  status = "running" => unspent = Unspent(Applied)

\* Every output consumed by an applied block can be restored: the assertion
\* on undo_rec in rewind_block never fails, however often a reorg is tried.
UndoRecordsComplete ==
  status = "running" =>
    spent = UNION {Consumed(b) : b \in ToSet(Applied)}

\* Between calls, the wallet owns what the main chain pays to its key, though
\* add_block filters before it spends and rescan spends before it filters.
\* An exception that leaves reorg skips the rescan.
WalletMatchesChain ==
  status = "running" /\ pc = "idle" /\ ~cut => coins = Owned \cap unspent

\* Between calls, chain_src_ of a fork still finds the block that the fork
\* starts from, wherever that block is on the main chain; and, until an
\* exception has left a reorg in the middle, a fork is a chain of its own that
\* starts there.  That its block may have left the main chain is what the run
\* StaleForkSource is about.
ForksHangOnMain ==
  status = "running" /\ pc = "idle" =>
    \A i \in DOMAIN forks :
      LET f == forks[i] IN
      /\ f.header \in ToSet(main) => /\ f.src < Len(main)
                                     /\ main[f.src + 1] = f.header
      /\ ~cut => f.chain # <<>> /\ Linked(<<f.header>> \o f.chain)

\* Between calls, the difficulties the fork choice compares are those of the
\* chains, and no fork is heavier than main, until an exception has left a
\* reorg in the middle.
HeaviestIsMain ==
  status = "running" /\ pc = "idle" /\ ~cut =>
    /\ mainDiff = Len(main)
    /\ \A i \in DOMAIN forks :
         /\ forks[i].diff = forks[i].src + 1 + Len(forks[i].chain)
         /\ forks[i].diff <= mainDiff

\* A call of add_block ends: reorg's loops terminate in every case, unless
\* the process itself ends.
AddBlockReturns == pc # "idle" ~> pc = "idle" \/ status # "running"

\* The main chain as it stands between calls of add_block.
Committed ==
  IF pc = "idle" THEN main ELSE SubSeq(main, 1, old.src + 1) \o old.chain

\* Blocks that are stored but on no chain.
Lost == store \ (ToSet(Committed)
                   \cup UNION {ToSet(forks[i].chain) : i \in DOMAIN forks})

\* The store makes peers' copies of a block be ignored, so a block that is
\* stored and on no chain can never come back.  Only a reorg that fails loses
\* blocks: the invalid part of the fork, or the old chain when it throws.
OnlyFailedReorgsLose ==
  [][status' = "running" /\ Lost' # Lost =>
       pc = "restore" \/ (pc = "apply" /\ reply' = "thrown")]_vars

\* The assertions of reorg and rewind_block hold.
NoAssertionFails == status # "aborted"

\* Why a process that runs add_block ends.  An assertion fails for a block mined
\* here that cannot be spent, or while a failed reorg puts the old chain back:
\* an old block is refused because it is bound once more, because a record it
\* spends was misfiled, or because it was mined here and never valid, and for
\* no other reason, though it has to be newer than the tip and find all that it
\* spends.  No rewinding fails an assertion.  A vector is read outside its bounds
\* by the loop that cuts off a fork of which nothing was applied, or after an
\* exception has left a reorg in the middle.  An exception ends the process for
\* a block mined here only, between the steps of no reorg.
EndHasCause ==
  /\ status = "aborted" =>
       \/ pc = "idle" /\ \E b \in Mined \ store : /\ Parent[b] = Last(main)
                                                 /\ ~Spendable(b)
       \/ pc = "restore" /\ \/ Rebinding = "cumulative"
                            \/ Consumed(NextOfOld) \cap altered # {}
                            \/ NextOfOld \in Mined \ (SoundHeader \cap SoundBody)
  /\ status = "undefined" => cut \/ (pc = "restore" /\ idx = 0)
  /\ status = "terminated" =>
       pc = "idle" /\ \E b \in Mined \ store : Parent[b] # Last(main)

\* What reorg leaves of the main chain ends where the fork starts.
ReorgCutsAtForkPoint ==
  pc = "apply" /\ idx = 0 => Last(main) = Winner.header

\* A reorg cuts the main chain elsewhere only for a fork whose starting point
\* an earlier reorg has taken off the main chain.
OnlyStaleForksCutElsewhere ==
  pc = "apply" /\ idx = 0 /\ Last(main) # Winner.header =>
    Winner.header \notin ToSet(Committed)

FC == INSTANCE ForkChoice WITH chain <- Committed, broken <- cut

\* add_block and reorg, all their steps together, only ever extend the main
\* chain, or replace it by a heavier chain that spends nothing twice, until an
\* exception leaves a reorg in the middle; that leaves a first part of it.
ImplementsForkChoice == FC!Spec
=============================================================================
